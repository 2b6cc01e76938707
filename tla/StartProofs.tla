----------------------------- MODULE StartProofs -----------------------------
(***************************************************************************)
(* Proofs about what the program finds out before it loads a kernel: what  *)
(* the ARM half is told of the device, for every device and every failure  *)
(* of the calls that find out about it, and what the options are, for      *)
(* every configuration file.                                               *)
(***************************************************************************)
EXTENDS Machine, Options, SequenceTheorems, WellFoundedInduction, TLAPS

----------------------------------------------------------------------------
(* The device: the pure part.                                              *)

LEMMA Device ==
  ASSUME NEW d \in Devices
  PROVE  /\ d \in DeviceType /\ d.ttb \in Nat /\ d.ram \in Nat /\ d.reported \in Nat
         /\ d.ram + 192 <= 131072 /\ d.reported <= d.ram
<1>1. d \in DeviceType /\ d.reported <= d.ram /\ d.ram + 3 * MB <= 2 ^ 17
  BY MachineAssumption, Zenon
<1>2. d.ttb \in Nat /\ d.ram \in Nat /\ d.reported \in Nat
  <2>1. d \in DeviceType
    BY <1>1
  <2> QED
    BY <2>1 DEF DeviceType
<1>3. d.ram + 192 <= 131072
  <2>1. d.ram \in Nat /\ d.ram + 3 * MB <= 2 ^ 17
    BY <1>1, <1>2
  <2>2. 2 ^ 17 = 131072 /\ 3 * MB = 192
    BY DEF MB
  <2> QED
    BY <2>1, <2>2
<1> QED
  BY <1>1, <1>2, <1>3

(* The largest of a set of numbers up to a bound.                          *)
LEMMA MaxOf ==
  ASSUME NEW N \in Nat, NEW S, S \subseteq 0 .. N, S # {}
  PROVE  Max(S) \in S /\ \A s \in S : s <= Max(S)
<1> DEFINE T == {N - x : x \in S}
<1>1. T \subseteq Nat /\ T # {}
  <2>1. \A x \in S : N - x \in Nat
    OBVIOUS
  <2>2. \E x \in S : N - x \in T
    OBVIOUS
  <2> QED
    BY <2>1, <2>2
<1>2. PICK t \in T : \A u \in T : ~ (<<u, t>> \in OpToRel(<, Nat))
  BY <1>1, WFMin, NatLessThanWellFounded
<1>3. \A u \in T : ~ (u < t)
  BY <1>1, <1>2, Zenon DEF OpToRel
<1>4. PICK x \in S : t = N - x
  BY <1>2
<1>5. \A y \in S : x >= y
  <2> TAKE y \in S
  <2>1. ~ (N - y < N - x)
    BY <1>3, <1>4
  <2> QED
    BY <2>1
<1> QED
  BY <1>5 DEF Max

LEMMA MachInTable == \A oem : MachOf(oem) \in 0 .. 19
<1> TAKE oem
<1> DEFINE S == {0} \cup {n \in 1 .. Len(MachTable) : MachTable[n][1] = oem}
<1>1. Len(MachTable) = 19
  BY DEF MachTable
<1>2. S \subseteq 0 .. 19 /\ S # {}
  BY <1>1
<1> HIDE DEF S
<1>3. Max(S) \in 0 .. 19
  BY <1>2, MaxOf
<1> QED
  BY <1>3 DEF MachOf, S

LEMMA Whole == \A v \in Int : EndianFix(v, NoTable, {}) = v
BY DEF EndianFix

LEMMA WholeUnit == \A bad : \A x \in Int : EndianFix(Unit(x), bad, {}) = Unit(x)
<1>1. 2 ^ 18 \in Nat \ {0}
  OBVIOUS
<1>2. \A x \in Int : Unit(x) \in Int
  BY <1>1 DEF Unit
<1>3. \A bad : \A v \in Int : EndianFix(v, bad, {}) = v
  BY DEF EndianFix
<1> QED
  BY <1>2, <1>3

LEMMA BaseInt == \A c : Base(c) \in Int
<1>1. 2 ^ 18 \in Nat \ {0}
  OBVIOUS
<1>2. \A x \in Int : Unit(x) \in Int
  BY <1>1 DEF Unit
<1>3. 256 * MB \in Int /\ 3072 * MB \in Int /\ 2560 * MB \in Int /\ 128 * MB \in Int
  BY DEF MB
<1> QED
  BY <1>2, <1>3 DEF Base

(* What get_cpu makes of an id has its vendor, and, but for a StrongARM,   *)
(* the base address of its RAM.                                            *)
LEMMA CpuKeeps ==
  ASSUME NEW c, c \in [vendor : Int, part : Int]
  PROVE  /\ Cpu(c).vendor = c.vendor
         /\ ~ (c.vendor = Intel /\ c.part = SA1100) => Base(Cpu(c)) = Base(c)
<1>1. Cpu(c).vendor = c.vendor
  BY DEF Cpu
<1>2. ASSUME c.vendor = Intel PROVE Cpu(c).part # SA1100
  BY <1>2 DEF Cpu, SA1100
<1>3. c.vendor # Intel => Cpu(c) = c
  BY DEF Cpu
<1> QED
  BY <1>1, <1>2, <1>3 DEF Base, Intel, TI, Arm

LEMMA SizeByVendor ==
  ASSUME NEW c, c \in [vendor : Int, part : Int], NEW d
  PROVE  RamSize(Cpu(c), d) = RamSize(c, d)
BY CpuKeeps DEF RamSize

(* Rounding up to a power of two finds the size when between half of it    *)
(* and all of it is asked for.                                             *)
LEMMA Sizes == RamSizes = {128, 256, 512, 1024, 2048, 4096, 8192, 16384, 32768, 65536, 131072}
<1> DEFINE f(n) == 2 ^ n * MB
<1>1. /\ f(1) = 128 /\ f(2) = 256 /\ f(3) = 512 /\ f(4) = 1024 /\ f(5) = 2048 /\ f(6) = 4096
      /\ f(7) = 8192 /\ f(8) = 16384 /\ f(9) = 32768 /\ f(10) = 65536 /\ f(11) = 131072
  BY DEF MB
<1>2. 1 .. 11 = {1, 2, 3, 4, 5, 6, 7, 8, 9, 10, 11}
  OBVIOUS
<1>3. RamSizes = {f(n) : n \in {1, 2, 3, 4, 5, 6, 7, 8, 9, 10, 11}}
  BY <1>2 DEF RamSizes
<1> HIDE DEF f
<1> QED
  BY <1>1, <1>3

LEMMA MinOf ==
  ASSUME NEW S, S \subseteq Nat, S # {}
  PROVE  Min(S) \in S /\ \A s \in S : Min(S) <= s
<1>1. PICK n \in S : \A m \in S : ~ (<<m, n>> \in OpToRel(<, Nat))
  BY WFMin, NatLessThanWellFounded
<1>2. \A m \in S : ~ (m < n)
  BY <1>1, Zenon DEF OpToRel
<1>3. \A m \in S : n <= m
  BY <1>2
<1> QED
  BY <1>3 DEF Min

LEMMA GenRam ==
  ASSUME NEW d \in Devices, d.ram \in RamSizes
  PROVE  GenRamSize(d.reported) = d.ram
           <=> d.ram - d.reported \in 3 * MB .. 3 * MB + d.ram \div 2 - 1
<1> DEFINE S == {s \in RamSizes : s >= WithSystem(d.reported)}
           r == d.reported
           g == Min(S)
<1>1. r \in Nat /\ WithSystem(r) = r + 192 /\ r + 192 <= 131072 /\ 3 * MB = 192
  BY Device DEF WithSystem, MB
<1>2. 131072 \in S /\ S \subseteq Nat
  BY <1>1, Sizes
<1>3. g \in S /\ \A s \in S : g <= s
  BY <1>2, MinOf
<1>4. GenRamSize(r) = g
  BY DEF GenRamSize
<1> HIDE DEF g
<1>5. g \in RamSizes /\ g >= r + 192 /\ \A s \in RamSizes : s >= r + 192 => g <= s
  BY <1>1, <1>3
<1> HIDE DEF S, r
<1>6. d.ram = g <=> d.ram - r \in 192 .. 192 + d.ram \div 2 - 1
  BY <1>1, <1>5, Sizes
<1> QED
  BY <1>1, <1>4, <1>6 DEF r

----------------------------------------------------------------------------
(* The invariant: what each field holds once setup_arm_globals has filled  *)
(* it in, whatever is still to come.                                       *)

After(f) ==
  CASE f = "pttb"     -> {"vttb", "cpu", "ram_base", "ram_size", "mach_num", "app", "arm"}
    [] f = "vttb"     -> {"cpu", "ram_base", "ram_size", "mach_num", "app", "arm"}
    [] f = "ram_base" -> {"ram_size", "mach_num", "app", "arm"}
    [] f = "ram_size" -> {"mach_num", "app", "arm"}
    [] OTHER          -> {"app", "arm"}

TableTold ==
  /\ pc \in After("pttb") /\ "pttb" \notin failed => globals["pttb"] = dev.ttb
  /\ pc \in After("vttb") /\ "vttb" \notin failed /\ Supported =>
       globals["vttb"] = Unit(dev.ttb - TrueOffset)

CpuTold ==
  CpuKnown =>
    /\ pc \in After("ram_base") /\ Supported => globals["ram_base"] = Base(dev.cpu)
    /\ pc \in After("ram_size") /\ "ram_size" \notin failed => globals["ram_size"] = RamSize(dev.cpu, dev)
    /\ pc \in After("mach_num") /\ Supported => globals["tt_offset"] = TrueOffset
    /\ pc \in After("ram_size") /\ dev.cpu.vendor # Intel =>
         globals["ram_size"] = GenRamSize(dev.reported)

MachTold ==
  pc = "arm" => globals["mach_num"] = LinuxId(MachOf(dev.oem))

MachineInv ==
  /\ TypeOK /\ dev \in Devices
  /\ pc \in {"pttb", "vttb"} => cpu_id = Unset
  /\ TableTold /\ CpuTold /\ MachTold

LEMMA InitMachine == Init => MachineInv
<1> SUFFICES ASSUME Init PROVE MachineInv
  OBVIOUS
<1>1. dev \in DeviceType
  BY Device DEF Init
<1>2. TypeOK
  BY <1>1, MachineAssumption DEF Init, TypeOK, Fields
<1>3. TableTold /\ CpuTold /\ MachTold
  BY DEF Init, TableTold, CpuTold, MachTold, After
<1> QED
  BY <1>2, <1>3 DEF Init, MachineInv

(* The CPU's id is read once, and its failure noted.                       *)
LEMMA CpuOnce ==
  ASSUME MachineInv, ReadCpu, dev' = dev
  PROVE  cpu_id' \in {Error, dev.cpu, cpu_id} /\ (cpu_id = Unset => cpu_id' \in {Error, dev.cpu})
BY DEF ReadCpu

LEMMA MachFound ==
  ASSUME MachineInv, CheckMach, dev' = dev
  PROVE  mach' = MachOf(dev.oem) /\ mach' \in 0 .. 19
BY MachInTable DEF MachineInv, TypeOK, CheckMach

LEMMA TtbFound ==
  ASSUME MachineInv, NEW lost \in SUBSET (0 .. 3), TtbForBytes(lost), dev' = dev
  PROVE  ttb' \in {NoTable, dev.ttb}
BY DEF MachineInv, TypeOK, TtbForBytes, MaskedError

LEMMA Ids ==
  ASSUME MachineInv
  PROVE  /\ dev.cpu \in [vendor : Int, part : Int] /\ dev.cpu # Unset /\ dev.ttb \in Int
         /\ dev \in DeviceType
<1> DEFINE V == 0 .. 255
           P == 0 .. 4095
           c == dev.cpu
<1>1. dev \in Devices /\ dev \in DeviceType /\ dev.ttb \in Int
  BY Device DEF MachineInv
<1>2. c \in [vendor : V, part : P]
  BY <1>1 DEF DeviceType
<1>3. V \subseteq Int \ {-1} /\ P \subseteq Int
  OBVIOUS
<1> HIDE DEF V, P, c
<1>4. c = [vendor |-> c.vendor, part |-> c.part] /\ c.vendor \in V /\ c.part \in P
  BY <1>2
<1>5. c.vendor \in Int
  BY <1>3, <1>4
<1>6. c.part \in Int
  BY <1>3, <1>4
<1>7. c.vendor # -1
  BY <1>3, <1>4
<1>8. c \in [vendor : Int, part : Int]
  BY <1>4, <1>5, <1>6
<1> QED
  BY <1>1, <1>7, <1>8 DEF Unset, c

----------------------------------------------------------------------------
(* The steps.                                                              *)

LEMMA PttbStep == MachineInv /\ SetPttb => MachineInv'
<1> SUFFICES ASSUME MachineInv, SetPttb PROVE MachineInv'
  OBVIOUS
<1>1. PICK lost \in SUBSET (0 .. 3) :
        TtbForBytes(lost) /\ Note("pttb", lost # {})
          /\ Fill("pttb", EndianFix(dev.ttb, NoTable, lost), "vttb")
  BY DEF SetPttb
<1>2. pc = "pttb" /\ UNCHANGED <<cpu_id, mach, dev, field, rounds>> /\ pc' = "vttb"
  BY <1>1 DEF SetPttb, Fill
<1>3. globals' = [globals EXCEPT !["pttb"] = EndianFix(dev.ttb, NoTable, lost)]
  BY <1>1 DEF Fill
<1>4. DOMAIN globals' = Fields /\ globals'["pttb"] = EndianFix(dev.ttb, NoTable, lost)
  BY <1>3 DEF MachineInv, TypeOK, Fields
<1>5. ttb' \in {NoTable, dev.ttb}
  BY <1>1, <1>2, TtbFound
<1>6. failed' = failed \cup (IF lost # {} THEN {"pttb"} ELSE {})
  BY <1>1, <1>2 DEF Note, Unset, Error
<1>7. TypeOK'
  BY <1>2, <1>4, <1>5, <1>6 DEF MachineInv, TypeOK, Fields
<1>8. "pttb" \notin failed' => globals'["pttb"] = dev.ttb
  BY <1>4, <1>6, Ids, Whole
<1>9. TableTold' /\ CpuTold' /\ MachTold'
  BY <1>2, <1>8 DEF MachineInv, TableTold, CpuTold, MachTold, After
<1> QED
  BY <1>2, <1>7, <1>9 DEF MachineInv

LEMMA VttbStep == MachineInv /\ SetVttb => MachineInv'
<1> SUFFICES ASSUME MachineInv, SetVttb PROVE MachineInv'
  OBVIOUS
<1>1. PICK lost \in SUBSET (0 .. 3) :
        TtbForBytes(lost) /\ Note("vttb", lost # {})
          /\ Fill("vttb", EndianFix(VirtTtb(dev.ttb), VirtTtb(NoTable), lost), "cpu")
  BY DEF SetVttb
<1>2. pc = "vttb" /\ UNCHANGED <<dev, field, rounds>> /\ pc' = "cpu" /\ cpu_id = Unset
  BY <1>1 DEF SetVttb, Fill, MachineInv
<1>3. mach' = MachOf(dev.oem)
  BY <1>2, MachFound DEF SetVttb
<1>4. cpu_id' \in {Unset, Error, dev.cpu}
        /\ (LinuxId(mach') \in MappedOneToOne \/ cpu_id' \in {Error, dev.cpu})
  BY <1>2, CpuOnce DEF SetVttb, ReadCpuUnlessTreo
<1>5. globals' = [globals EXCEPT !["vttb"] = EndianFix(VirtTtb(dev.ttb), VirtTtb(NoTable), lost)]
  BY <1>1 DEF Fill
<1>6. /\ DOMAIN globals' = Fields /\ globals'["pttb"] = globals["pttb"]
      /\ globals'["vttb"] = EndianFix(VirtTtb(dev.ttb), VirtTtb(NoTable), lost)
  BY <1>5 DEF MachineInv, TypeOK, Fields
<1>7. ttb' \in {NoTable, dev.ttb}
  BY <1>1, <1>2, TtbFound
<1>8. failed' = failed \cup (IF lost # {} \/ cpu_id' = Error THEN {"vttb"} ELSE {})
  BY <1>1, <1>2 DEF Note
<1>9. TypeOK'
  BY <1>2, <1>3, <1>4, <1>6, <1>7, <1>8 DEF MachineInv, TypeOK, Fields
<1>10. ASSUME "vttb" \notin failed', Supported
       PROVE  globals'["vttb"] = Unit(dev.ttb - TrueOffset)
  <2>1. lost = {} /\ cpu_id' # Error
    BY <1>8, <1>10
  <2>2. TtOffset(mach', Base(Cpu(cpu_id'))) = TrueOffset
    <3>1. CASE LinuxId(mach') \in MappedOneToOne
      BY <1>3, <3>1 DEF TtOffset, TrueOffset
    <3>2. CASE cpu_id' = dev.cpu
      BY <1>3, <1>10, <3>2, Ids, CpuKeeps DEF TrueOffset, Supported
    <3> QED
      BY <1>4, <2>1, <3>1, <3>2
  <2>3. VirtTtb(dev.ttb) = Unit(dev.ttb - TrueOffset)
    BY <2>2 DEF VirtTtb
  <2>4. dev.ttb - TrueOffset \in Int
    <3>1. TrueOffset \in Int
      BY BaseInt DEF TrueOffset, TtOffset
    <3> QED
      BY <3>1, Ids
  <2>5. EndianFix(VirtTtb(dev.ttb), VirtTtb(NoTable), {}) = Unit(dev.ttb - TrueOffset)
    BY <2>3, <2>4, WholeUnit
  <2> QED
    BY <1>6, <2>1, <2>5
<1>11. TableTold'
  <2>1. Supported' = Supported /\ TrueOffset' = TrueOffset
    BY <1>2 DEF Supported, TrueOffset
  <2>2. "pttb" \notin failed' => globals'["pttb"] = dev.ttb
    BY <1>2, <1>6, <1>8 DEF MachineInv, TableTold, After
  <2> QED
    BY <1>2, <1>10, <2>1, <2>2 DEF TableTold
<1>12. CpuTold' /\ MachTold'
  BY <1>2 DEF MachineInv, CpuTold, MachTold, After
<1> QED
  BY <1>2, <1>9, <1>11, <1>12 DEF MachineInv

LEMMA CpuStep == MachineInv /\ SetCpu => MachineInv'
<1> SUFFICES ASSUME MachineInv, SetCpu PROVE MachineInv'
  OBVIOUS
<1>1. pc = "cpu" /\ pc' = "ram_base" /\ UNCHANGED <<ttb, mach, dev, field, rounds>>
  BY DEF SetCpu, Fill
<1>2. cpu_id' \in {Unset, Error, dev.cpu}
  BY <1>1, CpuOnce DEF SetCpu, MachineInv, TypeOK
<1>3. /\ DOMAIN globals' = Fields /\ globals'["pttb"] = globals["pttb"]
      /\ globals'["vttb"] = globals["vttb"]
  BY DEF SetCpu, Fill, MachineInv, TypeOK, Fields
<1>4. failed \subseteq failed' /\ failed' \subseteq failed \cup {"cpu"}
  BY DEF SetCpu, Note
<1>5. TypeOK'
  BY <1>1, <1>2, <1>3, <1>4 DEF MachineInv, TypeOK, Fields
<1>6. TableTold'
  BY <1>1, <1>3, <1>4 DEF MachineInv, TableTold, After, Supported, TrueOffset
<1>7. CpuTold' /\ MachTold'
  BY <1>1 DEF MachineInv, CpuTold, MachTold, After
<1> QED
  BY <1>1, <1>5, <1>6, <1>7 DEF MachineInv

LEMMA RamBaseStep == MachineInv /\ SetRamBase => MachineInv'
<1> SUFFICES ASSUME MachineInv, SetRamBase PROVE MachineInv'
  OBVIOUS
<1>1. /\ pc = "ram_base" /\ pc' = "ram_size"
      /\ UNCHANGED <<cpu_id, ttb, mach, failed, dev, field, rounds>>
  BY DEF SetRamBase, Fill
<1>2. /\ DOMAIN globals' = Fields /\ globals'["pttb"] = globals["pttb"]
      /\ globals'["vttb"] = globals["vttb"] /\ globals'["ram_base"] = Base(Cpu(cpu_id))
  BY DEF SetRamBase, Fill, MachineInv, TypeOK, Fields
<1>3. TypeOK'
  BY <1>1, <1>2 DEF MachineInv, TypeOK, Fields
<1>4. TableTold'
  BY <1>1, <1>2 DEF MachineInv, TableTold, After, Supported, TrueOffset
<1>5. CpuKnown /\ Supported => globals'["ram_base"] = Base(dev.cpu)
  BY <1>2, Ids, CpuKeeps DEF CpuKnown, Supported
<1>6. CpuTold' /\ MachTold'
  BY <1>1, <1>5 DEF MachineInv, CpuTold, MachTold, After, CpuKnown, Supported
<1> QED
  BY <1>1, <1>3, <1>4, <1>6 DEF MachineInv

LEMMA RamSizeStep == MachineInv /\ SetRamSize => MachineInv'
<1> SUFFICES ASSUME MachineInv, SetRamSize PROVE MachineInv'
  OBVIOUS
<1>1. PICK lost \in SUBSET (0 .. 3) :
        /\ TtbForBytes(lost) \/ ttb' = ttb
        /\ failed \subseteq failed' /\ failed' \subseteq failed \cup {"ram_size"}
        /\ lost # {} /\ Cpu(cpu_id).vendor = Intel => "ram_size" \in failed'
        /\ Fill("ram_size", IF lost # {} /\ Cpu(cpu_id).vendor = Intel
                              THEN AnyWord ELSE RamSize(Cpu(cpu_id), dev), "mach_num")
  <2>1. CASE Cpu(cpu_id).vendor = Intel
    <3>1. PICK lost \in SUBSET (0 .. 3) :
            /\ TtbForBytes(lost) /\ Note("ram_size", lost # {})
            /\ Fill("ram_size", IF lost = {} THEN RamSize(Cpu(cpu_id), dev) ELSE AnyWord, "mach_num")
      BY <2>1 DEF SetRamSize
    <3>2. /\ failed \subseteq failed' /\ failed' \subseteq failed \cup {"ram_size"}
          /\ lost # {} => "ram_size" \in failed'
      BY <3>1 DEF Note
    <3> QED
      BY <2>1, <3>1, <3>2
  <2>2. CASE Cpu(cpu_id).vendor # Intel
    <3>1. Fill("ram_size", RamSize(Cpu(cpu_id), dev), "mach_num") /\ ttb' = ttb /\ failed' = failed
      BY <2>2 DEF SetRamSize
    <3> QED
      BY <2>2, <3>1
  <2> QED
    BY <2>1, <2>2
<1>2. pc = "ram_size" /\ pc' = "mach_num" /\ UNCHANGED <<cpu_id, mach, dev, field, rounds>>
  BY <1>1 DEF SetRamSize, Fill
<1>3. /\ DOMAIN globals' = Fields /\ globals'["pttb"] = globals["pttb"]
      /\ globals'["vttb"] = globals["vttb"] /\ globals'["ram_base"] = globals["ram_base"]
      /\ globals'["ram_size"] = IF lost # {} /\ Cpu(cpu_id).vendor = Intel
                                  THEN AnyWord ELSE RamSize(Cpu(cpu_id), dev)
  BY <1>1 DEF Fill, MachineInv, TypeOK, Fields
<1>4. ttb' \in {NoTable, dev.ttb}
  BY <1>1, <1>2, TtbFound DEF MachineInv, TypeOK
<1>5. TypeOK'
  BY <1>1, <1>2, <1>3, <1>4 DEF MachineInv, TypeOK, Fields
<1>6. TableTold'
  BY <1>1, <1>2, <1>3 DEF MachineInv, TableTold, After, Supported, TrueOffset
<1>7. ASSUME CpuKnown PROVE RamSize(Cpu(cpu_id), dev) = RamSize(dev.cpu, dev)
                            /\ Cpu(cpu_id).vendor = dev.cpu.vendor
  BY <1>7, Ids, CpuKeeps, SizeByVendor DEF CpuKnown
<1>8. CpuKnown /\ "ram_size" \notin failed' => globals'["ram_size"] = RamSize(dev.cpu, dev)
  BY <1>1, <1>3, <1>7
<1>9. CpuKnown /\ dev.cpu.vendor # Intel => globals'["ram_size"] = GenRamSize(dev.reported)
  BY <1>3, <1>7 DEF RamSize
<1>10. CpuTold' /\ MachTold'
  BY <1>2, <1>3, <1>8, <1>9 DEF MachineInv, CpuTold, MachTold, After, CpuKnown, Supported
<1> QED
  BY <1>2, <1>5, <1>6, <1>10 DEF MachineInv

LEMMA OffsetStep == MachineInv /\ SetOffset => MachineInv'
<1> SUFFICES ASSUME MachineInv, SetOffset PROVE MachineInv'
  OBVIOUS
<1>1. pc = "mach_num" /\ pc' = "app" /\ UNCHANGED <<dev, cpu_id, ttb, field, failed, rounds>>
  BY DEF SetOffset
<1>2. mach' = MachOf(dev.oem)
  BY <1>1, MachFound DEF SetOffset
<1>3. /\ DOMAIN globals' = Fields
      /\ \A f \in {"pttb", "vttb", "ram_base", "ram_size"} : globals'[f] = globals[f]
      /\ globals'["tt_offset"] = TtOffset(mach', Base(Cpu(cpu_id)))
  BY DEF SetOffset, MachineInv, TypeOK, Fields
<1>4. TypeOK'
  BY <1>1, <1>2, <1>3 DEF MachineInv, TypeOK, Fields
<1>5. TableTold'
  BY <1>1, <1>3 DEF MachineInv, TableTold, After, Supported, TrueOffset
<1>6. CpuKnown /\ Supported => globals'["tt_offset"] = TrueOffset
  BY <1>2, <1>3, Ids, CpuKeeps DEF CpuKnown, Supported, TrueOffset
<1>7. CpuTold' /\ MachTold'
  BY <1>1, <1>3, <1>6 DEF MachineInv, CpuTold, MachTold, After, CpuKnown, Supported, TrueOffset
<1> QED
  BY <1>1, <1>4, <1>5, <1>7 DEF MachineInv

LEMMA AppStep == MachineInv /\ (OpenForm \/ MemInfo \/ UNCHANGED vars) => MachineInv'
<1> SUFFICES ASSUME MachineInv, OpenForm \/ MemInfo \/ UNCHANGED vars PROVE MachineInv'
  OBVIOUS
<1>1. UNCHANGED <<pc, dev, cpu_id, globals>>
  BY DEF OpenForm, MemInfo, vars
<1>2. mach' \in {0, MachOf(dev.oem)} /\ ttb' \in {NoTable, dev.ttb} /\ rounds' \in 0 .. MaxRounds
  <2>1. CASE OpenForm
    BY <1>1, <2>1, MachFound DEF OpenForm, MachineInv, TypeOK
  <2>2. CASE MemInfo
    <3>1. mach' = MachOf(dev.oem)
      BY <1>1, <2>2, MachFound DEF MemInfo
    <3>2. ttb' \in {NoTable, dev.ttb}
      BY <2>2 DEF MemInfo, ReadTtb, MaskedError, MachineInv, TypeOK
    <3>3. rounds' \in 0 .. MaxRounds
      BY <2>2, MachineAssumption DEF MemInfo, MachineInv, TypeOK
    <3> QED
      BY <3>1, <3>2, <3>3
  <2>3. CASE UNCHANGED vars
    BY <2>3 DEF vars, MachineInv, TypeOK
  <2> QED
    BY <2>1, <2>2, <2>3
<1>3. failed \subseteq failed' /\ failed' \subseteq failed \cup {"screen"}
  BY DEF OpenForm, MemInfo, Note, vars
<1>4. field' \in {field, LinuxId(MachOf(dev.oem))}
  BY <1>1, MachFound DEF OpenForm, MemInfo, vars
<1>5. TypeOK'
  BY <1>1, <1>2, <1>3, <1>4 DEF MachineInv, TypeOK
<1>6. TableTold' /\ CpuTold' /\ MachTold'
  BY <1>1, <1>3, <1>4 DEF MachineInv, TableTold, CpuTold, MachTold, CpuKnown, Supported, TrueOffset
<1> QED
  BY <1>1, <1>5, <1>6 DEF MachineInv

LEMMA BootStep == MachineInv /\ Boot => MachineInv'
<1> SUFFICES ASSUME MachineInv, Boot PROVE MachineInv'
  OBVIOUS
<1>1. pc = "app" /\ pc' = "arm" /\ UNCHANGED <<dev, cpu_id, ttb, mach, field, failed, rounds>>
  BY DEF Boot
<1>2. /\ DOMAIN globals' = Fields
      /\ \A f \in {"pttb", "vttb", "ram_base", "ram_size", "tt_offset"} : globals'[f] = globals[f]
      /\ globals'["mach_num"] = field
  BY DEF Boot, MachineInv, TypeOK, Fields
<1>3. TypeOK'
  BY <1>1, <1>2 DEF MachineInv, TypeOK, Fields
<1>4. MachTold'
  BY <1>1, <1>2 DEF MachineInv, TypeOK, MachTold, Boot
<1>5. TableTold' /\ CpuTold'
  BY <1>1, <1>2 DEF MachineInv, TableTold, CpuTold, After, CpuKnown, Supported, TrueOffset
<1> QED
  BY <1>1, <1>3, <1>4, <1>5 DEF MachineInv

LEMMA MachineStep == MachineInv /\ [Next]_vars => MachineInv'
BY PttbStep, VttbStep, CpuStep, RamBaseStep, RamSizeStep, OffsetStep, AppStep, BootStep DEF Next

(* The caches of mach.c, cpu.c and mem.c hold what the device says,        *)
(* nothing, or, for the CPU only, the code of a failed call.               *)
THEOREM CachesTyped == Spec => []TypeOK
<1>1. MachineInv => TypeOK
  BY DEF MachineInv
<1> QED
  BY <1>1, InitMachine, MachineStep, PTL DEF Spec

(* Whatever calls to the ARM half fail, a failure spoils no more of        *)
(* arm_globals than what the call was made for.                            *)
THEOREM FailuresStayLocal == Spec => []GlobalsTrue
<1>1. MachineInv => GlobalsTrue
  BY DEF MachineInv, GlobalsTrue, TableTold, CpuTold, MachTold, Filled, After
<1> QED
  BY <1>1, InitMachine, MachineStep, PTL DEF Spec

(* get_gen_ram_size is right about every RAM that is a power of two, as    *)
(* long as Palm OS keeps back 3 MB of it and less than half of it more.    *)
THEOREM RamRoundedUp == Spec => []RamSizeExact
<1>1. MachineInv => RamSizeExact
  BY GenRam DEF MachineInv, RamSizeExact, CpuTold, Filled, After
<1> QED
  BY <1>1, InitMachine, MachineStep, PTL DEF Spec

----------------------------------------------------------------------------
(* The configuration: what the parser makes of a text is what it means.    *)

LEMMA MinIs ==
  ASSUME NEW S, S \subseteq Int, NEW x \in S, \A y \in S : x <= y
  PROVE  Min(S) = x
<1>1. \A z \in S : (\A y \in S : z <= y) <=> z = x
  OBVIOUS
<1>2. Min(S) = CHOOSE z \in S : z = x
  BY <1>1 DEF Min
<1> QED
  BY <1>2

LEMMA MaxIs ==
  ASSUME NEW S, S \subseteq Int, NEW x \in S, \A y \in S : y <= x
  PROVE  Max(S) = x
<1>1. \A z \in S : (\A y \in S : z >= y) <=> z = x
  OBVIOUS
<1>2. Max(S) = CHOOSE z \in S : z = x
  BY <1>1 DEF Max
<1> QED
  BY <1>2

(* Trim leaves the word that stands between the spaces.                    *)
LEMMA TrimWord ==
  ASSUME NEW s \in Seq(Char), NEW a \in Nat \ {0}, NEW b \in Nat, b <= Len(s),
         NEW t, Word(s, a, b, t)
  PROVE  Trim(SubSeq(s, a, b)) = t
<1> DEFINE w == SubSeq(s, a, b)
<1>1. \A n \in a .. b : s[n] \in Char
  OBVIOUS
<1>2. /\ w \in Seq(Char) /\ Len(w) = IF a <= b THEN b - a + 1 ELSE 0
      /\ \A n \in 1 .. b - a + 1 : w[n] = s[a + n - 1]
  BY <1>1, SubSeqProperties
<1>3. DOMAIN w = 1 .. b - a + 1
  BY <1>2
<1> HIDE DEF w
<1>4. CASE t = <<>> /\ \A n \in a .. b : s[n] = Space
  <2>1. ASSUME NEW n \in DOMAIN w PROVE w[n] = Space
    <3>1. a + n - 1 \in a .. b /\ w[n] = s[a + n - 1]
      BY <1>2, <1>3
    <3> QED
      BY <1>4, <3>1
  <2>2. Solid(w) = {}
    BY <2>1 DEF Solid
  <2> QED
    BY <1>4, <2>2 DEF Trim, w
<1>5. ASSUME NEW p \in a .. b, NEW q \in a .. b, p <= q, t = SubSeq(s, p, q),
             Space \notin {s[p], s[q]}, \A n \in a .. b : n < p \/ n > q => s[n] = Space
      PROVE  Trim(w) = t
  <2> DEFINE x == p - a + 1
             y == q - a + 1
  <2>1. x \in DOMAIN w /\ y \in DOMAIN w /\ w[x] = s[p] /\ w[y] = s[q]
    <3>1. x \in 1 .. b - a + 1 /\ y \in 1 .. b - a + 1 /\ a + x - 1 = p /\ a + y - 1 = q
      OBVIOUS
    <3> QED
      BY <1>2, <1>3, <3>1
  <2>2. x \in Solid(w) /\ y \in Solid(w)
    BY <1>5, <2>1 DEF Solid
  <2>3. ASSUME NEW n \in Solid(w) PROVE n \in Int /\ x <= n /\ n <= y
    <3>1. n \in 1 .. b - a + 1 /\ w[n] # Space
      BY <1>3 DEF Solid
    <3>2. a + n - 1 \in a .. b /\ s[a + n - 1] # Space
      BY <1>2, <3>1
    <3>3. ~ (a + n - 1 < p) /\ ~ (a + n - 1 > q)
      BY <1>5, <3>2
    <3> QED
      BY <3>1, <3>3
  <2>4. Min(Solid(w)) = x /\ Max(Solid(w)) = y
    BY <2>2, <2>3, MinIs, MaxIs
  <2>5. Trim(w) = SubSeq(w, x, y)
    BY <2>2, <2>4 DEF Trim
  <2>6. SubSeq(w, x, y) = SubSeq(s, p, q)
    <3>1. a \in 1 .. Len(s) /\ b \in 1 .. Len(s) /\ x \in 1 .. b - a + 1 /\ y \in 1 .. b - a + 1
      BY <1>5
    <3>2. a + x - 1 = p /\ a + y - 1 = q
      OBVIOUS
    <3>3. SubSeq(SubSeq(s, a, b), x, y) = SubSeq(s, a + x - 1, a + y - 1)
      BY <3>1, SubSeqOfSubSeq
    <3> QED
      BY <3>2, <3>3 DEF w
  <2> QED
    BY <1>5, <2>5, <2>6
<1> QED
  BY <1>4, <1>5 DEF Word, w

LEMMA SilentIsIgnored ==
  ASSUME NEW s \in Seq(Char)
  PROVE  Silent(s) <=> Ignored(s)
<1>1. Hash # Space
  BY OptionsAssumption
<1>2. DOMAIN s = 1 .. Len(s) /\ Len(s) \in Nat
  OBVIOUS
<1>3. CASE Solid(s) = {}
  BY <1>3 DEF Solid, Silent, Ignored
<1>4. CASE Solid(s) # {}
  <2> DEFINE m == Min(Solid(s))
  <2>1. Solid(s) \subseteq Nat
    BY <1>2 DEF Solid
  <2>2. m \in Solid(s) /\ \A n \in Solid(s) : m <= n
    BY <1>4, <2>1, MinOf
  <2> HIDE DEF m
  <2>3. m \in DOMAIN s /\ s[m] # Space /\ \A n \in 1 .. m - 1 : s[n] = Space
    <3>1. m \in DOMAIN s /\ s[m] # Space
      BY <2>2 DEF Solid
    <3>2. ASSUME NEW n \in 1 .. m - 1 PROVE n \notin Solid(s) /\ n \in DOMAIN s
      BY <1>2, <2>2, <3>1
    <3> QED
      BY <3>1, <3>2 DEF Solid
  <2>4. ASSUME NEW h \in DOMAIN s, s[h] = Hash, \A n \in 1 .. h - 1 : s[n] = Space
        PROVE  h = m
    <3>1. h \in Solid(s)
      BY <1>1, <2>4 DEF Solid
    <3>2. ~ m < h
      BY <1>2, <2>3, <2>4
    <3> QED
      BY <1>2, <2>2, <2>3, <3>1, <3>2
  <2>5. Silent(s) <=> s[m] = Hash
    BY <2>3, <2>4 DEF Silent
  <2> QED
    BY <1>4, <2>5 DEF Ignored, m
<1> QED
  BY <1>3, <1>4

LEMMA DividedAtEquals ==
  ASSUME NEW s \in Seq(Char), NEW k, NEW v, Divided(s, k, v)
  PROVE  EqualsIn(s) # {} /\ KeyOf(s) = k /\ ValueOf(s) = v
<1>1. PICK e \in DOMAIN s :
        /\ s[e] = Equals /\ \A n \in 1 .. e - 1 : s[n] # Equals
        /\ Word(s, 1, e - 1, k) /\ Word(s, e + 1, Len(s), v)
  BY DEF Divided
<1>2. e \in 1 .. Len(s) /\ Len(s) \in Nat /\ DOMAIN s = 1 .. Len(s)
  OBVIOUS
<1>3. e \in EqualsIn(s)
  BY <1>1 DEF EqualsIn
<1>4. ASSUME NEW n \in EqualsIn(s) PROVE n \in Int /\ e <= n
  <2>1. n \in DOMAIN s /\ s[n] = Equals
    BY DEF EqualsIn
  <2> QED
    BY <1>1, <1>2, <2>1
<1>5. FirstEquals(s) = e
  BY <1>3, <1>4, MinIs DEF FirstEquals
<1>6. Trim(SubSeq(s, 1, e - 1)) = k
  BY <1>1, <1>2, TrimWord
<1>7. Trim(SubSeq(s, e + 1, Len(s))) = v
  BY <1>1, <1>2, TrimWord
<1> QED
  BY <1>3, <1>5, <1>6, <1>7 DEF KeyOf, ValueOf

LEMMA PartsAre ==
  ASSUME NEW s \in Seq(Char), NEW t \in Parts(s)
  PROVE  t \in Seq(Char)
<1>1. PICK p \in 1 .. Len(s), q \in 0 .. Len(s) : t = SubSeq(s, p, q)
  BY DEF Parts
<1>2. \A n \in p .. q : s[n] \in Char
  OBVIOUS
<1> QED
  BY <1>1, <1>2, SubSeqProperties

(* A line that is parsed sets, reports or does nothing as it was meant to. *)
LEMMA ParsedAsMeant ==
  ASSUME NEW l \in Lines
  PROVE  /\ l.text \in Seq(Char)
         /\ Ignored(l.text) => ~ Setting(l) /\ ~ Faulty(l)
         /\ ~ Ignored(l.text) /\ Problem(l.text) = "none" =>
              /\ ~ Faulty(l) /\ Setting(l) /\ l.key = KeyOf(l.text) /\ l.value = ValueOf(l.text)
              /\ l.key \in Keys /\ l.value \in Seq(Char)
         /\ ~ Ignored(l.text) /\ Problem(l.text) # "none" =>
              Faulty(l) /\ ~ Setting(l) /\ l.error = Problem(l.text)
<1> DEFINE s == l.text
<1>1. s \in Seq(Char) /\ Means(l)
  BY OptionsAssumption
<1>2. <<>> \notin Keys
  BY OptionsAssumption
<1>3. Silent(s) <=> Ignored(s)
  BY <1>1, SilentIsIgnored
<1> HIDE DEF s
<1>4. CASE Silent(s)
  <2>1. ~ Setting(l) /\ ~ Faulty(l)
    BY <1>1, <1>4 DEF Means, Reported, s, Faulty
  <2> QED
    BY <1>1, <1>3, <1>4, <2>1 DEF s
<1>5. CASE ~ Silent(s) /\ \A n \in DOMAIN s : s[n] # Equals
  <2>1. EqualsIn(s) = {}
    BY <1>5 DEF EqualsIn
  <2>2. ASSUME NEW k, NEW v PROVE ~ Divided(s, k, v)
    BY <1>1, <2>1, DividedAtEquals
  <2>3. Reported(l, "no equals sign found")
    BY <1>1, <1>5, <2>2 DEF Means, s
  <2>4. Problem(s) = "no equals sign found"
    BY <2>1 DEF Problem
  <2> QED
    BY <1>1, <1>3, <1>5, <2>3, <2>4 DEF Reported, Faulty, s
<1>6. CASE ~ Silent(s) /\ ~ \A n \in DOMAIN s : s[n] # Equals
  <2>1. PICK k \in Parts(s), v \in Parts(s) :
          /\ Divided(s, k, v)
          /\ \/ k = <<>> /\ Reported(l, "empty key")
             \/ k # <<>> /\ v = <<>> /\ Reported(l, "empty value")
             \/ k \notin Keys /\ <<>> \notin {k, v} /\ Reported(l, "unrecognised option")
             \/ k \in Keys /\ v # <<>> /\ l.key = k /\ l.value = v /\ ~ Faulty(l)
    BY <1>1, <1>6 DEF Means, s
  <2>2. EqualsIn(s) # {} /\ KeyOf(s) = k /\ ValueOf(s) = v
    BY <1>1, <2>1, DividedAtEquals
  <2>3. CASE k = <<>>
    <3>1. Problem(s) = "empty key" /\ Reported(l, "empty key")
      BY <1>2, <2>1, <2>2, <2>3 DEF Problem
    <3> QED
      BY <1>1, <1>3, <1>6, <3>1 DEF Reported, Faulty, s
  <2>4. CASE k # <<>> /\ v = <<>>
    <3>1. Problem(s) = "empty value" /\ Reported(l, "empty value")
      BY <1>2, <2>1, <2>2, <2>4 DEF Problem
    <3> QED
      BY <1>1, <1>3, <1>6, <3>1 DEF Reported, Faulty, s
  <2>5. CASE k \notin Keys /\ <<>> \notin {k, v}
    <3>1. Problem(s) = "unrecognised option" /\ Reported(l, "unrecognised option")
      BY <2>1, <2>2, <2>5 DEF Problem
    <3> QED
      BY <1>1, <1>3, <1>6, <3>1 DEF Reported, Faulty, s
  <2>6. CASE k \in Keys /\ v # <<>>
    <3>1. Problem(s) = "none" /\ l.key = k /\ l.value = v /\ ~ Faulty(l)
      BY <1>2, <2>1, <2>2, <2>6 DEF Problem
    <3>2. Setting(l) /\ v \in Seq(Char)
      BY <1>1, <1>2, <2>6, <3>1, PartsAre DEF Setting, None
    <3> QED
      BY <1>1, <1>3, <1>6, <2>2, <2>6, <3>1, <3>2 DEF s
  <2> QED
    BY <2>3, <2>4, <2>5, <2>6
<1> QED
  BY <1>4, <1>5, <1>6

----------------------------------------------------------------------------
(* What the lines read so far mean, taken together.                        *)

LastIn(b, k) == {n \in DOMAIN b : Setting(b[n]) /\ b[n].key = k}
MeantBy(b) == [k \in Keys |-> IF LastIn(b, k) = {} THEN Default[k]
                              ELSE Cut(b[Max(LastIn(b, k))].value)]
FaultsOf(b) == {<<n, b[n].error>> : n \in {m \in DOMAIN b : Faulty(b[m])}}

LEMMA Appended ==
  ASSUME NEW b \in Seq(Lines), NEW l \in Lines
  PROVE  /\ Len(b) \in Nat /\ DOMAIN b = 1 .. Len(b)
         /\ DOMAIN Append(b, l) = (1 .. Len(b)) \cup {Len(b) + 1}
         /\ \A n \in 1 .. Len(b) : Append(b, l)[n] = b[n]
         /\ Append(b, l)[Len(b) + 1] = l
OBVIOUS

(* A line more: what it sets is as it says, all else as it was.            *)
LEMMA MeantMore ==
  ASSUME NEW b \in Seq(Lines), NEW l \in Lines
  PROVE  MeantBy(Append(b, l)) =
           IF Setting(l) THEN [MeantBy(b) EXCEPT ![l.key] = Cut(l.value)] ELSE MeantBy(b)
<1> DEFINE c == Append(b, l)
           N == Len(b)
<1>1. /\ N \in Nat /\ DOMAIN b = 1 .. N /\ DOMAIN c = (1 .. N) \cup {N + 1}
      /\ (\A n \in 1 .. N : c[n] = b[n]) /\ c[N + 1] = l
  BY Appended
<1> HIDE DEF c, N
<1>2. ASSUME NEW k \in Keys, Setting(l), l.key = k
      PROVE  MeantBy(c)[k] = Cut(l.value)
  <2>1. N + 1 \in LastIn(c, k)
    BY <1>1, <1>2 DEF LastIn
  <2>2. \A n \in LastIn(c, k) : n \in Int /\ n <= N + 1
    BY <1>1 DEF LastIn
  <2>3. Max(LastIn(c, k)) = N + 1
    BY <2>1, <2>2, MaxIs
  <2> QED
    BY <1>1, <2>1, <2>3 DEF MeantBy
<1>3. ASSUME NEW k \in Keys, ~ (Setting(l) /\ l.key = k)
      PROVE  MeantBy(c)[k] = MeantBy(b)[k]
  <2>1. LastIn(c, k) = LastIn(b, k)
    BY <1>1, <1>3 DEF LastIn
  <2>2. CASE LastIn(b, k) = {}
    BY <2>1, <2>2 DEF MeantBy
  <2>3. CASE LastIn(b, k) # {}
    <3> DEFINE S == LastIn(b, k)
    <3>1. S \subseteq 0 .. N /\ S \subseteq 1 .. N
      BY <1>1 DEF LastIn
    <3>2. Max(S) \in S
      BY <1>1, <2>3, <3>1, MaxOf
    <3>3. c[Max(S)] = b[Max(S)]
      BY <1>1, <3>1, <3>2
    <3> QED
      BY <2>1, <2>3, <3>3 DEF MeantBy
  <2> QED
    BY <2>2, <2>3
<1>4. /\ MeantBy(c) = [k \in Keys |-> MeantBy(c)[k]]
      /\ MeantBy(b) = [k \in Keys |-> MeantBy(b)[k]]
  BY DEF MeantBy
<1>5. CASE Setting(l)
  <2> DEFINE f == [MeantBy(b) EXCEPT ![l.key] = Cut(l.value)]
  <2>1. f = [k \in Keys |-> IF k = l.key THEN Cut(l.value) ELSE MeantBy(b)[k]]
    BY <1>4
  <2>2. \A k \in Keys : MeantBy(c)[k] = IF k = l.key THEN Cut(l.value) ELSE MeantBy(b)[k]
    BY <1>2, <1>3, <1>5
  <2>3. MeantBy(c) = f
    BY <1>4, <2>1, <2>2
  <2> QED
    BY <1>5, <2>3 DEF c
<1>6. CASE ~ Setting(l)
  <2>1. \A k \in Keys : MeantBy(c)[k] = MeantBy(b)[k]
    BY <1>3, <1>6
  <2>2. MeantBy(c) = MeantBy(b)
    BY <1>4, <2>1
  <2> QED
    BY <1>6, <2>2 DEF c
<1> QED
  BY <1>5, <1>6

LEMMA FaultsMore ==
  ASSUME NEW b \in Seq(Lines), NEW l \in Lines
  PROVE  FaultsOf(Append(b, l)) =
           FaultsOf(b) \cup (IF Faulty(l) THEN {<<Len(b) + 1, l.error>>} ELSE {})
<1> DEFINE c == Append(b, l)
           N == Len(b)
<1>1. /\ N \in Nat /\ DOMAIN b = 1 .. N /\ DOMAIN c = (1 .. N) \cup {N + 1}
      /\ (\A n \in 1 .. N : c[n] = b[n]) /\ c[N + 1] = l
  BY Appended
<1> HIDE DEF c, N
<1>2. {m \in DOMAIN c : Faulty(c[m])} =
        {m \in DOMAIN b : Faulty(b[m])} \cup (IF Faulty(l) THEN {N + 1} ELSE {})
  BY <1>1
<1>3. CASE Faulty(l)
  <2> DEFINE F == {m \in DOMAIN b : Faulty(b[m])}
  <2>1. \A m \in F : c[m].error = b[m].error
    BY <1>1
  <2>2. {m \in DOMAIN c : Faulty(c[m])} = F \cup {N + 1}
    BY <1>2, <1>3
  <2> HIDE DEF F
  <2>3. {<<n, c[n].error>> : n \in F \cup {N + 1}}
          = {<<n, b[n].error>> : n \in F} \cup {<<N + 1, l.error>>}
    BY <1>1, <2>1
  <2> QED
    BY <1>3, <2>2, <2>3 DEF FaultsOf, F, c, N
<1>4. CASE ~ Faulty(l)
  <2> DEFINE F == {m \in DOMAIN b : Faulty(b[m])}
  <2>1. \A m \in F : c[m].error = b[m].error
    BY <1>1
  <2>2. {m \in DOMAIN c : Faulty(c[m])} = F
    BY <1>2, <1>4
  <2> HIDE DEF F
  <2>3. {<<n, c[n].error>> : n \in F} = {<<n, b[n].error>> : n \in F}
    BY <2>1
  <2> QED
    BY <1>4, <2>2, <2>3 DEF FaultsOf, F, c
<1> QED
  BY <1>3, <1>4

LEMMA FitsAsCut ==
  ASSUME NEW v \in Seq(Char)
  PROVE  Fitting(v) = Cut(v)
<1>1. Len(v) \in Nat /\ ValueLen \in Nat
  BY OptionsAssumption
<1>2. CASE Len(v) <= ValueLen
  <2>1. Min({Len(v), ValueLen}) = Len(v)
    BY <1>1, <1>2, MinIs
  <2>2. SubSeq(v, 1, Len(v)) = v
    BY SubSeqFull
  <2>3. ~ Len(v) > ValueLen
    BY <1>1, <1>2
  <2> QED
    BY <2>1, <2>2, <2>3 DEF Fitting, Cut
<1>3. CASE ~ Len(v) <= ValueLen
  <2> DEFINE S == {Len(v), ValueLen}
  <2>0. S \subseteq Int /\ ValueLen \in S /\ \A n \in S : ValueLen <= n
    BY <1>1, <1>3
  <2> HIDE DEF S
  <2>1. Min(S) = ValueLen
    BY <2>0, MinIs
  <2>2. Len(v) > ValueLen
    BY <1>1, <1>3
  <2> QED
    BY <2>1, <2>2 DEF Fitting, Cut, S
<1> QED
  BY <1>2, <1>3

----------------------------------------------------------------------------
(* The invariant of read_config.  Of a file whose lines end in '\n' and    *)
(* fit, the buffer holds as much as is read of line line_no, and nothing   *)
(* of another, up to its terminator.                                       *)

ReadTypes ==
  /\ written \in Seq(Lines) /\ end \in {<<LF>>, <<CR, LF>>}
  /\ i \in 0 .. BufLen /\ DOMAIN buf = 0 .. BufLen

Text == written[line_no].text
Held(n) == \A m \in 1 .. n : buf[m - 1] = Text[m]

InLine ==
  /\ line_no \in 1 .. Len(written) + 1
  /\ phase = "start" => line_no = 1 /\ row = 1 /\ col = 0 /\ i = 0
  /\ phase = "line" =>
       /\ row = line_no /\ col = i
       /\ line_no \in DOMAIN written => i <= Len(Text) /\ Held(i)
       /\ line_no \notin DOMAIN written => i = 0
  /\ phase = "parse" =>
       /\ line_no \in DOMAIN written /\ row = line_no + 1 /\ col = 0
       /\ i = Len(Text) /\ Held(i) /\ buf[i] = Nul

Problems == {"none", "no equals sign found", "empty key", "empty value", "unrecognised option"}

Reports ==
  /\ errors \in Seq(Int \X Problems)
  /\ {errors[n] : n \in DOMAIN errors} = FaultsOf(Behind)
  /\ \A m, n \in DOMAIN errors : m < n => errors[m][1] < errors[n][1]
  /\ \A m \in DOMAIN errors : errors[m][1] < line_no

ReadInv == ReadTypes /\ (Plain => InLine /\ options = MeantBy(Behind) /\ Reports)

LEMMA BufferSize == BufLen \in Nat /\ BufLen > 0
BY OptionsAssumption

LEMMA ReadBegins == ReadInit => ReadInv
<1> SUFFICES ASSUME ReadInit PROVE ReadInv
  OBVIOUS
<1>1. PICK n \in 0 .. MaxLines : written \in [1 .. n -> Lines]
  BY DEF ReadInit
<1>2. written \in Seq(Lines)
  BY <1>1
<1>3. end \in {<<LF>>, <<CR, LF>>}
  BY OptionsAssumption DEF ReadInit
<1>4. ReadTypes
  BY <1>2, <1>3, BufferSize DEF ReadInit, ReadTypes
<1>5. line_no = 1 /\ phase = "start" /\ row = 1 /\ col = 0 /\ i = 0 /\ errors = <<>> /\ options = Default
  BY DEF ReadInit
<1>6. Behind = <<>>
  BY <1>5, SubSeqEmpty DEF Behind
<1>7. InLine
  BY <1>2, <1>5 DEF InLine
<1>8. options = MeantBy(Behind)
  <2>1. \A k \in Keys : LastIn(<<>>, k) = {}
    BY DEF LastIn
  <2>2. Default = [k \in Keys |-> Default[k]]
    BY OptionsAssumption
  <2> QED
    BY <1>5, <1>6, <2>1, <2>2 DEF MeantBy
<1>9. Reports
  <2>1. FaultsOf(<<>>) = {}
    BY DEF FaultsOf
  <2> QED
    BY <1>5, <1>6, <2>1 DEF Reports
<1> QED
  BY <1>4, <1>7, <1>8, <1>9 DEF ReadInv

(* What a step inside a line leaves alone.                                 *)
LEMMA SameLine ==
  ASSUME ReadInv, UNCHANGED <<source, line_no, options, errors>>, ReadTypes', Plain => InLine'
  PROVE  ReadInv'
<1>1. Plain' = Plain /\ Behind' = Behind
  BY DEF source, Plain, AllFit, Behind
<1>2. Reports => Reports'
  BY <1>1 DEF Reports
<1> QED
  BY <1>1, <1>2 DEF ReadInv

(* The next byte of a line that fits is its next character or its end.     *)
LEMMA NextOfLine ==
  ASSUME ReadInv, Plain, Reading
  PROVE  /\ line_no \in DOMAIN written /\ Text \in Seq(Char) /\ Text = written[line_no].text
         /\ InLine /\ phase = "line" /\ row = line_no /\ col = i /\ Held(i) /\ i \in Nat
         /\ \/ i < Len(Text) /\ Byte = Text[i + 1] /\ Byte \notin {CR, LF}
            \/ i = Len(Text) /\ Byte = LF
<1>1. InLine /\ ReadTypes /\ phase = "line" /\ row \in DOMAIN written /\ end = <<LF>>
  BY DEF ReadInv, Reading, Plain
<1>2. line_no \in DOMAIN written /\ row = line_no /\ col = i /\ i <= Len(Text) /\ Held(i) /\ i \in Nat
  BY <1>1, BufferSize DEF InLine, ReadTypes
<1>3. written[line_no] \in Lines
  BY <1>1, <1>2 DEF ReadTypes
<1>4. Text \in Seq(Char)
  BY <1>3, ParsedAsMeant DEF Text
<1> DEFINE e == IF closed \/ line_no < Len(written) THEN end ELSE <<>>
           t == Text
           N == Len(t)
<1>5. Bytes(row) = t \o e /\ Byte = (t \o e)[i + 1] /\ i < Len(t \o e)
  BY <1>2 DEF Bytes, Byte, Reading, Text
<1>6. e = <<LF>> \/ e = <<>>
  BY <1>1
<1> HIDE DEF e, t
<1>t. t \in Seq(Char) /\ N \in Nat
  BY <1>4 DEF t
<1>7. t \in Seq(Char \cup {LF}) /\ e \in Seq(Char \cup {LF}) /\ N \in Nat /\ t \in Seq(Char)
  <2>1. t \in [1 .. N -> Char \cup {LF}]
    BY <1>t
  <2>2. e \in Seq(Char \cup {LF})
    <3>1. <<>> \in Seq(Char \cup {LF})
      OBVIOUS
    <3>2. LF \in Char \cup {LF}
      OBVIOUS
    <3>3. <<LF>> \in Seq(Char \cup {LF})
      BY <3>2
    <3> QED
      BY <1>6, <3>1, <3>3
  <2> QED
    BY <1>t, <2>1, <2>2, SeqDef
<1>8. /\ Len(t \o e) = N + Len(e)
      /\ \A n \in 1 .. N + Len(e) : (t \o e)[n] = IF n <= N THEN t[n] ELSE e[n - N]
  BY <1>7, ConcatProperties
<1>9. CASE i < N
  <2>1. i + 1 \in 1 .. N
    BY <1>2, <1>7, <1>9
  <2>2. i + 1 \in 1 .. N + Len(e) /\ i + 1 <= N
    BY <1>6, <1>7, <2>1
  <2>3. Byte = t[i + 1]
    BY <1>5, <1>8, <2>2
  <2>4. t[i + 1] \in Char
    BY <1>7, <2>1
  <2>5. CR \notin Char /\ LF \notin Char
    BY OptionsAssumption
  <2> QED
    BY <1>1, <1>2, <1>4, <1>9, <2>3, <2>4, <2>5 DEF t, Text
<1>10. CASE ~ i < N
  <2>1. i = N
    BY <1>2, <1>7, <1>10 DEF t
  <2>2. e = <<LF>>
    BY <1>5, <1>6, <1>7, <1>8, <2>1
  <2>3. Byte = LF
    <3>1. Len(e) = 1 /\ e[1] = LF
      BY <2>2
    <3>2. i + 1 \in 1 .. N + Len(e) /\ ~ i + 1 <= N /\ (i + 1) - N = 1
      BY <1>7, <2>1, <3>1
    <3> QED
      BY <1>5, <1>8, <3>1, <3>2
  <2> QED
    BY <1>1, <1>2, <1>4, <2>1, <2>3 DEF t, Text
<1> QED
  BY <1>9, <1>10

LEMMA OpenStep == ReadInv /\ Open => ReadInv'
<1> SUFFICES ASSUME ReadInv, Open PROVE ReadInv'
  OBVIOUS
<1>1. /\ phase = "start" /\ phase' \in {"line", "done"}
      /\ UNCHANGED <<written, end, closed, row, col, buf, i, line_no, options, errors>>
  BY DEF Open, source
<1>2. ReadTypes'
  BY <1>1 DEF ReadInv, ReadTypes
<1>3. ASSUME InLine PROVE InLine'
  <2>1. Text' = Text /\ (i = 0 => Held(i)') /\ (line_no \in DOMAIN written => Len(Text) \in Nat)
    <3>1. ASSUME line_no \in DOMAIN written PROVE Len(Text) \in Nat
      <4>1. written[line_no] \in Lines
        BY <3>1 DEF ReadInv, ReadTypes
      <4> QED
        BY <4>1, ParsedAsMeant DEF Text
    <3> QED
      BY <1>1, <3>1 DEF Text, Held
  <2> QED
    BY <1>1, <1>3, <2>1 DEF InLine
<1> QED
  BY <1>1, <1>2, <1>3, SameLine DEF ReadInv, source

LEMMA NewlineStep == ReadInv /\ TakeNewline => ReadInv'
<1> SUFFICES ASSUME ReadInv, TakeNewline PROVE ReadInv'
  OBVIOUS
<1>1. /\ Reading /\ Byte = LF /\ phase' = "parse" /\ row' = row + 1 /\ col' = 0
      /\ buf' = [buf EXCEPT ![i] = Nul]
      /\ UNCHANGED <<written, end, closed, i, line_no, options, errors>>
  BY DEF TakeNewline, NextRow, Terminated, source
<1>2. ReadTypes'
  BY <1>1 DEF ReadInv, ReadTypes
<1>3. ASSUME Plain PROVE InLine'
  <2>1. /\ line_no \in DOMAIN written /\ InLine /\ row = line_no /\ Held(i) /\ i \in Nat /\ i = Len(Text)
    BY <1>1, <1>3, NextOfLine
  <2>2. Text' = Text /\ DOMAIN written' = DOMAIN written
    BY <1>1 DEF Text
  <2>3. i \in DOMAIN buf /\ \A m \in 1 .. i : m - 1 # i /\ m - 1 \in DOMAIN buf
    BY <2>1, BufferSize DEF ReadInv, ReadTypes
  <2>4. Held(i)' /\ buf'[i] = Nul
    BY <1>1, <2>1, <2>2, <2>3 DEF Held
  <2> QED
    BY <1>1, <2>1, <2>2, <2>4 DEF InLine
<1> QED
  BY <1>1, <1>2, <1>3, SameLine DEF source

LEMMA ReturnStep == ReadInv /\ SkipReturn => ReadInv'
<1> SUFFICES ASSUME ReadInv, SkipReturn PROVE ReadInv'
  OBVIOUS
<1>1. /\ Reading /\ Byte = CR /\ i' = i + 1 /\ i < BufLen
      /\ UNCHANGED <<written, end, closed, buf, line_no, options, errors>>
  BY DEF SkipReturn, source, Reading, InBuffer
<1>2. ReadTypes'
  BY <1>1, BufferSize DEF ReadInv, ReadTypes
<1>3. ~ Plain
  BY <1>1, NextOfLine, OptionsAssumption
<1> QED
  BY <1>1, <1>2, <1>3, SameLine DEF source

LEMMA ByteStep == ReadInv /\ TakeByte => ReadInv'
<1> SUFFICES ASSUME ReadInv, TakeByte PROVE ReadInv'
  OBVIOUS
<1>1. /\ Reading /\ Byte \notin {CR, LF} /\ i' = i + 1 /\ i < BufLen
      /\ buf' = [buf EXCEPT ![i] = Byte] /\ col' = col + 1 /\ phase' = phase /\ row' = row
      /\ UNCHANGED <<written, end, closed, line_no, options, errors>>
  BY DEF TakeByte, source, Reading, InBuffer, NextByte
<1>2. ReadTypes'
  BY <1>1, BufferSize DEF ReadInv, ReadTypes
<1>3. ASSUME Plain PROVE InLine'
  <2>1. /\ line_no \in DOMAIN written /\ InLine /\ row = line_no /\ col = i /\ Held(i) /\ i \in Nat
        /\ phase = "line" /\ i < Len(Text) /\ Byte = Text[i + 1] /\ Text \in Seq(Char)
    BY <1>1, <1>3, NextOfLine
  <2>2. Text' = Text /\ DOMAIN written' = DOMAIN written
    BY <1>1 DEF Text
  <2>3. i \in DOMAIN buf /\ \A m \in 1 .. i : m - 1 # i /\ m - 1 \in DOMAIN buf
    BY <2>1, BufferSize DEF ReadInv, ReadTypes
  <2>4. \A m \in 1 .. i + 1 : m \in 1 .. i \/ m = i + 1
    BY <2>1
  <2>5. (i + 1) - 1 = i
    BY <2>1
  <2>6. \A m \in 1 .. i + 1 : buf'[m - 1] = Text[m]
    BY <1>1, <2>1, <2>3, <2>4, <2>5 DEF Held
  <2>7. Held(i)'
    BY <1>1, <2>2, <2>6 DEF Held
  <2>8. i' <= Len(Text)
    BY <1>1, <2>1
  <2> QED
    BY <1>1, <2>1, <2>2, <2>7, <2>8 DEF InLine
<1> QED
  BY <1>1, <1>2, <1>3, SameLine DEF source

LEMMA FullStep == ReadInv /\ LineFull => ReadInv'
<1> SUFFICES ASSUME ReadInv, LineFull PROVE ReadInv'
  OBVIOUS
<1>1. /\ phase = "line" /\ ~ i < BufLen
      /\ UNCHANGED <<written, end, closed, row, col, buf, i, line_no, options, errors>>
  BY DEF LineFull, source, InBuffer
<1>2. ReadTypes'
  BY <1>1 DEF ReadInv, ReadTypes
<1>3. ASSUME Plain PROVE FALSE
  <2>1. InLine /\ i \in Nat
    BY <1>3, BufferSize DEF ReadInv, ReadTypes
  <2>2. CASE line_no \in DOMAIN written
    <3>1. i <= Len(Text) /\ Len(Text) < BufLen
      BY <1>1, <1>3, <2>1, <2>2 DEF InLine, Plain, AllFit, Text
    <3>2. written[line_no] \in Lines
      BY <2>2 DEF ReadInv, ReadTypes
    <3>3. Len(Text) \in Nat
      BY <3>2, ParsedAsMeant DEF Text
    <3> QED
      BY <1>1, <2>1, <3>1, <3>3, BufferSize
  <2>3. CASE line_no \notin DOMAIN written
    BY <1>1, <2>1, <2>3, BufferSize DEF InLine
  <2> QED
    BY <2>2, <2>3
<1> QED
  BY <1>1, <1>2, <1>3, SameLine DEF source

LEMMA FailStep == ReadInv /\ ReadFails => ReadInv'
<1> SUFFICES ASSUME ReadInv, ReadFails PROVE ReadInv'
  OBVIOUS
<1>1. /\ phase' = "done"
      /\ UNCHANGED <<written, end, closed, row, col, buf, i, line_no, options, errors>>
  BY DEF ReadFails, source, StopReading
<1>2. ReadTypes'
  BY <1>1 DEF ReadInv, ReadTypes
<1>3. ASSUME InLine PROVE InLine'
  BY <1>1, <1>3 DEF InLine
<1> QED
  BY <1>1, <1>2, <1>3, SameLine DEF ReadInv, source

(* What is parsed is the line that was read.                               *)
LEMMA StringIsText ==
  ASSUME ReadInv, Plain, phase = "parse"
  PROVE  /\ Ends(buf) # {} /\ StringEnd(buf) = i /\ String(buf) = Text
         /\ written[line_no] \in Lines /\ line_no \in 1 .. Len(written)
<1>1. /\ InLine /\ line_no \in DOMAIN written /\ i = Len(Text) /\ Held(i) /\ buf[i] = Nul
      /\ i \in 0 .. BufLen
  BY DEF ReadInv, InLine, ReadTypes
<1>2. written[line_no] \in Lines /\ DOMAIN written = 1 .. Len(written)
  BY <1>1 DEF ReadInv, ReadTypes
<1>3. Text \in Seq(Char)
  BY <1>2, ParsedAsMeant DEF Text
<1>4. i \in Ends(buf)
  BY <1>1 DEF Ends
<1>5. ASSUME NEW n \in Ends(buf) PROVE n \in Int /\ i <= n
  <2>1. n \in 0 .. BufLen /\ buf[n] = Nul
    BY DEF Ends
  <2>2. ASSUME n < i PROVE FALSE
    <3>1. n + 1 \in 1 .. i /\ (n + 1) - 1 = n
      BY <1>1, <2>1, <2>2
    <3>2. buf[n] = Text[n + 1]
      BY <1>1, <3>1 DEF Held
    <3>3. Text[n + 1] \in Char
      BY <1>1, <1>3, <3>1
    <3> QED
      BY <2>1, <3>2, <3>3, OptionsAssumption
  <2> QED
    BY <1>1, <2>1, <2>2
<1>6. StringEnd(buf) = i
  <2> DEFINE S == Ends(buf) \cup {BufLen + 1}
  <2>1. i \in S /\ \A n \in S : n \in Int /\ i <= n
    BY <1>1, <1>4, <1>5, BufferSize
  <2> QED
    BY <2>1, MinIs DEF StringEnd
<1>7. String(buf) = Text
  <2>1. Text = [n \in 1 .. i |-> Text[n]]
    BY <1>1, <1>3
  <2>2. \A n \in 1 .. i : buf[n - 1] = Text[n]
    BY <1>1 DEF Held
  <2> QED
    BY <1>6, <2>1, <2>2 DEF String
<1> QED
  BY <1>1, <1>2, <1>4, <1>6, <1>7

LEMMA LineBehind ==
  ASSUME ReadTypes, line_no \in 1 .. Len(written), written' = written, line_no' = line_no + 1
  PROVE  /\ Behind \in Seq(Lines) /\ Len(Behind) = line_no - 1
         /\ Behind' = Append(Behind, written[line_no])
<1>1. written \in Seq(Lines) /\ Len(written) \in Nat
  BY DEF ReadTypes
<1>2. \A n \in 1 .. line_no - 1 : written[n] \in Lines
  BY <1>1
<1>3. Behind \in Seq(Lines) /\ Len(Behind) = line_no - 1
  BY <1>2, SubSeqProperties DEF Behind
<1>4. Behind' = SubSeq(written, 1, line_no)
  BY DEF Behind
<1>5. SubSeq(written, 1, line_no) = SubSeq(written, 1, line_no - 1) \o <<written[line_no]>>
  BY <1>1, SubSeqRecursiveSecond
<1>6. Append(Behind, written[line_no]) = Behind \o <<written[line_no]>>
  BY <1>1, <1>3
<1> QED
  BY <1>3, <1>4, <1>5, <1>6 DEF Behind

(* A parsed line is behind, and the next begins where the file is.         *)
LEMMA NextInLine ==
  ASSUME ReadInv, Plain, phase = "parse", NextLine
  PROVE  /\ InLine' /\ line_no \in 1 .. Len(written) /\ Plain' = Plain
         /\ written[line_no] \in Lines
         /\ Behind \in Seq(Lines) /\ Len(Behind) = line_no - 1
         /\ Behind' = Append(Behind, written[line_no])
<1>1. /\ phase' = "line" /\ i' = 0 /\ line_no' = line_no + 1
      /\ UNCHANGED <<written, end, closed, row, col>>
  BY DEF NextLine, CountLine, source
<1>2. /\ line_no \in 1 .. Len(written) /\ written[line_no] \in Lines
      /\ InLine /\ row = line_no + 1 /\ col = 0 /\ ReadTypes
  BY StringIsText DEF ReadInv, InLine
<1>3. line_no' \in DOMAIN written' => 0 <= Len(Text')
  <2>1. ASSUME line_no' \in DOMAIN written PROVE 0 <= Len(Text')
    <3>1. written[line_no'] \in Lines
      BY <1>2, <2>1 DEF ReadTypes
    <3> QED
      BY <1>1, <3>1, ParsedAsMeant DEF Text
  <2> QED
    BY <1>1, <2>1
<1>4. Held(i)'
  BY <1>1 DEF Held
<1>5. InLine'
  <2>1. Len(written) \in Nat
    BY <1>2 DEF ReadTypes
  <2> QED
    BY <1>1, <1>2, <1>3, <1>4, <2>1 DEF InLine
<1> QED
  BY <1>1, <1>2, <1>5, LineBehind DEF Plain, AllFit

LEMMA ParseTypes ==
  ASSUME ReadInv, NextLine, DOMAIN buf' = 0 .. BufLen
  PROVE  ReadTypes'
BY BufferSize DEF ReadInv, ReadTypes, NextLine, source

(* Nothing is reported of a line that has no fault.                        *)
LEMMA ReportsKept ==
  ASSUME Reports, FaultsOf(Behind') = FaultsOf(Behind), errors' = errors, line_no \in Int,
         line_no' = line_no + 1
  PROVE  Reports'
<1>1. \A m \in DOMAIN errors : errors[m][1] \in Int /\ errors[m][1] < line_no
  BY DEF Reports
<1>2. \A m \in DOMAIN errors : errors[m][1] < line_no'
  BY <1>1
<1> QED
  BY <1>2 DEF Reports

LEMMA IgnoreStep == ReadInv /\ Ignore => ReadInv'
<1> SUFFICES ASSUME ReadInv, Ignore PROVE ReadInv'
  OBVIOUS
<1>1. phase = "parse" /\ Ignored(String(buf)) /\ NextLine /\ UNCHANGED <<buf, options, errors>>
      /\ line_no' = line_no + 1
  BY DEF Ignore, NextLine, CountLine
<1>2. ReadTypes'
  BY <1>1, ParseTypes DEF ReadInv, ReadTypes
<1>3. ASSUME Plain PROVE InLine' /\ options' = MeantBy(Behind)' /\ Reports'
  <2> DEFINE l == written[line_no]
  <2>1. /\ InLine' /\ line_no \in 1 .. Len(written) /\ l \in Lines
        /\ Behind \in Seq(Lines) /\ Behind' = Append(Behind, l)
    BY <1>1, <1>3, NextInLine
  <2>2. ~ Setting(l) /\ ~ Faulty(l)
    BY <1>1, <1>3, <2>1, StringIsText, ParsedAsMeant DEF Text
  <2>3. options = MeantBy(Behind) /\ Reports
    BY <1>3 DEF ReadInv
  <2>4. MeantBy(Behind') = MeantBy(Behind) /\ FaultsOf(Behind') = FaultsOf(Behind)
    BY <2>1, <2>2, MeantMore, FaultsMore
  <2> QED
    BY <1>1, <2>1, <2>3, <2>4, ReportsKept
<1>4. Plain' => Plain
  BY <1>1 DEF Plain, AllFit, NextLine, source
<1> QED
  BY <1>2, <1>3, <1>4 DEF ReadInv

LEMMA SetStep == ReadInv /\ SetOption => ReadInv'
<1> SUFFICES ASSUME ReadInv, SetOption PROVE ReadInv'
  OBVIOUS
<1> DEFINE s == String(buf)
<1>1. /\ phase = "parse" /\ NextLine /\ errors' = errors /\ line_no' = line_no + 1
      /\ ~ Ignored(s) /\ Problem(s) = "none"
      /\ options' = [options EXCEPT ![KeyOf(s)] = Fitting(ValueOf(s))]
      /\ DOMAIN buf' = 0 .. BufLen
  BY DEF SetOption, NextLine, CountLine, Parsed
<1> HIDE DEF s
<1>2. ReadTypes'
  BY <1>1, ParseTypes
<1>3. ASSUME Plain PROVE InLine' /\ options' = MeantBy(Behind)' /\ Reports'
  <2> DEFINE l == written[line_no]
  <2>1. /\ InLine' /\ line_no \in 1 .. Len(written) /\ l \in Lines
        /\ Behind \in Seq(Lines) /\ Behind' = Append(Behind, l)
    BY <1>1, <1>3, NextInLine
  <2>2. s = l.text
    BY <1>1, <1>3, StringIsText DEF Text, s
  <2>3. /\ ~ Faulty(l) /\ Setting(l) /\ l.key = KeyOf(s) /\ l.value = ValueOf(s)
        /\ l.value \in Seq(Char)
    BY <1>1, <2>1, <2>2, ParsedAsMeant
  <2>4. options = MeantBy(Behind) /\ Reports
    BY <1>3 DEF ReadInv
  <2>5. options' = [MeantBy(Behind) EXCEPT ![l.key] = Cut(l.value)]
    BY <1>1, <2>3, <2>4, FitsAsCut
  <2>6. MeantBy(Behind') = [MeantBy(Behind) EXCEPT ![l.key] = Cut(l.value)]
    BY <2>1, <2>3, MeantMore
  <2>7. FaultsOf(Behind') = FaultsOf(Behind)
    BY <2>1, <2>3, FaultsMore
  <2> HIDE DEF l
  <2>8. options' = MeantBy(Behind)'
    BY <2>5, <2>6
  <2>9. Reports'
    BY <1>1, <2>1, <2>4, <2>7, ReportsKept
  <2> QED
    BY <2>1, <2>8, <2>9
<1>4. Plain' => Plain
  BY <1>1 DEF Plain, AllFit, NextLine, source
<1> QED
  BY <1>2, <1>3, <1>4 DEF ReadInv

LEMMA ProblemsAreKnown == ASSUME NEW s PROVE Problem(s) \in Problems
<1>1. CASE EqualsIn(s) = {}
  BY <1>1 DEF Problem, Problems
<1>2. CASE EqualsIn(s) # {} /\ KeyOf(s) = <<>>
  BY <1>2 DEF Problem, Problems
<1>3. CASE EqualsIn(s) # {} /\ KeyOf(s) # <<>> /\ ValueOf(s) = <<>>
  BY <1>3 DEF Problem, Problems
<1>4. CASE EqualsIn(s) # {} /\ KeyOf(s) # <<>> /\ ValueOf(s) # <<>>
  BY <1>4 DEF Problem, Problems
<1> QED
  BY <1>1, <1>2, <1>3, <1>4

LEMMA ErrorStep == ReadInv /\ ShowParseError => ReadInv'
<1> SUFFICES ASSUME ReadInv, ShowParseError PROVE ReadInv'
  OBVIOUS
<1> DEFINE s == String(buf)
           p == Problem(s)
<1>1. /\ phase = "parse" /\ NextLine /\ options' = options /\ line_no' = line_no + 1
      /\ ~ Ignored(s) /\ p # "none" /\ errors' = Append(errors, <<line_no, p>>)
      /\ DOMAIN buf' = 0 .. BufLen
  BY DEF ShowParseError, NextLine, CountLine, Parsed
<1>p. p \in Problems
  BY ProblemsAreKnown
<1> HIDE DEF s, p
<1>2. ReadTypes'
  BY <1>1, ParseTypes
<1>3. ASSUME Plain PROVE InLine' /\ options' = MeantBy(Behind)' /\ Reports'
  <2> DEFINE l == written[line_no]
             N == Len(errors)
  <2>1. /\ InLine' /\ line_no \in 1 .. Len(written) /\ l \in Lines
        /\ Behind \in Seq(Lines) /\ Len(Behind) = line_no - 1 /\ Behind' = Append(Behind, l)
    BY <1>1, <1>3, NextInLine
  <2>2. s = l.text
    BY <1>1, <1>3, StringIsText DEF Text, s
  <2>3. Faulty(l) /\ ~ Setting(l) /\ l.error = p
    BY <1>1, <2>1, <2>2, ParsedAsMeant DEF p
  <2>4. options = MeantBy(Behind) /\ Reports
    BY <1>3 DEF ReadInv
  <2>5. MeantBy(Behind') = MeantBy(Behind)
    BY <2>1, <2>3, MeantMore
  <2>6. FaultsOf(Behind') = FaultsOf(Behind) \cup {<<line_no, p>>}
    BY <2>1, <2>3, FaultsMore
  <2>l. line_no \in Int
    BY <2>1
  <2>7. /\ errors \in Seq(Int \X Problems) /\ <<line_no, p>> \in Int \X Problems /\ N \in Nat
    BY <1>p, <2>l, <2>4 DEF Reports
  <2>8. /\ errors' \in Seq(Int \X Problems) /\ DOMAIN errors = 1 .. N
        /\ DOMAIN errors' = (1 .. N) \cup {N + 1}
        /\ (\A n \in 1 .. N : errors'[n] = errors[n]) /\ errors'[N + 1] = <<line_no, p>>
    BY <1>1, <2>7
  <2> HIDE DEF N, l
  <2>9. {errors'[n] : n \in DOMAIN errors'} = FaultsOf(Behind')
    <3>1. {errors'[n] : n \in DOMAIN errors'} = {errors[n] : n \in DOMAIN errors} \cup {<<line_no, p>>}
      BY <2>8
    <3> QED
      BY <2>4, <2>6, <3>1 DEF Reports
  <2>10. ASSUME NEW m \in DOMAIN errors' PROVE errors'[m][1] < line_no'
    <3>1. CASE m \in 1 .. N
      <4>1. errors[m] \in Int \X Problems
        BY <2>7, <2>8, <3>1
      <4>2. errors[m][1] < line_no /\ errors[m][1] \in Int
        BY <2>4, <2>8, <3>1, <4>1 DEF Reports
      <4> QED
        BY <1>1, <2>l, <2>8, <3>1, <4>2
    <3>2. CASE m = N + 1
      BY <1>1, <2>1, <2>8, <3>2
    <3> QED
      BY <2>8, <3>1, <3>2
  <2>11. ASSUME NEW m \in DOMAIN errors', NEW n \in DOMAIN errors', m < n
         PROVE  errors'[m][1] < errors'[n][1]
    <3>1. m \in 1 .. N
      BY <2>7, <2>8, <2>11
    <3>2. CASE n \in 1 .. N
      BY <2>4, <2>8, <2>11, <3>1, <3>2 DEF Reports
    <3>3. CASE n = N + 1
      <4>1. errors'[n][1] = line_no
        BY <2>8, <3>3
      <4> QED
        BY <2>4, <2>8, <3>1, <4>1 DEF Reports
    <3> QED
      BY <2>8, <3>2, <3>3
  <2>12. Reports'
    BY <2>8, <2>9, <2>10, <2>11 DEF Reports
  <2> QED
    BY <1>1, <2>1, <2>4, <2>5, <2>12
<1>4. Plain' => Plain
  BY <1>1 DEF Plain, AllFit, NextLine, source
<1> QED
  BY <1>2, <1>3, <1>4 DEF ReadInv

LEMMA ReadStutter == ReadInv /\ UNCHANGED readVars => ReadInv'
<1> SUFFICES ASSUME ReadInv, UNCHANGED readVars PROVE ReadInv'
  OBVIOUS
<1>1. UNCHANGED <<written, end, closed, row, col, phase, buf, i, line_no, options, errors>>
  BY DEF readVars, source
<1>2. ReadTypes'
  BY <1>1 DEF ReadInv, ReadTypes
<1>3. ASSUME InLine PROVE InLine'
  BY <1>1, <1>3 DEF InLine, Held, Text
<1> QED
  BY <1>1, <1>2, <1>3, SameLine DEF ReadInv, source

LEMMA ReadStep == ReadInv /\ [Step]_readVars => ReadInv'
BY OpenStep, NewlineStep, ReturnStep, ByteStep, FullStep, FailStep, IgnoreStep, SetStep, ErrorStep,
   ReadStutter DEF Step

(* The options say at every moment what the lines read so far say.         *)
THEOREM ConfigIsObeyed == ReadSpec => []OptionsFollowLines
<1>1. ReadInv => OptionsFollowLines
  BY DEF ReadInv, OptionsFollowLines, Meant, MeantBy, LastOf, LastIn
<1> QED
  BY <1>1, ReadBegins, ReadStep, PTL DEF ReadSpec

(* Every faulty line is reported once, by its own number.                  *)
THEOREM FaultsAreReported == ReadSpec => []ErrorsNameTheirLines
<1>1. ReadInv => ErrorsNameTheirLines
  BY DEF ReadInv, Reports, ErrorsNameTheirLines, FaultsOf, FaultyLines
<1> QED
  BY <1>1, ReadBegins, ReadStep, PTL DEF ReadSpec

(* read_line stays in its buffer, and what it gives to the parser ends     *)
(* where the line did.                                                     *)
THEOREM LinesStayInBuffer == ReadSpec => []StringEnds
<1>1. ReadInv => StringEnds
  <2> SUFFICES ASSUME ReadInv PROVE StringEnds
    OBVIOUS
  <2>1. i \in 0 .. BufLen /\ DOMAIN buf = 0 .. BufLen
    BY DEF ReadInv, ReadTypes
  <2>2. phase = "parse" /\ Plain => Ends(buf) # {} /\ StringEnd(buf) <= i
    BY <2>1, StringIsText
  <2> QED
    BY <2>1, <2>2 DEF StringEnds
<1> QED
  BY <1>1, ReadBegins, ReadStep, PTL DEF ReadSpec
=============================================================================
