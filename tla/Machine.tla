------------------------------ MODULE Machine ------------------------------
(***************************************************************************)
(* What the program finds out about the device at each launch:             *)
(* setup_arm_globals in m68k/cocoboot.c over mach.c, cpu.c and mem.c.  The *)
(* CPU's id and the translation table's address come from calls to the ARM *)
(* half, which may fail; what they return is kept in static variables, and *)
(* everything the ARM half is told follows from them.                      *)
(*                                                                         *)
(* Addresses and sizes are in units of 16 KB, the alignment of a table,    *)
(* and wrap like 32-bit words.  An id is its vendor byte and 12-bit part.  *)
(***************************************************************************)
EXTENDS Integers, Sequences, FiniteSetsExt

CONSTANTS
  Devices,    \* the devices the program may run on
  MaxRounds   \* bound: how often the user asks for the memory screen

Unit(bytes16K) == bytes16K % 2 ^ 18
MB == 64

(* mach_table without its first entry: Palm OS id and Linux id.            *)
MachTable ==
  << <<"TunX", 835>>, <<"H102", 909>>, <<"D053", 1230>>, <<"D052", 1421>>,
     <<"D060", 1424>>, <<"D061", 1944>>, <<"D062", 1944>>, <<"MT64", 918>>,
     <<"Cct1", 817>>, <<"Zir4", 844>>, <<"Frg1", 839>>, <<"Frg2", 834>>,
     <<"Arz1", 829>>, <<"TnT5", 917>>, <<"D050", 885>>, <<"Zi22", 1090>>,
     <<"Zpth", 993>>, <<"Zi72", 904>>, <<"Rdog", 779>> >>

Intel == 105   TI == 84   Arm == 65   \* 0x69, 0x54, 0x41
SA1100 == 2833                        \* 0xB11
CPU920T == 2336                       \* 0x920

(* A device: its Palm OS id, the id register of its CPU, where its table   *)
(* is, how much RAM it has and Palm OS reports, and what MDCNFG holds, one *)
(* record for each pair of partitions.                                     *)
Pair == [enabled : SUBSET {0, 1}, cols : 0 .. 3, rows : 0 .. 3, half : BOOLEAN, bit12 : BOOLEAN]
DeviceType ==
  [ oem : STRING, cpu : [vendor : 0 .. 255, part : 0 .. 4095], ttb : Nat,
    ram : Nat, reported : Nat, mdcnfg : [low : Pair, high : Pair] ]

ASSUME MachineAssumption ==
  /\ MaxRounds \in Nat
  /\ \A d \in Devices : d \in DeviceType /\ d.ttb > 0 /\ d.reported <= d.ram /\ d.ram + 3 * MB <= 2 ^ 17

VARIABLES
  pc,       \* the next field setup_arm_globals fills in, then "app"
  dev,      \* the device; never changes
  cpu_id, ttb, mach,   \* the static variables of cpu.c, mem.c and mach.c
  globals,  \* arm_globals
  field,    \* the machine id in the form
  failed,   \* history: the fields during which a call to the ARM half failed
  rounds    \* the counter of the bound

vars == <<pc, dev, cpu_id, ttb, mach, globals, field, failed, rounds>>

Unset == [vendor |-> -1, part |-> -1]      \* cpu_id = 0
Error == [vendor |-> 0, part |-> 0]        \* call_arm's 1, as an id
NoTable == 0
AnyWord == -1                              \* nothing is known of it
Fields == {"pttb", "vttb", "cpu", "ram_base", "ram_size", "mach_num", "tt_offset"}

Init ==
  /\ pc = "pttb" /\ dev \in Devices
  /\ cpu_id = Unset /\ ttb = NoTable /\ mach = 0
  /\ globals = [f \in Fields |-> 0]
  /\ field = -1 /\ failed = {} /\ rounds = 0

----------------------------------------------------------------------------
(* The pure part: what the code makes of an id, a table address, a size.   *)

(* check_mach: the index of the device in the table, 0 if it is not there. *)
MachOf(oem) == Max({0} \cup {n \in 1 .. Len(MachTable) : MachTable[n][1] = oem})
LinuxId(m) == IF m = 0 THEN 0 ELSE MachTable[m][2]

(* get_cpu.  On Intel the part is compared with the whole of CPU_SA1100,   *)
(* which is never equal, and cut to five bits.                             *)
CutAlways(id) == [id EXCEPT !.part = @ % 32]
Cpu(id) == IF id.vendor = Intel THEN [id EXCEPT !.part = @ % 32] ELSE id

Base(cpu) ==
  CASE cpu.vendor = TI -> Unit(256 * MB)
    [] cpu.vendor = Intel -> IF cpu.part = SA1100 THEN Unit(3072 * MB) ELSE Unit(2560 * MB)
    [] cpu.vendor = Arm /\ cpu.part = CPU920T -> Unit(128 * MB)
    [] OTHER -> 0

(* Treos and Centros map the table where it is; elsewhere virtual memory   *)
(* starts with the first byte of RAM.                                      *)
MappedOneToOne == {909, 1230, 1421, 1424, 1944}
TtOffset(m, base) == IF LinuxId(m) \in MappedOneToOne THEN 0 ELSE base

(* get_gen_ram_size: the first power of two from 2 MB on that is not less. *)
RamSizes == {2 ^ n * MB : n \in 1 .. 11}
NoSystem(reported) == reported
WithSystem(reported) == reported + 3 * MB
GenRamSize(reported) ==
  Min({s \in RamSizes : s >= WithSystem(reported)})

(* xscale_get_partition_pair_size: columns times rows times the width of   *)
(* the bus.  One partition or two of a pair count the same.                *)
PairSize(p) ==
  IF p.enabled = {} THEN 0
  ELSE (2 ^ (5 + p.cols + p.rows) * (IF p.half THEN 16 ELSE 32))
         \div (IF p.bit12 /\ p.half THEN 4 ELSE 2)

RamSize(cpu, d) ==
  IF cpu.vendor = Intel THEN PairSize(d.mdcnfg.low) + PairSize(d.mdcnfg.high)
                        ELSE GenRamSize(d.reported)

----------------------------------------------------------------------------
(* The calls to the ARM half.                                              *)

(* get_cpu_id: whatever the first call returns is kept for good, an error  *)
(* too.                                                                    *)
ReadCpu ==
  IF cpu_id # Unset THEN UNCHANGED cpu_id ELSE cpu_id' \in {dev.cpu, Error}

(* get_ttb: an error is masked to 0, so the next caller tries again.       *)
KeptError == 1
MaskedError == NoTable
ReadTtb ==
  IF ttb # NoTable THEN UNCHANGED ttb ELSE ttb' \in {dev.ttb, MaskedError}

(* check_mach asks again until it knows the machine.                       *)
CheckMach == mach' = IF mach # 0 THEN mach ELSE MachOf(dev.oem)

VirtTtb(table) == Unit(table - TtOffset(mach', Base(Cpu(cpu_id'))))

(* A failure is only seen by the caller that had no value yet.             *)
Note(f, ttbFailed) ==
  failed' = failed \cup
    (IF ttbFailed \/ (cpu_id = Unset /\ cpu_id' = Error) THEN {f} ELSE {})

(* EndianFix32 is a macro that evaluates its argument four times, once for *)
(* each byte, so a call of get_ttb may fail for some bytes (lost) and not  *)
(* for others.  Byte 0 is below the unit of the model.                     *)
EndianFix(good, bad, lost) ==
  (IF 1 \in lost THEN bad % 4 ELSE good % 4)
  + 4 * (IF 2 \in lost THEN (bad \div 4) % 256 ELSE (good \div 4) % 256)
  + 1024 * (IF 3 \in lost THEN bad \div 1024 ELSE good \div 1024)

TtbForBytes(lost) ==
  IF ttb # NoTable THEN lost = {} /\ UNCHANGED ttb
  ELSE ttb' = IF lost = 0 .. 3 THEN MaskedError ELSE dev.ttb

(* The offset of a Treo needs no CPU id.                                   *)
ReadCpuUnlessTreo ==
  IF LinuxId(mach') \in MappedOneToOne THEN UNCHANGED cpu_id ELSE ReadCpu

----------------------------------------------------------------------------
(* setup_arm_globals, one field at a time.                                 *)

Fill(f, v, next) ==
  /\ globals' = [globals EXCEPT ![f] = v]
  /\ pc' = next
  /\ UNCHANGED <<dev, field, rounds>>

SetPttb ==
  /\ pc = "pttb"
  /\ UNCHANGED <<cpu_id, mach>>
  /\ \E lost \in SUBSET (0 .. 3) :
       /\ TtbForBytes(lost) /\ Note("pttb", lost # {})
       /\ Fill("pttb", EndianFix(dev.ttb, NoTable, lost), "vttb")

SetVttb ==
  /\ pc = "vttb"
  /\ CheckMach /\ ReadCpuUnlessTreo
  /\ \E lost \in SUBSET (0 .. 3) :
       /\ TtbForBytes(lost) /\ Note("vttb", lost # {})
       /\ Fill("vttb", EndianFix(VirtTtb(dev.ttb), VirtTtb(NoTable), lost), "cpu")

SetCpu ==
  /\ pc = "cpu"
  /\ ReadCpu /\ UNCHANGED <<ttb, mach>> /\ Note("cpu", FALSE)
  /\ Fill("cpu", Cpu(cpu_id'), "ram_base")

SetRamBase ==
  /\ pc = "ram_base"
  /\ Fill("ram_base", Base(Cpu(cpu_id)), "ram_size")
  /\ UNCHANGED <<cpu_id, ttb, mach, failed>>

(* On Intel the size is read from MDCNFG through phys_to_virt, many times, *)
(* and each time phys_to_virt calls get_ttb; through a table that is       *)
(* unknown even once any word may be read.                                 *)
SetRamSize ==
  /\ pc = "ram_size"
  /\ UNCHANGED <<cpu_id, mach>>
  /\ IF Cpu(cpu_id).vendor = Intel
       THEN \E lost \in SUBSET (0 .. 3) :
              /\ TtbForBytes(lost) /\ Note("ram_size", lost # {})
              /\ Fill("ram_size", IF lost = {} THEN RamSize(Cpu(cpu_id), dev) ELSE AnyWord, "mach_num")
       ELSE /\ Fill("ram_size", RamSize(Cpu(cpu_id), dev), "mach_num")
            /\ UNCHANGED <<ttb, failed>>

(* mach_num is preset to a LifeDrive.                                      *)
SetOffset ==
  /\ pc = "mach_num"
  /\ CheckMach
  /\ globals' = [globals EXCEPT !["mach_num"] = 835,
                                !["tt_offset"] = TtOffset(mach', Base(Cpu(cpu_id)))]
  /\ pc' = "app"
  /\ UNCHANGED <<dev, cpu_id, ttb, field, failed, rounds>>

----------------------------------------------------------------------------
(* The application runs.                                                   *)

(* display_mach when the form opens.                                       *)
OpenForm ==
  /\ pc = "app" /\ field = -1
  /\ CheckMach /\ field' = LinuxId(mach')
  /\ UNCHANGED <<pc, dev, cpu_id, ttb, globals, failed, rounds>>

(* mem_info asks for everything again; the ARM half is not told.           *)
MemInfo ==
  /\ pc = "app" /\ field # -1 /\ rounds < MaxRounds
  /\ ReadTtb /\ CheckMach /\ Note("screen", ttb' = NoTable) /\ UNCHANGED cpu_id
  /\ rounds' = rounds + 1
  /\ UNCHANGED <<pc, dev, globals, field>>

(* boot_linux hands over the machine id of the form.                       *)
Boot ==
  /\ pc = "app" /\ field # -1
  /\ globals' = [globals EXCEPT !["mach_num"] = field]
  /\ pc' = "arm"
  /\ UNCHANGED <<dev, cpu_id, ttb, mach, field, failed, rounds>>

Next ==
  \/ SetPttb \/ SetVttb \/ SetCpu \/ SetRamBase \/ SetRamSize \/ SetOffset
  \/ OpenForm \/ MemInfo \/ Boot
Spec == Init /\ [][Next]_vars

----------------------------------------------------------------------------
(* Properties.                                                             *)

(* Every variable holds a value of its type; the caches hold what the      *)
(* device says, nothing, or, for the CPU only, the code of a failed call.  *)
TypeOK ==
  /\ pc \in Fields \cup {"app", "arm"}
  /\ dev \in DeviceType
  /\ cpu_id \in {Unset, Error, dev.cpu} /\ ttb \in {NoTable, dev.ttb}
  /\ mach \in {0, MachOf(dev.oem)}
  /\ DOMAIN globals = Fields
  /\ field \in {-1, LinuxId(MachOf(dev.oem))}
  /\ failed \subseteq Fields \cup {"screen"} /\ rounds \in 0 .. MaxRounds

(* What is true of the device, by the id its CPU really has.  StrongARMs   *)
(* are left out: get_cpu takes them for PXA27x.                            *)
Supported == ~ (dev.cpu.vendor = Intel /\ dev.cpu.part = SA1100)
TrueOffset == TtOffset(MachOf(dev.oem), Base(dev.cpu))
CpuKnown == cpu_id = dev.cpu
Filled == pc \in {"app", "arm"}

(* A failed call to the ARM half spoils no more of arm_globals than what   *)
(* it was made for: the table's address is asked for again by the next     *)
(* field, while a lost CPU id takes everything that depends on it along.   *)
(* A boot replaces the preset machine id by that of the device.            *)
GlobalsTrue ==
  Filled /\ Supported =>
    /\ "pttb" \notin failed => globals["pttb"] = dev.ttb
    /\ "vttb" \notin failed => globals["vttb"] = Unit(dev.ttb - TrueOffset)
    /\ CpuKnown =>
         /\ globals["ram_base"] = Base(dev.cpu)
         /\ globals["tt_offset"] = TrueOffset
         /\ "ram_size" \notin failed => globals["ram_size"] = RamSize(dev.cpu, dev)
    /\ pc = "arm" => globals["mach_num"] = LinuxId(MachOf(dev.oem))

(* "3mb to cover system": a device without MDCNFG whose RAM is a power of  *)
(* two is given the RAM it has exactly when Palm OS keeps at least 3 MB of *)
(* it back, and less than half of it more.                                 *)
RamSizeExact ==
  Filled /\ CpuKnown /\ dev.cpu.vendor # Intel /\ dev.ram \in RamSizes =>
    (globals["ram_size"] = dev.ram
       <=> dev.ram - dev.reported \in 3 * MB .. 3 * MB + dev.ram \div 2 - 1)
=============================================================================
