# Cocoboot: models and proofs

Cocoboot starts Linux on Palm OS handhelds. A 68k application finds a kernel
and an initrd on memory cards, loads them, and calls a piece of ARM code that
takes the machine away from Palm OS and enters the kernel. This directory holds
TLA+ models of that program, TLC configurations that check them on small
instances, and proofs, for instances of every size, of most of the safety
properties and of both refinements.

    tlc -config ArmBoot.cfg MCArmBoot            check one run
    tlapm ArmBootProofs.tla                      check the proofs

## The system

| part | code | state | operations | talks to |
|---|---|---|---|---|
| ARM boot sequence | `src/arm/boot.c`, `atag.c`, `cpu.c`, `map` in `arm.c` | CPSR, domain register, page table, MMU, all of RAM | `boot_linux`: translate, mask, map, jump, MMU off, CPU set-up, tags, copy, enter | called by `arm_entry`; owns the machine |
| Memory mapping | `m68k/mem.c`, `arm/arm.c`, `dump_mmu` in `mainform.c` | the first- and second-level page tables | `virt_to_phys`, `phys_to_virt`, `dump_mmu` | Palm OS's live table, shared by both halves |
| Image search and loading | `m68k/imgloader.c`, `mainform.c` | feature chunks 0 and 1, `kernel_ok`, `use_initrd`, sizes | `check_image`, `search_image`, `load_parts`, `load_image`, `boot_linux` | VFS (cards), Feature Manager, `call_arm` |
| 68k to ARM calls | `m68k/cocoboot.c`, `arm_entry` in `arm.c`, `cpu.c`, `mem.c` | `arm_stack` and its count, cached CPU identity and table base | `push_uint32`, `call_arm`, `arm_entry`, `get_cpu_id`, `get_ttb` | the two processors' byte orders |
| USB console | `m68k/cocoboot.c` | `usb_port`, `console_buffer`, its fill and index | `open_console`, `handle_console`, `handle_command` | serial port, event loop |
| Configuration file | `m68k/options.c` | the option list, a line buffer | `read_config`, `read_line`, `parse_config_line`, `set_option` | VFS, alerts |
| Machine and CPU detection | `m68k/mach.c`, `cpu.c`, `mem.c`, `setup_arm_globals` in `cocoboot.c` | `cpu_id`, `ttb`, `mach`, `arm_globals` | `check_mach`, `get_cpu`, `get_ttb`, RAM base and size, once per launch | `call_arm`; the ARM half believes `arm_globals` |
| ELF loading | `arm/elf.c` | the loaded image and its destinations | `relocate_elf`, `copy_section` | ends a boot in place of `jump_to_kernel` |
| Memory trace | `arm/debug.c`, `start_irq_trace`, `dump_trace_log` | the abort vector, a 100 KB trace buffer in feature slot 0 | install, trap, dump | shares the slot of the kernel |
| Firmware dump | `m68k/fwutils.c` | files on the cards | cut out, put together, append | VFS (cards), resource and record databases |
| Screens, menu, log | `mainform.c`, `cocoboot.c` | form fields | show and save | none |
| Host tools, ELF test kernel | `src/tools`, `src/elfkernel` | none at run time | | |

The program is single-threaded on each processor; what makes it hard is what
happens around it. Interrupts, traps and the MMU change what the next ARM instruction
means. Writes after the MMU is off go to the same RAM that the code, its stack
and the loaded images are in. Cards are moved between any two VFS calls. Bytes
arrive in batches of any size. Calls fail half way and leave something behind
on a stack, in a feature or in a buffer. `PROJECT.json` lists these hazards at
their lines with the properties that cover them.

What makes each part correct:

* boot: no error return leaves Palm OS damaged; no instruction is fetched from
  elsewhere; no interrupt is taken once the table is changed; in every layout
  that allows it Linux finds kernel, tags and initrd whole;
* mapping: the two halves and the MMU agree, and the memory map is exact;
* loading: what is handed over is what was found, in one piece and with its
  true length; every chunk is given back; what can crash is named;
* calls: each function gets its own arguments whatever failed before;
* console: each line is run once, whole, in order, at the next round;
* options: an option has the value its last line gave it, and errors name the
  right line;
* detection: what the ARM half is told is true of the device, or a call failed
  on which just that depends;
* trace: a dump is the accesses in order and whole, and the trace does no harm
  until its buffer is full or taken away;
* ELF: a kernel is entered with every segment in its place;
* firmware: an undisturbed dump is the firmware, and no dump spoils an earlier
  one.

## The modules

Sizes and addresses are small numbers, but every guard, early return and order
of steps is the code's. Names are the code's where it has one.

**ArmBoot** (with **MCArmBoot**, **ArmBootProofs**). One
action per step of `boot_linux`; `pc` names the step. The inputs of a call (where
the objects are in RAM, which pointers are given, what the page table says) are
one record `dev`, chosen in `Init`. The page table is by section, RAM by word:
`mem[a] = b` says word `a` now holds what word `b` held at entry, so "intact"
can be said without naming contents. `MapIdentity` may leave the table as the MMU
sees it unchanged, because `map` writes through the data cache and flushes only
the TLB. `CheckMap` asks whether the mapping is seen; the code compares one word read
through both addresses (boot.c:140), and that another section holds the same word by
chance is left out. An error return leaves the memory protection dropped at
boot.c:95 as it is, and `ReturnRestores` does not ask for it. `SeesText` is
`setup_cmdline_tag`'s test for an empty command line, made after the core and memory
tags are written: a command line under them, even an empty one, reads as the word
written over it, which is why `Safe` (and `Clear` of AtomicBoot) keeps those apart. `Derail` and `Abort` are the machine's doing: code that was overwritten
or a fault Palm OS cannot handle. `copy_image` is one action per word.

**AtomicBoot** is what a boot promises, in five actions: Palm OS is suspended,
gets the machine back, or loses it for good (`Commit`) and Linux is handed the
kernel, the initrd and the command line of the call in one step. Only a request
whose images are in each other's way may be damaged or lost once there is no way
back. ArmBoot implements it (`ImplementsAtomicBoot`, checked and proved) with
`owner` read off the address space and the interrupt mask (jumping to
the physical address is the point of no return) and `received` off the RAM the
kernel finds: what lies where it was loaded and where the tagged list says.

**Elf** (**MCElf**, **ElfProofs**) goes on where ArmBoot ends for an ELF image. `ReadHeader`,
`ClearWord`, `CopyWord` are the loops of `relocate_elf` and `copy_section`;
headers are read from memory as it is by then, so a header that an earlier
segment wiped is one that loads nothing, and one that was overwritten makes the
machine `Derail`. The first header's distance between virtual and physical
addresses is kept in `pvdelta` unless it is zero, and sizes lose their remainder.
Offsets and distances are whole words: what `p_offset / 4` and `pvdelta / 4` would cut
off others is left out.

**Mmu** (**MCMmu**, **MmuProofs**). `VirtToPhys68k` and `VirtToPhysArm` are the two
translations, `PhysToVirt` the search the other way (the same code in both halves), and
`DumpMmu`, `ScanSection`, `EndDump` the loop of `dump_mmu`. `Walk` is what the ARM MMU
does with the same table: the reference the code is compared with. An address is a pair
of section and offset. `map_mem` is not modelled: nothing in the repository calls it,
and it neither cleans the cache nor flushes the TLB after its store.

**Loader** (**MCLoader**, **LoaderProofs**). A job is `check_image` ("probe") or one `load_parts`
of `boot_linux` ("boot"); `pc` is the call it is in. `Insert` and `Remove`
may happen between any two VFS calls. `Refused` is `FtrPtrNew` saying no to
any size. A cell of a chunk says which byte of which image it holds, so a mixed
or truncated image can be seen. `load_parts` takes any chunk it is given
(mainform.c:301-316) and reads the whole image into it. The model does not say where chunks
lie: a read past the end of one may write over any cell of the other image, whichever of the
two overflows (`ContentAfter`), or over memory of the system (`Overrun`). `OneFile`,
`KernelStays` and `HandoverComplete` hold while no image is longer than its chunk (`Fits`), and
`CrashOnlyTo` says when the application can be brought down. The trace buffer, which uses slot 0 as well, is
IrqTrace's.

**ArmCall** (**ArmCallProofs**). The stack holds words tagged with the call that pushed them. One
`Call` is a caller's pushes and the first half of `call_arm`; `NoResource` its
failure, which leaves the words; `Enter` its own pushes and the jump; `Return` the
pops of `arm_entry`, its exits (`Answer`: an empty stack, a function there is none of, or a
result) and the use of the result. The order in which the pops in one C call are made is
the compiler's choice: `order` is the end it starts from, and both are checked. The byte
order of the count, changed after the first test of `arm_entry` and back at the label all
later exits share, is left out; the exit in front of it is for a null pointer, which
no caller passes. A lock that fails is a crash: `call_arm` tests `arm_code_handle` a
second time (cocoboot.c:162) and would jump to a null pointer.

**Console** (**MCConsole**, **ConsoleProofs**). `HostSends` is the other end, polite or not.
`Receive` takes any nonempty beginning of what has arrived, clipped as the code
clips it; `ScanOn`, `RunCommand` and `ScanEnds` are the loop over the buffer
with the index reset to 0 before the loop increments it. Writing past the buffer
makes `pc` "wild", after which nothing is said. What a command does is left out, and
an empty one, which does nothing but ask for the next, is not recorded in `executed`.

**LineReader** is the console as the host sees it: lines are sent, and run whole,
once each and in order; once the console has been opened again a line may be cut
and its end run. Console implements it (`LinesKept`, checked and proved) with the
commands executed for the lines run.

**Options** (**MCOptions**, **StartProofs**). The file is a sequence of lines with what
their author meant by them, and `OptionsAssumption` ties that to their texts by the places
of the bytes (`Means`), not by the operators of the parser. The bytes are read one at a time into a
buffer that is never cleared. A card may fail at any byte (`ReadFails`, which is also the
end of the file). Parsing a C string is done on the buffer as it is, stale bytes
included, and `set_option` keeps as much of a value as fits.

**Machine** (**MCMachine**, **StartProofs**). `setup_arm_globals` is one action per field, each
with the calls to the ARM half that it makes, the caches they fill (`cpu_id`, `ttb`,
`mach`) and any of them failing. Addresses are in units of 16 KB and wrap like words.
`EndianFix` is the macro of `shared.h`: it evaluates its argument four times, so
while `ttb` is not known each byte of `pttb` and `vttb` comes from a call of its own.
`OpenForm`, `MemInfo` and `Boot` are what the application asks later.

**IrqTrace** (**MCIrqTrace**, **DumpProofs**). `install_irqhandler` is one action for the copy, one
for the vector, one for the two words at 0x64 and 0x68 and one for the debug
registers; `Record` is the data-abort handler, which may run between any two actions
once the registers are set. `Relaunch` is `check_image` freeing feature 0, and
`Reuse` what becomes of the memory. `dump_trace_log` reads its end pointer once and
writes in batches of 100 words, to a file that is never truncated. A word of a frame
says which access it belongs to; registers are left out, and so is a word that a
writer missed: the handler fills 15 words of 16. The handler is copied through the data cache
(debug.c:80-85) and neither cleaned from it nor dropped from the instruction cache; that the
copy is what runs is an assumption. The stores to 0x64 and 0x68 are one step.

**FwDump** (**MCFwDump**, **DumpProofs**). One action per piece appended. `appendBuf` opens the file on
every card that has it at that moment and does not look at the result of a
write. `ChunkSize` is `getChunkSZ` with `1 << n` in an int of `IntBits` bits and
compared as unsigned; `fwSize` wraps when it guesses too large. `Added` is what the dump
under way has put behind what a file held before. `FwDumpAssumption` bounds the length
by what `atol` makes of the first record and the number of records by their `UInt16`.
A helper is what lies between the two patterns that fwutils.c:82-92 looks for; resources
without them, and the return of -1 at line 95, are left out. A write that fails writes
nothing: one that fails half way is left out, which keeps the order of bytes but could leave
a gap.

## The runs

| run | question | bounds |
|---|---|---|
| ArmBoot | in which layouts can Linux be entered with everything it was promised? can control be lost, an interrupt taken, or an error return do harm? does the boot end, and is it one handover? | layouts of 14 words of RAM with a kernel of 2 and an initrd of 0 or 3 anywhere, a command line with or without text under each kind of tag or elsewhere, code, stack and globals in 4 arrangements, on 3 machines; and 2 sections, every table over them, any one pointer missing or not translatable, protected or open table, 3 CPUs, 3 layouts (257,000 states) |
| Mmu | do both halves and the MMU agree on every small table? | 5 sections of 8 words, every table with at most one coarse and one fine entry (77,824) |
| Loader | what is handed over and what is left behind when cards move and memory is short? | 2 volumes, 2 cards, 2 card moves, 2 boots, images of up to 5 cells, chunks of any size down by steps of 2 (628,700) |
| ArmCall | does each call get its arguments after others failed? | 5 calls, 10 words of stack, 2 orders of evaluation (67,754) |
| Console | is every line run, whole and in time? | buffer of 4, 3 lines, 2 openings, three line ends |
| Options | do the options follow the file? | lines of 12 kinds, 2 per file, either line end, buffer of 7, values of 3, stale content of memory and of every earlier line (56,660) |
| IrqTrace | is a dump the trace, and what must happen before the trace does harm? | 2 chunks with room for two frames of 3 words and one over, batches of 2, 3 accesses (1.6 million states) |
| Elf | which ELF kernels are entered with all segments in place? | 10 words of RAM, an image of 6 with 2 program headers, the second of which may load nothing, 6 pairs of sizes that are whole words or not, every destination (46,111) |
| Machine | what is true in `arm_globals` after which failures? | 3 machine ids, 7 CPUs, 2 RAM sizes with 7 amounts kept back, MDCNFG of one or two pairs (62,448) |
| FwDump | for which sizes is the file the firmware, and what is in it after failures? | 2 cards, 2 dumps, 2 cards moved or writes failed, markers 3 bytes apart, firmware of 0 to 9 bytes in records of 2, 4 or 8, ints of 4 bits (1.1 million) |

The bounds are the smallest at which the interesting cases happen: an initrd of
three words overlaps its destination by none, some or all of it from either side; a
page table of five entries has ranges that join, wrap and touch 0; a trace buffer
fills up at the third access, and neither frames nor batches divide each other, as 16
and 100 words do not; an ELF image in ten words overlaps its segments in every way, on
either side of the code; records of eight bytes do not fit ints of four bits; two card moves
pull a card out and put another in during one load; a buffer of four holds a
line with its end and the beginning of the next; five calls fill the stack with
what failed calls left. Deadlock checking is off everywhere because each system
does come to rest (Linux runs, the file is read, the bounds are used up).

Liveness assumes weak fairness of the program's own steps and of nothing else.
A processor that is running keeps executing, and the event loop wakes every 10
ticks while the console is open (cocoboot.c:363-398). Cards, users, hosts and
failures are never forced. `Terminates`, `JobEnds`, `EveryLineRuns` and `ConfigEnds` are the
liveness properties.

Some properties say that a condition is exactly the right one: `OnlySafeHandover`
and `OnlyThen` show that nothing weaker than the conditions of `SafeHandover` and
`SegmentsLoaded` will do, and `FirmwareWhole` and `RamSizeExact` are stated with `<=>`.

Type invariants are stated for ArmBoot, whose proofs rest on it, and for Machine, where
it says which caches may keep the code of a failed call. The other modules have none:
their properties pin down the variables that matter, `StringEnds` the buffer of
`read_line` and `NoOverrun` that of the console among them.

### Refinements

| detailed | abstract | mapping | property |
|---|---|---|---|
| ArmBoot | AtomicBoot | `owner` from `pc`, `space` and `irq`; `received` from `mem` and `told` | `ImplementsAtomicBoot`, run ArmBoot; proved |
| Console | LineReader | `done` is `executed`, `cut` that the console was opened again | `LinesKept`, run Console; proved |

### Runs that end in a violation

Each checks what the repository says of itself.

| run | says | what happens |
|---|---|---|
| InitrdToldIsCopied | boot.c:186 "copy initrd into place" | an initrd that cannot be translated is announced in the tags and not copied |
| OptionsDosFile | options.c:60 "stripping linefeeds" | a skipped `\r` advances the index, so a stale byte becomes part of the line |

### Other disagreements

Seen while modelling; the models follow the code, and no run is spent on them.

* boot.c:170 tests `pg->cpu & CPUV_INTEL`, which is not zero for TI and ARM vendor
  bytes either; mem.c:71 compares the masked byte with `==`.
* imgloader.c:142 writes every page of a compiled-in image at offset 0;
  `HandoverComplete` leaves images of several pages out (TODO:2 knows of it).
* `search_file` reports success when `VFSFileSize` fails (imgloader.c:35).
* cocoboot.c:357 sets the index to 0 inside the loop that increments it: an empty
  line right behind a command is skipped and waits in the buffer for more input. Run
  Console sends no empty lines, for which `NoneWaiting` holds.
* The `exit` command does not close the port (cocoboot.c:213, 221); the alert
  says the console is enabled when `SrmOpen` failed (mainform.c:76).
* `call_arm` tests the wrong variable after locking (cocoboot.c:162).
* `EndianFix32` evaluates its argument four times (shared.h:14): each launch calls
  the ARM half up to four times for one field, and a failure may hit one byte only.
* `get_cpu` compares a 12-bit part with the whole of `CPU_SA1100` (cpu.c:82), which is
  never equal: a StrongARM is taken for a PXA27x. `GlobalsTrue` leaves it out.
* `start_irq_trace` shows "Error:" and an address for a trace that did start,
  because `install_irqhandler` returns an address and 0 is taken for success
  (mainform.c:211-216).
* The handler never writes word 15 of a frame (debug.c:193-195 are commented out);
  traceparse.py decodes it. The dump's file is not truncated, so the end of
  a longer earlier dump stays behind a shorter one.
* While a trace holds feature 0 `load_parts` cannot get it: no boot until a relaunch,
  which frees the buffer under the live handler.
* The dump of a trace that was never started follows whatever is at 0x64 and 0x68
  (mainform.c:234 knows of it).
* The files of the firmware dump are created with a leading "/" and opened without
  (fwutils.c:97, 103), which the model takes to be the same file; a dump
  is reported complete without any card.
* `openserial` is read with `atoi`, which makes 0 of a hexadecimal value
  (mainform.c:375).

## What is proved

### The boot sequence

`ArmBootProofs` proves, for every RAM size, every placement of tags and initrd,
every section map and every set of devices that meet `ConstantsAssumption` and
`DevicesAssumption`:

* `TypeCorrect`, `AlwaysFetchMapped`, `AlwaysMasked`, `ReturnIsSafe`,
  `LossIsNamed`: the control properties of run ArmBoot;
* `HandoverIsSafe`: `SafeHandover`;
* `HandoverNeedsSafety`: `OnlySafeHandover`, the converse;
* `BootIsAtomic`: `Spec => ImplementsAtomicBoot`, the refinement of AtomicBoot.

The assumptions say that the tags fit in RAM, that the loaded images lie in RAM and
overlap neither each other nor the running code, that a command line (of an empty one, its
terminator) is no word of the running code, and that the table at entry maps the code and the stack where they are.
The one about the command line was found by the proof: a command line inside the code
could be overwritten by a copy of itself, and nothing would be lost in a layout
that `Safe` calls unsafe.

None of these invariants is inductive. `Inv` is the conjunction of

* `TypeOK`;
* `ControlInv`: which values of `pc` go with which address space, interrupt
  mask, MMU state and protection (a step must know that the ones before it ran).
  The refinement needs one conjunct more than the safety theorems, that all steps
  from the jump on are in the physical space, so that none of them gives the
  machine back;
* `TableInv`: the table differs from the one at entry in the code's section at
  most, and from the jump on maps that section to itself;
* `MemoryInv`: before the tags nothing is written, and during and after the
  copy memory is exactly the function `Expected` of the number of words copied, in
  every safe layout. This carries the argument for overlapping copies: a word
  still to be copied has not been overwritten, because copying runs forward and the
  destination is below the source or apart from it (`SourceIntact`);
* `LossInv`: only tags and destination are ever written, so code that is
  damaged lies in one of them.

`InitInv` and the step lemmas (`TypeStep`, `ControlStep`, `TableStep`,
`MemoryStep`, `LossStep`) give `Invariant`, and each theorem follows from it.
`BootIsAtomic` adds the step simulation: under `Inv` each step of `boot_linux` is a
step of AtomicBoot or a stutter. Two of the steps carry the weight. `Enter` hands
over (`HandoverStep`), and what is received is what was passed because a clear request
is safe and then memory is `Intact` (`SafeIsIntact`, `ReceivedWhenSafe`).
`Derail` loses the machine, and after the commit only for a request that is not clear,
because in a safe layout the running code is never overwritten (`AliveWhenSafe`).

`HandoverNeedsSafety` needs to know memory in every layout, not in the safe ones only.
`CopyInv` says what `n` words copied have made of it: outside the destination what the
tags left, inside it word by word the source as it was when its turn came, which for an
overlap is a word copied before. From there each way a layout can be unsafe is followed
to the word that is wrong: the tags are no image (`TagsAreNoImage`), and a word
written twice cannot hold both (`IntactIsSafe`).

### The loader

`LoaderProofs` proves, for every set of volumes, cards, files, compiled-in images and
sizes that meets `LoaderAssumption`, with cards moving between any two calls and
`FtrPtrNew` refusing at will:

* `ChunksGivenBack`: `NothingHeld`;
* `KernelIsKept`: `KernelStays`;
* `OneFileHandedOver`: `OneFile`;
* `CrashIsNamed`: `CrashOnlyTo`;
* `HandoverIsComplete`: `HandoverComplete`.

`NothingHeld` speaks of three points of the program only. What holds everywhere is
`ChunkInv`: which of the two chunks may be held, by job, image and `pc`. It needs two
facts more. `boot_linux` frees by the sizes it recorded, so an image that was loaded must
have a size other than 0 (`SizeKnown`: a boot reads only while `ask > 0`, and `ask` never
exceeds `size`); and `VFSFileSize` is asked only of a file that exists (`FileThere`).
`KernelIsKept` follows from `ChunkInv`: once the kernel has a size, the image being
worked on is the initrd, in the other slot. `OneFileHandedOver` adds `PartsInv`: every
image with a size that was not compiled in is the beginning of one file, because a read
that ends early never has the size wanted, and a partial read leaves no size; `LengthInv` says
where that size is from. A read that leaves every image within its chunk left nothing of the
other image overwritten (`FittingRead`), and no step before makes an image fit again
(`FitsKept`).
`HandoverIsComplete` adds `CalmInv`, for as long as no card has moved: the search has
passed no volume that holds the image, what was found is what is read, what
was loaded is whole, and an initrd is loaded only when `check_image` found one.

### The calls

`ArmCallProofs` proves `ArgumentsInPlace` and `StackGivenBack` for every `Capacity`, any
number of calls and both orders of evaluation. The invariant `StackInv` says what lies on the
stack above the words that failed calls left there: nothing in the application, the
arguments in `call_arm`, and the arguments, the function and the globals in `arm_entry`.
`PopsReverse` is the lemma on the callers: each pushes its arguments in the opposite
order of the parameters that `arm_entry` pops.

### The memory trace

`DumpProofs` proves `HarmIsCaused` (`HarmNeedsCause`) for every number of chunks
and every size of buffer, frame and batch, with accesses trapped between any two steps of
the installation. `Installed` is the invariant: until a launch frees feature 0 the
buffer is granted once, so there is one installation; nothing is trapped before its last
step, each step has set what the next one relies on, and the pointer has moved one
frame per access at most.

`DumpCopiesTrace` (`DumpIsTrace`) and `DumpsAreWhole` (`WholeFrames`) rest on `FileInv`.
Its parts are `TraceKept`, that until a launch frees feature 0 the buffer holds
every access since the trace began and the file what the dump has copied so far, which
is what was there when it was asked for although the pointer moves on meanwhile; and
`FramesWhole`, that the pointer, the end of each dump and, between dumps, the file are at
whole frames. The first says nothing of words 15 of a frame or beyond the buffer.

### Page tables

`MmuProofs` proves, for every number and size of sections, every page table and every
end of the dump:

* `HalvesAgreeWithMmu`: `TranslationsAgree`;
* `BackAndForth`: `RoundTrip`;
* `MemoryMapExact`: `DumpExact`.

`MmuAssumption` says what the ARM architecture says of tables: a first-level entry leads to a
section or to a table of its own kind, the index of a page lies in its table, and a
coarse table has no tiny pages. The last two had to be added for the proof; without
them `virt_to_phys`, which looks at the kind of the page only, differs from the
MMU. The invariant of the first two is `TableOK`, that the live table is such a
table. `MemoryMapExact` needs `DumpInv`: the scan is in a range that began at some
section `f`, is straight from there, and what has been written covers exactly the mapped
sections before `f` (`Covers`). A range that is not mapped has 0 for its
physical address, which is why the property, and the invariant, leave out tables where
a mapped section can be confused with that.

### ELF loading

`ElfProofs` proves `ElfKernelLoaded` (`SegmentsLoaded`) for any number of headers, any
sizes, places, word sizes and contents of RAM. Under the conditions of the property
`ElfInv` says at every word copied or cleared: headers not read yet are as they were or
cleared and of no effect, the source of every segment still to come is as it was, every
segment that is done has its words and its zeros and keeps them, and the distance in
`pvdelta` is that of every segment to come. The proof found the condition `Apart` too weak: a
header that loads nothing may be cleared by a segment that covers it, but not
overwritten by words of the file, which could make it one that loads. The run did not have
such a header before, and now does.

### Machine detection

`StartProofs` proves, for every set of devices and choice of failing
calls, `CachesTyped` (`TypeOK`), `FailuresStayLocal` (`GlobalsTrue`) and `RamRoundedUp`
(`RamSizeExact`). `MachineInv` says of each field of `arm_globals`, from its own step on and
not only at the end, what it holds unless the call made for it failed, and that no identity
is cached before the step that asks for it. `RamRoundedUp` is about RAM sizes that are a
power of two from 2 MB on (`RamSizes`), which are all that the code can answer; the
arithmetic is on those eleven.

### The console

`ConsoleProofs` proves, for every alphabet, set of lines, size of the buffer, number of
lines and openings, and every way of cutting the bytes into batches:

* `NoLineLeft`: `NoneWaiting`;
* `PoliteHostFits`: `NoOverrun`;
* `ConsoleReadsLines`: `Spec => LinesKept`, the refinement of LineReader, for hosts that
  send no empty lines.

The invariants are about the stream, what is in the buffer followed by what is on the
wire. `Scanned`: no byte the scan has passed is a line end, although it skips one after each
command, because behind a line end comes the next line or the `\n` that was popped
with it. `OneLine`: a polite host has one line under way at most, and none while it
sees a prompt. `LineInv`: there are places `off[n]` at which the lines sent begin in
the stream (negative when part of a line is gone), and as long as the console was opened
once the next line to be run begins at 0, or at 1 behind the `\n` that a batch cut off. So
the bytes up to a line end are the rest of one line (`CommandIs`), and the whole of the
next one unless the console was opened again.

### The configuration file

`StartProofs` proves, for every alphabet, set of options, size of the buffer and of a
value, and every file that meets `OptionsAssumption`:

* `ConfigIsObeyed`: `OptionsFollowLines`;
* `FaultsAreReported`: `ErrorsNameTheirLines`;
* `LinesStayInBuffer`: `StringEnds`.

The proof has two halves. `ParsedAsMeant` is about one line and no state: on the bytes of a
text the parser's trimming and cutting find the key, the value or the fault that `Means`
says the text has (`TrimWord`, `SilentIsIgnored`, `DividedAtEquals`). `ReadInv` is about the
reader: in a file of plain lines the first `i` bytes of the buffer are the first `i` of line
`line_no` (`InLine`), so that at its `\n` the string in the buffer is that text whatever
earlier lines left behind it (`StringIsText`). The options and reports of all lines behind
follow from those of all but the last (`MeantMore`, `FaultsMore`); one step adds one line, so
no induction over the file is needed.

### The firmware dump

`DumpProofs` proves, for every number of cards, every helper and firmware, with cards moving
and writes failing at will and any number of dumps:

* `HelperDumped`: `HelperWhole`;
* `FirmwareDumped`: `FirmwareWhole`, both directions: what is dumped is the firmware for
  the sizes of `Guessed` and is not for any other;
* `DumpsAppend`: `AddedInOrder`.

`HelperInv` says that no marker is left between `sptr` and `optr`, that what has been added
is in order and below `sptr`, and that on every card of an undisturbed dump it is all that
is in front of `sptr` but the markers. `FirmwareInv` says the same of the records:
`Bytes(0, Reached(i))` while the chunks are found again, and if they are not, one of two
things that cannot be mended (`Broken`): too little of two records, or a byte from behind
the first. That these are the only two is `ChunkIs`, on what `getChunkSZ` makes of the mean
of the records.

The last two theorems take `IntBits = 16`, the width of an int on the 68k, as a hypothesis.
The powers of two up to 16 bits can be listed (`PowerTable`); for every width they
would need induction over the exponent. The run has ints of 4 bits, at which every case
of `Guessed` occurs within ten bytes.

### Only model-checked

* Liveness (`Terminates`, `JobEnds`, `EveryLineRuns`, `ConfigEnds`): liveness under
  fairness and ENABLED are beyond the prover used here.
* `OnlyThen` of Elf is about the instance of the run: it takes every segment that
  loads to have words, and distances in which a segment of no words differs from the
  others do no harm in general.

No module declares a recursive operator.

## Not modelled

* The data cache: boot.c:52 switches it off without cleaning it. Whether dirty lines
  are left depends on Palm OS and on the CPU's write policy, which the sources do
  not say; the same goes for a chunk's physical pages being contiguous.
* The effect of the console's memory commands (`mb`, `mh`, `mw`) on memory: they read
  and write any address they are given and keep no state of their own. This and the
  `help`, `exit` and `ping` texts are why the console is listed as partly modelled.
* Drawing, formatting and logging: `lcd_info`, `cpu_info`, `show_gsm_code`, `log_write`,
  and the texts of alerts.
* The diagnostic functions of arm.c (`fb_test`, `foobar`, `testfunc`, `decode_bpp`), the
  host tools and the ELF test kernel, which take no part in a boot.
* What `call_arm` does once it goes on with a null code pointer, which is undefined.
* `map_mem`, which nothing calls, and the byte order of `arm_stack`'s count.
* Which chunk lies behind which, and what the system does when its memory is overwritten.

`PROJECT.json` gives the status of each component.

## Plan

1. done: ArmBoot, Mmu, Loader, ArmCall, Console, Options; IrqTrace, Elf, Machine,
   FwDump; AtomicBoot and LineReader with their refinements;
2. done: proofs about every module, both refinements among them;
3. the tagged list word by word, read back the way a kernel reads it, in ArmBoot;
4. a composition of Loader, ArmCall and ArmBoot, from the tap to the kernel.
