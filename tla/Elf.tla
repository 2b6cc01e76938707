-------------------------------- MODULE Elf --------------------------------
(***************************************************************************)
(* relocate_elf in arm/elf.c, the end of a boot when the kernel is an ELF  *)
(* image.  The MMU is off.  Each loadable segment is cleared and copied to *)
(* its place while the image it comes from, with the headers that say what *)
(* to do next, the code and the stack lie in the same memory.              *)
(*                                                                         *)
(* Memory is by word: mem[a] is Zero, <<"file", n>> for word n of the      *)
(* image file or <<"old", a>> for what was there before.  The ELF header   *)
(* and each program header take one word.  Sizes are in bytes.             *)
(***************************************************************************)
EXTENDS Integers, Sequences

CONSTANTS
  MemTop,    \* the last word of RAM
  WordSize,  \* 4: bytes of a word
  Images     \* the situations in which relocate_elf may be called

Addr == 0 .. MemTop
NoHeader == [load |-> FALSE, vaddr |-> 0, paddr |-> 0, offset |-> 0, filesz |-> 0, memsz |-> 0]

(* Where the image is and how long, its program headers in order, and the  *)
(* words that hold the running code and its stack.  Addresses and offsets  *)
(* are in words.                                                           *)
ImageType ==
  [ img : Addr, words : Nat, live : SUBSET Addr,
    phdr : Seq([load : BOOLEAN, vaddr : Nat, paddr : Nat, offset : Nat,
                filesz : Nat, memsz : Nat]) ]

AllBytes(n) == (n + WordSize - 1) \div WordSize
Loads(e) == {n \in 1 .. Len(e.phdr) : e.phdr[n].load}
Data(h) == {h.paddr + j : j \in 0 .. AllBytes(h.filesz) - 1}
Place(h) == {h.paddr + j : j \in 0 .. AllBytes(h.memsz) - 1} \cup Data(h)
Source(e, h) == {e.img + h.offset + j : j \in 0 .. AllBytes(h.filesz) - 1}

(* The image lies in RAM, away from the code and the stack, its headers    *)
(* and sources lie in it, and its segments have places of their own.       *)
WellFormed(e) ==
  /\ e.img + e.words - 1 \in Addr /\ Len(e.phdr) < e.words
  /\ e.live \cap (e.img .. e.img + e.words - 1) = {}
  /\ \A n \in Loads(e) : LET h == e.phdr[n] IN
       /\ h.filesz <= h.memsz
       /\ Source(e, h) \subseteq e.img .. e.img + e.words - 1
       /\ \A m \in Loads(e) \ {n} : Place(h) \cap Place(e.phdr[m]) = {}

ASSUME ElfAssumption ==
  /\ MemTop \in Nat /\ WordSize \in Nat \ {0}
  /\ \A e \in Images : e \in ImageType /\ WellFormed(e)

VARIABLES
  pc,       \* "head", "clear", "copy", "enter", "entered" or "lost"
  elf,      \* the image; never changes
  mem,      \* RAM
  i,        \* the program header, from 0
  pvdelta,
  seg,      \* the arguments of copy_section, in words
  k,        \* the index of its loops
  pspr      \* the machine id was put where the kernel looks for it

vars == <<pc, elf, mem, i, pvdelta, seg, k, pspr>>

Zero == <<"zero", 0>>
FileWord(n) == <<"file", n>>
InFile(e, a) == a \in e.img .. e.img + e.words - 1
NoSegment == [dst |-> 0, src |-> 0, clear |-> 0, copy |-> 0]

Init ==
  /\ pc = "head" /\ elf \in Images
  /\ mem = [a \in Addr |-> IF InFile(elf, a) THEN FileWord(a - elf.img) ELSE <<"old", a>>]
  /\ i = 0 /\ pvdelta = 0 /\ seg = NoSegment /\ k = 0 /\ pspr = FALSE

Alive == \A a \in elf.live : mem[a] = <<"old", a>>
Intact(n) == mem[elf.img + n] = FileWord(n)
Wiped(n) == mem[elf.img + n] = Zero

(* Program header i, read from memory as it is by now.  A cleared header   *)
(* is one of type 0.                                                       *)
Readable(n) == Intact(1 + n) \/ Wiped(1 + n)
Header(n) == IF Wiped(1 + n) \/ n >= Len(elf.phdr) THEN NoHeader ELSE elf.phdr[n + 1]

More(n) == n < Len(elf.phdr)

OwnDelta(h) == h.vaddr - h.paddr
Delta(h) == IF pvdelta = 0 THEN h.vaddr - h.paddr ELSE pvdelta

WholeWords(n) == n \div WordSize
CopyAll(h) == WholeWords(h.memsz)
CopySize(h) == WholeWords(h.filesz)

(* copy_section's pointers: dst is made physical, src is the word offset   *)
(* in the image.  The code also divides p_offset and the distance by four; *)
(* what is lost of those that are no whole words is left out.              *)
Segment(h, delta) ==
  [ dst |-> h.vaddr - delta, src |-> elf.img + h.offset,
    clear |-> WholeWords(h.memsz), copy |-> CopySize(h) ]

ReadHeader ==
  /\ pc = "head" /\ Alive /\ Intact(0)
  /\ More(i) /\ Readable(i)
  /\ pvdelta' = Delta(Header(i))
  /\ IF Header(i).load
       THEN seg' = Segment(Header(i), pvdelta') /\ pc' = "clear" /\ UNCHANGED i
       ELSE i' = i + 1 /\ UNCHANGED <<seg, pc>>
  /\ k' = 0
  /\ UNCHANGED <<elf, mem, pspr>>

(* A store outside RAM has no effect.                                      *)
Stored(a, w) == IF a \in Addr THEN [mem EXCEPT ![a] = w] ELSE mem

ClearWord ==
  /\ pc = "clear" /\ Alive
  /\ IF k < seg.clear
       THEN /\ mem' = Stored(seg.dst + k, Zero)
            /\ k' = k + 1 /\ UNCHANGED pc
       ELSE k' = 0 /\ pc' = "copy" /\ UNCHANGED mem
  /\ UNCHANGED <<elf, i, pvdelta, seg, pspr>>

Load(a) == IF a \in Addr THEN mem[a] ELSE <<"old", a>>

CopyWord ==
  /\ pc = "copy" /\ Alive
  /\ IF k < seg.copy
       THEN /\ mem' = Stored(seg.dst + k, Load(seg.src + k))
            /\ k' = k + 1 /\ UNCHANGED <<pc, i>>
       ELSE pc' = "head" /\ i' = i + 1 /\ UNCHANGED <<mem, k>>
  /\ UNCHANGED <<elf, pvdelta, seg, pspr>>

EndHeaders ==
  /\ pc = "head" /\ Alive /\ Intact(0)
  /\ ~ More(i)
  /\ pc' = "enter"
  /\ UNCHANGED <<elf, mem, i, pvdelta, seg, k, pspr>>

(* Mask interrupts, store the machine id and jump: boot_elf.               *)
Enter ==
  /\ pc = "enter" /\ Alive
  /\ pspr' = TRUE
  /\ pc' = "entered"
  /\ UNCHANGED <<elf, mem, i, pvdelta, seg, k>>

(* The code or the stack was overwritten, or a header by something that is *)
(* no header: what happens next is not known.                              *)
Derail ==
  /\ \/ ~ Alive /\ pc \in {"head", "clear", "copy", "enter"}
     \/ pc = "head" /\ ~ Intact(0)
     \/ pc = "head" /\ More(i) /\ ~ Readable(i)
  /\ pc' = "lost"
  /\ UNCHANGED <<elf, mem, i, pvdelta, seg, k, pspr>>

Next == ReadHeader \/ ClearWord \/ CopyWord \/ EndHeaders \/ Enter \/ Derail
Spec == Init /\ [][Next]_vars

----------------------------------------------------------------------------
(* Properties.                                                             *)

(* What an ELF kernel must find: each segment at its physical address, the *)
(* bytes of the file and then zeros.                                       *)
Loaded ==
  \A n \in Loads(elf) : LET h == elf.phdr[n] IN
    /\ Place(h) \subseteq Addr
    /\ \A a \in Data(h) : mem[a] = FileWord(h.offset + a - h.paddr)
    /\ \A a \in Place(h) \ Data(h) : mem[a] = Zero

(* All headers from the first that is not mapped to itself on have the     *)
(* same distance between virtual and physical addresses.                   *)
OneDistance ==
  \A m \in 1 .. Len(elf.phdr), n \in Loads(elf) :
    m < n /\ elf.phdr[m].vaddr # elf.phdr[m].paddr =>
      elf.phdr[n].vaddr - elf.phdr[n].paddr = elf.phdr[m].vaddr - elf.phdr[m].paddr

Words == \A n \in Loads(elf) : elf.phdr[n].filesz % WordSize = 0 /\ elf.phdr[n].memsz % WordSize = 0

(* Nothing is written before it is last used: no segment is put on its own *)
(* source or that of a later one, on a header still to be read or on the   *)
(* running code.  (To clear a header that loads nothing does no harm.)     *)
Apart ==
  \A n \in Loads(elf) : LET h == elf.phdr[n] IN
    /\ Place(h) \subseteq Addr
    /\ Place(h) \cap elf.live = {}
    /\ elf.img \notin Place(h)
    /\ \A m \in 1 .. Len(elf.phdr) : m > n => elf.img + m \notin Data(h)
    /\ \A m \in Loads(elf) : m > n =>
         /\ elf.img + m \notin Place(h)
         /\ Place(h) \cap Source(elf, elf.phdr[m]) = {}
    /\ Place(h) \cap Source(elf, h) = {}

(* An ELF kernel with one distance, whole words and its segments apart     *)
(* from the image is entered with all of its segments in place.            *)
SegmentsLoaded ==
  /\ pc = "entered" /\ OneDistance /\ Words /\ Apart => Loaded
  /\ pc = "lost" => ~ (OneDistance /\ Words /\ Apart)

(* A segment that the loader happened to put where it belongs.             *)
InPlace == \E n \in Loads(elf) : elf.phdr[n].paddr = elf.img + elf.phdr[n].offset

(* No weaker condition will do for kernels whose segments have words to    *)
(* load: any other that is entered at all lacks some of them.              *)
OnlyThen == pc = "entered" /\ Loaded /\ ~ InPlace => OneDistance /\ Words /\ Apart
=============================================================================
