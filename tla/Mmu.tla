-------------------------------- MODULE Mmu --------------------------------
(***************************************************************************)
(* The page table as both halves of the program read it: virt_to_phys and  *)
(* phys_to_virt in m68k/mem.c and arm/arm.c, and dump_mmu in               *)
(* m68k/mainform.c, which walks it section by section and writes the       *)
(* ranges it finds to /memorymap.txt.  map_mem, which would change it, is  *)
(* called from nowhere in either half.                                     *)
(*                                                                         *)
(* An address is <<section, offset>>, virtual or physical.  A first-level  *)
(* entry maps a section, or names a second-level table whose entries map   *)
(* pages to the physical address in their "to".                            *)
(***************************************************************************)
EXTENDS Integers, Sequences, FiniteSetsExt

CONSTANTS
  NSec,         \* 4096: sections of the address space, and table entries
  SectionSize,  \* 1 MB
  LargeSize,    \* 64 KB
  PageSize,     \* 4 KB
  TinySize,     \* 1 KB
  Coarse, Fine, \* numbers of the second-level tables of either kind
  Level2,       \* Level2[t][k]: entry k of second-level table t
  Tables,       \* the first-level tables Palm OS may have set up
  DumpEnd       \* 4080: the section where dump_mmu stops

Section == 0 .. NSec - 1
Offset == 0 .. SectionSize - 1
Address == Section \X Offset
Null == <<0, 0>>

Kind == {"invalid", "section", "coarse", "fine"}
Entry == [kind : Kind, to : Nat]
PageEntry == [kind : {"invalid", "large", "small", "tiny"}, to : Address]

(* A second-level table has an entry for every page, and only fine tables  *)
(* hold tiny pages.                                                        *)
ASSUME MmuAssumption ==
  /\ {NSec, SectionSize, LargeSize, PageSize, TinySize} \subseteq Nat \ {0}
  /\ Coarse \cup Fine \subseteq Nat
  /\ Tables \subseteq [Section -> Entry]
  /\ \A t \in Tables, s \in Section :
       /\ t[s].kind = "section" => t[s].to \in Section
       /\ t[s].kind = "coarse" => t[s].to \in Coarse
       /\ t[s].kind = "fine" => t[s].to \in Fine
  /\ Level2 \in [Coarse \cup Fine -> [0 .. SectionSize \div TinySize - 1 -> PageEntry]]
  /\ \A o \in Offset : {o \div PageSize, o \div TinySize} \subseteq 0 .. SectionSize \div TinySize - 1
  /\ \A t \in Coarse, o \in Offset : Level2[t][o \div PageSize].kind # "tiny"
  /\ DumpEnd \in 1 .. NSec

VARIABLES
  tt,         \* the first-level table
  vttb,       \* its address as the program sees it is not 0
  pc,         \* "idle", "scan" in the loop of dump_mmu, or "done"
  addr,       \* the section dump_mmu is at
  first, last,  \* the first and last pair <<virtual, physical section>> of
                \* the range dump_mmu is in, or None
  lines       \* the lines written: <<first, last>>

vars == <<tt, vttb, pc, addr, first, last, lines>>
table == <<tt, vttb>>

None == <<"none">>     \* 0xffff, which no section begins at

Init ==
  /\ tt \in Tables /\ vttb \in BOOLEAN
  /\ pc = "idle" /\ addr = 0 /\ first = None /\ last = None /\ lines = <<>>

----------------------------------------------------------------------------
(* Translations.                                                           *)

(* The 68k half only knows sections.                                       *)
SectionOrTable(e) == e.kind # "invalid"
IsSection(e) == e.kind = "section"

VirtToPhys68k(t, v) == IF IsSection(t[v[1]]) THEN <<t[v[1]].to, v[2]>> ELSE Null

(* The address in a page of the given size that starts at to.              *)
InPage(to, size, offset) == <<to[1], to[2] + (offset % size)>>

LargePage(e, offset) == InPage(e.to, LargeSize, offset)

(* The ARM half goes on to the second level, in a fine table at the entry  *)
(* a coarse one would have, and takes an entry of no known kind for a page *)
(* of the size the table is made for.                                      *)
PageOf(e, offset, other) ==
  CASE e.kind = "small" -> InPage(e.to, PageSize, offset)
    [] e.kind = "large" -> LargePage(e, offset)
    [] OTHER            -> InPage(e.to, other, offset)

VirtToPhysArm(t, v) ==
  LET e == t[v[1]]
      page == Level2[e.to][v[2] \div PageSize]
  IN CASE e.kind = "invalid" -> Null
       [] e.kind = "section" -> <<e.to, v[2]>>
       [] e.kind = "coarse"  -> PageOf(page, v[2], PageSize)
       [] e.kind = "fine"    -> PageOf(page, v[2], TinySize)

(* The first section in the table that maps the physical section.          *)
EntriesTo(t, s) == {i \in Section : t[i].to = s}
SectionsTo(t, s) == {i \in Section : t[i].kind = "section" /\ t[i].to = s}

PhysToVirt(t, p) ==
  IF vttb /\ SectionsTo(t, p[1]) # {} THEN <<Min(SectionsTo(t, p[1])), p[2]>> ELSE Null

----------------------------------------------------------------------------
(* dump_mmu.                                                               *)

(* The card and the file on it may be missing.                             *)
DumpMmu ==
  /\ pc = "idle"
  /\ pc' \in {"scan", "done"}
  /\ UNCHANGED <<table, addr, first, last, lines>>

AtEnd == addr >= DumpEnd

PhysOf(s) == VirtToPhys68k(tt, <<s, 0>>)[1]

(* Physical addresses wrap around at 2^32.                                 *)
SamePlace(p, q) == q # None /\ p = q[2]
Follows(p, q) == q # None /\ p = (q[2] + 1) % NSec

AddRange == lines' = Append(lines, <<first, last>>)

(* One section: it extends the range, or starts a new one, and then the    *)
(* old one is written unless it began at physical 0.                       *)
ScanSection ==
  /\ pc = "scan" /\ ~ AtEnd
  /\ last' = <<addr, PhysOf(addr)>>
  /\ IF Follows(PhysOf(addr), last)
       THEN UNCHANGED <<first, lines>>
       ELSE /\ first' = <<addr, PhysOf(addr)>>
            /\ IF first # None /\ first[2] # 0 THEN AddRange ELSE UNCHANGED lines
  /\ addr' = addr + 1
  /\ UNCHANGED <<table, pc>>

(* The last range is written in any case.                                  *)
EndDump ==
  /\ pc = "scan" /\ AtEnd
  /\ AddRange
  /\ pc' = "done"
  /\ UNCHANGED <<table, addr, first, last>>

Next == DumpMmu \/ ScanSection \/ EndDump
Spec == Init /\ [][Next]_vars

----------------------------------------------------------------------------
(* Properties.                                                             *)

(* What the MMU makes of an address: a physical address, or a fault.       *)
Fault == <<"fault">>
PageWalk(e, offset) ==
  CASE e.kind = "invalid" -> Fault
    [] e.kind = "tiny"    -> InPage(e.to, TinySize, offset)
    [] e.kind = "small"   -> InPage(e.to, PageSize, offset)
    [] e.kind = "large"   -> InPage(e.to, LargeSize, offset)
Walk(t, v) ==
  LET e == t[v[1]]
  IN CASE e.kind = "invalid" -> Fault
       [] e.kind = "section" -> <<e.to, v[2]>>
       [] e.kind = "coarse"  -> PageWalk(Level2[e.to][v[2] \div PageSize], v[2])
       [] e.kind = "fine"    -> PageWalk(Level2[e.to][v[2] \div TinySize], v[2])

(* The ARM half finds the physical address the MMU would use, wherever the *)
(* MMU finds one without a fine table (which arm.c says it gets wrong),    *)
(* and the 68k half never disagrees: it gives the same address or none,    *)
(* and none only where the section is not mapped as a whole.               *)
TranslationsAgree ==
  \A v \in Address :
    /\ tt[v[1]].kind # "fine" /\ Walk(tt, v) # Fault => VirtToPhysArm(tt, v) = Walk(tt, v)
    /\ VirtToPhys68k(tt, v) =
         IF tt[v[1]].kind = "section" THEN VirtToPhysArm(tt, v) ELSE Null

(* phys_to_virt gives an address that reaches the physical address it was  *)
(* asked for.  It gives none only where no section reaches that address,   *)
(* where the address to give is 0, or where the table itself is at 0.      *)
RoundTrip ==
  \A p \in Address :
    IF PhysToVirt(tt, p) # Null
      THEN Walk(tt, PhysToVirt(tt, p)) = p
      ELSE vttb /\ Walk(tt, Null) # p =>
             ~ \E v \in Address : tt[v[1]].kind = "section" /\ Walk(tt, v) = p

(* If no section maps to the bottom two or the top section of physical     *)
(* memory, which the 0 for "not mapped" can be confused with, the written  *)
(* ranges are exactly the sections mapped below the end of the dump; a     *)
(* last range that begins at 0 says nothing.                               *)
Written(l) == {<<v, l[1][2] + v - l[1][1]>> : v \in l[1][1] .. l[2][1]}
Telling == {k \in DOMAIN lines : lines[k][1][2] # 0}
DumpExact ==
  pc = "done" /\ lines # <<>>
    /\ (\A s \in Section : tt[s].kind = "section" => tt[s].to \notin {0, 1, NSec - 1})
  => UNION {Written(lines[k]) : k \in Telling}
       = {<<s, tt[s].to>> : s \in {i \in 0 .. DumpEnd - 1 : tt[i].kind = "section"}}
=============================================================================
