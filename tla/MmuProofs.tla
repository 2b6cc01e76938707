----------------------------- MODULE MmuProofs -----------------------------
(***************************************************************************)
(* Proofs about the translations and the memory map, for page tables of    *)
(* every size and content.                                                 *)
(***************************************************************************)
EXTENDS Mmu, WellFoundedInduction, TLAPS

(* A first-level entry leads to a section or to a table of its own kind.   *)
EntryOK(e) ==
  /\ e.kind = "section" => e.to \in Section
  /\ e.kind = "coarse" => e.to \in Coarse
  /\ e.kind = "fine" => e.to \in Fine

TableOK ==
  /\ tt \in [Section -> Entry]
  /\ \A s \in Section : EntryOK(tt[s])

LEMMA Sizes == NSec \in Nat \ {0} /\ DumpEnd \in 1 .. NSec
BY MmuAssumption

(* The smallest of a set of sections.                                      *)
LEMMA MinSection ==
  ASSUME NEW S, S \subseteq Section, S # {}
  PROVE  Min(S) \in S
<1>1. S \subseteq Nat
  BY DEF Section
<1>2. PICK n \in S : \A m \in S : ~ (<<m, n>> \in OpToRel(<, Nat))
  BY <1>1, WFMin, NatLessThanWellFounded
<1>3. \A m \in S : ~ (m < n)
  BY <1>1, <1>2, Zenon DEF OpToRel
<1>4. \A m \in S : n <= m
  BY <1>1, <1>3
<1> QED
  BY <1>4 DEF Min

LEMMA InitTable == Init => TableOK
BY MmuAssumption DEF Init, TableOK, EntryOK

LEMMA TableStep == TableOK /\ [Next]_vars => TableOK'
BY DEF Next, DumpMmu, ScanSection, EndDump, vars, table, TableOK

----------------------------------------------------------------------------
(* Wherever the MMU finds a physical address without a fine table, the ARM *)
(* half finds the same one; the 68k half finds it or none, and none only   *)
(* where the section is not mapped as a whole.                             *)
THEOREM HalvesAgreeWithMmu == Spec => []TranslationsAgree
<1>1. TableOK => TranslationsAgree
  <2> SUFFICES ASSUME TableOK, NEW v \in Address
               PROVE  /\ tt[v[1]].kind # "fine" /\ Walk(tt, v) # Fault => VirtToPhysArm(tt, v) = Walk(tt, v)
                      /\ VirtToPhys68k(tt, v) =
                           IF tt[v[1]].kind = "section" THEN VirtToPhysArm(tt, v) ELSE Null
    BY DEF TranslationsAgree
  <2> DEFINE e == tt[v[1]]
             page == Level2[e.to][v[2] \div PageSize]
  <2>1. v[1] \in Section /\ v[2] \in Offset /\ e \in Entry /\ EntryOK(e)
    BY DEF Address, TableOK
  <2>2. e.kind \in {"invalid", "section", "coarse", "fine"}
    BY <2>1 DEF Entry, Kind
  <2>3. ASSUME e.kind = "coarse"
        PROVE  page.kind \in {"invalid", "large", "small"}
    <3>1. e.to \in Coarse /\ v[2] \div PageSize \in 0 .. SectionSize \div TinySize - 1
      BY <2>1, <2>3, MmuAssumption DEF EntryOK
    <3>2. page \in PageEntry
      BY <3>1, MmuAssumption
    <3>3. page.kind # "tiny"
      BY <2>1, <3>1, MmuAssumption
    <3> QED
      BY <3>2, <3>3 DEF PageEntry
  <2> HIDE DEF page
  <2>4. CASE e.kind = "invalid"
    BY <2>4 DEF Walk, VirtToPhysArm, VirtToPhys68k, IsSection
  <2>5. CASE e.kind = "section"
    BY <2>5 DEF Walk, VirtToPhysArm, VirtToPhys68k, IsSection
  <2>6. CASE e.kind = "coarse"
    <3>1. Walk(tt, v) = PageWalk(page, v[2]) /\ VirtToPhysArm(tt, v) = PageOf(page, v[2], PageSize)
      BY <2>6 DEF Walk, VirtToPhysArm, page
    <3>2. PageWalk(page, v[2]) # Fault => PageOf(page, v[2], PageSize) = PageWalk(page, v[2])
      BY <2>3, <2>6 DEF PageWalk, PageOf, LargePage
    <3> QED
      BY <2>6, <3>1, <3>2 DEF VirtToPhys68k, IsSection
  <2>7. CASE e.kind = "fine"
    BY <2>7 DEF VirtToPhys68k, IsSection
  <2> QED
    BY <2>2, <2>4, <2>5, <2>6, <2>7
<1> QED
  BY <1>1, InitTable, TableStep, PTL DEF Spec

(* phys_to_virt gives an address that reaches the one it was asked for, or *)
(* none, which it does only where no section reaches it, where the answer  *)
(* would be address 0, and without a table.                                *)
THEOREM BackAndForth == Spec => []RoundTrip
<1>1. TableOK => RoundTrip
  <2> SUFFICES ASSUME TableOK, NEW p \in Address
               PROVE  IF PhysToVirt(tt, p) # Null
                        THEN Walk(tt, PhysToVirt(tt, p)) = p
                        ELSE vttb /\ Walk(tt, Null) # p =>
                               ~ \E v \in Address : tt[v[1]].kind = "section" /\ Walk(tt, v) = p
    BY DEF RoundTrip
  <2> DEFINE S == SectionsTo(tt, p[1])
             m == Min(S)
  <2>1. p = <<p[1], p[2]>>
    BY DEF Address
  <2>2. S # {} => m \in Section /\ tt[m].kind = "section" /\ tt[m].to = p[1]
    BY MinSection DEF SectionsTo
  <2>3. PhysToVirt(tt, p) = IF vttb /\ S # {} THEN <<m, p[2]>> ELSE Null
    BY DEF PhysToVirt
  <2> HIDE DEF m
  <2>4. S # {} => Walk(tt, <<m, p[2]>>) = p
    BY <2>1, <2>2 DEF Walk
  <2>5. ASSUME S = {}, NEW v \in Address, tt[v[1]].kind = "section" PROVE Walk(tt, v) # p
    <3>1. v[1] \in Section /\ Walk(tt, v) = <<tt[v[1]].to, v[2]>>
      BY <2>5 DEF Walk, Address
    <3>2. tt[v[1]].to # p[1]
      BY <2>5, <3>1 DEF SectionsTo
    <3> QED
      BY <2>1, <3>1, <3>2
  <2> HIDE DEF S
  <2> QED
    BY <2>3, <2>4, <2>5
<1> QED
  BY <1>1, InitTable, TableStep, PTL DEF Spec

----------------------------------------------------------------------------
(* dump_mmu.                                                               *)

MapsWhole(s) == tt[s].kind = "section"

(* No section maps to what the 0 for "not mapped" can be confused with.    *)
Unconfused == \A s \in Section : MapsWhole(s) => tt[s].to \notin {0, 1, NSec - 1}

(* The sections a .. b are mapped one after the other from x on.           *)
Straight(a, b, x) == \A v \in a .. b : MapsWhole(v) /\ tt[v].to = x + v - a

(* The lines numbered K hold nothing but mapped sections below n, and all  *)
(* of these.                                                               *)
Line == (Nat \X Nat) \X (Nat \X Nat)
Covers(ls, K, n) ==
  /\ \A k \in K : /\ ls[k] \in Line /\ ls[k][2][1] < n
                  /\ Straight(ls[k][1][1], ls[k][2][1], ls[k][1][2])
  /\ \A s \in 0 .. n - 1 : MapsWhole(s) => \E k \in K : s \in ls[k][1][1] .. ls[k][2][1]

(* The scan is in the range that began at f, and has written all before.   *)
InRange(f) ==
  /\ first = <<f, PhysOf(f)>> /\ last = <<addr - 1, PhysOf(addr - 1)>>
  /\ \A k \in DOMAIN lines : lines[k][1][2] # 0
  /\ Covers(lines, DOMAIN lines, f)
  /\ IF PhysOf(f) = 0 THEN f = addr - 1 /\ ~ MapsWhole(f) ELSE Straight(f, addr - 1, PhysOf(f))

Fresh == addr = 0 /\ first = None /\ last = None /\ lines = <<>>

ScanInv ==
  /\ addr \in 0 .. DumpEnd /\ lines \in Seq(Line)
  /\ Fresh \/ \E f \in 0 .. addr - 1 : InRange(f)

DumpInv ==
  /\ pc = "idle" => Fresh
  /\ pc = "scan" /\ Unconfused => ScanInv
  /\ DumpExact

LEMMA Phys ==
  ASSUME TableOK, Unconfused, NEW s \in Section
  PROVE  IF MapsWhole(s) THEN PhysOf(s) = tt[s].to /\ PhysOf(s) \in 2 .. NSec - 2
                         ELSE PhysOf(s) = 0
<1>1. PhysOf(s) = IF MapsWhole(s) THEN tt[s].to ELSE 0
  BY DEF PhysOf, VirtToPhys68k, IsSection, MapsWhole, Null
<1>2. MapsWhole(s) => tt[s].to \in Section
  BY DEF TableOK, EntryOK, MapsWhole
<1>3. MapsWhole(s) => tt[s].to \notin {0, 1, NSec - 1}
  BY DEF Unconfused
<1> QED
  BY <1>1, <1>2, <1>3, Sizes DEF Section

LEMMA CoverIsExact ==
  ASSUME NEW ls, NEW K, NEW n \in Nat, Covers(ls, K, n)
  PROVE  UNION {Written(ls[k]) : k \in K}
           = {<<s, tt[s].to>> : s \in {i \in 0 .. n - 1 : tt[i].kind = "section"}}
<1> DEFINE W == UNION {Written(ls[k]) : k \in K}
           E == {<<s, tt[s].to>> : s \in {i \in 0 .. n - 1 : tt[i].kind = "section"}}
<1>1. ASSUME NEW k \in K, NEW v \in ls[k][1][1] .. ls[k][2][1]
      PROVE  /\ v \in 0 .. n - 1 /\ tt[v].kind = "section"
             /\ tt[v].to = ls[k][1][2] + v - ls[k][1][1]
  <2>1. ls[k] \in Line /\ ls[k][2][1] < n
    BY DEF Covers
  <2>2. ls[k][1][1] \in Nat /\ ls[k][2][1] \in Nat
    BY <2>1 DEF Line
  <2>3. MapsWhole(v) /\ tt[v].to = ls[k][1][2] + v - ls[k][1][1]
    BY DEF Covers, Straight
  <2> QED
    BY <2>1, <2>2, <2>3 DEF MapsWhole
<1>2. ASSUME NEW x \in W PROVE x \in E
  <2>1. PICK k \in K : x \in Written(ls[k])
    BY <1>2
  <2>2. PICK v \in ls[k][1][1] .. ls[k][2][1] : x = <<v, ls[k][1][2] + v - ls[k][1][1]>>
    BY <2>1 DEF Written
  <2> QED
    BY <1>1, <2>2
<1>3. ASSUME NEW x \in E PROVE x \in W
  <2>1. PICK s \in 0 .. n - 1 : tt[s].kind = "section" /\ x = <<s, tt[s].to>>
    BY <1>3
  <2>2. PICK k \in K : s \in ls[k][1][1] .. ls[k][2][1]
    BY <2>1 DEF Covers, MapsWhole
  <2>3. x = <<s, ls[k][1][2] + s - ls[k][1][1]>>
    BY <1>1, <2>1, <2>2
  <2>4. x \in Written(ls[k])
    BY <2>2, <2>3 DEF Written
  <2> QED
    BY <2>4
<1> QED
  BY <1>2, <1>3

(* Two sections follow each other only if both are mapped.                 *)
LEMMA Following ==
  ASSUME TableOK, Unconfused, addr \in Section \ {0}, last = <<addr - 1, PhysOf(addr - 1)>>
  PROVE  Follows(PhysOf(addr), last)
           <=> PhysOf(addr - 1) # 0 /\ PhysOf(addr) = PhysOf(addr - 1) + 1
<1> DEFINE p == PhysOf(addr)
           q == PhysOf(addr - 1)
<1>1. addr - 1 \in Section /\ NSec \in Nat /\ NSec >= 2
  BY Sizes DEF Section
<1>2. p = 0 \/ p \in 2 .. NSec - 2
  BY Phys
<1>3. q = 0 \/ q \in 2 .. NSec - 2
  BY <1>1, Phys
<1>4. last # None /\ last[2] = q
  BY DEF None
<1>5. Follows(p, last) <=> p = (q + 1) % NSec
  BY <1>4 DEF Follows
<1> HIDE DEF p, q
<1>6. q # 0 => (q + 1) % NSec = q + 1
  BY <1>1, <1>3
<1>7. q = 0 => (q + 1) % NSec = 1
  BY <1>1
<1> QED
  BY <1>2, <1>3, <1>5, <1>6, <1>7 DEF p, q

(* The written range covers its sections, and a range that is not written  *)
(* has none to cover.                                                      *)
LEMMA LineAdded ==
  ASSUME TableOK, Unconfused, addr \in 1 .. NSec, lines \in Seq(Line),
         NEW f \in 0 .. addr - 1, InRange(f), PhysOf(f) # 0
  PROVE  LET ls == Append(lines, <<first, last>>)
         IN /\ ls \in Seq(Line) /\ Covers(ls, DOMAIN ls, addr)
            /\ \A k \in DOMAIN ls : ls[k][1][2] # 0
<1> DEFINE ls == Append(lines, <<first, last>>)
           n == Len(lines)
           l == <<<<f, PhysOf(f)>>, <<addr - 1, PhysOf(addr - 1)>>>>
<1>1. f \in Section /\ addr - 1 \in Section /\ addr \in Nat /\ f \in Nat /\ addr - 1 \in Nat
  BY Sizes DEF Section
<1>2. PhysOf(f) \in Nat /\ PhysOf(addr - 1) \in Nat
  <2>1. PhysOf(f) \in Nat
    BY <1>1, Phys, Sizes
  <2>2. PhysOf(addr - 1) \in Nat
    BY <1>1, Phys, Sizes
  <2> QED
    BY <2>1, <2>2
<1>3. <<first, last>> = l
  BY DEF InRange
<1>4. l \in Line
  BY <1>1, <1>2 DEF Line
<1>5. /\ ls \in Seq(Line) /\ DOMAIN ls = 1 .. n + 1 /\ DOMAIN lines = 1 .. n /\ n \in Nat
      /\ ls[n + 1] = l /\ \A k \in 1 .. n : ls[k] = lines[k]
  BY <1>3, <1>4
<1>6. l[1][1] = f /\ l[1][2] = PhysOf(f) /\ l[2][1] = addr - 1
  OBVIOUS
<1>7. Straight(f, addr - 1, PhysOf(f))
  BY DEF InRange
<1>8. \A k \in 1 .. n : /\ lines[k] \in Line /\ lines[k][2][1] < f
                        /\ Straight(lines[k][1][1], lines[k][2][1], lines[k][1][2])
                        /\ lines[k][1][2] # 0
  BY <1>5 DEF InRange, Covers
<1>9. \A s \in 0 .. f - 1 : MapsWhole(s) => \E k \in 1 .. n : s \in lines[k][1][1] .. lines[k][2][1]
  BY <1>5 DEF InRange, Covers
<1> HIDE DEF ls, n, l
<1>10. ASSUME NEW k \in 1 .. n + 1
       PROVE  /\ ls[k] \in Line /\ ls[k][2][1] < addr
              /\ Straight(ls[k][1][1], ls[k][2][1], ls[k][1][2])
              /\ ls[k][1][2] # 0
  <2>1. CASE k = n + 1
    BY <1>1, <1>4, <1>5, <1>6, <1>7, <2>1
  <2>2. CASE k # n + 1
    <3>1. k \in 1 .. n /\ ls[k] = lines[k]
      BY <1>5, <2>2
    <3>2. lines[k][2][1] \in Nat
      BY <1>8, <3>1 DEF Line
    <3> QED
      BY <1>1, <1>8, <3>1, <3>2
  <2> QED
    BY <2>1, <2>2
<1>11. ASSUME NEW s \in 0 .. addr - 1, MapsWhole(s)
       PROVE  \E k \in 1 .. n + 1 : s \in ls[k][1][1] .. ls[k][2][1]
  <2>1. CASE s < f
    <3>1. PICK k \in 1 .. n : s \in lines[k][1][1] .. lines[k][2][1]
      BY <1>1, <1>9, <1>11, <2>1
    <3> QED
      BY <1>5, <3>1
  <2>2. CASE ~ s < f
    <3>1. s \in f .. addr - 1
      BY <1>1, <2>2
    <3> QED
      BY <1>5, <1>6, <3>1
  <2> QED
    BY <2>1, <2>2
<1>12. Covers(ls, DOMAIN ls, addr)
  BY <1>5, <1>10, <1>11 DEF Covers
<1> QED
  BY <1>5, <1>10, <1>12 DEF ls

LEMMA LineLeftOut ==
  ASSUME addr \in Nat, lines \in Seq(Line), NEW f \in 0 .. addr - 1, InRange(f), PhysOf(f) = 0
  PROVE  Covers(lines, DOMAIN lines, addr)
<1>1. f = addr - 1 /\ ~ MapsWhole(f) /\ Covers(lines, DOMAIN lines, f)
  BY DEF InRange
<1>2. \A k \in DOMAIN lines : lines[k][2][1] \in Nat
  BY <1>1 DEF Covers, Line
<1>3. \A k \in DOMAIN lines : lines[k][2][1] < addr
  BY <1>1, <1>2 DEF Covers
<1>4. \A s \in 0 .. addr - 1 : MapsWhole(s) => s \in 0 .. f - 1
  BY <1>1
<1> QED
  BY <1>1, <1>3, <1>4 DEF Covers

(* A range that begins at the section just scanned.                        *)
LEMMA ScanBegins ==
  ASSUME TableOK, Unconfused, addr \in Section, ScanSection,
         \A k \in DOMAIN lines' : lines'[k][1][2] # 0,
         Covers(lines', DOMAIN lines', addr),
         first' = <<addr, PhysOf(addr)>>
  PROVE  \E f \in 0 .. addr' - 1 : InRange(f)'
<1>1. addr' = addr + 1 /\ tt' = tt /\ last' = <<addr, PhysOf(addr)>> /\ addr' - 1 = addr
  BY DEF ScanSection, table, Section
<1>2. addr \in Nat /\ addr \in 0 .. addr' - 1
  BY <1>1 DEF Section
<1>3. PhysOf(addr) = 0 => ~ MapsWhole(addr)
  BY Phys, Sizes DEF Section
<1>4. PhysOf(addr) # 0 => MapsWhole(addr) /\ tt[addr].to = PhysOf(addr)
  BY Phys
<1>5. ASSUME PhysOf(addr) # 0 PROVE Straight(addr, addr, PhysOf(addr))
  <2>1. PhysOf(addr) \in Int
    BY <1>4, <1>5, Phys
  <2>2. \A v \in addr .. addr : v = addr
    BY <1>2
  <2>3. PhysOf(addr) + addr - addr = PhysOf(addr)
    BY <1>2, <2>1
  <2> QED
    BY <1>4, <1>5, <2>2, <2>3 DEF Straight
<1>6. ASSUME NEW f, f = addr PROVE InRange(f)'
  <2>1. PhysOf(f)' = PhysOf(addr) /\ PhysOf(addr - 1)' = PhysOf(addr)
    BY <1>1, <1>6 DEF PhysOf
  <2>2. Covers(lines, DOMAIN lines, f)'
    BY <1>1, <1>6 DEF Covers, Straight, MapsWhole
  <2>3. MapsWhole(f)' <=> MapsWhole(addr)
    BY <1>1, <1>6 DEF MapsWhole
  <2>4. PhysOf(addr) # 0 => Straight(f, addr - 1, PhysOf(f))'
    BY <1>1, <1>5, <1>6, <2>1 DEF Straight, MapsWhole
  <2>5. first' = <<f, PhysOf(addr)>> /\ last' = <<addr' - 1, PhysOf(addr)>>
    BY <1>1, <1>6
  <2> QED
    BY <1>1, <1>3, <1>6, <2>1, <2>2, <2>3, <2>4, <2>5 DEF InRange
<1> QED
  BY <1>2, <1>6

LEMMA ScanStep ==
  ASSUME TableOK, Unconfused, ScanInv, ScanSection
  PROVE  ScanInv'
<1>1. addr \in 0 .. DumpEnd - 1 /\ addr \in Section /\ addr \in Nat
  BY Sizes DEF ScanInv, ScanSection, AtEnd, Section
<1>2. addr' = addr + 1 /\ tt' = tt /\ last' = <<addr, PhysOf(addr)>>
  BY DEF ScanSection, table
<1>3. addr' \in 0 .. DumpEnd
  BY <1>1, <1>2, Sizes
<1>4. lines \in Seq(Line)
  BY DEF ScanInv
<1>5. CASE Fresh
  <2>1. ~ Follows(PhysOf(addr), last)
    BY <1>5 DEF Follows, Fresh
  <2>2. first' = <<addr, PhysOf(addr)>> /\ lines' = <<>> /\ addr = 0
    BY <1>5, <2>1 DEF ScanSection, Fresh
  <2>3. DOMAIN lines' = {}
    BY <2>2
  <2>4. Covers(lines', DOMAIN lines', addr)
    BY <2>2, <2>3 DEF Covers
  <2>5. \E f \in 0 .. addr' - 1 : InRange(f)'
    BY <1>1, <2>2, <2>3, <2>4, ScanBegins
  <2>6. lines' \in Seq(Line)
    BY <2>2
  <2> QED
    BY <1>3, <2>5, <2>6 DEF ScanInv
<1>6. ASSUME NEW f \in 0 .. addr - 1, InRange(f) PROVE ScanInv'
  <2>1. last = <<addr - 1, PhysOf(addr - 1)>> /\ first = <<f, PhysOf(f)>>
    BY <1>6 DEF InRange
  <2>2. f \in Section /\ addr \in 1 .. NSec /\ addr \in Section \ {0} /\ f \in Nat /\ addr - 1 \in Section
    BY <1>1, Sizes DEF Section
  <2>3. first # None /\ first[2] = PhysOf(f)
    BY <2>1 DEF None
  <2>4. CASE Follows(PhysOf(addr), last)
    <3>1. PhysOf(addr - 1) # 0 /\ PhysOf(addr) = PhysOf(addr - 1) + 1
      BY <2>1, <2>2, <2>4, Following
    <3>2. PhysOf(f) # 0 /\ Straight(f, addr - 1, PhysOf(f))
      BY <1>6, <3>1 DEF InRange
    <3>3. PhysOf(f) \in Nat /\ PhysOf(addr - 1) \in Nat
      <4>1. PhysOf(f) \in Nat
        BY <2>2, Phys, Sizes
      <4>2. PhysOf(addr - 1) \in Nat
        BY <2>2, Phys, Sizes
      <4> QED
        BY <4>1, <4>2
    <3>4. PhysOf(addr) # 0
      BY <3>1, <3>3
    <3>5. MapsWhole(addr) /\ tt[addr].to = PhysOf(addr)
      BY <1>1, <3>4, Phys
    <3>6. PhysOf(addr - 1) = PhysOf(f) + (addr - 1) - f
      <4>1. addr - 1 \in f .. addr - 1
        BY <1>1, <2>2
      <4>2. MapsWhole(addr - 1) /\ tt[addr - 1].to = PhysOf(f) + (addr - 1) - f
        BY <3>2, <4>1 DEF Straight
      <4> QED
        BY <2>2, <4>2, Phys
    <3>7. PhysOf(addr) = PhysOf(f) + addr - f
      BY <1>1, <2>2, <3>1, <3>3, <3>6
    <3>8. Straight(f, addr, PhysOf(f))
      <4>1. ASSUME NEW v \in f .. addr PROVE MapsWhole(v) /\ tt[v].to = PhysOf(f) + v - f
        <5>1. CASE v = addr
          BY <3>5, <3>7, <5>1
        <5>2. CASE v # addr
          <6>1. v \in f .. addr - 1
            BY <1>1, <2>2, <5>2
          <6> QED
            BY <3>2, <6>1 DEF Straight
        <5> QED
          BY <5>1, <5>2
      <4> QED
        BY <4>1 DEF Straight
    <3>9. first' = first /\ lines' = lines
      BY <2>4 DEF ScanSection
    <3>10. addr' - 1 = addr
      BY <1>1, <1>2
    <3>11. PhysOf(f)' = PhysOf(f) /\ PhysOf(addr - 1)' = PhysOf(addr)
      BY <1>2, <3>10 DEF PhysOf
    <3>12. Covers(lines, DOMAIN lines, f)' /\ Straight(f, addr - 1, PhysOf(f))'
      <4>1. Covers(lines, DOMAIN lines, f)
        BY <1>6 DEF InRange
      <4>2. Covers(lines, DOMAIN lines, f)'
        BY <1>2, <3>9, <4>1 DEF Covers, Straight, MapsWhole
      <4>3. Straight(f, addr - 1, PhysOf(f))'
        BY <1>2, <3>8, <3>10, <3>11 DEF Straight, MapsWhole
      <4> QED
        BY <4>2, <4>3
    <3>13. \A k \in DOMAIN lines' : lines'[k][1][2] # 0
      BY <1>6, <3>9 DEF InRange
    <3>14. InRange(f)'
      BY <1>2, <2>1, <3>2, <3>9, <3>10, <3>11, <3>12, <3>13 DEF InRange
    <3>15. f \in 0 .. addr' - 1
      BY <1>1, <3>10
    <3> QED
      BY <1>3, <1>4, <3>9, <3>14, <3>15 DEF ScanInv
  <2>5. CASE ~ Follows(PhysOf(addr), last)
    <3>1. first' = <<addr, PhysOf(addr)>>
      BY <2>5 DEF ScanSection
    <3>2. /\ lines' \in Seq(Line) /\ Covers(lines', DOMAIN lines', addr)
          /\ \A k \in DOMAIN lines' : lines'[k][1][2] # 0
      <4>1. CASE PhysOf(f) = 0
        <5>1. lines' = lines
          BY <2>3, <2>5, <4>1 DEF ScanSection
        <5>2. Covers(lines, DOMAIN lines, addr)
          BY <1>1, <1>4, <1>6, <4>1, LineLeftOut
        <5> QED
          BY <1>4, <1>6, <5>1, <5>2 DEF InRange
      <4>2. CASE PhysOf(f) # 0
        <5>1. lines' = Append(lines, <<first, last>>)
          BY <2>3, <2>5, <4>2 DEF ScanSection, AddRange
        <5> QED
          BY <1>4, <1>6, <2>2, <4>2, <5>1, LineAdded
      <4> QED
        BY <4>1, <4>2
    <3>3. \E g \in 0 .. addr' - 1 : InRange(g)'
      BY <1>1, <3>1, <3>2, ScanBegins
    <3> QED
      BY <1>3, <3>2, <3>3 DEF ScanInv
  <2> QED
    BY <2>4, <2>5
<1> QED
  BY <1>5, <1>6 DEF ScanInv

(* The last range is written too, and says nothing if it begins at 0.      *)
LEMMA EndStep ==
  ASSUME TableOK, Unconfused, ScanInv, EndDump
  PROVE  UNION {Written(lines[k]) : k \in Telling}'
           = {<<s, tt[s].to>> : s \in {i \in 0 .. DumpEnd - 1 : tt[i].kind = "section"}}'
<1>1. tt' = tt /\ lines' = Append(lines, <<first, last>>) /\ lines \in Seq(Line)
  BY DEF EndDump, AddRange, table, ScanInv
<1>2. addr = DumpEnd /\ addr \in 1 .. NSec /\ addr \in Nat
  BY Sizes DEF ScanInv, EndDump, AtEnd
<1>3. PICK f \in 0 .. addr - 1 : InRange(f)
  BY <1>2 DEF ScanInv, Fresh
<1>4. first = <<f, PhysOf(f)>> /\ \A k \in DOMAIN lines : lines[k][1][2] # 0
  BY <1>3 DEF InRange
<1>5. /\ DOMAIN lines' = 1 .. Len(lines) + 1 /\ DOMAIN lines = 1 .. Len(lines) /\ Len(lines) \in Nat
      /\ lines'[Len(lines) + 1] = <<first, last>>
      /\ \A k \in 1 .. Len(lines) : lines'[k] = lines[k]
  BY <1>1
<1>6. lines'[Len(lines) + 1][1][2] = PhysOf(f)
  BY <1>4, <1>5
<1>7. Covers(lines', Telling', DumpEnd)
  <2>1. CASE PhysOf(f) = 0
    <3>1. Telling' = DOMAIN lines
      BY <1>4, <1>5, <1>6, <2>1 DEF Telling
    <3>2. Covers(lines, DOMAIN lines, DumpEnd)
      BY <1>1, <1>2, <1>3, <2>1, LineLeftOut
    <3> QED
      BY <1>5, <3>1, <3>2 DEF Covers
  <2>2. CASE PhysOf(f) # 0
    <3>1. /\ Covers(lines', DOMAIN lines', DumpEnd)
          /\ \A k \in DOMAIN lines' : lines'[k][1][2] # 0
      BY <1>1, <1>2, <1>3, <2>2, LineAdded
    <3>2. Telling' = DOMAIN lines'
      BY <3>1 DEF Telling
    <3> QED
      BY <3>1, <3>2
  <2> QED
    BY <2>1, <2>2
<1>8. UNION {Written(lines'[k]) : k \in Telling'}
        = {<<s, tt[s].to>> : s \in {i \in 0 .. DumpEnd - 1 : tt[i].kind = "section"}}
  BY <1>2, <1>7, CoverIsExact
<1> QED
  BY <1>1, <1>8

LEMMA DumpStep == TableOK /\ DumpInv /\ [Next]_vars => DumpInv'
<1> SUFFICES ASSUME TableOK, DumpInv, [Next]_vars PROVE DumpInv'
  OBVIOUS
<1>1. CASE DumpMmu
  <2>1. Fresh' /\ pc' \in {"scan", "done"} /\ lines' = <<>>
    BY <1>1 DEF DumpMmu, DumpInv, Fresh
  <2>2. addr' = 0 /\ 0 \in 0 .. DumpEnd /\ <<>> \in Seq(Line)
    BY <2>1, Sizes DEF Fresh
  <2> QED
    BY <2>1, <2>2 DEF DumpInv, ScanInv, DumpExact
<1>2. CASE ScanSection
  <2>1. pc = "scan" /\ pc' = "scan" /\ tt' = tt
    BY <1>2 DEF ScanSection, table
  <2>2. Unconfused' => Unconfused
    BY <2>1 DEF Unconfused, MapsWhole
  <2>3. Unconfused' => ScanInv'
    BY <1>2, <2>1, <2>2, ScanStep DEF DumpInv
  <2> QED
    BY <2>1, <2>3 DEF DumpInv, DumpExact
<1>3. CASE EndDump
  <2>1. pc = "scan" /\ pc' = "done" /\ tt' = tt
    BY <1>3 DEF EndDump, table
  <2>2. ASSUME (\A s \in Section : tt[s].kind = "section" => tt[s].to \notin {0, 1, NSec - 1})'
        PROVE  UNION {Written(lines[k]) : k \in Telling}'
                 = {<<s, tt[s].to>> : s \in {i \in 0 .. DumpEnd - 1 : tt[i].kind = "section"}}'
    <3>1. Unconfused
      BY <2>1, <2>2 DEF Unconfused, MapsWhole
    <3> QED
      BY <1>3, <2>1, <3>1, EndStep DEF DumpInv
  <2> QED
    BY <2>1, <2>2 DEF DumpInv, DumpExact
<1>4. CASE UNCHANGED vars
  <2>1. /\ tt' = tt /\ pc' = pc /\ addr' = addr /\ first' = first /\ last' = last /\ lines' = lines
    BY <1>4 DEF vars
  <2>2. Fresh' = Fresh /\ Unconfused' = Unconfused /\ DumpExact' = DumpExact
    BY <2>1 DEF Fresh, Unconfused, MapsWhole, DumpExact, Telling
  <2>3. \A f : InRange(f)' = InRange(f)
    BY <2>1 DEF InRange, PhysOf, Covers, Straight, MapsWhole
  <2>4. ScanInv' = ScanInv
    BY <2>1, <2>2, <2>3 DEF ScanInv
  <2> QED
    BY <2>1, <2>2, <2>4 DEF DumpInv
<1> QED
  BY <1>1, <1>2, <1>3, <1>4 DEF Next

(* /memorymap.txt names exactly the sections that are mapped below the end *)
(* of the dump, each with its physical address, unless one is mapped to    *)
(* what the 0 for "not mapped" can be confused with.                       *)
THEOREM MemoryMapExact == Spec => []DumpExact
<1>1. Init => DumpInv
  BY DEF Init, DumpInv, Fresh, DumpExact
<1>2. DumpInv => DumpExact
  BY DEF DumpInv
<1> QED
  BY <1>1, <1>2, InitTable, TableStep, DumpStep, PTL DEF Spec
=============================================================================
