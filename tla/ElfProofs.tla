----------------------------- MODULE ElfProofs -----------------------------
(***************************************************************************)
(* Proof that relocate_elf loads every ELF kernel whose segments have one  *)
(* distance, whole words and places apart from what is still needed, in a  *)
(* memory of any size.                                                     *)
(***************************************************************************)
EXTENDS Elf, TLAPS

Conditions == OneDistance /\ Words /\ Apart

Word == {"zero", "file", "old"} \X Int

InSegment == pc \in {"clear", "copy"}

TypeInv ==
  /\ elf \in Images /\ mem \in [Addr -> Word]
  /\ pc \in {"head", "clear", "copy", "enter", "entered", "lost"}
  /\ i \in 0 .. Len(elf.phdr) /\ k \in Nat /\ pvdelta \in Int
  /\ seg \in [dst : Int, src : Int, clear : Nat, copy : Nat]
  /\ InSegment => i < Len(elf.phdr)

(* A header still to be read is as it was, or cleared and of no effect.    *)
HeaderKept(m) == Intact(m) \/ (Wiped(m) /\ ~ elf.phdr[m].load)
SourceKept(h) ==
  \A j \in 0 .. CopySize(h) - 1 : mem[elf.img + h.offset + j] = FileWord(h.offset + j)

(* Words from to to - 1 of a segment's place are clear, or copied.         *)
Cleared(h, from, to) == \A j \in from .. to - 1 : mem[h.paddr + j] = Zero
Copied(h, to) == \A j \in 0 .. to - 1 : mem[h.paddr + j] = FileWord(h.offset + j)
Done(h) == Copied(h, CopySize(h)) /\ Cleared(h, CopySize(h), CopyAll(h))

(* The first header whose words may not be written over yet.               *)
NextHeader == IF InSegment THEN i + 2 ELSE i + 1

KeptInv ==
  /\ Alive /\ Intact(0)
  /\ \A m \in NextHeader .. Len(elf.phdr) : HeaderKept(m)
  /\ \A n \in Loads(elf) : n > i => SourceKept(elf.phdr[n])

DoneInv == \A n \in Loads(elf) : n <= i => Done(elf.phdr[n])

(* A distance once found is that of every segment still to come.           *)
DeltaInv ==
  pvdelta = 0 \/ \A n \in Loads(elf) : n > i => OwnDelta(elf.phdr[n]) = pvdelta

SegmentInv ==
  InSegment =>
    /\ i + 1 \in Loads(elf)
    /\ LET h == elf.phdr[i + 1] IN
         /\ seg = [ dst |-> h.paddr, src |-> elf.img + h.offset,
                    clear |-> CopyAll(h), copy |-> CopySize(h) ]
         /\ pc = "clear" => k <= CopyAll(h) /\ Cleared(h, 0, k)
         /\ pc = "copy" => k <= CopySize(h) /\ Copied(h, k) /\ Cleared(h, k, CopyAll(h))

LoadInv ==
  /\ pc # "lost"
  /\ pc \in {"enter", "entered"} => i = Len(elf.phdr)
  /\ KeptInv /\ DoneInv /\ DeltaInv /\ SegmentInv

ElfInv == TypeInv /\ (Conditions => LoadInv)

----------------------------------------------------------------------------
(* Whole words and what lies where.                                        *)

LEMMA WholeWordsUp ==
  ASSUME NEW w \in Nat \ {0}, NEW n \in Nat, n % w = 0
  PROVE  (n + w - 1) \div w = n \div w
<1> DEFINE q == n \div w
           r == (n + w - 1) \div w
<1>1. q \in Nat /\ n = w * q
  OBVIOUS
<1>2. r \in Nat /\ w * r <= n + w - 1 /\ n + w - 1 < w * r + w
  OBVIOUS
<1> HIDE DEF q, r
<1>3. w * r < w * (q + 1) /\ w * q < w * (r + 1)
  BY <1>1, <1>2
<1>4. r < q + 1 /\ q < r + 1
  BY <1>1, <1>2, <1>3
<1> QED
  BY <1>1, <1>2, <1>4 DEF q, r

LEMMA Shapes ==
  ASSUME TypeInv
  PROVE  /\ WordSize \in Nat \ {0} /\ MemTop \in Nat
         /\ elf.img \in Addr /\ elf.words \in Nat /\ elf.live \subseteq Addr
         /\ Len(elf.phdr) \in Nat /\ Len(elf.phdr) < elf.words
         /\ elf.img + elf.words - 1 \in Addr
         /\ elf.live \cap (elf.img .. elf.img + elf.words - 1) = {}
         /\ \A n \in 1 .. Len(elf.phdr) :
              elf.phdr[n] \in [load : BOOLEAN, vaddr : Nat, paddr : Nat, offset : Nat,
                               filesz : Nat, memsz : Nat]
<1>1. elf \in ImageType /\ WellFormed(elf)
  BY ElfAssumption DEF TypeInv
<1> DEFINE R == [load : BOOLEAN, vaddr : Nat, paddr : Nat, offset : Nat, filesz : Nat, memsz : Nat]
<1>2. elf.img \in Addr /\ elf.words \in Nat /\ elf.live \subseteq Addr /\ elf.phdr \in Seq(R)
  BY <1>1 DEF ImageType
<1> HIDE DEF R
<1>3. Len(elf.phdr) \in Nat /\ \A n \in 1 .. Len(elf.phdr) : elf.phdr[n] \in R
  BY <1>2
<1>4. /\ Len(elf.phdr) < elf.words /\ elf.img + elf.words - 1 \in Addr
      /\ elf.live \cap (elf.img .. elf.img + elf.words - 1) = {}
  BY <1>1 DEF WellFormed
<1>5. WordSize \in Nat \ {0} /\ MemTop \in Nat
  BY ElfAssumption
<1> QED
  BY <1>2, <1>3, <1>4, <1>5 DEF R

LEMMA Places ==
  ASSUME TypeInv, Words, NEW n \in Loads(elf)
  PROVE  LET h == elf.phdr[n] IN
         /\ h.paddr \in Nat /\ h.vaddr \in Nat /\ h.offset \in Nat
         /\ CopyAll(h) \in Nat /\ CopySize(h) \in Nat
         /\ Data(h) = {h.paddr + j : j \in 0 .. CopySize(h) - 1}
         /\ Place(h) = {h.paddr + j : j \in 0 .. CopyAll(h) - 1} \cup Data(h)
         /\ Source(elf, h) = {elf.img + h.offset + j : j \in 0 .. CopySize(h) - 1}
         /\ Source(elf, h) \subseteq elf.img .. elf.img + elf.words - 1
<1> DEFINE h == elf.phdr[n]
<1>1. n \in 1 .. Len(elf.phdr)
  BY DEF Loads
<1>2. h \in [load : BOOLEAN, vaddr : Nat, paddr : Nat, offset : Nat, filesz : Nat, memsz : Nat]
  BY <1>1, Shapes
<1>3. WellFormed(elf)
  BY ElfAssumption DEF TypeInv
<1>4. Source(elf, h) \subseteq elf.img .. elf.img + elf.words - 1
  BY <1>3 DEF WellFormed
<1>5. h.filesz % WordSize = 0 /\ h.memsz % WordSize = 0
  BY DEF Words
<1>6. h.filesz \in Nat /\ h.memsz \in Nat /\ h.paddr \in Nat /\ h.vaddr \in Nat /\ h.offset \in Nat
  BY <1>2
<1> HIDE DEF h
<1>7. AllBytes(h.filesz) = h.filesz \div WordSize
  BY <1>5, <1>6, Shapes, WholeWordsUp DEF AllBytes
<1>8. AllBytes(h.memsz) = h.memsz \div WordSize
  BY <1>5, <1>6, Shapes, WholeWordsUp DEF AllBytes
<1>9. CopyAll(h) = h.memsz \div WordSize /\ CopySize(h) = h.filesz \div WordSize
  BY DEF CopyAll, CopySize, WholeWords
<1>10. h.memsz \div WordSize \in Nat /\ h.filesz \div WordSize \in Nat
  <2>1. WordSize \in Nat \ {0}
    BY Shapes
  <2> QED
    BY <1>6, <2>1
<1>11. /\ Data(h) = {h.paddr + j : j \in 0 .. CopySize(h) - 1}
       /\ Place(h) = {h.paddr + j : j \in 0 .. CopyAll(h) - 1} \cup Data(h)
       /\ Source(elf, h) = {elf.img + h.offset + j : j \in 0 .. CopySize(h) - 1}
  BY <1>7, <1>8, <1>9 DEF Data, Place, Source
<1> QED
  BY <1>4, <1>6, <1>9, <1>10, <1>11 DEF h

(* The words of the image and of the segments are in RAM.                  *)
LEMMA InRam ==
  ASSUME TypeInv, Words, Apart
  PROVE  /\ \A x \in 0 .. elf.words - 1 : elf.img + x \in Addr
         /\ \A n \in Loads(elf) : LET h == elf.phdr[n] IN
              /\ \A j \in 0 .. CopySize(h) - 1 : /\ elf.img + h.offset + j \in Addr
                                                 /\ elf.img + h.offset + j \in Source(elf, h)
                                                 /\ h.paddr + j \in Addr /\ h.paddr + j \in Data(h)
                                                 /\ h.paddr + j \in Place(h)
              /\ \A j \in 0 .. CopyAll(h) - 1 : h.paddr + j \in Addr /\ h.paddr + j \in Place(h)
<1>1. elf.img \in Addr /\ elf.words \in Nat /\ elf.img + elf.words - 1 \in Addr /\ MemTop \in Nat
  BY Shapes
<1>2. elf.img .. elf.img + elf.words - 1 \subseteq Addr
  BY <1>1 DEF Addr
<1>3. \A x \in 0 .. elf.words - 1 : elf.img + x \in Addr
  BY <1>1 DEF Addr
<1>4. ASSUME NEW n \in Loads(elf)
      PROVE  LET h == elf.phdr[n] IN
              /\ \A j \in 0 .. CopySize(h) - 1 : /\ elf.img + h.offset + j \in Addr
                                                 /\ elf.img + h.offset + j \in Source(elf, h)
                                                 /\ h.paddr + j \in Addr /\ h.paddr + j \in Data(h)
                                                 /\ h.paddr + j \in Place(h)
              /\ \A j \in 0 .. CopyAll(h) - 1 : h.paddr + j \in Addr /\ h.paddr + j \in Place(h)
  <2> DEFINE h == elf.phdr[n]
  <2>1. Place(h) \subseteq Addr
    BY DEF Apart
  <2>2. /\ Data(h) = {h.paddr + j : j \in 0 .. CopySize(h) - 1}
        /\ Place(h) = {h.paddr + j : j \in 0 .. CopyAll(h) - 1} \cup Data(h)
        /\ Source(elf, h) = {elf.img + h.offset + j : j \in 0 .. CopySize(h) - 1}
        /\ Source(elf, h) \subseteq elf.img .. elf.img + elf.words - 1
    BY Places
  <2> HIDE DEF h
  <2>3. \A j \in 0 .. CopySize(h) - 1 : /\ h.paddr + j \in Data(h)
                                        /\ elf.img + h.offset + j \in Source(elf, h)
    BY <2>2
  <2>4. \A j \in 0 .. CopyAll(h) - 1 : h.paddr + j \in Place(h)
    BY <2>2
  <2>5. Data(h) \subseteq Place(h)
    BY <2>2
  <2>6. Source(elf, h) \subseteq Addr
    BY <1>2, <2>2
  <2> QED
    BY <2>1, <2>3, <2>4, <2>5, <2>6 DEF h
<1> QED
  BY <1>3, <1>4

(* A store to the place of the segment at hand, of zeros or of its data,   *)
(* disturbs nothing that is still needed and nothing that is done.         *)
LEMMA StoreApart ==
  ASSUME TypeInv, Conditions, KeptInv, DoneInv, InSegment, i + 1 \in Loads(elf),
         elf' = elf, i' = i, pc' = pc, mem' \in [Addr -> Word],
         NEW a \in Place(elf.phdr[i + 1]),
         \A b \in Addr : b # a => mem'[b] = mem[b],
         mem'[a] = Zero \/ a \in Data(elf.phdr[i + 1])
  PROVE  KeptInv' /\ DoneInv'
<1> DEFINE n == i + 1
           h == elf.phdr[n]
<1>1. n \in Loads(elf) /\ n \in 1 .. Len(elf.phdr) /\ i \in Nat
  BY DEF TypeInv, Loads
<1>2. Words /\ Apart
  BY DEF Conditions
<1>3. Place(h) \cap elf.live = {} /\ elf.img \notin Place(h) /\ Place(h) \cap Source(elf, h) = {}
  BY <1>1, <1>2 DEF Apart
<1>4. \A m \in 1 .. Len(elf.phdr) : m > n => elf.img + m \notin Data(h)
  BY <1>1, <1>2 DEF Apart
<1>5. \A m \in Loads(elf) : m > n =>
         elf.img + m \notin Place(h) /\ Place(h) \cap Source(elf, elf.phdr[m]) = {}
  BY <1>1, <1>2 DEF Apart
<1>6. WellFormed(elf)
  BY ElfAssumption DEF TypeInv
<1>7. \A m \in Loads(elf) : m < n => Place(elf.phdr[m]) \cap Place(h) = {}
  <2>1. \A m \in Loads(elf) \ {n} : Place(elf.phdr[n]) \cap Place(elf.phdr[m]) = {}
    BY <1>1, <1>6 DEF WellFormed
  <2>2. \A m \in Loads(elf) : m < n => m \in Loads(elf) \ {n}
    BY DEF Loads
  <2> QED
    BY <2>1, <2>2
<1>8. a \in Place(h) /\ (mem'[a] = Zero \/ a \in Data(h))
  OBVIOUS
<1> HIDE DEF n, h
<1>9. Alive'
  <2>1. \A b \in elf.live : b \in Addr /\ b # a
    BY <1>3, <1>8, Shapes
  <2> QED
    BY <2>1 DEF KeptInv, Alive
<1>10. Intact(0)'
  <2>1. elf.img \in Addr /\ elf.img + 0 = elf.img
    BY Shapes DEF Addr
  <2> QED
    BY <1>3, <1>8, <2>1 DEF KeptInv, Intact
<1>11. ASSUME NEW m \in NextHeader .. Len(elf.phdr) PROVE HeaderKept(m)'
  <2>1. m \in 1 .. Len(elf.phdr) /\ m > n
    BY <1>1 DEF NextHeader, n
  <2>2. elf.img + m \in Addr
    <3>1. m \in 0 .. elf.words - 1
      BY <2>1, Shapes
    <3> QED
      BY <1>2, <3>1, InRam
  <2>3. HeaderKept(m)
    BY DEF KeptInv
  <2>4. CASE elf.img + m # a
    BY <2>2, <2>3, <2>4 DEF HeaderKept, Intact, Wiped
  <2>5. CASE elf.img + m = a
    <3>1. m \notin Loads(elf)
      BY <1>5, <1>8, <2>1, <2>5
    <3>2. ~ elf.phdr[m].load
      BY <2>1, <3>1 DEF Loads
    <3>3. mem'[a] = Zero
      BY <1>4, <1>8, <2>1, <2>5
    <3> QED
      BY <2>5, <3>2, <3>3 DEF HeaderKept, Wiped
  <2> QED
    BY <2>4, <2>5
<1>12. ASSUME NEW m \in Loads(elf), m > i PROVE SourceKept(elf.phdr[m])'
  <2>1. Place(h) \cap Source(elf, elf.phdr[m]) = {}
    <3>1. m = n \/ m > n
      BY <1>1, <1>12 DEF n, Loads
    <3> QED
      BY <1>3, <1>5, <3>1 DEF h
  <2>2. SourceKept(elf.phdr[m])
    BY <1>12 DEF KeptInv
  <2>3. \A j \in 0 .. CopySize(elf.phdr[m]) - 1 :
          /\ elf.img + elf.phdr[m].offset + j \in Addr
          /\ elf.img + elf.phdr[m].offset + j \in Source(elf, elf.phdr[m])
    BY <1>2, InRam
  <2> QED
    BY <1>8, <2>1, <2>2, <2>3 DEF SourceKept
<1>13. ASSUME NEW m \in Loads(elf), m <= i PROVE Done(elf.phdr[m])'
  <2> DEFINE g == elf.phdr[m]
  <2>1. Place(g) \cap Place(h) = {}
    BY <1>1, <1>7, <1>13 DEF n, Loads
  <2>2. Done(g)
    BY <1>13 DEF DoneInv
  <2>3. \A j \in 0 .. CopySize(g) - 1 : g.paddr + j \in Addr /\ g.paddr + j \in Place(g)
    BY <1>2, InRam
  <2>4. \A j \in 0 .. CopyAll(g) - 1 : g.paddr + j \in Addr /\ g.paddr + j \in Place(g)
    BY <1>2, InRam
  <2>5. \A j \in CopySize(g) .. CopyAll(g) - 1 : j \in 0 .. CopyAll(g) - 1
    BY <1>2, Places
  <2> HIDE DEF g
  <2>6. Copied(g, CopySize(g))'
    <3>1. ASSUME NEW j \in 0 .. CopySize(g) - 1 PROVE mem'[g.paddr + j] = FileWord(g.offset + j)
      BY <1>8, <2>1, <2>2, <2>3 DEF Done, Copied
    <3> QED
      BY <3>1 DEF Copied, g
  <2>7. Cleared(g, CopySize(g), CopyAll(g))'
    <3>1. ASSUME NEW j \in CopySize(g) .. CopyAll(g) - 1 PROVE mem'[g.paddr + j] = Zero
      BY <1>8, <2>1, <2>2, <2>4, <2>5 DEF Done, Cleared
    <3> QED
      BY <3>1 DEF Cleared, g
  <2> QED
    BY <2>6, <2>7 DEF Done, g
<1>14. NextHeader' = NextHeader /\ Loads(elf') = Loads(elf)
  BY DEF NextHeader, InSegment
<1> QED
  BY <1>9, <1>10, <1>11, <1>12, <1>13, <1>14 DEF KeptInv, DoneInv

----------------------------------------------------------------------------
(* The steps.                                                              *)

LEMMA HeaderType ==
  ASSUME TypeInv
  PROVE  /\ Header(i).load \in BOOLEAN
         /\ {Header(i).vaddr, Header(i).paddr, Header(i).offset, Header(i).filesz, Header(i).memsz}
              \subseteq Nat
         /\ Delta(Header(i)) \in Int
<1>1. i >= Len(elf.phdr) \/ i + 1 \in 1 .. Len(elf.phdr)
  BY Shapes DEF TypeInv
<1>2. Header(i) \in [load : BOOLEAN, vaddr : Nat, paddr : Nat, offset : Nat, filesz : Nat, memsz : Nat]
  BY <1>1, Shapes DEF Header, NoHeader
<1> QED
  BY <1>2 DEF Delta, TypeInv

LEMMA StoredType ==
  ASSUME TypeInv, NEW a \in Int, NEW w \in Word
  PROVE  /\ Stored(a, w) \in [Addr -> Word]
         /\ \A b \in Addr : b # a => Stored(a, w)[b] = mem[b]
         /\ a \in Addr => Stored(a, w)[a] = w
BY DEF TypeInv, Stored

LEMMA TypeStep == TypeInv /\ [Next]_vars => TypeInv'
<1> SUFFICES ASSUME TypeInv, [Next]_vars PROVE TypeInv'
  OBVIOUS
<1>1. CASE ReadHeader
  <2>1. elf' = elf /\ mem' = mem /\ k' = 0 /\ pvdelta' \in Int
    BY <1>1, HeaderType DEF ReadHeader
  <2>2. CASE Header(i).load
    <3>1. seg' = Segment(Header(i), pvdelta') /\ pc' = "clear" /\ i' = i /\ i < Len(elf.phdr)
      BY <1>1, <2>2 DEF ReadHeader, More
    <3>2. Header(i).memsz \div WordSize \in Nat /\ Header(i).filesz \div WordSize \in Nat
      <4>1. WordSize \in Nat \ {0} /\ Header(i).memsz \in Nat /\ Header(i).filesz \in Nat
        BY Shapes, HeaderType
      <4> QED
        BY <4>1
    <3>3. Header(i).vaddr - pvdelta' \in Int
      BY <2>1, HeaderType
    <3>4. elf.img + Header(i).offset \in Int
      BY Shapes, HeaderType DEF Addr
    <3>5. seg' \in [dst : Int, src : Int, clear : Nat, copy : Nat]
      BY <3>1, <3>2, <3>3, <3>4 DEF Segment, WholeWords, CopySize
    <3> QED
      BY <2>1, <3>1, <3>5 DEF TypeInv, InSegment
  <2>3. CASE ~ Header(i).load
    <3>1. seg' = seg /\ pc' = pc /\ i' = i + 1 /\ i < Len(elf.phdr) /\ ~ InSegment
      BY <1>1, <2>3 DEF ReadHeader, More, InSegment
    <3>2. i' \in 0 .. Len(elf.phdr)
      BY <3>1, Shapes DEF TypeInv
    <3> QED
      BY <2>1, <3>1, <3>2 DEF TypeInv, InSegment
  <2> QED
    BY <2>2, <2>3
<1>2. CASE ClearWord
  <2>1. Stored(seg.dst + k, Zero) \in [Addr -> Word]
    <3>1. seg.dst + k \in Int /\ Zero \in Word
      BY DEF TypeInv, Zero, Word
    <3> QED
      BY <3>1, StoredType
  <2> QED
    BY <1>2, <2>1 DEF ClearWord, TypeInv, InSegment
<1>3. CASE CopyWord
  <2>1. seg.dst + k \in Int /\ Load(seg.src + k) \in Word
    BY DEF TypeInv, Load, Word
  <2>2. Stored(seg.dst + k, Load(seg.src + k)) \in [Addr -> Word]
    BY <2>1, StoredType
  <2>3. CASE k < seg.copy
    BY <1>3, <2>2, <2>3 DEF CopyWord, TypeInv, InSegment
  <2>4. CASE ~ k < seg.copy
    <3>1. i' = i + 1 /\ i < Len(elf.phdr) /\ i \in Nat /\ elf' = elf /\ pc' = "head"
      BY <1>3, <2>4 DEF CopyWord, TypeInv, InSegment
    <3>2. i' \in 0 .. Len(elf.phdr)
      BY <3>1, Shapes
    <3> QED
      BY <1>3, <2>4, <3>1, <3>2 DEF CopyWord, TypeInv, InSegment
  <2> QED
    BY <2>3, <2>4
<1>4. CASE EndHeaders
  BY <1>4 DEF EndHeaders, TypeInv, InSegment
<1>5. CASE Enter
  BY <1>5 DEF Enter, TypeInv, InSegment
<1>6. CASE Derail
  BY <1>6 DEF Derail, TypeInv, InSegment
<1>7. CASE UNCHANGED vars
  BY <1>7 DEF vars, TypeInv, InSegment
<1> QED
  BY <1>1, <1>2, <1>3, <1>4, <1>5, <1>6, <1>7 DEF Next

LEMMA InitElf == Init => ElfInv
<1> SUFFICES ASSUME Init PROVE ElfInv
  OBVIOUS
<1>1. elf \in Images /\ pc = "head" /\ i = 0 /\ k = 0 /\ pvdelta = 0 /\ seg = NoSegment
  BY DEF Init
<1>2. mem = [a \in Addr |-> IF InFile(elf, a) THEN FileWord(a - elf.img) ELSE <<"old", a>>]
  BY DEF Init
<1>3. TypeInv
  <2>1. elf \in ImageType
    BY <1>1, ElfAssumption
  <2>2. elf.img \in Addr /\ elf.phdr \in Seq([load : BOOLEAN, vaddr : Nat, paddr : Nat, offset : Nat,
                                              filesz : Nat, memsz : Nat])
    BY <2>1 DEF ImageType
  <2>3. Len(elf.phdr) \in Nat
    BY <2>2
  <2>4. \A a \in Addr : a \in Int /\ a - elf.img \in Int
    BY <2>2 DEF Addr
  <2>5. mem \in [Addr -> Word]
    BY <1>2, <2>4 DEF FileWord, Word
  <2> QED
    BY <1>1, <2>3, <2>5 DEF TypeInv, NoSegment, InSegment
<1>4. ASSUME Conditions PROVE LoadInv
  <2>1. Words /\ Apart
    BY <1>4 DEF Conditions
  <2>2. elf.img \in Nat /\ elf.words \in Nat /\ \A x \in 0 .. elf.words - 1 : elf.img + x \in Addr
    BY <1>3, <2>1, InRam, Shapes DEF Addr
  <2>3. ASSUME NEW x \in 0 .. elf.words - 1 PROVE mem[elf.img + x] = FileWord(x)
    <3>1. InFile(elf, elf.img + x) /\ (elf.img + x) - elf.img = x
      BY <2>2 DEF InFile
    <3>2. elf.img + x \in Addr
      BY <2>2
    <3>3. mem[elf.img + x] = FileWord((elf.img + x) - elf.img)
      BY <1>2, <3>1, <3>2
    <3> QED
      BY <3>1, <3>3
  <2>4. Alive
    <3>1. \A a \in elf.live : a \in Addr /\ ~ InFile(elf, a)
      BY <1>3, Shapes DEF InFile
    <3> QED
      BY <1>2, <3>1 DEF Alive
  <2>5. \A m \in 0 .. Len(elf.phdr) : Intact(m)
    <3>1. \A m \in 0 .. Len(elf.phdr) : m \in 0 .. elf.words - 1
      BY <1>3, Shapes
    <3> QED
      BY <2>3, <3>1 DEF Intact
  <2>6. ASSUME NEW n \in Loads(elf) PROVE SourceKept(elf.phdr[n])
    <3> DEFINE h == elf.phdr[n]
    <3>1. h.offset \in Nat /\ Source(elf, h) \subseteq elf.img .. elf.img + elf.words - 1
      BY <1>3, <2>1, Places
    <3>2. \A j \in 0 .. CopySize(h) - 1 : elf.img + h.offset + j \in Source(elf, h)
      BY <1>3, <2>1, InRam
    <3> HIDE DEF h
    <3>3. ASSUME NEW j \in 0 .. CopySize(h) - 1
          PROVE  mem[elf.img + h.offset + j] = FileWord(h.offset + j)
      <4>1. elf.img + h.offset + j \in elf.img .. elf.img + elf.words - 1
        BY <3>1, <3>2
      <4>2. h.offset + j \in 0 .. elf.words - 1 /\ elf.img + h.offset + j = elf.img + (h.offset + j)
        BY <2>2, <3>1, <4>1
      <4> QED
        BY <2>3, <4>2
    <3> QED
      BY <3>3 DEF SourceKept, h
  <2>7. KeptInv
    <3>1. Len(elf.phdr) \in Nat
      BY <1>3, Shapes
    <3>2. 0 \in 0 .. Len(elf.phdr) /\ \A m \in NextHeader .. Len(elf.phdr) : m \in 0 .. Len(elf.phdr)
      BY <1>1, <3>1 DEF NextHeader, InSegment
    <3> QED
      BY <2>4, <2>5, <2>6, <3>2 DEF KeptInv, HeaderKept
  <2>8. DoneInv
    BY <1>1 DEF DoneInv, Loads
  <2> QED
    BY <1>1, <2>7, <2>8 DEF LoadInv, DeltaInv, SegmentInv, InSegment
<1> QED
  BY <1>3, <1>4 DEF ElfInv

LEMMA ReadHeaderStep ==
  ASSUME TypeInv, Conditions, LoadInv, ReadHeader
  PROVE  LoadInv'
<1> DEFINE g == elf.phdr[i + 1]
<1>1. /\ pc = "head" /\ i \in Nat /\ i < Len(elf.phdr) /\ Len(elf.phdr) \in Nat
      /\ elf' = elf /\ mem' = mem /\ k' = 0 /\ pvdelta' = Delta(Header(i))
  BY Shapes DEF ReadHeader, More, TypeInv
<1>2. i + 1 \in 1 .. Len(elf.phdr) /\ NextHeader = i + 1 /\ ~ InSegment
  BY <1>1 DEF NextHeader, InSegment
<1>3. KeptInv /\ DoneInv /\ DeltaInv
  BY DEF LoadInv
<1>4. HeaderKept(i + 1)
  BY <1>2, <1>3 DEF KeptInv
<1>5. Header(i) = IF Intact(i + 1) THEN g ELSE NoHeader
  <2>1. 1 + i = i + 1 /\ FileWord(i + 1) # Zero
    BY <1>1 DEF FileWord, Zero
  <2>2. ~ (i >= Len(elf.phdr))
    BY <1>1
  <2>3. Intact(i + 1) => ~ Wiped(i + 1)
    BY <2>1 DEF Intact, Wiped
  <2>4. Wiped(1 + i) <=> ~ Intact(i + 1)
    BY <1>4, <2>1, <2>3 DEF HeaderKept
  <2> QED
    BY <2>2, <2>4 DEF Header
<1>6. ~ Intact(i + 1) => ~ g.load
  BY <1>4 DEF HeaderKept
<1>7. g.vaddr \in Nat /\ g.paddr \in Nat /\ g.load \in BOOLEAN
  BY <1>2, Shapes
<1>8. Header(i).load <=> i + 1 \in Loads(elf)
  BY <1>2, <1>5, <1>6 DEF Loads, NoHeader
<1>9. pvdelta' = pvdelta \/ (pvdelta = 0 /\ pvdelta' = OwnDelta(g) /\ Header(i) = g)
  BY <1>1, <1>5 DEF Delta, OwnDelta, NoHeader
<1>10. ASSUME NEW n \in Loads(elf), n > i, pvdelta' # 0
       PROVE  (n = i + 1 /\ ~ Header(i).load) \/ OwnDelta(elf.phdr[n]) = pvdelta'
  <2>1. CASE pvdelta' = pvdelta
    BY <1>3, <1>10, <2>1 DEF DeltaInv
  <2>2. CASE pvdelta' # pvdelta
    <3>1. pvdelta' = OwnDelta(g)
      BY <1>9, <2>2
    <3>2. n = i + 1 \/ i + 1 < n
      BY <1>1, <1>10 DEF Loads
    <3>3. g.vaddr # g.paddr
      BY <1>7, <1>10, <3>1 DEF OwnDelta
    <3>4. ASSUME i + 1 < n PROVE OwnDelta(elf.phdr[n]) = OwnDelta(g)
      BY <1>2, <1>10, <3>3, <3>4 DEF Conditions, OneDistance, OwnDelta
    <3> QED
      BY <3>1, <3>2, <3>4
  <2> QED
    BY <2>1, <2>2
<1>11. CASE Header(i).load
  <2>1. seg' = Segment(Header(i), pvdelta') /\ pc' = "clear" /\ i' = i
    BY <1>1, <1>11 DEF ReadHeader
  <2>2. Header(i) = g /\ i + 1 \in Loads(elf)
    BY <1>5, <1>8, <1>11 DEF NoHeader
  <2>3. KeptInv'
    <3>1. NextHeader' = i + 2
      BY <2>1 DEF NextHeader, InSegment
    <3>2. \A m \in i + 2 .. Len(elf.phdr) : m \in NextHeader .. Len(elf.phdr)
      BY <1>1, <1>2
    <3> QED
      BY <1>1, <1>3, <2>1, <3>1, <3>2 DEF KeptInv, Alive, Intact, Wiped, HeaderKept, SourceKept
  <2>4. DoneInv'
    BY <1>1, <1>3, <2>1 DEF DoneInv, Done, Copied, Cleared
  <2>5. DeltaInv'
    BY <1>1, <1>10, <1>11, <2>1 DEF DeltaInv
  <2>6. g.vaddr - pvdelta' = g.paddr
    <3>1. i + 1 > i
      BY <1>1
    <3>2. pvdelta' # 0 => OwnDelta(g) = pvdelta'
      BY <1>10, <1>11, <2>2, <3>1
    <3>3. pvdelta' = 0 => OwnDelta(g) = 0
      BY <1>1, <2>2 DEF Delta, OwnDelta
    <3> QED
      BY <1>7, <3>2, <3>3 DEF OwnDelta
  <2>7. seg' = [dst |-> g.paddr, src |-> elf.img + g.offset, clear |-> CopyAll(g), copy |-> CopySize(g)]
    BY <2>1, <2>2, <2>6 DEF Segment, CopyAll
  <2>8. CopyAll(g) \in Nat
    BY <2>2, Places DEF Conditions
  <2>9. 0 <= CopyAll(g) /\ Cleared(g, 0, 0)'
    BY <2>8 DEF Cleared
  <2>10. SegmentInv'
    <3>1. Loads(elf') = Loads(elf)
      BY <1>1
    <3> QED
      BY <1>1, <2>1, <2>2, <2>7, <2>9, <3>1 DEF SegmentInv
  <2> QED
    BY <2>1, <2>3, <2>4, <2>5, <2>10 DEF LoadInv
<1>12. CASE ~ Header(i).load
  <2>1. seg' = seg /\ pc' = pc /\ i' = i + 1
    BY <1>12 DEF ReadHeader
  <2>2. i + 1 \notin Loads(elf)
    BY <1>8, <1>12
  <2>3. \A n \in Loads(elf) : (n > i + 1 => n > i) /\ (n <= i + 1 => n <= i)
    BY <1>1, <2>2 DEF Loads
  <2>4. KeptInv'
    <3>1. NextHeader' = i + 2
      BY <1>1, <2>1 DEF NextHeader, InSegment
    <3>2. \A m \in i + 2 .. Len(elf.phdr) : m \in NextHeader .. Len(elf.phdr)
      BY <1>1, <1>2
    <3> QED
      BY <1>1, <1>3, <2>1, <2>3, <3>1, <3>2 DEF KeptInv, Alive, Intact, Wiped, HeaderKept, SourceKept
  <2>5. DoneInv'
    BY <1>1, <1>3, <2>1, <2>3 DEF DoneInv, Done, Copied, Cleared
  <2>6. DeltaInv'
    <3>1. \A n \in Loads(elf) : n > i + 1 => n > i /\ n # i + 1
      BY <1>1, <2>3 DEF Loads
    <3> QED
      BY <1>1, <1>10, <2>1, <3>1 DEF DeltaInv
  <2> QED
    BY <1>1, <2>1, <2>4, <2>5, <2>6 DEF LoadInv, SegmentInv, InSegment
<1> QED
  BY <1>11, <1>12

LEMMA ClearWordStep ==
  ASSUME TypeInv, Conditions, LoadInv, ClearWord
  PROVE  LoadInv'
<1> DEFINE h == elf.phdr[i + 1]
           a == h.paddr + k
<1>1. pc = "clear" /\ InSegment /\ elf' = elf /\ i' = i /\ pvdelta' = pvdelta /\ seg' = seg /\ k \in Nat
  BY DEF ClearWord, InSegment, TypeInv
<1>2. /\ i + 1 \in Loads(elf) /\ k <= CopyAll(h) /\ Cleared(h, 0, k)
      /\ seg = [dst |-> h.paddr, src |-> elf.img + h.offset, clear |-> CopyAll(h), copy |-> CopySize(h)]
  BY <1>1 DEF LoadInv, SegmentInv
<1>3. h.paddr \in Nat /\ CopyAll(h) \in Nat /\ CopySize(h) \in Nat
  BY <1>2, Places DEF Conditions
<1>4. KeptInv /\ DoneInv /\ DeltaInv
  BY DEF LoadInv
<1>5. DeltaInv'
  BY <1>1, <1>4 DEF DeltaInv
<1>6. CASE k < CopyAll(h)
  <2>1. mem' = Stored(a, Zero) /\ k' = k + 1 /\ pc' = pc
    BY <1>1, <1>2, <1>6 DEF ClearWord
  <2>2. a \in Addr /\ a \in Place(h) /\ a \in Int
    <3>1. k \in 0 .. CopyAll(h) - 1
      BY <1>1, <1>3, <1>6
    <3> QED
      BY <1>1, <1>2, <1>3, <3>1, InRam DEF Conditions
  <2> HIDE DEF a
  <2>3. mem' \in [Addr -> Word] /\ mem'[a] = Zero /\ \A b \in Addr : b # a => mem'[b] = mem[b]
    BY <2>1, <2>2, StoredType DEF Zero, Word
  <2>4. KeptInv' /\ DoneInv'
    BY <1>1, <1>2, <1>4, <2>1, <2>2, <2>3, StoreApart
  <2>5. ASSUME NEW j \in 0 .. k' - 1 PROVE mem'[h.paddr + j] = Zero
    <3>1. CASE j = k
      BY <2>3, <3>1 DEF a
    <3>2. CASE j # k
      <4>1. j \in 0 .. k - 1 /\ j \in 0 .. CopyAll(h) - 1 /\ h.paddr + j # a
        BY <1>1, <1>3, <1>6, <2>1, <3>2 DEF a
      <4>2. h.paddr + j \in Addr
        BY <1>2, <4>1, InRam DEF Conditions
      <4> QED
        BY <1>2, <2>3, <4>1, <4>2 DEF Cleared
    <3> QED
      BY <3>1, <3>2
  <2>6. k' <= CopyAll(h)
    BY <1>1, <1>3, <1>6, <2>1
  <2>7. SegmentInv'
    BY <1>1, <1>2, <2>1, <2>5, <2>6 DEF SegmentInv, Cleared
  <2> QED
    BY <1>1, <1>5, <2>1, <2>4, <2>7 DEF LoadInv
<1>7. CASE ~ k < CopyAll(h)
  <2>1. k' = 0 /\ pc' = "copy" /\ mem' = mem /\ k = CopyAll(h)
    BY <1>1, <1>2, <1>3, <1>7 DEF ClearWord
  <2>2. NextHeader' = NextHeader
    BY <1>1, <2>1 DEF NextHeader, InSegment
  <2>3. KeptInv'
    BY <1>1, <1>4, <2>1, <2>2 DEF KeptInv, Alive, Intact, Wiped, HeaderKept, SourceKept
  <2>4. DoneInv'
    BY <1>1, <1>4, <2>1 DEF DoneInv, Done, Copied, Cleared
  <2>5. SegmentInv'
    BY <1>1, <1>2, <1>3, <2>1 DEF SegmentInv, Cleared, Copied
  <2> QED
    BY <1>1, <1>5, <2>1, <2>3, <2>4, <2>5 DEF LoadInv
<1> QED
  BY <1>6, <1>7

LEMMA CopyWordStep ==
  ASSUME TypeInv, Conditions, LoadInv, CopyWord
  PROVE  LoadInv'
<1> DEFINE h == elf.phdr[i + 1]
           a == h.paddr + k
           w == FileWord(h.offset + k)
<1>1. pc = "copy" /\ InSegment /\ elf' = elf /\ pvdelta' = pvdelta /\ seg' = seg /\ k \in Nat /\ i \in Nat
  BY DEF CopyWord, InSegment, TypeInv
<1>2. /\ i + 1 \in Loads(elf) /\ k <= CopySize(h) /\ Copied(h, k) /\ Cleared(h, k, CopyAll(h))
      /\ seg = [dst |-> h.paddr, src |-> elf.img + h.offset, clear |-> CopyAll(h), copy |-> CopySize(h)]
  BY <1>1 DEF LoadInv, SegmentInv
<1>3. h.paddr \in Nat /\ h.offset \in Nat /\ CopyAll(h) \in Nat /\ CopySize(h) \in Nat
  BY <1>2, Places DEF Conditions
<1>4. KeptInv /\ DoneInv /\ DeltaInv
  BY DEF LoadInv
<1>5. CASE k < CopySize(h)
  <2>1. mem' = Stored(a, Load(elf.img + h.offset + k)) /\ k' = k + 1 /\ pc' = pc /\ i' = i
    BY <1>1, <1>2, <1>5 DEF CopyWord
  <2>2. k \in 0 .. CopySize(h) - 1
    BY <1>1, <1>3, <1>5
  <2>3. /\ a \in Addr /\ a \in Place(h) /\ a \in Data(h) /\ a \in Int
        /\ elf.img + h.offset + k \in Addr
    BY <1>1, <1>2, <1>3, <2>2, InRam DEF Conditions
  <2>4. Load(elf.img + h.offset + k) = w
    <3>1. i + 1 > i
      BY <1>1
    <3>2. SourceKept(h)
      BY <1>2, <1>4, <3>1 DEF KeptInv
    <3> QED
      BY <2>2, <2>3, <3>2 DEF SourceKept, Load
  <2>5. w \in Word
    BY <1>1, <1>3 DEF FileWord, Word
  <2> HIDE DEF a, w
  <2>6. mem' \in [Addr -> Word] /\ mem'[a] = w /\ \A b \in Addr : b # a => mem'[b] = mem[b]
    BY <2>1, <2>3, <2>4, <2>5, StoredType
  <2>7. KeptInv' /\ DoneInv'
    BY <1>1, <1>2, <1>4, <2>1, <2>3, <2>6, StoreApart
  <2>8. DeltaInv'
    BY <1>1, <1>4, <2>1 DEF DeltaInv
  <2>9. ASSUME NEW j \in 0 .. k' - 1 PROVE mem'[h.paddr + j] = FileWord(h.offset + j)
    <3>1. CASE j = k
      BY <2>6, <3>1 DEF a, w
    <3>2. CASE j # k
      <4>1. j \in 0 .. k - 1 /\ j \in 0 .. CopySize(h) - 1 /\ h.paddr + j # a
        BY <1>1, <1>3, <1>5, <2>1, <3>2 DEF a
      <4>2. h.paddr + j \in Addr
        BY <1>2, <4>1, InRam DEF Conditions
      <4> QED
        BY <1>2, <2>6, <4>1, <4>2 DEF Copied
    <3> QED
      BY <3>1, <3>2
  <2>10. ASSUME NEW j \in k' .. CopyAll(h) - 1 PROVE mem'[h.paddr + j] = Zero
    <3>1. j \in k .. CopyAll(h) - 1 /\ j \in 0 .. CopyAll(h) - 1 /\ h.paddr + j # a
      BY <1>1, <1>3, <2>1 DEF a
    <3>2. h.paddr + j \in Addr
      BY <1>2, <3>1, InRam DEF Conditions
    <3> QED
      BY <1>2, <2>6, <3>1, <3>2 DEF Cleared
  <2>11. k' <= CopySize(h)
    BY <1>1, <1>3, <1>5, <2>1
  <2>12. SegmentInv'
    BY <1>1, <1>2, <2>1, <2>9, <2>10, <2>11 DEF SegmentInv, Cleared, Copied
  <2> QED
    BY <1>1, <2>1, <2>7, <2>8, <2>12 DEF LoadInv
<1>6. CASE ~ k < CopySize(h)
  <2>1. pc' = "head" /\ i' = i + 1 /\ mem' = mem /\ k = CopySize(h)
    BY <1>1, <1>2, <1>3, <1>6 DEF CopyWord
  <2>2. NextHeader' = NextHeader
    BY <1>1, <2>1 DEF NextHeader, InSegment
  <2>3. \A n \in Loads(elf) : (n > i + 1 => n > i) /\ (n <= i + 1 => n <= i \/ n = i + 1)
    BY <1>1 DEF Loads
  <2>4. KeptInv'
    BY <1>1, <1>4, <2>1, <2>2, <2>3 DEF KeptInv, Alive, Intact, Wiped, HeaderKept, SourceKept
  <2>5. Done(h)
    BY <1>2, <2>1 DEF Done
  <2>6. DoneInv'
    BY <1>1, <1>4, <2>1, <2>3, <2>5 DEF DoneInv, Done, Copied, Cleared
  <2>7. DeltaInv'
    BY <1>1, <1>4, <2>1, <2>3 DEF DeltaInv
  <2> QED
    BY <1>1, <2>1, <2>4, <2>6, <2>7 DEF LoadInv, SegmentInv, InSegment
<1> QED
  BY <1>5, <1>6

LEMMA ElfStep == ElfInv /\ [Next]_vars => ElfInv'
<1> SUFFICES ASSUME ElfInv, [Next]_vars PROVE ElfInv'
  OBVIOUS
<1>1. TypeInv /\ TypeInv'
  BY TypeStep DEF ElfInv
<1>2. elf' = elf
  BY DEF Next, ReadHeader, ClearWord, CopyWord, EndHeaders, Enter, Derail, vars
<1>3. Conditions' <=> Conditions
  BY <1>2 DEF Conditions, OneDistance, Words, Apart
<1>4. ASSUME Conditions PROVE LoadInv'
  <2>1. LoadInv /\ KeptInv
    BY <1>4 DEF ElfInv, LoadInv
  <2>2. CASE ReadHeader
    BY <1>1, <1>4, <2>1, <2>2, ReadHeaderStep
  <2>3. CASE ClearWord
    BY <1>1, <1>4, <2>1, <2>3, ClearWordStep
  <2>4. CASE CopyWord
    BY <1>1, <1>4, <2>1, <2>4, CopyWordStep
  <2>5. CASE EndHeaders \/ Enter \/ UNCHANGED vars
    <3>1. UNCHANGED <<elf, mem, i, pvdelta, seg, k>>
      BY <2>5 DEF EndHeaders, Enter, vars
    <3>2. \/ pc' = pc
          \/ pc = "head" /\ pc' = "enter" /\ ~ (i < Len(elf.phdr))
          \/ pc = "enter" /\ pc' = "entered"
      BY <2>5 DEF EndHeaders, Enter, vars, More
    <3>3. pc' # "lost" /\ InSegment' = InSegment /\ (pc' = "clear" => pc = "clear") /\ (pc' = "copy" => pc = "copy")
      BY <2>1, <3>2 DEF LoadInv, InSegment
    <3>4. pc' \in {"enter", "entered"} => i' = Len(elf'.phdr)
      <4>1. i \in 0 .. Len(elf.phdr) /\ Len(elf.phdr) \in Nat
        BY <1>1, Shapes DEF TypeInv
      <4>2. ~ (i < Len(elf.phdr)) => i = Len(elf.phdr)
        BY <4>1
      <4> QED
        BY <2>1, <3>1, <3>2, <4>2 DEF LoadInv
    <3>5. KeptInv'
      <4>1. NextHeader' = NextHeader
        BY <3>1, <3>3 DEF NextHeader
      <4> QED
        BY <2>1, <3>1, <4>1 DEF KeptInv, Alive, Intact, Wiped, HeaderKept, SourceKept
    <3>6. DoneInv' /\ DeltaInv'
      BY <2>1, <3>1 DEF LoadInv, DoneInv, DeltaInv, Done, Copied, Cleared
    <3>7. SegmentInv'
      BY <2>1, <3>1, <3>3 DEF LoadInv, SegmentInv, Copied, Cleared
    <3> QED
      BY <3>3, <3>4, <3>5, <3>6, <3>7 DEF LoadInv
  <2>6. ~ Derail
    <3>1. Alive /\ Intact(0)
      BY <2>1 DEF KeptInv
    <3>2. ASSUME pc = "head", More(i) PROVE Readable(i)
      <4>1. i + 1 \in NextHeader .. Len(elf.phdr) /\ 1 + i = i + 1
        <5>1. NextHeader = i + 1
          BY <3>2 DEF NextHeader, InSegment
        <5>2. i \in Nat /\ i < Len(elf.phdr) /\ Len(elf.phdr) \in Nat
          BY <1>1, <3>2, Shapes DEF More, TypeInv
        <5> QED
          BY <5>1, <5>2
      <4> QED
        BY <2>1, <4>1 DEF KeptInv, HeaderKept, Readable
    <3> QED
      BY <3>1, <3>2 DEF Derail
  <2> QED
    BY <2>2, <2>3, <2>4, <2>5, <2>6 DEF Next
<1> QED
  BY <1>1, <1>3, <1>4 DEF ElfInv

(* An ELF kernel whose segments have one distance, whole words and places  *)
(* apart from what is still needed is entered with every segment at its    *)
(* physical address, the words of the file and then zeros, and neither     *)
(* relocate_elf nor its stack is ever written over.                        *)
THEOREM ElfKernelLoaded == Spec => []SegmentsLoaded
<1>1. ElfInv => SegmentsLoaded
  <2> SUFFICES ASSUME ElfInv, Conditions
               PROVE  pc # "lost" /\ (pc = "entered" => Loaded)
    BY DEF SegmentsLoaded, Conditions
  <2>1. TypeInv /\ LoadInv
    BY DEF ElfInv
  <2>2. ASSUME pc = "entered", NEW n \in Loads(elf)
        PROVE  LET h == elf.phdr[n] IN
                 /\ Place(h) \subseteq Addr
                 /\ \A a \in Data(h) : mem[a] = FileWord(h.offset + a - h.paddr)
                 /\ \A a \in Place(h) \ Data(h) : mem[a] = Zero
    <3> DEFINE h == elf.phdr[n]
    <3>1. /\ h.paddr \in Nat /\ h.offset \in Nat /\ CopyAll(h) \in Nat /\ CopySize(h) \in Nat
          /\ Data(h) = {h.paddr + j : j \in 0 .. CopySize(h) - 1}
          /\ Place(h) = {h.paddr + j : j \in 0 .. CopyAll(h) - 1} \cup Data(h)
      BY <2>1, Places DEF Conditions
    <3>2. Done(h)
      <4>1. n <= i
        BY <2>1, <2>2 DEF LoadInv, Loads
      <4> QED
        BY <2>1, <4>1 DEF LoadInv, DoneInv
    <3>3. Place(h) \subseteq Addr
      BY DEF Conditions, Apart
    <3> HIDE DEF h
    <3>4. ASSUME NEW a \in Data(h) PROVE mem[a] = FileWord(h.offset + a - h.paddr)
      <4>1. PICK j \in 0 .. CopySize(h) - 1 : a = h.paddr + j
        BY <3>1
      <4>2. h.offset + a - h.paddr = h.offset + j
        BY <3>1, <4>1
      <4> QED
        BY <3>2, <4>1, <4>2 DEF Done, Copied
    <3>5. ASSUME NEW a \in Place(h) \ Data(h) PROVE mem[a] = Zero
      <4>1. PICK j \in 0 .. CopyAll(h) - 1 : a = h.paddr + j
        BY <3>1
      <4>2. j \in CopySize(h) .. CopyAll(h) - 1
        BY <3>1, <4>1
      <4> QED
        BY <3>2, <4>1, <4>2 DEF Done, Cleared
    <3> QED
      BY <3>3, <3>4, <3>5 DEF h
  <2> QED
    BY <2>1, <2>2 DEF LoadInv, Loaded
<1> QED
  BY <1>1, InitElf, ElfStep, PTL DEF Spec
=============================================================================
