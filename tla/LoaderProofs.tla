---------------------------- MODULE LoaderProofs ----------------------------
(***************************************************************************)
(* Proofs about the chunks of the loader, for every set of volumes and     *)
(* cards, all files and compiled-in images, every way the sizes can be and *)
(* however cards move and allocations fail.                                *)
(***************************************************************************)
EXTENDS Loader, FiniteSetTheorems, WellFoundedInduction, TLAPS

Types ==
  /\ inserted \in [Volume -> Card \cup {NoCard}]
  /\ builtin \in Builtins
  /\ pc \in {"closed", "idle"} \cup Working \cup Stopped
  /\ job \in {"probe", "boot"} /\ img \in Image
  /\ vol \in Nat \cup {BuiltIn}
  /\ size \in Nat /\ ask \in Nat
  /\ grant \in [Slot -> Int]
  /\ loaded \in [Image -> Nat]

(* A file whose size is asked for is there.                                *)
FileThere == pc = "size" => opened = NoCard \/ (opened \in Card /\ Files[opened][img] # Absent)

(* A boot asks for the size of the image at most, and reads only with a    *)
(* chunk that is not empty, so an image that was loaded has a size.        *)
SizeKnown ==
  job = "boot" /\ pc \in {"alloc", "load"} =>
    ask <= size /\ (pc = "load" => ask > 0 /\ grant[InSlot] = ask)

Empty(s) == grant[s] = None

(* Which chunks are held: none but the one being read into, and the        *)
(* kernel's from the moment it is loaded; what is held is known to         *)
(* boot_linux by its size, which is what it frees by.                      *)
ChunkInv ==
  /\ pc \in {"closed", "idle"} => Empty(0) /\ Empty(1)
  /\ job = "probe" /\ pc \in Working =>
       Empty(1) /\ (pc # "load" => Empty(0)) /\ pc # "arm"
  /\ job = "boot" /\ img = "kernel" /\ pc \in Working \ {"arm"} =>
       /\ Empty(1) /\ (pc # "load" => Empty(0))
       /\ loaded["kernel"] = 0 /\ loaded["initrd"] = 0
  /\ job = "boot" /\ img = "initrd" /\ pc \in Working \ {"arm"} =>
       /\ pc # "load" => Empty(1)
       /\ loaded["kernel"] # 0 /\ loaded["initrd"] = 0
  /\ pc = "arm" =>
       /\ job = "boot" /\ loaded["kernel"] # 0
       /\ loaded["initrd"] = 0 => Empty(1)

Inv == Types /\ FileThere /\ SizeKnown /\ ChunkInv

----------------------------------------------------------------------------
LEMMA Sizes ==
  /\ Volume \subseteq Nat \ {0} /\ NoCard \notin Card
  /\ \A c \in Card, i \in Image : Files[c][i] # Absent => Files[c][i] \in Nat
  /\ \A b \in Builtins, i \in Image : b[i] # Absent => b[i] \in Nat
  /\ {Shrink, Page, DefaultSize, Probe, ProbeChunk} \subseteq Nat \ {0}
BY LoaderAssumption DEF Absent

LEMMA Slots ==
  /\ 0 \in Slot /\ 1 \in Slot /\ "kernel" \in Image /\ "initrd" \in Image
  /\ SlotOf("kernel") = 0 /\ SlotOf("initrd") = 1
  /\ InSlot \in Slot
  /\ \A i \in Image : SlotOf(i) \in Slot
BY DEF Slot, Image, SlotOf, InSlot

(* The volume tried next is one that holds a card.                         *)
LEMMA NextVolume == Types /\ Later # {} => Min(Later) \in Later
<1> SUFFICES ASSUME Types, Later # {} PROVE Min(Later) \in Later
  OBVIOUS
<1>1. Later \subseteq Nat
  BY Sizes DEF Later
<1>2. PICK n \in Later : \A m \in Later : ~ (<<m, n>> \in OpToRel(<, Nat))
  BY <1>1, WFMin, NatLessThanWellFounded
<1>3. \A m \in Later : ~ (m < n)
  BY <1>1, <1>2, Zenon DEF OpToRel
<1>4. \A m \in Later : n <= m
  BY <1>1, <1>3
<1> QED
  BY <1>4 DEF Min

(* The smaller of two numbers.                                             *)
LEMMA SmallerOf ==
  ASSUME NEW a \in Int, NEW b \in Int
  PROVE  Min({a, b}) = IF a <= b THEN a ELSE b
<1> DEFINE m == IF a <= b THEN a ELSE b
<1>1. m \in {a, b} /\ \A y \in {a, b} : m <= y
  OBVIOUS
<1>2. \A x \in {a, b} : (\A y \in {a, b} : x <= y) => x = m
  OBVIOUS
<1> HIDE DEF m
<1>3. Min({a, b}) = m
  BY <1>1, <1>2 DEF Min
<1> QED
  BY <1>3 DEF m

(* A read writes no more cells than it reads.                              *)
LEMMA ReachBound ==
  ASSUME NEW i, NEW n \in Int
  PROVE  Reach(i, n) \in Int /\ Reach(i, n) <= n
<1>1. Page \in Int
  BY Sizes
<1>2. Min({n, Page}) \in Int /\ Min({n, Page}) <= n
  BY <1>1, SmallerOf
<1> QED
  BY <1>2 DEF Reach

(* What boot_linux frees when it gives up: all it knows to be loaded.      *)
LEMMA Freed ==
  ASSUME NEW g \in [Slot -> Int], NEW l \in [Image -> Nat]
  PROVE  /\ FreeLoaded(g, l) \in [Slot -> Int]
         /\ FreeLoaded(g, l)[0] = IF l["kernel"] # 0 THEN None ELSE g[0]
         /\ FreeLoaded(g, l)[1] = IF l["initrd"] # 0 THEN None ELSE g[1]
BY DEF FreeLoaded, Slot, Image, SlotOf, None

----------------------------------------------------------------------------
LEMMA InitInv == Init => Inv
BY LoaderAssumption DEF Init, Inv, Types, FileThere, SizeKnown, ChunkInv, Empty,
   Working, Stopped, Image, Slot, None, NoVolume

LEMMA ProbedStep ==
  ASSUME Inv, job = "probe", pc \in Working \ {"arm"}, NEW found \in BOOLEAN, Probed(found),
         Empty(0)', Empty(1)', grant' \in [Slot -> Int],
         inserted' \in [Volume -> Card \cup {NoCard}]
  PROVE  Inv'
<1>1. CASE img = "kernel"
  BY <1>1, Slots DEF Probed, Begin, launch, Inv, Types, FileThere, SizeKnown, ChunkInv,
     Empty, Working, NoVolume
<1>2. CASE img = "initrd" /\ noprompt /\ kernel_ok
  BY <1>2, Slots, Sizes DEF Probed, StartBoot, Begin, launch, Inv, Types, FileThere, SizeKnown,
     ChunkInv, Empty, Working, NoVolume
<1>3. CASE img = "initrd" /\ ~ (noprompt /\ kernel_ok)
  BY <1>3, Slots DEF Probed, launch, search, Inv, Types, FileThere, SizeKnown, ChunkInv,
     Empty, Working
<1> QED
  BY <1>1, <1>2, <1>3 DEF Inv, Types, Image

(* boot_linux gives up: nothing is held afterwards.                        *)
LEMMA FailedStep ==
  ASSUME Inv, job = "boot", pc \in Working \ {"arm"},
         NEW g \in [Slot -> Int], PartFailed(g), g[1] = None,
         img = "kernel" => g[0] = None,
         inserted' \in [Volume -> Card \cup {NoCard}]
  PROVE  Inv'
<1>1. grant' \in [Slot -> Int] /\ Empty(0)' /\ Empty(1)'
  BY Freed DEF PartFailed, Inv, Types, ChunkInv, Empty, Image
<1> QED
  BY <1>1 DEF PartFailed, launch, search, Inv, Types, FileThere, SizeKnown, ChunkInv, Working

(* An image is loaded, and has a size.                                     *)
LEMMA LoadedStep ==
  ASSUME Inv, job = "boot", pc = "load", PartLoaded,
         inserted' \in [Volume -> Card \cup {NoCard}]
  PROVE  Inv'
<1>1. size \in Nat \ {0}
  BY DEF Inv, Types, SizeKnown
<1>2. loaded' \in [Image -> Nat] /\ loaded'[img] = size
  BY <1>1 DEF PartLoaded, Inv, Types
<1>3. CASE img = "kernel" /\ use_initrd
  <2>1. loaded'["kernel"] # 0 /\ loaded'["initrd"] = 0
    BY <1>1, <1>3 DEF PartLoaded, Inv, Types, ChunkInv, Working, Image
  <2> QED
    BY <1>2, <1>3, <2>1, Slots, Sizes DEF PartLoaded, Begin, launch, Inv, Types, FileThere,
       SizeKnown, ChunkInv, Empty, Working, NoVolume
<1>4. CASE ~ (img = "kernel" /\ use_initrd)
  <2>1. loaded'["kernel"] # 0 /\ (loaded'["initrd"] = 0 => img = "kernel")
    BY <1>1, <1>4 DEF PartLoaded, Inv, Types, ChunkInv, Working, Image
  <2> QED
    BY <1>2, <1>4, <2>1 DEF PartLoaded, launch, search, Inv, Types, FileThere,
       SizeKnown, ChunkInv, Empty, Working
<1> QED
  BY <1>3, <1>4

----------------------------------------------------------------------------
(* Cards move, and the user starts and ends the application.               *)
LEMMA EventStep ==
  Inv /\ (OpenForm \/ PressLinux \/ Quit \/ \E v \in Volume : Remove(v) \/ \E c \in Card : Insert(v, c))
    => Inv'
<1> SUFFICES ASSUME Inv PROVE
      OpenForm \/ PressLinux \/ Quit \/ (\E v \in Volume : Remove(v) \/ \E c \in Card : Insert(v, c)) => Inv'
  OBVIOUS
<1> USE DEF Inv, Types, FileThere, SizeKnown, ChunkInv, Empty, Working, Stopped
<1>1. CASE OpenForm
  BY <1>1, Slots DEF OpenForm, Begin, NoVolume
<1>2. CASE PressLinux
  BY <1>2, Slots, Sizes DEF PressLinux, StartBoot, Begin, NoVolume, launch, flags
<1>3. CASE Quit
  BY <1>3 DEF Quit, cards, launch, search, boot
<1>4. ASSUME NEW v \in Volume, Remove(v) PROVE Inv'
  BY <1>4 DEF Remove, CardsMove, launch, flags, boot, InSlot
<1>5. ASSUME NEW v \in Volume, NEW c \in Card, Insert(v, c) PROVE Inv'
  BY <1>5 DEF Insert, CardsMove, launch, flags, search, boot, InSlot
<1> QED
  BY <1>1, <1>2, <1>3, <1>4, <1>5

(* search_image.                                                           *)
LEMMA SearchStep == Inv /\ (FoundBuiltin \/ NotBuiltin \/ TryVolume \/ ReadSize) => Inv'
<1> SUFFICES ASSUME Inv PROVE FoundBuiltin \/ NotBuiltin \/ TryVolume \/ ReadSize => Inv'
  OBVIOUS
<1> USE DEF Inv, Types, FileThere, SizeKnown, ChunkInv, Empty, Working, Stopped
<1>1. CASE FoundBuiltin
  <2>1. builtin[img] \in Nat
    BY <1>1, Sizes DEF FoundBuiltin
  <2> QED
    BY <1>1, <2>1 DEF FoundBuiltin, BuiltIn, cards, launch, flags, boot
<1>2. CASE NotBuiltin
  BY <1>2 DEF NotBuiltin, cards, launch, flags, search, boot
<1>3. CASE TryVolume
  <2>1. Min(Later) \in Volume /\ inserted[Min(Later)] \in Card
    BY <1>3, NextVolume DEF TryVolume, Later
  <2> QED
    BY <1>3, <2>1, Sizes DEF TryVolume, cards, launch, flags, boot
<1>4. CASE ReadSize
  <2>1. size' \in Nat
    BY <1>4, Sizes DEF ReadSize, SizeKept, SizeRead
  <2> QED
    BY <1>4, <2>1 DEF ReadSize, cards, launch, flags, boot
<1> QED
  BY <1>1, <1>2, <1>3, <1>4

(* A search that finds nothing, and FtrPtrNew.                             *)
LEMMA AllocStep == Inv /\ (NotFound \/ Granted \/ Refused \/ GaveUp) => Inv'
<1> SUFFICES ASSUME Inv PROVE NotFound \/ Granted \/ Refused \/ GaveUp => Inv'
  OBVIOUS
<1>1. grant \in [Slot -> Int] /\ img \in Image /\ inserted \in [Volume -> Card \cup {NoCard}]
  BY DEF Inv, Types
<1>2. ASSUME job = "boot", pc \in {"lookup", "search", "alloc"}, PartFailed(grant),
             inserted' = inserted
      PROVE  Inv'
  <2>1. grant[1] = None /\ (img = "kernel" => grant[0] = None)
    BY <1>1, <1>2 DEF Inv, ChunkInv, Empty, Working, Image
  <2> QED
    BY <1>1, <1>2, <2>1, FailedStep DEF Working
<1>3. CASE NotFound
  <2>1. CASE job = "probe"
    <3>1. grant[0] = None /\ grant[1] = None
      BY <1>3, <2>1 DEF NotFound, Inv, ChunkInv, Empty, Working
    <3> QED
      BY <1>1, <1>3, <2>1, <3>1, ProbedStep DEF NotFound, Empty, cards, Working
  <2>2. CASE job = "boot"
    BY <1>2, <1>3, <2>2 DEF NotFound, cards
  <2> QED
    BY <2>1, <2>2 DEF Inv, Types
<1>4. CASE Granted
  BY <1>1, <1>4, Slots, Sizes DEF Granted, Asking, InSlot, cards, launch, flags, search, boot, Inv, Types,
     FileThere, SizeKnown, ChunkInv, Empty, Working, Image
<1>5. CASE Refused
  <2>1. ask' \in Nat /\ (job = "boot" => ask' <= ask)
    BY <1>5, Sizes DEF Refused, AskLess, Inv, Types
  <2> QED
    BY <1>5, <2>1 DEF Refused, Asking, cards, launch, flags, search, boot, Inv, Types,
       FileThere, SizeKnown, ChunkInv, Empty, Working
<1>6. CASE GaveUp
  BY <1>2, <1>6 DEF GaveUp, Asking, cards, Inv, Types
<1> QED
  BY <1>3, <1>4, <1>5, <1>6

(* What load_image read, in any number of cells.                           *)
LEMMA ReadStep ==
  ASSUME Inv, pc = "load", NEW cells, NEW n \in Int, Read(cells, n),
         inserted' \in [Volume -> Card \cup {NoCard}]
  PROVE  Inv'
<1>1. grant \in [Slot -> Int] /\ img \in Image /\ job \in {"probe", "boot"}
  BY DEF Inv, Types
<1>2. FreeChunk(grant, InSlot) \in [Slot -> Int] /\ FreeChunk(grant, InSlot)[InSlot] = None
  BY <1>1, Slots DEF FreeChunk, None
<1>3. CASE job = "probe"
  <2>1. InSlot = 0 /\ FreeChunk(grant, InSlot)[1] = None
    BY <1>1, <1>3, Slots DEF InSlot, FreeChunk, Inv, ChunkInv, Empty, Working
  <2> QED
    BY <1>2, <1>3, <2>1, ProbedStep DEF Read, Empty, Working
<1>4. CASE job = "boot" /\ AllRead(n)
  BY <1>4, LoadedStep DEF Read
<1>5. CASE job = "boot" /\ ~ AllRead(n)
  <2>1. InSlot = SlotOf(img)
    BY <1>5 DEF InSlot
  <2>2. FreeChunk(grant, InSlot)[1] = None
    BY <1>1, <1>2, <1>5, <2>1, Slots DEF FreeChunk, Inv, ChunkInv, Empty, Working, Image
  <2>3. img = "kernel" => FreeChunk(grant, InSlot)[0] = None
    BY <1>2, <2>1, Slots
  <2> QED
    BY <1>2, <1>5, <2>2, <2>3, FailedStep DEF Read, Working
<1> QED
  BY <1>1, <1>3, <1>4, <1>5

LEMMA FileSizes == \A c \in Card, i \in Image : Files[c][i] \in Int
<1> SUFFICES ASSUME NEW c \in Card, NEW i \in Image PROVE Files[c][i] \in Int
  OBVIOUS
<1>1. Files[c] \in [Image -> Nat \cup {Absent}]
  BY LoaderAssumption
<1> QED
  BY <1>1 DEF Absent

(* The smaller of what is wanted and what is in the file.                  *)
LEMMA InFileBound ==
  Inv /\ Readable => /\ CardNow \in Card /\ Wanted \in Int /\ Files[CardNow][img] \in Int
                     /\ InFile \in Int /\ InFile <= Wanted /\ InFile <= Files[CardNow][img]
<1> SUFFICES ASSUME Inv, Readable
             PROVE  /\ CardNow \in Card /\ Wanted \in Int /\ Files[CardNow][img] \in Int
                    /\ InFile \in Int /\ InFile <= Wanted /\ InFile <= Files[CardNow][img]
  OBVIOUS
<1>1. CardNow \in Card /\ Wanted \in Int /\ Files[CardNow][img] \in Int
  <2>1. CardNow \in Card
    BY DEF Readable, CardNow, Inv, Types
  <2>2. Wanted \in Int
    BY Sizes DEF Wanted, Inv, Types
  <2> QED
    BY <2>1, <2>2, FileSizes DEF Inv, Types
<1>2. PICK m \in {Wanted, Files[CardNow][img]} : \A x \in {Wanted, Files[CardNow][img]} : m <= x
  BY <1>1
<1> QED
  BY <1>1, <1>2 DEF InFile, Min

LEMMA LoadStep == Inv /\ (LoadBuiltin \/ WriteToNull \/ Overrun \/ LoadFile \/ OpenFails \/ PulledOut) => Inv'
<1> SUFFICES ASSUME Inv PROVE LoadBuiltin \/ WriteToNull \/ Overrun \/ LoadFile \/ OpenFails \/ PulledOut => Inv'
  OBVIOUS
<1>1. inserted \in [Volume -> Card \cup {NoCard}] /\ size \in Nat
  BY DEF Inv, Types
<1>2. ASSUME NEW cells, NEW n \in Int, pc = "load", Read(cells, n), UNCHANGED cards
      PROVE  Inv'
  BY <1>1, <1>2, ReadStep DEF cards
<1>3. CASE LoadBuiltin
  <2>1. Wanted \in Int
    BY <1>1, Sizes DEF Wanted
  <2> QED
    BY <1>2, <1>3, <2>1 DEF LoadBuiltin
<1>4. CASE WriteToNull \/ Overrun
  BY <1>4 DEF WriteToNull, Overrun, cards, launch, flags, search, boot, Inv, Types, FileThere, SizeKnown,
     ChunkInv, Empty, Working, Stopped
<1>5. CASE LoadFile \/ PulledOut
  <2>2. InFile \in Int
    BY <1>5, InFileBound DEF LoadFile, PulledOut
  <2>3. CASE LoadFile
    BY <1>2, <2>2, <2>3 DEF LoadFile
  <2>4. CASE PulledOut
    <3>1. PICK n \in 0 .. InFile - 1 : Read(FileCells(CardNow, img, n), n)
      BY <2>4 DEF PulledOut
    <3>2. inserted' \in [Volume -> Card \cup {NoCard}]
      BY <1>1, <2>4 DEF PulledOut, CardsMove
    <3>3. n \in Int /\ pc = "load"
      BY <2>2, <2>4 DEF PulledOut
    <3> QED
      BY <3>1, <3>2, <3>3, ReadStep
  <2> QED
    BY <1>5, <2>3, <2>4
<1>6. CASE OpenFails
  BY <1>2, <1>6 DEF OpenFails
<1> QED
  BY <1>3, <1>4, <1>5, <1>6

(* The ARM side: it starts Linux, or boot_linux frees all that it loaded.  *)
LEMMA ArmStep == Inv /\ (Linux \/ ArmReturned) => Inv'
<1> SUFFICES ASSUME Inv PROVE Linux \/ ArmReturned => Inv'
  OBVIOUS
<1> USE DEF Inv, Types, FileThere, SizeKnown, ChunkInv, Empty, Working, Stopped
<1>1. CASE Linux
  BY <1>1 DEF Linux, cards, launch, flags, search, boot
<1>2. CASE ArmReturned
  <2>1. grant' \in [Slot -> Int] /\ grant'[0] = None /\ grant'[1] = None
    BY <1>2, Freed DEF ArmReturned
  <2> QED
    BY <1>2, <2>1 DEF ArmReturned, cards, launch, flags, search, boot
<1> QED
  BY <1>1, <1>2

LEMMA InvStep == Inv /\ [Next]_vars => Inv'
<1>1. Inv /\ UNCHANGED vars => Inv'
  BY DEF vars, cards, launch, flags, search, boot, Inv, Types, FileThere, SizeKnown, ChunkInv, Empty,
     InSlot
<1> QED
  BY <1>1, EventStep, SearchStep, AllocStep, LoadStep, ArmStep DEF Next, Step

----------------------------------------------------------------------------
(* Every way out of check_image and boot_linux gives back the chunks it    *)
(* holds, so none is held while the user is waited for, and FtrPtrNew is   *)
(* never asked for a feature that already has a chunk.                     *)
THEOREM ChunksGivenBack == Spec => []NothingHeld
<1>1. Inv => NothingHeld
  BY DEF Inv, Types, ChunkInv, Empty, NothingHeld, Asking, InSlot, Slot, Image, SlotOf, Working
<1> QED
  BY <1>1, InitInv, InvStep, PTL DEF Spec

----------------------------------------------------------------------------
(* What was read, slot by slot.                                            *)
Contents == DOMAIN content = Slot

LEMMA ContentsStep == Contents /\ [Next]_vars => Contents'
<1> SUFFICES ASSUME Contents, [Next]_vars PROVE Contents'
  OBVIOUS
<1> USE DEF Contents
<1>1. ASSUME NEW cells, NEW n, Read(cells, n) PROVE Contents'
  BY <1>1 DEF Read, ContentAfter
<1>2. CASE FoundBuiltin \/ NotBuiltin \/ TryVolume \/ ReadSize \/ NotFound \/ Granted \/ Refused \/ GaveUp
  BY <1>2 DEF FoundBuiltin, NotBuiltin, TryVolume, ReadSize, NotFound, Granted, Refused, GaveUp
<1>3. CASE LoadBuiltin \/ LoadFile \/ OpenFails \/ PulledOut
  BY <1>1, <1>3 DEF LoadBuiltin, LoadFile, OpenFails, PulledOut
<1>4. CASE WriteToNull \/ Overrun \/ Linux \/ ArmReturned
  BY <1>4 DEF WriteToNull, Overrun, Linux, ArmReturned
<1>5. CASE OpenForm \/ PressLinux \/ Quit \/ \E v \in Volume : Remove(v) \/ \E c \in Card : Insert(v, c)
  BY <1>5 DEF OpenForm, PressLinux, Quit, Remove, Insert
<1>6. CASE UNCHANGED vars
  BY <1>6 DEF vars
<1> QED
  BY <1>2, <1>3, <1>4, <1>5, <1>6 DEF Next, Step

LEMMA InitContents == Init => Contents
BY DEF Init, Contents

(* An image read in full that fits, like the one loaded before it, damages *)
(* nothing: what is read stays in its own chunk.                           *)
LEMMA FittingRead ==
  ASSUME Inv, Contents, job = "boot", pc = "load", NEW cells, NEW n \in Int, AllRead(n),
         Read(cells, n), Fits'
  PROVE  Fits /\ content' = [content EXCEPT ![SlotOf(img)] = cells]
<1>1. /\ img \in Image /\ grant \in [Slot -> Int] /\ loaded \in [Image -> Nat] /\ size \in Nat
      /\ grant' = grant /\ loaded' = [loaded EXCEPT ![img] = size] /\ n = size /\ size # 0
      /\ InSlot = SlotOf(img)
  BY DEF Inv, Types, Read, PartLoaded, AllRead, Wanted, SizeKnown, InSlot
<1>2. loaded[img] = 0
  BY <1>1 DEF Inv, ChunkInv, Working, Image
<1>3. \A i \in Image : loaded[i] # 0 => loaded[i] <= grant[SlotOf(i)]
  <2> TAKE i \in Image
  <2>1. i # img => loaded'[i] = loaded[i]
    BY <1>1
  <2> QED
    BY <1>1, <1>2, <2>1 DEF Fits
<1>4. size <= grant[InSlot]
  BY <1>1 DEF Fits
<1>5. ~ PastEnd(n)
  <2>1. Reach(img, n) \in Int /\ Reach(img, n) <= n /\ grant[InSlot] \in Int
    BY <1>1, ReachBound, Slots
  <2> QED
    BY <1>1, <1>4, <2>1 DEF PastEnd
<1>6. ~ OtherPastEnd
  <2> SUFFICES ASSUME NEW i \in Image, SlotOf(i) = Other, loaded[i] # 0
               PROVE  ~ Reach(i, loaded[i]) > grant[Other]
    BY DEF OtherPastEnd
  <2>1. Reach(i, loaded[i]) \in Int /\ Reach(i, loaded[i]) <= loaded[i] /\ grant[SlotOf(i)] \in Int
    BY <1>1, ReachBound, Slots
  <2>2. loaded[i] \in Int /\ loaded[i] <= grant[SlotOf(i)]
    BY <1>1, <1>3
  <2> QED
    BY <2>1, <2>2
<1>7. ~ InTheWay(n)
  BY <1>5, <1>6 DEF InTheWay
<1>8. content' \in ContentAfter(cells, n)
  BY DEF Read
<1>9. content' = [content EXCEPT ![InSlot] = cells]
  BY <1>7, <1>8 DEF ContentAfter
<1> QED
  BY <1>1, <1>3, <1>9 DEF Fits

KernelAsItWas == grant'[0] = grant[0] /\ (Fits' => content'[0] = content[0])

(* While the kernel is held, what is searched, allocated and read is the   *)
(* initrd, in the other slot.                                              *)
LEMMA KernelStep ==
  ASSUME Inv, Contents, [Next]_vars,
         job = "boot", pc \in Working, loaded["kernel"] # 0, pc' # "idle"
  PROVE  KernelAsItWas
<1> USE DEF KernelAsItWas
<1>1. pc = "arm" \/ (img = "initrd" /\ InSlot = 1)
  BY Slots DEF Inv, Types, ChunkInv, Working, Image, InSlot
<1>2. grant \in [Slot -> Int] /\ 0 \in Slot
  BY Slots DEF Inv, Types
<1>3. ASSUME NEW cells, NEW n, pc = "load", Read(cells, n) PROVE KernelAsItWas
  <2>1. AllRead(n) /\ grant' = grant
    BY <1>1, <1>3 DEF Read, PartLoaded, PartFailed
  <2>2. n \in Int /\ SlotOf(img) = 1
    BY <1>1, <1>3, <2>1, Slots DEF AllRead, Wanted, Inv, Types
  <2>3. Fits' => content' = [content EXCEPT ![1] = cells]
    BY <1>3, <2>1, <2>2, FittingRead
  <2> QED
    BY <1>2, <2>1, <2>3 DEF Contents
<1>4. CASE FoundBuiltin \/ NotBuiltin \/ TryVolume \/ ReadSize
  BY <1>4 DEF FoundBuiltin, NotBuiltin, TryVolume, ReadSize
<1>5. CASE NotFound \/ GaveUp
  BY <1>5 DEF NotFound, GaveUp, PartFailed
<1>6. CASE Granted \/ Refused
  BY <1>1, <1>2, <1>6 DEF Granted, Refused, Asking
<1>7. CASE LoadBuiltin \/ LoadFile \/ OpenFails \/ PulledOut
  BY <1>3, <1>7 DEF LoadBuiltin, LoadFile, OpenFails, PulledOut
<1>8. CASE WriteToNull \/ Overrun \/ Linux \/ ArmReturned
  BY <1>8 DEF WriteToNull, Overrun, Linux, ArmReturned
<1>9. CASE OpenForm \/ PressLinux \/ Quit \/ \E v \in Volume : Remove(v) \/ \E c \in Card : Insert(v, c)
  BY <1>9 DEF OpenForm, PressLinux, Quit, Remove, Insert, Working
<1>10. CASE UNCHANGED vars
  BY <1>10 DEF vars
<1> QED
  BY <1>4, <1>5, <1>6, <1>7, <1>8, <1>9, <1>10 DEF Next, Step

(* From the moment the kernel is loaded its chunk is kept until the ARM    *)
(* side is called, unless boot_linux gives up, and what is in it is left   *)
(* alone by the search for the initrd, its allocation and its reading,     *)
(* unless an image is longer than its chunk.                               *)
THEOREM KernelIsKept == Spec => KernelStays
<1>1. Inv /\ Contents /\ [Next]_vars =>
        [job = "boot" /\ pc \in Working /\ loaded["kernel"] # 0 /\ pc' # "idle"
         => grant'[0] = grant[0] /\ (Fits' => content'[0] = content[0])]_vars
  BY KernelStep DEF KernelAsItWas
<1> QED
  BY <1>1, InitInv, InvStep, InitContents, ContentsStep, PTL DEF Spec, KernelStays

----------------------------------------------------------------------------
(* What was loaded from a card is a beginning of one file, and what the    *)
(* ARM side is called with was loaded.                                     *)
BeginningOf(c, i) ==
  loaded[i] \in 1 .. Files[c][i] /\ content[SlotOf(i)] = FileCells(c, i, loaded[i])

FilePart(i) ==
  loaded[i] # 0 /\ builtin[i] = Absent => \E c \in Card : BeginningOf(c, i)

Booting == job = "boot" /\ pc \in Working \cup {"linux"}

PartsInv ==
  /\ Booting /\ Fits => \A i \in Image : FilePart(i)
  /\ pc \in {"alloc", "load"} => (vol = BuiltIn <=> builtin[img] # Absent)
  /\ pc = "lookup" => vol # BuiltIn
  /\ pc \in {"size", "search"} => builtin[img] = Absent /\ vol # BuiltIn
  /\ HandedOver => job = "boot" /\ loaded["kernel"] # 0 /\ (use_initrd => loaded["initrd"] # 0)

(* A step of a job that loads nothing gives or takes the chunk of the      *)
(* image being looked for only, which has no size yet.                     *)
LEMMA FitsKept ==
  ASSUME Inv, loaded' = loaded, Booting,
         \/ grant' = grant
         \/ pc = "alloc" /\ \A s \in Slot : s # InSlot => grant'[s] = grant[s]
  PROVE  Fits' => Fits
<1>1. ASSUME pc = "alloc", NEW i \in Image, loaded[i] # 0 PROVE SlotOf(i) # InSlot
  <2>1. img \in Image /\ loaded[img] = 0 /\ InSlot = SlotOf(img)
    BY <1>1 DEF Inv, Types, ChunkInv, Working, Image, InSlot, Booting
  <2> QED
    BY <1>1, <2>1 DEF SlotOf, Image
<1> QED
  BY <1>1, Slots DEF Fits

(* Steps that load nothing.                                                *)
LEMMA PartsKept ==
  ASSUME Inv, PartsInv, UNCHANGED <<loaded, content, builtin>>,
         Booting' => Booting,
         Booting' => \/ grant' = grant
                     \/ pc = "alloc" /\ \A s \in Slot : s # InSlot => grant'[s] = grant[s]
  PROVE  Booting' /\ Fits' => \A i \in Image : FilePart(i)'
BY FitsKept DEF PartsInv, FilePart, BeginningOf

LEMMA NoneLoaded ==
  ASSUME Booting' => \A i \in Image : loaded'[i] = 0
  PROVE  Booting' => \A i \in Image : FilePart(i)'
BY DEF FilePart

LEMMA NoneIsBuiltin == NoVolume # BuiltIn
BY DEF NoVolume, BuiltIn

(* A boot has not loaded yet what it is reading.                           *)
LEMMA ReadParts ==
  ASSUME Inv, Contents, PartsInv, pc = "load", NEW cells, NEW n \in Int, Read(cells, n),
         builtin[img] = Absent /\ AllRead(n) =>
           \E c \in Card : n <= Files[c][img] /\ cells = FileCells(c, img, n)
  PROVE  PartsInv'
<1>1. img \in Image /\ job \in {"probe", "boot"} /\ loaded \in [Image -> Nat] /\ builtin' = builtin
  BY DEF Inv, Types, Read, Probed, PartLoaded, PartFailed, launch
<1>2. CASE job = "probe"
  <2>1. Probed(TRUE) /\ content' = content
    BY <1>2 DEF Read
  <2>2. CASE pc' = "idle" \/ (pc' = "lookup" /\ job' = "probe" /\ vol' = NoVolume)
    BY <2>2, NoneIsBuiltin DEF PartsInv, HandedOver, Booting, Working
  <2>3. CASE loaded' = [i \in Image |-> 0] /\ pc' = "lookup" /\ vol' = NoVolume
    BY <2>3, NoneLoaded, NoneIsBuiltin DEF PartsInv, HandedOver
  <2> QED
    BY <2>1, <2>2, <2>3 DEF Probed, StartBoot, Begin
<1>3. ASSUME job = "boot" PROVE loaded[img] = 0
  BY <1>1, <1>3 DEF Inv, ChunkInv, Working, Image
<1>4. ASSUME job = "boot", NEW i \in Image, i # img PROVE SlotOf(i) # SlotOf(img)
  BY <1>1, <1>4 DEF SlotOf, Image
<1>5. CASE job = "boot" /\ AllRead(n)
  <2>1. loaded' = [loaded EXCEPT ![img] = size]
    BY <1>5 DEF Read, PartLoaded
  <2>2. size = n /\ size \in Nat \ {0}
    BY <1>5 DEF AllRead, Wanted, Inv, Types, SizeKnown
  <2>3. ASSUME Fits' PROVE Fits /\ content' = [content EXCEPT ![SlotOf(img)] = cells]
    BY <1>5, <2>3, FittingRead
  <2>4. ASSUME Fits', NEW i \in Image PROVE FilePart(i)'
    <3>1. CASE i = img
      <4>1. loaded'[i] = n /\ content'[SlotOf(i)] = cells
        BY <1>1, <2>1, <2>2, <2>3, <2>4, <3>1, Slots DEF Contents
      <4>2. ASSUME builtin[i] = Absent PROVE \E c \in Card : BeginningOf(c, i)'
        <5>1. PICK c \in Card : n <= Files[c][i] /\ cells = FileCells(c, i, n)
          BY <1>5, <3>1, <4>2
        <5>2. loaded'[i] \in 1 .. Files[c][i]
          BY <2>2, <4>1, <5>1, FileSizes
        <5>3. content'[SlotOf(i)] = FileCells(c, i, loaded'[i])
          BY <4>1, <5>1
        <5> QED
          BY <5>2, <5>3 DEF BeginningOf, FileCells
      <4> QED
        BY <1>1, <4>2 DEF FilePart
    <3>2. CASE i # img
      <4>1. loaded'[i] = loaded[i] /\ content'[SlotOf(i)] = content[SlotOf(i)]
        BY <1>1, <1>4, <1>5, <2>1, <2>3, <2>4, <3>2, Slots DEF Contents
      <4>2. FilePart(i)
        BY <1>5, <2>3, <2>4 DEF PartsInv, Booting, Working
      <4> QED
        BY <1>1, <4>1, <4>2 DEF FilePart, BeginningOf
    <3> QED
      BY <3>1, <3>2
  <2>5. (pc' = "lookup" /\ vol' # BuiltIn) \/ pc' = "arm"
    BY <1>5, NoneIsBuiltin DEF Read, PartLoaded, Begin
  <2>6. HandedOver' => job' = "boot" /\ loaded'["kernel"] # 0 /\ (use_initrd' => loaded'["initrd"] # 0)
    <3>1. CASE img = "kernel" /\ use_initrd
      BY <1>5, <3>1 DEF Read, PartLoaded, Begin, HandedOver
    <3>2. CASE img = "kernel" /\ ~ use_initrd
      BY <1>1, <1>5, <2>1, <2>2, <3>2 DEF Read, PartLoaded, flags, search
    <3>3. CASE img = "initrd"
      BY <1>1, <1>5, <2>1, <2>2, <3>3 DEF Inv, ChunkInv, Working, Image, Read, PartLoaded, search
    <3> QED
      BY <1>1, <3>1, <3>2, <3>3 DEF Image
  <2> QED
    BY <2>4, <2>5, <2>6 DEF PartsInv
<1>6. CASE job = "boot" /\ ~ AllRead(n)
  <2>1. pc' = "idle"
    BY <1>6 DEF Read, PartFailed
  <2> QED
    BY <2>1 DEF PartsInv, HandedOver, Booting, Working
<1> QED
  BY <1>1, <1>2, <1>5, <1>6

LEMMA LoadParts ==
  Inv /\ Contents /\ PartsInv /\ (LoadBuiltin \/ LoadFile \/ OpenFails \/ PulledOut) => PartsInv'
<1> SUFFICES ASSUME Inv, Contents, PartsInv
             PROVE  LoadBuiltin \/ LoadFile \/ OpenFails \/ PulledOut => PartsInv'
  OBVIOUS
<1>1. Wanted \in Nat
  BY Sizes DEF Wanted, Inv, Types
<1>2. CASE LoadBuiltin
  <2>1. pc = "load" /\ builtin[img] # Absent /\ Read(BuiltinCells(img), Wanted)
    BY <1>2 DEF LoadBuiltin, PartsInv
  <2> QED
    BY <1>1, <2>1, ReadParts
<1>3. CASE LoadFile
  BY <1>3, InFileBound, ReadParts DEF LoadFile
<1>4. CASE OpenFails
  <2>1. ~ AllRead(-2)
    BY <1>1 DEF AllRead
  <2> QED
    BY <1>4, <2>1, ReadParts DEF OpenFails
<1>5. CASE PulledOut
  <2>1. PICK n \in 0 .. InFile - 1 : Read(FileCells(CardNow, img, n), n)
    BY <1>5 DEF PulledOut
  <2>2. n \in Int /\ ~ AllRead(n) /\ pc = "load"
    BY <1>5, InFileBound DEF PulledOut, AllRead
  <2> QED
    BY <2>1, <2>2, ReadParts
<1> QED
  BY <1>2, <1>3, <1>4, <1>5

LEMMA PartsStep == Inv /\ Contents /\ PartsInv /\ [Next]_vars => PartsInv'
<1> SUFFICES ASSUME Inv, Contents, PartsInv, [Next]_vars PROVE PartsInv'
  OBVIOUS
<1>1. CASE FoundBuiltin \/ NotBuiltin \/ TryVolume \/ ReadSize
  <2>1. UNCHANGED <<loaded, content, builtin, img, grant, job>> /\ pc \in Working
    BY <1>1 DEF FoundBuiltin, NotBuiltin, TryVolume, ReadSize, launch, search, boot, Working
  <2>0. Booting' /\ Fits' => \A i \in Image : FilePart(i)'
    BY <2>1, PartsKept DEF Booting
  <2>2. CASE FoundBuiltin
    BY <2>0, <2>1, <2>2 DEF FoundBuiltin, PartsInv, HandedOver
  <2>3. CASE NotBuiltin
    BY <2>0, <2>1, <2>3 DEF NotBuiltin, PartsInv, HandedOver, search, Inv, FileThere
  <2>4. CASE TryVolume
    <3>1. vol' \in Volume
      BY <2>4, NextVolume DEF TryVolume, Later, Inv
    <3>2. vol' # BuiltIn
      BY <3>1, Sizes DEF BuiltIn
    <3> QED
      BY <2>0, <2>1, <2>4, <3>2 DEF TryVolume, PartsInv, HandedOver
  <2>5. CASE ReadSize
    BY <2>0, <2>1, <2>5 DEF ReadSize, PartsInv, HandedOver
  <2> QED
    BY <1>1, <2>2, <2>3, <2>4, <2>5
<1>2. CASE NotFound \/ GaveUp \/ Granted \/ Refused
  <2>1. CASE Granted \/ Refused
    <3>1. UNCHANGED <<loaded, content, builtin, job>> /\ pc = "alloc"
      BY <2>1 DEF Granted, Refused, Asking, launch, search, boot
    <3>2. \A s \in Slot : s # InSlot => grant'[s] = grant[s]
      BY <2>1 DEF Granted, Refused, Inv, Types
    <3>3. Booting' /\ Fits' => \A i \in Image : FilePart(i)'
      BY <3>1, <3>2, PartsKept DEF Booting, Working
    <3> QED
      BY <2>1, <3>1, <3>3 DEF Granted, Refused, PartsInv, HandedOver, search
  <2>2. ASSUME Probed(FALSE), job = "probe" PROVE PartsInv'
    <3>1. CASE pc' = "idle" \/ (pc' = "lookup" /\ job' = "probe" /\ vol' = NoVolume)
      BY <3>1, NoneIsBuiltin DEF PartsInv, HandedOver, Booting, Working
    <3>2. CASE loaded' = [i \in Image |-> 0] /\ pc' = "lookup" /\ vol' = NoVolume
      BY <3>2, NoneLoaded, NoneIsBuiltin DEF PartsInv, HandedOver
    <3> QED
      BY <2>2, <3>1, <3>2 DEF Probed, StartBoot, Begin
  <2>3. ASSUME PartFailed(grant) PROVE PartsInv'
    BY <2>3 DEF PartFailed, PartsInv, HandedOver, Booting, Working
  <2> QED
    BY <1>2, <2>1, <2>2, <2>3 DEF NotFound, GaveUp
<1>3. CASE LoadBuiltin \/ LoadFile \/ OpenFails \/ PulledOut
  BY <1>3, LoadParts
<1>4. CASE WriteToNull \/ Overrun \/ ArmReturned
  BY <1>4 DEF WriteToNull, Overrun, ArmReturned, PartsInv, HandedOver, Booting, Working
<1>5. CASE Linux
  <2>1. UNCHANGED <<loaded, content, builtin, job, grant, use_initrd>> /\ pc = "arm" /\ pc' = "linux"
    BY <1>5 DEF Linux, launch, search, boot, flags
  <2>2. Booting' /\ Fits' => \A i \in Image : FilePart(i)'
    BY <2>1, PartsKept DEF Booting, Working
  <2> QED
    BY <2>1, <2>2 DEF PartsInv, HandedOver
<1>6. CASE PressLinux
  BY <1>6, NoneLoaded, NoneIsBuiltin DEF PressLinux, StartBoot, Begin, PartsInv, HandedOver
<1>7. CASE OpenForm \/ Quit
  BY <1>7, NoneIsBuiltin DEF OpenForm, Begin, Quit, PartsInv, HandedOver, Booting, Working
<1>8. ASSUME NEW v \in Volume, Remove(v) \/ \E c \in Card : Insert(v, c) PROVE PartsInv'
  <2>1. UNCHANGED <<loaded, content, builtin, img, vol, pc, use_initrd, job, grant>>
    BY <1>8 DEF Remove, Insert, launch, search, boot, flags
  <2> QED
    BY <2>1, PartsKept DEF PartsInv, HandedOver, Booting
<1>9. CASE UNCHANGED vars
  BY <1>9, PartsKept DEF vars, launch, search, boot, flags, PartsInv, HandedOver, Booting
<1> QED
  BY <1>1, <1>2, <1>3, <1>4, <1>5, <1>6, <1>7, <1>8, <1>9 DEF Next, Step

LEMMA InitParts == Init => PartsInv
BY DEF Init, PartsInv, HandedOver, Booting

(* A boot starts from the preset and takes the length of a file it opened. *)
LengthInv ==
  Booting =>
    /\ pc \in {"lookup", "search", "size"} => size = DefaultSize
    /\ pc \in {"alloc", "load"} /\ builtin[img] = Absent => PossibleLength(img, size)
    /\ \A i \in Image : loaded[i] # 0 /\ builtin[i] = Absent => PossibleLength(i, loaded[i])

LEMMA ReadLength ==
  ASSUME Inv, LengthInv, pc = "load", NEW cells, NEW n, Read(cells, n)
  PROVE  LengthInv'
<1>1. img \in Image /\ job \in {"probe", "boot"} /\ loaded \in [Image -> Nat]
  BY DEF Inv, Types
<1>2. CASE job = "probe"
  BY <1>2 DEF Read, Probed, StartBoot, Begin, LengthInv, Booting, Working
<1>3. CASE job = "boot" /\ AllRead(n)
  <2>1. PartLoaded /\ builtin' = builtin
    BY <1>3 DEF Read, PartLoaded, launch
  <2>2. loaded' = [loaded EXCEPT ![img] = size]
    BY <2>1 DEF PartLoaded
  <2>3. /\ builtin[img] = Absent => PossibleLength(img, size)
        /\ \A i \in Image : loaded[i] # 0 /\ builtin[i] = Absent => PossibleLength(i, loaded[i])
    BY <1>3 DEF LengthInv, Booting, Working
  <2>4. \A i \in Image : loaded'[i] # 0 /\ builtin'[i] = Absent => PossibleLength(i, loaded'[i])
    BY <1>1, <2>1, <2>2, <2>3
  <2>5. (pc' = "lookup" /\ (job' = "boot" => size' = DefaultSize)) \/ pc' = "arm"
    BY <2>1 DEF PartLoaded, Begin
  <2>6. Booting' => pc' \notin {"alloc", "load"} /\ (pc' \in {"lookup", "search", "size"} => size' = DefaultSize)
    BY <2>5 DEF Booting
  <2>7. (\A i \in Image : loaded[i] # 0 /\ builtin[i] = Absent => PossibleLength(i, loaded[i]))'
    BY <2>4 DEF PossibleLength
  <2> QED
    BY <2>6, <2>7 DEF LengthInv
<1>4. CASE job = "boot" /\ ~ AllRead(n)
  BY <1>4 DEF Read, PartFailed, LengthInv, Booting, Working
<1> QED
  BY <1>1, <1>2, <1>3, <1>4

LEMMA LengthStep == Inv /\ PartsInv /\ LengthInv /\ [Next]_vars => LengthInv'
<1> SUFFICES ASSUME Inv, PartsInv, LengthInv, [Next]_vars PROVE LengthInv'
  OBVIOUS
<1>1. CASE FoundBuiltin \/ NotBuiltin \/ TryVolume
  BY <1>1 DEF FoundBuiltin, NotBuiltin, TryVolume, launch, search, boot,
     LengthInv, PossibleLength, Booting, Working
<1>2. CASE ReadSize
  <2>1. /\ UNCHANGED <<loaded, builtin, job, img>> /\ pc = "size" /\ pc' = "alloc"
        /\ IF opened = NoCard THEN size' = size ELSE size' = Files[opened][img]
    BY <1>2 DEF ReadSize, SizeKept, SizeRead, launch, boot
  <2>2. opened = NoCard \/ opened \in Card
    BY <2>1 DEF Inv, FileThere
  <2> QED
    BY <2>1, <2>2 DEF LengthInv, PossibleLength, Booting, Working
<1>3. CASE Granted \/ Refused
  BY <1>3 DEF Granted, Refused, Asking, launch, search, boot, LengthInv, PossibleLength, Booting, Working
<1>4. CASE NotFound \/ GaveUp
  BY <1>4 DEF NotFound, GaveUp, Probed, PartFailed, StartBoot, Begin, LengthInv, Booting, Working
<1>5. CASE LoadBuiltin \/ LoadFile \/ OpenFails \/ PulledOut
  BY <1>5, ReadLength DEF LoadBuiltin, LoadFile, OpenFails, PulledOut
<1>6. CASE WriteToNull \/ Overrun \/ ArmReturned \/ Quit \/ OpenForm
  BY <1>6 DEF WriteToNull, Overrun, ArmReturned, Quit, OpenForm, Begin, LengthInv, Booting, Working
<1>7. CASE PressLinux
  BY <1>7 DEF PressLinux, StartBoot, Begin, LengthInv, Booting, Working
<1>8. CASE Linux \/ UNCHANGED vars \/ \E v \in Volume : Remove(v) \/ \E c \in Card : Insert(v, c)
  <2>1. UNCHANGED <<loaded, builtin, job, img, size>>
    BY <1>8 DEF Linux, Remove, Insert, vars, launch, search, boot
  <2>2. pc' = pc \/ (pc = "arm" /\ pc' = "linux")
    BY <1>8 DEF Linux, Remove, Insert, vars
  <2> QED
    BY <2>1, <2>2 DEF LengthInv, PossibleLength, Booting, Working
<1> QED
  BY <1>1, <1>2, <1>3, <1>4, <1>5, <1>6, <1>7, <1>8 DEF Next, Step

(* Whatever the cards do between the search for an image and its reading,  *)
(* an image read from a card is one unbroken beginning of one file, of     *)
(* the length announced to Linux, which is a card's or the preset, unless  *)
(* one was read past the end of its chunk.                                 *)
THEOREM OneFileHandedOver == Spec => []OneFile
<1>1. Inv /\ PartsInv /\ LengthInv => OneFile
  BY DEF PartsInv, FilePart, BeginningOf, LengthInv, OneFile, HandedOver, Handed, Image, Booting, Working
<1>2. Init => LengthInv
  BY DEF Init, LengthInv, Booting, Working
<1> QED
  BY <1>1, <1>2, InitInv, InvStep, InitContents, ContentsStep, InitParts, PartsStep, LengthStep,
     PTL DEF Spec

(* A job that brings the application down does so for a named reason.      *)
LEMMA CrashStep == Inv /\ PartsInv /\ CrashOnlyTo /\ [Next]_vars => CrashOnlyTo'
<1> SUFFICES ASSUME Inv, PartsInv, CrashOnlyTo, [Next]_vars, pc' = "crashed" PROVE CrashOnlyTo'
  BY DEF CrashOnlyTo
<1>1. /\ grant[InSlot] \in Int /\ size \in Nat /\ img \in Image
      /\ job = "boot" /\ pc = "load" => grant[InSlot] > 0
  BY Slots DEF Inv, Types, SizeKnown
<1>2. CASE WriteToNull
  <2>1. job = "probe" /\ InSlot = 0 /\ grant[0] = None /\ builtin[img] # Absent
    BY <1>1, <1>2 DEF WriteToNull, Inv, Types, PartsInv, InSlot, None
  <2> QED
    BY <1>2, <2>1 DEF WriteToNull, CrashOnlyTo, launch, search
<1>3. CASE Overrun
  <2>1. ASSUME NEW n \in Int, n <= size, PastEnd(n) PROVE grant[InSlot] \in 1 .. size - 1
    <3>1. Reach(img, n) \in Int /\ Reach(img, n) <= n
      BY ReachBound
    <3>2. grant[InSlot] > 0
      BY <1>1, <1>3 DEF Overrun
    <3> QED
      BY <1>1, <2>1, <3>1, <3>2 DEF PastEnd
  <2>2. job = "boot" /\ Wanted = size
    BY <1>3 DEF Overrun, Wanted
  <2>3. Readable => InFile \in Int /\ InFile <= size
    BY <2>2, InFileBound
  <2>4. grant[InSlot] \in 1 .. size - 1
    BY <1>1, <1>3, <2>1, <2>2, <2>3 DEF Overrun
  <2> QED
    BY <1>3, <2>2, <2>4 DEF Overrun, CrashOnlyTo, launch, search, InSlot
<1>4. CASE UNCHANGED vars
  BY <1>4 DEF vars, CrashOnlyTo, launch, search, InSlot
<1>5. ASSUME NEW cells, NEW n, Read(cells, n) PROVE pc' # "crashed"
  BY <1>5 DEF Read, Probed, StartBoot, Begin, PartLoaded, PartFailed
<1>6. ~ (LoadBuiltin \/ LoadFile \/ OpenFails \/ PulledOut)
  BY <1>5 DEF LoadBuiltin, LoadFile, OpenFails, PulledOut
<1>7. ~ (FoundBuiltin \/ NotBuiltin \/ TryVolume \/ ReadSize \/ NotFound \/ Granted \/ Refused
         \/ GaveUp \/ Linux \/ ArmReturned)
  BY DEF FoundBuiltin, NotBuiltin, TryVolume, ReadSize, NotFound, Granted, Refused, GaveUp, Linux,
     ArmReturned, Asking, Probed, StartBoot, Begin, PartFailed
<1>8. ~ (OpenForm \/ PressLinux \/ Quit \/ \E v \in Volume : Remove(v) \/ \E c \in Card : Insert(v, c))
  BY DEF OpenForm, PressLinux, Quit, Remove, Insert, StartBoot, Begin, Stopped
<1> QED
  BY <1>2, <1>3, <1>4, <1>6, <1>7, <1>8 DEF Next, Step

(* Nothing but a compiled-in image probed without memory and an image read *)
(* past the end of its chunk can bring the application down.               *)
THEOREM CrashIsNamed == Spec => []CrashOnlyTo
<1>1. Init => CrashOnlyTo
  BY DEF Init, CrashOnlyTo
<1> QED
  BY <1>1, InitInv, InvStep, InitContents, ContentsStep, InitParts, PartsStep, CrashStep, PTL DEF Spec

----------------------------------------------------------------------------
(* As long as no card moves, what was loaded is the whole of the first     *)
(* image there is.                                                         *)

(* The first volume that has image i.                                      *)
Place(v, i) ==
  /\ v \in Volume /\ inserted[v] \in Card /\ Files[inserted[v]][i] # Absent
  /\ \A w \in Volume : w < v /\ inserted[w] # NoCard => Files[inserted[w]][i] = Absent

(* A compiled-in image of several pages is the one that is not loaded as   *)
(* it is.                                                                  *)
LoadedWhole(i) ==
  IF builtin[i] # Absent
    THEN builtin[i] <= Page =>
           /\ loaded[i] = builtin[i]
           /\ content[SlotOf(i)] = [k \in 0 .. builtin[i] - 1 |-> <<"builtin", i, k>>]
    ELSE \E v \in Volume :
           /\ Place(v, i) /\ loaded[i] = Files[inserted[v]][i]
           /\ content[SlotOf(i)] = FileCells(inserted[v], i, loaded[i])

(* The search passes no volume that has the image, and what it found is    *)
(* what is read.                                                           *)
SearchInv ==
  /\ pc = "lookup" => vol = NoVolume
  /\ pc = "search" =>
       \A w \in Volume : w <= vol /\ inserted[w] # NoCard => Files[inserted[w]][img] = Absent
  /\ pc = "size" => Place(vol, img) /\ opened = inserted[vol]
  /\ pc \in {"alloc", "load"} =>
       IF builtin[img] # Absent THEN size = builtin[img]
       ELSE Place(vol, img) /\ size = Files[inserted[vol]][img]

(* The initrd is loaded exactly when check_image found one.                *)
InitrdInv ==
  /\ Booting /\ (img = "initrd" \/ loaded["initrd"] # 0) => use_initrd

CalmInv ==
  /\ calm => SearchInv
  /\ calm /\ Booting /\ Fits => \A i \in Image : loaded[i] # 0 => LoadedWhole(i)
  /\ InitrdInv

LEMMA InitCalm == Init => CalmInv
BY DEF Init, CalmInv, SearchInv, Booting, InitrdInv, HandedOver

LEMMA WholeKept ==
  ASSUME NEW i \in Image, LoadedWhole(i), UNCHANGED <<inserted, builtin>>,
         loaded'[i] = loaded[i], content'[SlotOf(i)] = content[SlotOf(i)]
  PROVE  LoadedWhole(i)'
<1>1. CASE builtin[i] # Absent
  BY <1>1 DEF LoadedWhole
<1>2. CASE builtin[i] = Absent
  <2>1. PICK v \in Volume :
          /\ Place(v, i) /\ loaded[i] = Files[inserted[v]][i]
          /\ content[SlotOf(i)] = FileCells(inserted[v], i, loaded[i])
    BY <1>2 DEF LoadedWhole
  <2>2. Place(v, i)'
    BY <2>1 DEF Place
  <2>3. content'[SlotOf(i)] = FileCells(inserted'[v], i, loaded'[i])
    BY <2>1
  <2>4. loaded'[i] = Files[inserted'[v]][i]
    BY <2>1
  <2>5. builtin'[i] = Absent
    BY <1>2
  <2> QED
    BY <2>2, <2>3, <2>4, <2>5 DEF LoadedWhole, FileCells
<1> QED
  BY <1>1, <1>2

(* A job begins or none is under way.                                      *)
LEMMA FreshStep ==
  ASSUME pc' \in {"lookup", "idle", "closed", "crashed"}, pc' = "lookup" => vol' = NoVolume,
         job' = "boot" /\ pc' = "lookup" => img' = "kernel" /\ \A i \in Image : loaded'[i] = 0
  PROVE  CalmInv'
<1>1. ~ HandedOver' /\ (Booting' => job' = "boot" /\ pc' = "lookup")
  BY DEF HandedOver, Booting, Working
<1>2. SearchInv'
  BY DEF SearchInv
<1>3. Booting' => (\A i \in Image : loaded'[i] = 0) /\ img' = "kernel" /\ loaded'["initrd"] = 0
  BY <1>1 DEF Image
<1>4. InitrdInv'
  BY <1>1, <1>3 DEF InitrdInv
<1> QED
  BY <1>2, <1>3, <1>4 DEF CalmInv

LEMMA ProbedCalm == ASSUME job = "probe", NEW found, Probed(found) PROVE CalmInv'
<1>1. CASE img = "kernel" \/ (noprompt /\ kernel_ok)
  BY <1>1, FreshStep DEF Probed, StartBoot, Begin
<1>2. CASE ~ (img = "kernel" \/ (noprompt /\ kernel_ok))
  BY <1>2, FreshStep DEF Probed
<1> QED
  BY <1>1, <1>2

LEMMA FailedCalm == ASSUME NEW g, PartFailed(g) PROVE CalmInv'
BY FreshStep DEF PartFailed

(* Steps inside a job that load nothing.                                   *)
LEMMA SameCalm ==
  ASSUME Inv, CalmInv, UNCHANGED <<inserted, builtin, loaded, content, calm, job, img, use_initrd>>,
         \/ grant' = grant
         \/ pc = "alloc" /\ \A s \in Slot : s # InSlot => grant'[s] = grant[s],
         pc \in Working, pc' \in Working \cup {"linux"}, HandedOver' => HandedOver,
         calm => SearchInv'
  PROVE  CalmInv'
<1>1. Booting' => Booting
  BY DEF Booting
<1>2. calm /\ Booting /\ Fits' => \A i \in Image : loaded[i] # 0 => LoadedWhole(i)'
  BY WholeKept, FitsKept DEF CalmInv
<1>3. InitrdInv'
  BY <1>1 DEF CalmInv, InitrdInv
<1> QED
  BY <1>1, <1>2, <1>3 DEF CalmInv

(* The volume tried next is the first that holds a card.                   *)
LEMMA NextIsFirst == Types /\ Later # {} => \A w \in Later : Min(Later) <= w
<1> SUFFICES ASSUME Types, Later # {} PROVE \A w \in Later : Min(Later) <= w
  OBVIOUS
<1>1. Later \subseteq Nat
  BY Sizes DEF Later
<1>2. PICK n \in Later : \A m \in Later : ~ (<<m, n>> \in OpToRel(<, Nat))
  BY <1>1, WFMin, NatLessThanWellFounded
<1>3. \A m \in Later : ~ (m < n)
  BY <1>1, <1>2, Zenon DEF OpToRel
<1>4. \A m \in Later : n <= m
  BY <1>1, <1>3
<1> QED
  BY <1>4 DEF Min

LEMMA SearchCalm ==
  Inv /\ PartsInv /\ CalmInv /\ (FoundBuiltin \/ NotBuiltin \/ TryVolume \/ ReadSize) => CalmInv'
<1> SUFFICES ASSUME Inv, PartsInv, CalmInv, FoundBuiltin \/ NotBuiltin \/ TryVolume \/ ReadSize
             PROVE  CalmInv'
  OBVIOUS
<1>1. UNCHANGED <<inserted, builtin, loaded, content, calm, job, img, use_initrd, grant>>
  BY DEF FoundBuiltin, NotBuiltin, TryVolume, ReadSize, cards, launch, flags, search, boot
<1>2. pc \in Working /\ pc' \in Working /\ ~ HandedOver'
  BY DEF FoundBuiltin, NotBuiltin, TryVolume, ReadSize, Working, HandedOver
<1>3. ASSUME calm, FoundBuiltin PROVE SearchInv'
  BY <1>3 DEF FoundBuiltin, SearchInv, launch
<1>4. ASSUME calm, NotBuiltin PROVE SearchInv'
  <2>1. pc' = "search" /\ vol' = 0 /\ inserted' = inserted
    BY <1>4 DEF NotBuiltin, CalmInv, SearchInv, search, cards, NoVolume
  <2>2. \A w \in Volume : ~ w <= 0
    BY Sizes
  <2> QED
    BY <2>1, <2>2 DEF SearchInv
<1>5. ASSUME calm, TryVolume PROVE SearchInv'
  <2>1. PICK m : pc = "search" /\ Later # {} /\ vol' = m /\ m = Min(Later)
    BY <1>5 DEF TryVolume
  <2>2. m \in Later /\ \A w \in Later : m <= w
    BY <2>1, NextVolume, NextIsFirst DEF Inv
  <2>3. /\ m \in Volume /\ m > vol /\ inserted[m] # NoCard
        /\ \A w \in Volume : w > vol /\ inserted[w] # NoCard => m <= w
    BY <2>2 DEF Later
  <2>4. \A w \in Volume : w <= vol /\ inserted[w] # NoCard => Files[inserted[w]][img] = Absent
    BY <1>5, <2>1 DEF CalmInv, SearchInv
  <2>5. \A w \in Volume : w < m /\ inserted[w] # NoCard => Files[inserted[w]][img] = Absent
    <3>1. vol \in Int /\ m \in Int /\ \A w \in Volume : w \in Int
      BY <2>3, Sizes DEF Inv, Types, BuiltIn
    <3> QED
      BY <2>3, <2>4, <3>1
  <2>6. CASE Files[inserted[m]][img] = Absent
    <3>1. pc' = "search"
      BY <1>5, <2>1, <2>6 DEF TryVolume
    <3>2. \A w \in Volume : w <= m /\ inserted[w] # NoCard => Files[inserted[w]][img] = Absent
      <4>1. \A w \in Volume : w <= m => w < m \/ w = m
        BY <2>3, Sizes
      <4> QED
        BY <2>5, <2>6, <4>1
    <3> QED
      BY <1>1, <2>1, <3>1, <3>2 DEF SearchInv
  <2>7. CASE Files[inserted[m]][img] # Absent
    <3>1. pc' = "size" /\ opened' = inserted[m]
      BY <1>5, <2>1, <2>7 DEF TryVolume
    <3>2. inserted[m] \in Card
      BY <2>3 DEF Inv, Types
    <3>3. Place(m, img)'
      BY <1>1, <2>3, <2>5, <2>7, <3>2 DEF Place
    <3>4. Place(vol, img)' /\ opened' = inserted'[vol']
      BY <1>1, <2>1, <3>1, <3>3 DEF Place
    <3> QED
      BY <3>1, <3>4 DEF SearchInv
  <2> QED
    BY <2>6, <2>7
<1>6. ASSUME calm, ReadSize PROVE SearchInv'
  <2>1. /\ pc = "size" /\ pc' = "alloc" /\ vol' = vol /\ Place(vol, img) /\ opened = inserted[vol]
        /\ builtin[img] = Absent
    BY <1>6 DEF ReadSize, CalmInv, SearchInv, PartsInv
  <2>2. opened # NoCard
    BY <2>1, Sizes DEF Place
  <2>3. size' = Files[inserted[vol]][img]
    BY <1>6, <2>1, <2>2 DEF ReadSize, SizeRead
  <2>4. Place(vol, img)'
    BY <1>1, <2>1 DEF Place
  <2> QED
    BY <1>1, <2>1, <2>3, <2>4 DEF SearchInv
<1> QED
  BY <1>1, <1>2, <1>3, <1>4, <1>5, <1>6, SameCalm

(* The image read is added to what is loaded.                              *)
LEMMA LoadedCalm ==
  ASSUME Inv, Contents, CalmInv, job = "boot", pc = "load", PartLoaded, calm' => calm,
         calm' => inserted' = inserted,
         NEW cells, Fits' => Fits /\ content' = [content EXCEPT ![SlotOf(img)] = cells],
         calm' => IF builtin[img] # Absent
                    THEN builtin[img] <= Page =>
                           cells = [k \in 0 .. builtin[img] - 1 |-> <<"builtin", img, k>>]
                    ELSE cells = FileCells(inserted[vol], img, size)
  PROVE  CalmInv'
<1>1. /\ img \in Image /\ loaded \in [Image -> Nat] /\ builtin' = builtin /\ use_initrd' = use_initrd
      /\ loaded' = [loaded EXCEPT ![img] = size] /\ loaded["initrd"] = 0
  BY DEF Inv, Types, PartLoaded, launch, flags, ChunkInv, Working, Image
<1>2. ASSUME calm', Fits', NEW i \in Image, loaded'[i] # 0 PROVE LoadedWhole(i)'
  <2>1. calm /\ Booting /\ SearchInv /\ Fits
    BY <1>2 DEF CalmInv, Booting, Working
  <2>2. CASE i # img
    <3>1. loaded'[i] = loaded[i] /\ LoadedWhole(i)
      BY <1>1, <1>2, <2>1, <2>2 DEF CalmInv
    <3>2. content'[SlotOf(i)] = content[SlotOf(i)]
      <4>1. SlotOf(i) # SlotOf(img)
        BY <1>1, <2>2 DEF SlotOf, Image
      <4> QED
        BY <1>2, <4>1, Slots DEF Contents
    <3> QED
      BY <1>1, <1>2, <3>1, <3>2, WholeKept
  <2>3. CASE i = img
    <3>1. loaded'[i] = size /\ content'[SlotOf(i)] = cells
      BY <1>1, <1>2, <2>3, Slots DEF Contents
    <3>2. CASE builtin[i] # Absent
      BY <1>1, <1>2, <2>1, <2>3, <3>1, <3>2 DEF LoadedWhole, SearchInv
    <3>3. CASE builtin[i] = Absent
      <4>1. Place(vol, i) /\ size = Files[inserted[vol]][i]
        BY <2>1, <2>3, <3>3 DEF SearchInv
      <4>2. \E v \in Volume : Place(v, i)' /\ loaded'[i] = Files[inserted'[v]][i]
                             /\ content'[SlotOf(i)] = FileCells(inserted'[v], i, loaded'[i])
        BY <1>2, <2>3, <3>1, <3>3, <4>1 DEF Place
      <4> QED
        BY <1>1, <3>3, <4>2 DEF LoadedWhole, FileCells
    <3> QED
      BY <3>2, <3>3
  <2> QED
    BY <2>2, <2>3
<1>3. CASE img = "kernel" /\ use_initrd
  <2>1. pc' = "lookup" /\ vol' = NoVolume
    BY <1>3 DEF PartLoaded, Begin
  <2>2. SearchInv' /\ InitrdInv'
    BY <1>1, <1>3, <2>1 DEF SearchInv, InitrdInv, HandedOver
  <2> QED
    BY <1>2, <2>2 DEF CalmInv
<1>4. CASE ~ (img = "kernel" /\ use_initrd)
  <2>1. pc' = "arm" /\ job' = "boot" /\ img' = img
    BY <1>4 DEF PartLoaded, search
  <2>2. img = "initrd" => use_initrd
    BY DEF CalmInv, InitrdInv, Booting, Working
  <2>3. loaded'["initrd"] # 0 => img = "initrd"
    BY <1>1 DEF Image
  <2>4. SearchInv' /\ InitrdInv'
    BY <1>1, <2>1, <2>2, <2>3 DEF SearchInv, InitrdInv, HandedOver
  <2> QED
    BY <1>2, <2>4 DEF CalmInv
<1> QED
  BY <1>3, <1>4

(* A compiled-in image that fits one page is loaded as it is.              *)
LEMMA OnePage ==
  ASSUME Types, NEW i \in Image, builtin[i] # Absent, builtin[i] <= Page
  PROVE  BuiltinCells(i) = [k \in 0 .. builtin[i] - 1 |-> <<"builtin", i, k>>]
<1> DEFINE n == builtin[i]
<1>1. n \in Nat /\ Page \in Nat \ {0}
  BY Sizes DEF Types
<1> HIDE DEF n
<1>2. ASSUME NEW k \in 0 .. n - 1 PROVE {p \in 0 .. n : k < PageCells(i, p)} = {0}
  <2>1. ASSUME NEW p \in 0 .. n, p # 0 PROVE ~ k < PageCells(i, p)
    <3>1. Page <= p * Page /\ p * Page \in Nat
      BY <1>1, <2>1
    <3>2. PageCells(i, p) = IF Page <= n - p * Page THEN Page ELSE n - p * Page
      BY <1>1, <3>1, SmallerOf DEF PageCells, n
    <3>3. n - p * Page <= 0
      BY <1>1, <3>1 DEF n
    <3> HIDE DEF PageCells
    <3> QED
      BY <1>1, <3>1, <3>2, <3>3
  <2>2. k < PageCells(i, 0)
    <3>1. PageCells(i, 0) = IF Page <= n THEN Page ELSE n
      BY <1>1, SmallerOf DEF PageCells, n
    <3> QED
      BY <1>1, <3>1 DEF n
  <2>3. 0 \in 0 .. n
    BY <1>1
  <2> QED
    BY <2>1, <2>2, <2>3
<1>3. Max({0}) = 0
  BY DEF Max
<1>4. ASSUME NEW k \in 0 .. n - 1
      PROVE  (LET writers == {p \in 0 .. n : k < PageCells(i, p)}
              IN IF writers = {} THEN Junk ELSE <<"builtin", i, Max(writers) * Page + k>>)
               = <<"builtin", i, k>>
  <2>1. 0 * Page + k = k
    BY <1>1
  <2>2. {0} # {}
    OBVIOUS
  <2> QED
    BY <1>2, <1>3, <2>1, <2>2
<1> QED
  BY <1>4 DEF BuiltinCells, n

(* What load_image read decides whether the image counts as loaded.        *)
LEMMA ReadCalm ==
  ASSUME Inv, Contents, CalmInv, pc = "load", calm' => calm, calm' => inserted' = inserted,
         NEW cells, NEW n \in Int, Read(cells, n),
         calm' /\ AllRead(n) =>
           IF builtin[img] # Absent
             THEN builtin[img] <= Page =>
                    cells = [k \in 0 .. builtin[img] - 1 |-> <<"builtin", img, k>>]
             ELSE cells = FileCells(inserted[vol], img, size)
  PROVE  CalmInv'
<1>1. CASE job = "probe"
  BY <1>1, ProbedCalm DEF Read
<1>2. CASE job = "boot" /\ AllRead(n)
  <2>1. PartLoaded /\ (Fits' => Fits /\ content' = [content EXCEPT ![SlotOf(img)] = cells])
    BY <1>2, FittingRead DEF Read
  <2> QED
    BY <1>2, <2>1, LoadedCalm
<1>3. CASE job = "boot" /\ ~ AllRead(n)
  BY <1>3, FailedCalm DEF Read
<1> QED
  BY <1>1, <1>2, <1>3 DEF Inv, Types

LEMMA LoadCalm ==
  Inv /\ Contents /\ PartsInv /\ CalmInv /\ (LoadBuiltin \/ LoadFile \/ OpenFails \/ PulledOut)
    => CalmInv'
<1> SUFFICES ASSUME Inv, Contents, PartsInv, CalmInv
             PROVE  LoadBuiltin \/ LoadFile \/ OpenFails \/ PulledOut => CalmInv'
  OBVIOUS
<1>1. CASE LoadBuiltin
  <2>1. pc = "load" /\ builtin[img] # Absent /\ Read(BuiltinCells(img), Wanted) /\ UNCHANGED <<inserted, calm>>
    BY <1>1 DEF LoadBuiltin, PartsInv, cards
  <2>2. builtin[img] <= Page =>
          BuiltinCells(img) = [k \in 0 .. builtin[img] - 1 |-> <<"builtin", img, k>>]
    BY <2>1, OnePage DEF Inv, Types
  <2>3. Wanted \in Int
    BY Sizes DEF Wanted, Inv, Types
  <2> QED
    BY <2>1, <2>2, <2>3, ReadCalm
<1>2. CASE LoadFile
  <2>1. /\ pc = "load" /\ Readable /\ Read(FileCells(CardNow, img, InFile), InFile)
        /\ UNCHANGED <<inserted, calm>>
    BY <1>2 DEF LoadFile, cards
  <2>2. ASSUME calm, AllRead(InFile), job = "boot"
        PROVE  builtin[img] = Absent => FileCells(CardNow, img, InFile) = FileCells(inserted[vol], img, size)
    <3>1. InFile = size
      BY <2>2 DEF AllRead, Wanted
    <3>2. builtin[img] = Absent => vol \in Volume
      BY <2>1, <2>2 DEF CalmInv, SearchInv, Place
    <3> QED
      BY <3>1, <3>2 DEF CardNow
  <2>3. builtin[img] = Absent
    <3>1. vol # BuiltIn
      BY <2>1, Sizes DEF Readable, CardNow, BuiltIn
    <3> QED
      BY <2>1, <3>1 DEF PartsInv
  <2>4. CASE job = "probe"
    BY <2>1, <2>4, ProbedCalm DEF Read
  <2>5. CASE job = "boot"
    BY <2>1, <2>2, <2>3, <2>5, InFileBound, ReadCalm
  <2> QED
    BY <2>4, <2>5 DEF Inv, Types
<1>3. CASE OpenFails
  <2>1. pc = "load" /\ Read(<<>>, -2) /\ UNCHANGED <<inserted, calm>>
    BY <1>3 DEF OpenFails, cards
  <2>2. ~ AllRead(-2)
    BY Sizes DEF AllRead, Wanted, Inv, Types
  <2> QED
    BY <2>1, <2>2, ReadCalm
<1>4. CASE PulledOut
  <2>1. PICK n \in 0 .. InFile - 1 : Read(FileCells(CardNow, img, n), n)
    BY <1>4 DEF PulledOut
  <2>2. pc = "load" /\ ~ calm'
    BY <1>4 DEF PulledOut, CardsMove
  <2> QED
    BY <2>1, <2>2, ReadCalm
<1> QED
  BY <1>1, <1>2, <1>3, <1>4

LEMMA CalmStep == Inv /\ Contents /\ PartsInv /\ CalmInv /\ [Next]_vars => CalmInv'
<1> SUFFICES ASSUME Inv, Contents, PartsInv, CalmInv, [Next]_vars PROVE CalmInv'
  OBVIOUS
<1>1. CASE FoundBuiltin \/ NotBuiltin \/ TryVolume \/ ReadSize
  BY <1>1, SearchCalm
<1>2. CASE NotFound \/ GaveUp
  <2>1. CASE NotFound /\ job = "probe"
    BY <2>1, ProbedCalm DEF NotFound
  <2>2. CASE (NotFound /\ job # "probe") \/ GaveUp
    BY <2>2, FailedCalm DEF NotFound, GaveUp
  <2> QED
    BY <1>2, <2>1, <2>2
<1>3. CASE Granted \/ Refused
  <2>0. grant' = grant \/ (pc = "alloc" /\ \A s \in Slot : s # InSlot => grant'[s] = grant[s])
    BY <1>3 DEF Granted, Refused, Asking, Inv, Types
  <2>1. UNCHANGED <<inserted, builtin, loaded, content, calm, job, img, use_initrd, vol, size>>
    BY <1>3 DEF Granted, Refused, cards, launch, flags, search, boot
  <2>2. pc = "alloc" /\ pc' \in {"alloc", "load"}
    BY <1>3 DEF Granted, Refused, Asking
  <2>3. calm => SearchInv'
    BY <2>1, <2>2 DEF CalmInv, SearchInv, Place
  <2> QED
    BY <2>0, <2>1, <2>2, <2>3, SameCalm DEF Working, HandedOver
<1>4. CASE LoadBuiltin \/ LoadFile \/ OpenFails \/ PulledOut
  BY <1>4, LoadCalm
<1>5. CASE WriteToNull \/ Overrun \/ ArmReturned
  BY <1>5, FreshStep DEF WriteToNull, Overrun, ArmReturned
<1>6. CASE Linux
  <2>1. UNCHANGED <<inserted, builtin, loaded, content, calm, job, img, use_initrd, grant>>
    BY <1>6 DEF Linux, cards, launch, flags, search, boot
  <2>2. pc = "arm" /\ pc' = "linux" /\ SearchInv'
    BY <1>6 DEF Linux, SearchInv
  <2> QED
    BY <2>1, <2>2, SameCalm DEF Working, HandedOver
<1>7. CASE OpenForm \/ PressLinux \/ Quit
  BY <1>7, FreshStep DEF OpenForm, PressLinux, Quit, StartBoot, Begin
<1>8. ASSUME NEW v \in Volume, Remove(v) \/ \E c \in Card : Insert(v, c) PROVE CalmInv'
  <2>1. UNCHANGED <<pc, job, img, loaded, use_initrd>> /\ ~ calm'
    BY <1>8 DEF Remove, Insert, CardsMove, search, boot, flags
  <2> QED
    BY <2>1 DEF CalmInv, InitrdInv, HandedOver, Booting
<1>9. CASE UNCHANGED vars
  <2>1. UNCHANGED <<inserted, builtin, loaded, content, calm, job, img, use_initrd, pc, vol, size,
                    opened, grant>>
    BY <1>9 DEF vars, cards, launch, flags, search, boot
  <2>2. calm => SearchInv'
    BY <2>1 DEF CalmInv, SearchInv, Place
  <2>3. calm /\ Booting /\ Fits => \A i \in Image : loaded[i] # 0 => LoadedWhole(i)'
    BY <2>1, WholeKept DEF CalmInv
  <2>4. Fits' = Fits
    BY <2>1 DEF Fits
  <2> QED
    BY <2>1, <2>2, <2>3, <2>4 DEF CalmInv, InitrdInv, HandedOver, Booting
<1> QED
  BY <1>1, <1>2, <1>3, <1>4, <1>5, <1>6, <1>7, <1>8, <1>9 DEF Next, Step

(* The volume search_image stops at is the one the specification names.    *)
LEMMA PlaceIsFirst ==
  ASSUME Types, NEW i \in Image, NEW v, Place(v, i)
  PROVE  FirstVolume(i) = v
<1> DEFINE S == {w \in Volume : inserted[w] # NoCard /\ Files[inserted[w]][i] # Absent}
<1>1. v \in S /\ S \subseteq Nat
  BY Sizes DEF Place
<1>2. \A w \in S : v <= w
  <2> TAKE w \in S
  <2>1. ~ w < v
    BY DEF Place
  <2> QED
    BY <1>1, <2>1
<1> HIDE DEF S
<1>3. \A x \in S : (\A y \in S : x <= y) => x = v
  BY <1>1, <1>2
<1>4. Min(S) = v
  BY <1>1, <1>2, <1>3 DEF Min
<1> QED
  BY <1>4 DEF FirstVolume, S

(* When no card moves between the tap and the call of the ARM side it is   *)
(* called with every byte of the kernel and, exactly when check_image      *)
(* found one, of the initrd, each from the first place that has it.        *)
THEOREM HandoverIsComplete == Spec => []HandoverComplete
<1>1. Inv /\ PartsInv /\ CalmInv => HandoverComplete
  <2> SUFFICES ASSUME Inv, PartsInv, CalmInv, HandedOver, calm, Fits
               PROVE  /\ \A i \in Handed : builtin[i] <= Page =>
                           content[SlotOf(i)] = Whole(i) /\ loaded[i] = Cardinality(DOMAIN Whole(i))
                      /\ ~ use_initrd => loaded["initrd"] = 0
    BY DEF HandoverComplete
  <2>1. Booting
    BY DEF CalmInv, PartsInv, InitrdInv, HandedOver, Booting, Working
  <2>2. ~ use_initrd => loaded["initrd"] = 0
    BY <2>1 DEF CalmInv, InitrdInv
  <2>3. ASSUME NEW i \in Handed, builtin[i] <= Page
        PROVE  content[SlotOf(i)] = Whole(i) /\ loaded[i] = Cardinality(DOMAIN Whole(i))
    <3>1. i \in Image /\ loaded[i] # 0
      BY DEF Handed, PartsInv, Image
    <3>2. LoadedWhole(i) /\ loaded[i] \in Nat
      BY <2>1, <3>1 DEF CalmInv, Inv, Types
    <3>3. Cardinality(0 .. loaded[i] - 1) = loaded[i]
      <4>1. 0 \in Int /\ loaded[i] - 1 \in Int
        BY <3>2
      <4>2. Cardinality(0 .. loaded[i] - 1) = IF 0 > loaded[i] - 1 THEN 0 ELSE (loaded[i] - 1) - 0 + 1
        BY <4>1, FS_Interval
      <4> QED
        BY <3>1, <3>2, <4>2
    <3>4. CASE builtin[i] # Absent
      <4>1. Whole(i) = [k \in 0 .. loaded[i] - 1 |-> <<"builtin", i, k>>]
        BY <2>3, <3>2, <3>4 DEF LoadedWhole, Whole
      <4>2. content[SlotOf(i)] = Whole(i)
        BY <2>3, <3>2, <3>4, <4>1 DEF LoadedWhole
      <4>3. DOMAIN Whole(i) = 0 .. loaded[i] - 1
        BY <4>1
      <4> QED
        BY <3>3, <4>2, <4>3
    <3>5. CASE builtin[i] = Absent
      <4>1. PICK v \in Volume :
              /\ Place(v, i) /\ loaded[i] = Files[inserted[v]][i]
              /\ content[SlotOf(i)] = FileCells(inserted[v], i, loaded[i])
        BY <3>2, <3>5 DEF LoadedWhole
      <4>2. FirstVolume(i) = v
        BY <3>1, <4>1, PlaceIsFirst DEF Inv
      <4>3. Whole(i) = FileCells(inserted[v], i, loaded[i])
        BY <3>5, <4>1, <4>2 DEF Whole
      <4>4. DOMAIN Whole(i) = 0 .. loaded[i] - 1
        BY <4>3 DEF FileCells
      <4> QED
        BY <3>3, <4>1, <4>3, <4>4
    <3> QED
      BY <3>4, <3>5
  <2> QED
    BY <2>2, <2>3
<1> QED
  BY <1>1, InitInv, InvStep, InitContents, ContentsStep, InitParts, PartsStep,
     InitCalm, CalmStep, PTL DEF Spec
=============================================================================
