------------------------------- MODULE Loader -------------------------------
(***************************************************************************)
(* Finding the images and loading them: boot_linux, load_parts and         *)
(* check_image in m68k/mainform.c over search_image and load_image in      *)
(* m68k/imgloader.c.  An image is compiled into the application or is a    *)
(* file on one of the cards; it is read into a feature chunk, slot 0 for   *)
(* the kernel and slot 1 for the initrd, and the two chunks are handed to  *)
(* the ARM side.  Cards come and go between any two VFS calls, and the     *)
(* chunk granted may be smaller than the image, which is then read past    *)
(* its end, over whatever lies there.                                      *)
(*                                                                         *)
(* Sizes are in cells; a cell of an image is <<where, image, index>>.      *)
(***************************************************************************)
EXTENDS Integers, FiniteSets, FiniteSetsExt

CONSTANTS
  Volume,       \* volume references, positive, in the order of enumeration
  Card,         \* cards that can be in a volume
  NoCard,       \* an empty volume
  Files,        \* Files[c][i]: size of image i on card c, or Absent
  Builtins,     \* the compiled-in image tables: size by image, or Absent
  HasTable,     \* the application has an 'iTbl' resource
  Shrink,       \* 102400: how much less to ask for after a failed allocation
  Page,         \* 32768: size of one 'imgP' resource
  DefaultSize,  \* 1000: the size load_parts starts from
  Probe,        \* 4: bytes check_image reads
  ProbeChunk,   \* 16: bytes check_image allocates
  OpenSerial,   \* the option openserial is not 0
  MaxEvents,    \* bound: card insertions and removals
  MaxBoots      \* bound: boot attempts

Image == {"kernel", "initrd"}
Absent == -1
None == -1
BuiltIn == -1     \* the "volume" search_image returns for a compiled-in image
NoVolume == 0
Slot == {0, 1}
SameSlot(i) == 0
SlotOf(i) == IF i = "kernel" THEN 0 ELSE 1
Junk == <<"junk">>

ASSUME LoaderAssumption ==
  /\ Volume \subseteq Nat \ {0}
  /\ NoCard \notin Card
  /\ Files \in [Card -> [Image -> Nat \cup {Absent}]]
  /\ \A b \in Builtins : b \in [Image -> Nat \cup {Absent}]
  /\ ~ HasTable => \A b \in Builtins, i \in Image : b[i] = Absent
  /\ {Shrink, Page, DefaultSize, Probe, ProbeChunk} \subseteq Nat \ {0}
  /\ OpenSerial \in BOOLEAN
  /\ {MaxEvents, MaxBoots} \subseteq Nat

VARIABLES
  inserted,   \* the card in each volume
  builtin,    \* the compiled-in images; never changes
  pc,         \* what the application is doing
  job,        \* "probe" in check_image, "boot" in load_parts
  img,        \* the image the job is about
  vol,        \* the volume being tried, then the one search_image returned
  opened,     \* the card holding the open file, NoCard if it was pulled out
  size,       \* size reported by search_image
  ask,        \* ftr_size: how much load_parts asks for
  grant,      \* size of the chunk of each slot, None without a chunk
  content,    \* what load_parts last read into each slot
  loaded,     \* kernel_size and initrd_size
  noprompt,   \* the option noprompt is not 0
  kernel_ok, use_initrd,
  serial,     \* ports opened for the kernel and never closed
  locks,      \* locks on the command line's text
  events, boots,      \* the counters of the bounds
  calm        \* history: no card moved since the form opened or the tap

cards == <<inserted, events, calm>>
launch == <<builtin, noprompt>>
flags == <<kernel_ok, use_initrd>>
search == <<job, img, vol, opened, size>>
boot == <<loaded, serial, locks, boots>>
vars == <<cards, launch, flags, search, boot, pc, ask, grant, content>>

Working == {"lookup", "search", "size", "alloc", "load", "arm"}
Stopped == {"linux", "crashed"}

Init ==
  /\ inserted \in [Volume -> Card \cup {NoCard}]
  /\ \A v, w \in Volume : inserted[v] = inserted[w] /\ v # w => inserted[v] = NoCard
  /\ builtin \in Builtins /\ noprompt = FALSE
  /\ pc = "closed" /\ job = "probe" /\ img = "kernel"
  /\ vol = NoVolume /\ opened = NoCard /\ size = 0 /\ ask = 0
  /\ grant = [s \in Slot |-> None] /\ content = [s \in Slot |-> <<>>]
  /\ loaded = [i \in Image |-> 0]
  /\ kernel_ok = FALSE /\ use_initrd = FALSE
  /\ serial = 0 /\ locks = 0 /\ events = 0 /\ boots = 0
  /\ calm = TRUE

----------------------------------------------------------------------------
(* The cards.                                                              *)

CardsMove(now) == inserted' = now /\ events' = events + 1 /\ calm' = FALSE

Insert(v, c) ==
  /\ pc \notin Stopped /\ events < MaxEvents
  /\ inserted[v] = NoCard /\ \A w \in Volume : inserted[w] # c
  /\ CardsMove([inserted EXCEPT ![v] = c])
  /\ UNCHANGED <<launch, flags, search, boot, pc, ask, grant, content>>

(* Pulling a card out closes the file open on it.                          *)
Remove(v) ==
  /\ pc \notin Stopped /\ events < MaxEvents
  /\ inserted[v] # NoCard
  /\ CardsMove([inserted EXCEPT ![v] = NoCard])
  /\ opened' = IF v = vol THEN NoCard ELSE opened
  /\ UNCHANGED <<launch, flags, job, img, vol, size, boot, pc, ask, grant, content>>

----------------------------------------------------------------------------
(* The user.                                                               *)

(* Start a job: search_image first looks for a compiled-in image.  The     *)
(* size it is to fill in starts as 0 in check_image, 1000 in load_parts.   *)
Begin(j, i) ==
  /\ pc' = "lookup" /\ job' = j /\ img' = i
  /\ vol' = NoVolume /\ opened' = NoCard
  /\ size' = IF j = "boot" THEN DefaultSize ELSE 0

StartBoot ==
  /\ Begin("boot", "kernel")
  /\ loaded' = [i \in Image |-> 0]
  /\ boots' = boots + 1

(* A launch: read_config, then frmOpenEvent with a new buffer for the      *)
(* command line.                                                           *)
OpenForm ==
  /\ pc = "closed"
  /\ noprompt' \in BOOLEAN
  /\ noprompt' => boots < MaxBoots
  /\ Begin("probe", "kernel")
  /\ locks' = 0 /\ calm' = TRUE
  /\ UNCHANGED <<inserted, events, builtin, flags, loaded, serial, boots, ask, grant, content>>

PressLinux ==
  /\ pc = "idle" /\ boots < MaxBoots
  /\ StartBoot /\ calm' = TRUE
  /\ UNCHANGED <<inserted, events, launch, flags, serial, locks, ask, grant, content>>

(* appStopEvent.  The next launch starts from fresh globals, but features  *)
(* outlive the application.                                                *)
Quit ==
  /\ pc = "idle"
  /\ pc' = "closed"
  /\ kernel_ok' = FALSE /\ use_initrd' = FALSE
  /\ UNCHANGED <<cards, launch, search, boot, ask, grant, content>>

----------------------------------------------------------------------------
(* search_image.                                                           *)

FoundBuiltin ==
  /\ pc = "lookup" /\ builtin[img] # Absent
  /\ vol' = BuiltIn /\ size' = builtin[img] /\ ask' = builtin[img]
  /\ pc' = "alloc"
  /\ UNCHANGED <<cards, launch, flags, job, img, opened, boot, grant, content>>

NotBuiltin ==
  /\ pc = "lookup" /\ builtin[img] = Absent
  /\ pc' = "search"
  /\ UNCHANGED <<cards, launch, flags, search, boot, ask, grant, content>>

(* search_file: open the file on each volume in turn.                      *)
Later == {v \in Volume : v > vol /\ inserted[v] # NoCard}

TryVolume ==
  /\ pc = "search" /\ Later # {}
  /\ vol' = Min(Later)
  /\ IF Files[inserted[Min(Later)]][img] = Absent
       THEN UNCHANGED <<pc, opened>>
       ELSE pc' = "size" /\ opened' = inserted[Min(Later)]
  /\ UNCHANGED <<cards, launch, flags, job, img, size, boot, ask, grant, content>>

SizeKept == size' = size
SizeRead == size' = Files[opened][img]

(* VFSFileSize, whose error is ignored, and VFSFileClose.                  *)
ReadSize ==
  /\ pc = "size"
  /\ IF opened = NoCard THEN SizeKept ELSE SizeRead
  /\ ask' = size'
  /\ opened' = NoCard
  /\ pc' = "alloc"
  /\ UNCHANGED <<cards, launch, flags, job, img, vol, boot, grant, content>>

----------------------------------------------------------------------------
(* What follows a search or a load.                                        *)

FreeChunk(g, s) == [g EXCEPT ![s] = None]
KernelOnly(g, l) == IF l["kernel"] # 0 THEN [g EXCEPT ![0] = None] ELSE g
FreeLoaded(g, l) == [s \in Slot |-> IF \E i \in Image : SlotOf(i) = s /\ l[i] # 0
                                   THEN None ELSE g[s]]

(* check_image says whether the image was found: the kernel first, then    *)
(* the initrd, then noprompt mode boots.                                   *)
Probed(found) ==
  /\ IF img = "kernel"
       THEN /\ Begin("probe", "initrd") /\ kernel_ok' = found
            /\ UNCHANGED <<use_initrd, loaded, boots>>
       ELSE /\ use_initrd' = found /\ UNCHANGED kernel_ok
            /\ IF noprompt /\ kernel_ok
                 THEN StartBoot
                 ELSE pc' = "idle" /\ UNCHANGED <<search, loaded, boots>>
  /\ UNCHANGED <<launch, serial, locks, ask>>

OpenPort == serial' = IF OpenSerial THEN serial + 1 ELSE serial

(* load_parts is done: after the kernel comes the initrd, if it is used;   *)
(* then the command line is locked and the ARM side called.                *)
PartLoaded ==
  /\ loaded' = [loaded EXCEPT ![img] = size]
  /\ IF img = "kernel" /\ use_initrd
       THEN Begin("boot", "initrd") /\ UNCHANGED <<locks, serial>>
       ELSE pc' = "arm" /\ locks' = locks + 1 /\ OpenPort /\ UNCHANGED search
  /\ UNCHANGED <<launch, flags, boots, ask, grant>>

(* load_parts failed: boot_linux gives back what it loaded.                *)
PartFailed(g) ==
  /\ grant' = FreeLoaded(g, loaded)
  /\ pc' = "idle"
  /\ IF img = "initrd" THEN OpenPort ELSE UNCHANGED serial
  /\ UNCHANGED <<launch, flags, search, loaded, locks, boots, ask>>

(* No volume has the file, or the table of compiled-in images is there but *)
(* cannot be locked.                                                       *)
NotFound ==
  /\ \/ pc = "search" /\ Later = {}
     \/ pc = "lookup" /\ HasTable
  /\ IF job = "probe" THEN Probed(FALSE) /\ UNCHANGED grant ELSE PartFailed(grant)
  /\ UNCHANGED <<cards, content>>

----------------------------------------------------------------------------
(* FtrPtrNew may refuse.  check_image does not notice; load_parts asks for *)
(* less and less, and takes what it gets for the whole image.              *)

InSlot == IF job = "probe" THEN 0 ELSE SlotOf(img)
Wanted == IF job = "probe" THEN Probe ELSE size
Asking == pc = "alloc" /\ (job = "boot" => ask > 0)

Granted ==
  /\ Asking
  /\ grant' = [grant EXCEPT ![InSlot] = IF job = "probe" THEN ProbeChunk ELSE ask]
  /\ pc' = "load"
  /\ UNCHANGED <<cards, launch, flags, search, boot, ask, content>>

AskWrapped == (ask - Shrink) % (size + 1)
AskLess == IF ask < Shrink THEN 0 ELSE ask - Shrink

Refused ==
  /\ Asking
  /\ IF job = "probe" THEN pc' = "load" /\ UNCHANGED ask
                      ELSE ask' = AskLess /\ UNCHANGED pc
  /\ UNCHANGED <<cards, launch, flags, search, boot, grant, content>>

LoadAnyway ==
  /\ pc = "alloc" /\ ~ Asking
  /\ pc' = "load"
  /\ UNCHANGED <<cards, launch, flags, search, boot, ask, grant, content>>

GaveUp ==
  /\ pc = "alloc" /\ ~ Asking
  /\ PartFailed(grant)
  /\ UNCHANGED <<cards, content>>

----------------------------------------------------------------------------
(* load_image and what its caller does with the number of bytes read.      *)

(* A compiled-in image: page p holds the cells from p * Page on.  Every    *)
(* page is written to the start of the chunk, so the last one stays.       *)
PageCells(i, p) == Min({Page, builtin[i] - p * Page})
BuiltinCells(i) ==
  [k \in 0 .. builtin[i] - 1 |->
     LET writers == {p \in 0 .. builtin[i] : k < PageCells(i, p)}
     IN IF writers = {} THEN Junk ELSE <<"builtin", i, Max(writers) * Page + k>>]

FileCells(c, i, n) == [k \in 0 .. n - 1 |-> <<c, i, k>>]

(* How far into its chunk, or past its end, a read of n cells writes.      *)
Reach(i, n) == IF builtin[i] # Absent THEN Min({n, Page}) ELSE n

(* Where the chunks lie is not known.  When this read goes past the end of *)
(* its chunk, or the other image goes past the end of the chunk it is in,  *)
(* one may lie over the other.                                             *)
Other == 1 - InSlot
PastEnd(n) == Reach(img, n) > grant[InSlot]
OtherPastEnd ==
  \E i \in Image : SlotOf(i) = Other /\ loaded[i] # 0 /\ Reach(i, loaded[i]) > grant[Other]
InTheWay(n) == grant[Other] # None /\ (PastEnd(n) \/ OtherPastEnd)

(* What the chunks may hold after the read: the other image is as it was,  *)
(* or some cell of it is overwritten.                                      *)
ContentAfter(cells, n) ==
  LET read == [content EXCEPT ![InSlot] = cells]
  IN {read} \cup {[read EXCEPT ![Other] = [@ EXCEPT ![k] = Junk]] :
                    k \in IF InTheWay(n) THEN DOMAIN content[Other] ELSE {}}

AnyRead(n) == n > 0
AllRead(n) == n = Wanted

(* check_image found the image, whatever it could read of it; load_parts   *)
(* needs every byte, or gives the chunk back.                              *)
Read(cells, n) ==
  /\ IF job = "probe"
       THEN Probed(TRUE) /\ grant' = FreeChunk(grant, InSlot) /\ UNCHANGED content
       ELSE /\ content' \in ContentAfter(cells, n)
            /\ IF AllRead(n) THEN PartLoaded ELSE PartFailed(FreeChunk(grant, InSlot))

LoadBuiltin ==
  /\ pc = "load" /\ vol = BuiltIn /\ grant[InSlot] # None
  /\ Read(BuiltinCells(img), Wanted)
  /\ UNCHANGED cards

(* DmWrite to a null pointer.                                              *)
WriteToNull ==
  /\ pc = "load" /\ vol = BuiltIn /\ grant[InSlot] = None
  /\ pc' = "crashed"
  /\ UNCHANGED <<cards, launch, flags, search, boot, ask, grant, content>>

CardNow == IF vol \in Volume THEN inserted[vol] ELSE NoCard
Readable == CardNow # NoCard /\ Files[CardNow][img] # Absent /\ grant[InSlot] # None
InFile == Min({Wanted, Files[CardNow][img]})

LoadFile ==
  /\ pc = "load" /\ Readable
  /\ Read(FileCells(CardNow, img, InFile), InFile)
  /\ UNCHANGED cards

(* The cells past the end of a short chunk hit memory of the system, or    *)
(* are refused with a fatal error.                                         *)
Overrun ==
  /\ pc = "load" /\ job = "boot"
  /\ \/ vol = BuiltIn /\ grant[InSlot] # None /\ PastEnd(Wanted)
     \/ Readable /\ PastEnd(InFile)
  /\ pc' = "crashed"
  /\ UNCHANGED <<cards, launch, flags, search, boot, ask, grant, content>>

(* The card is gone, or its file is, or check_image has no chunk.          *)
OpenFails ==
  /\ pc = "load" /\ vol # BuiltIn /\ ~ Readable
  /\ Read(<<>>, -2)
  /\ UNCHANGED cards

(* The card is pulled out while the file is being read.                    *)
PulledOut ==
  /\ pc = "load" /\ Readable /\ events < MaxEvents
  /\ \E n \in 0 .. InFile - 1 : Read(FileCells(CardNow, img, n), n)
  /\ CardsMove([inserted EXCEPT ![vol] = NoCard])

----------------------------------------------------------------------------
(* The ARM side: Linux runs and never comes back, or boot_linux reports    *)
(* the error it returned and gives both chunks back.                       *)

Linux ==
  /\ pc = "arm"
  /\ pc' = "linux"
  /\ UNCHANGED <<cards, launch, flags, search, boot, ask, grant, content>>

ArmReturned ==
  /\ pc = "arm"
  /\ grant' = FreeLoaded(grant, loaded)
  /\ pc' = "idle"
  /\ UNCHANGED <<cards, launch, flags, search, boot, ask, content>>

Step ==
  \/ FoundBuiltin \/ NotBuiltin \/ TryVolume \/ ReadSize \/ NotFound
  \/ Granted \/ Refused \/ GaveUp
  \/ LoadBuiltin \/ WriteToNull \/ Overrun \/ LoadFile \/ OpenFails \/ PulledOut
  \/ Linux \/ ArmReturned

Next ==
  \/ Step
  \/ OpenForm \/ PressLinux \/ Quit
  \/ \E v \in Volume : Remove(v) \/ \E c \in Card : Insert(v, c)

(* The application runs to its next event; users and cards do as they like. *)
Spec == Init /\ [][Next]_vars
FairSpec == Spec /\ WF_vars(Step)

----------------------------------------------------------------------------
(* Properties.                                                             *)

Handed == IF use_initrd THEN Image ELSE {"kernel"}
HandedOver == pc \in {"arm", "linux"}

(* No image is longer than the chunk it was read into.                     *)
Fits == \A i \in Image : loaded[i] # 0 => loaded[i] <= grant[SlotOf(i)]

(* Where an image comes from when nothing moves: the application itself,   *)
(* then the first volume that has the file.                                *)
FirstVolume(i) == Min({v \in Volume : inserted[v] # NoCard /\ Files[inserted[v]][i] # Absent})
Whole(i) ==
  IF builtin[i] # Absent
    THEN [k \in 0 .. builtin[i] - 1 |-> <<"builtin", i, k>>]
    ELSE LET c == inserted[FirstVolume(i)] IN FileCells(c, i, Files[c][i])

(* As long as no card moves and memory is granted in full, the ARM side is *)
(* called with every byte of the kernel and, exactly when check_image      *)
(* found one, of the initrd, each from the first place that has it.        *)
(* Compiled-in images of several pages are the exception.                  *)
HandoverComplete ==
  HandedOver /\ calm /\ Fits =>
    /\ \A i \in Handed : builtin[i] <= Page =>
         content[SlotOf(i)] = Whole(i) /\ loaded[i] = Cardinality(DOMAIN Whole(i))
    /\ ~ use_initrd => loaded["initrd"] = 0

(* The lengths a boot may take an image on a card to have: that of the     *)
(* file on any card, or the preset when the length could not be read.      *)
PossibleLength(i, n) == n = DefaultSize \/ \E c \in Card : n = Files[c][i]

(* Whatever the cards do between the search and the read, an image read    *)
(* from a card is one unbroken beginning of one file, of the length that   *)
(* is announced to Linux, unless an image was read past the end of its     *)
(* chunk.  It is less than the file only when its length was taken from    *)
(* another card or not found out at all.                                   *)
OneFile ==
  HandedOver /\ Fits =>
    \A i \in Handed : builtin[i] = Absent =>
      /\ PossibleLength(i, loaded[i])
      /\ \E c \in Card : /\ loaded[i] \in 1 .. Files[c][i]
                         /\ content[SlotOf(i)] = FileCells(c, i, loaded[i])

(* boot_linux and check_image give every chunk back on every path that     *)
(* leaves the application waiting for the user, so FtrPtrNew is never      *)
(* called for a feature that already holds a chunk.                        *)
NothingHeld ==
  /\ pc \in {"closed", "idle"} => \A s \in Slot : grant[s] = None
  /\ Asking => grant[InSlot] = None

(* From loading the kernel to the call of the ARM side its chunk is kept,  *)
(* and searching, allocating and reading the initrd leave what it holds as *)
(* it is, unless one of the two is longer than the chunk load_parts was    *)
(* content with.                                                           *)
KernelStays ==
  [][job = "boot" /\ pc \in Working /\ loaded["kernel"] # 0 /\ pc' # "idle"
     => grant'[0] = grant[0] /\ (Fits' => content'[0] = content[0])]_vars

(* What can bring the application down: check_image reading a compiled-in  *)
(* image through the pointer a refused allocation left it, and load_parts  *)
(* reading past the end of a short chunk.  load_parts never reads without  *)
(* a chunk.                                                                *)
CrashOnlyTo ==
  pc = "crashed" =>
    IF job = "probe" THEN builtin[img] # Absent /\ grant[0] = None
                     ELSE grant[InSlot] \in 1 .. size - 1

(* Every job ends, however memory and cards behave: the application waits  *)
(* for the user again, Linux runs, or the application has crashed.         *)
JobEnds == pc \in Working ~> pc \notin Working
=============================================================================
