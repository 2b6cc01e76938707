------------------------------- MODULE FwDump -------------------------------
(***************************************************************************)
(* The firmware dump of m68k/fwutils.c: the helper is cut out of a library *)
(* resource, with a marker byte left out after every 128 bytes; then the   *)
(* records of the firmware database are put together again.  Both go, a    *)
(* piece at a time, to the end of a file on every card that has it, while  *)
(* cards come and go and writes fail unnoticed.                            *)
(*                                                                         *)
(* A byte is its offset in the helper or the firmware; Beyond stands for   *)
(* what is read past the end of a record.                                  *)
(***************************************************************************)
EXTENDS Integers, Sequences, FiniteSetsExt

CONSTANTS
  Card,        \* memory cards
  Helpers,     \* the resources extract_mrv_wifi_helper may find
  Firmwares,   \* the databases extract_mrv_wifi_firmware may find
  Stride,      \* 129: from one marker to the next
  IntBits,     \* 16: the width of an int; a UInt32 has twice as many
  MaxDumps,    \* bound: dumps asked for
  MaxEvents    \* bound: cards moved and writes failed

(* A helper: its length, its first marker and the offsets of its 0xff      *)
(* bytes.  A firmware: its length and the size of its records but the      *)
(* last, which holds the rest.  Length 0 stands for one that is missing.   *)
(* The length is what atol makes a long of; the number of records, with    *)
(* the two that are skipped, fits the UInt16 that counts them.             *)
RecordCount(f) == (f.len + f.record - 1) \div f.record
ASSUME FwDumpAssumption ==
  /\ {Stride, IntBits} \subseteq Nat \ {0} /\ {MaxDumps, MaxEvents} \subseteq Nat
  /\ \A h \in Helpers : h \in [len : Nat, marker : Nat, ff : SUBSET Nat]
  /\ \A f \in Firmwares :
       /\ f \in [len : 0 .. 2 ^ (2 * IntBits - 1) - 1, record : {2 ^ n : n \in 1 .. IntBits}]
       /\ RecordCount(f) + 2 < 2 ^ IntBits

File == {"helper", "firmware"}
Beyond == -1
Absent == <<-2>>

VARIABLES
  stage,    \* "app", "create", "pieces" or "lost"
  cards,    \* the cards inserted
  copies,   \* copies[c][f]: the file on card c
  helper, firmware,    \* what is in the device; never changes
  job,      \* the file being written
  sptr, optr,          \* the local pointers of the helper
  i, fwSize, chunkSize,    \* the local variables of the firmware
  dumps, events,       \* the counters of the bounds
  old,      \* history: the files when the dump began
  calm      \* history: nothing moved and nothing failed since then

source == <<helper, firmware>>
locals == <<sptr, optr, i, fwSize, chunkSize>>
dumpVars == <<stage, cards, copies, source, job, locals, dumps, events, old, calm>>

DumpInit ==
  /\ stage = "app" /\ cards \in SUBSET Card
  /\ copies = [c \in Card |-> [f \in File |-> Absent]]
  /\ helper \in Helpers /\ firmware \in Firmwares
  /\ job = "helper" /\ sptr = 0 /\ optr = 0 /\ i = 0 /\ fwSize = 0 /\ chunkSize = 0
  /\ dumps = 0 /\ events = 0 /\ old = copies /\ calm = TRUE

----------------------------------------------------------------------------
(* Cards.                                                                  *)

Move(c) ==
  /\ events < MaxEvents
  /\ cards' = IF c \in cards THEN cards \ {c} ELSE cards \cup {c}
  /\ events' = events + 1 /\ calm' = FALSE
  /\ UNCHANGED <<stage, copies, source, job, locals, dumps, old>>

(* VFSFileCreate on each card; a file that exists is left as it is.        *)
Emptied(f) == <<>>
Kept(f) == IF f = Absent THEN <<>> ELSE f
Created == [c \in Card |-> IF c \in cards THEN [copies[c] EXCEPT ![job] = Kept(@)] ELSE copies[c]]

(* appendBuf: write to the end of the file on each card that has it; a     *)
(* write that fails is not noticed.  One that fails after some of its      *)
(* bytes is left out.                                                      *)
Holders == {c \in cards : copies[c][job] # Absent}
Appended(bytes, to) ==
  [c \in Card |-> IF c \in to THEN [copies[c] EXCEPT ![job] = @ \o bytes] ELSE copies[c]]
AppendBuf(bytes) ==
  \/ copies' = Appended(bytes, Holders) /\ UNCHANGED <<events, calm>>
  \/ \E c \in Holders :
       /\ events < MaxEvents
       /\ copies' = Appended(bytes, Holders \ {c})
       /\ events' = events + 1 /\ calm' = FALSE

----------------------------------------------------------------------------
(* extract_mrv_wifi_fw: the helper, then the firmware.                     *)

StartDump ==
  /\ stage = "app" /\ dumps < MaxDumps
  /\ stage' = "create" /\ job' = "helper"
  /\ dumps' = dumps + 1 /\ old' = copies /\ calm' = TRUE
  /\ UNCHANGED <<cards, copies, source, locals, events>>

NextJob ==
  IF job = "helper" THEN stage' = "create" /\ job' = "firmware" ELSE stage' = "app" /\ UNCHANGED job

(* The database is missing: an alert, and on to the next.                  *)
Missing ==
  /\ stage = "create"
  /\ IF job = "helper" THEN helper.len = 0 ELSE firmware.len = 0
  /\ NextJob
  /\ UNCHANGED <<cards, copies, source, locals, dumps, events, old, calm>>

(* The first of two 0xff bytes that are one stride apart.                  *)
Markers == {o \in helper.ff : o + Stride \in helper.ff}

(* The helper is what lies between two patterns in the resource; a         *)
(* resource without them in this order, from which the code runs away or   *)
(* returns -1, is not among the Helpers.                                   *)
OpenHelper ==
  /\ stage = "create" /\ job = "helper" /\ helper.len > 0 /\ Markers # {}
  /\ copies' = Created
  /\ sptr' = 0 /\ optr' = Min(Markers)
  /\ stage' = "pieces"
  /\ UNCHANGED <<cards, source, job, i, fwSize, chunkSize, dumps, events, old, calm>>

(* The search runs on through whatever follows the resource.               *)
NoMarker ==
  /\ stage = "create" /\ job = "helper" /\ helper.len > 0 /\ Markers = {}
  /\ stage' = "lost"
  /\ UNCHANGED <<cards, copies, source, job, locals, dumps, events, old, calm>>

Bytes(from, to) == [k \in 1 .. to - from |-> from + k - 1]

WithMarker(o) == o
PastMarker(o) == o + 1

HelperPiece ==
  /\ stage = "pieces" /\ job = "helper" /\ optr < helper.len
  /\ AppendBuf(Bytes(sptr, optr))
  /\ sptr' = PastMarker(optr) /\ optr' = optr + Stride
  /\ UNCHANGED <<stage, cards, source, job, i, fwSize, chunkSize, dumps, old>>

HelperRest ==
  /\ stage = "pieces" /\ job = "helper" /\ optr >= helper.len
  /\ AppendBuf(Bytes(sptr, helper.len))
  /\ NextJob
  /\ UNCHANGED <<cards, source, locals, dumps, old>>

----------------------------------------------------------------------------
(* The firmware's records are as long as a power of two, which getChunkSZ  *)
(* finds again from their mean.                                            *)

Word(n) == n % 2 ^ (2 * IntBits)

(* 1 << n in an int, its sign carried into the UInt32 it is compared with. *)
Shift(n) == CASE n < IntBits - 1 -> 2 ^ n
              [] n = IntBits - 1 -> 2 ^ (2 * IntBits) - 2 ^ n
              [] OTHER -> 0

ChunkSize(len, chunks) ==
  LET p == len \div chunks
      fits == {n \in 0 .. IntBits - 1 : Shift(n) <= p /\ Shift(n + 1) >= p}
  IN IF fits = {} THEN 0 ELSE Shift(Min(fits) + 1)

Records == RecordCount(firmware)

OpenFirmware ==
  /\ stage = "create" /\ job = "firmware" /\ firmware.len > 0
  /\ copies' = Created
  /\ i' = 0 /\ fwSize' = firmware.len /\ chunkSize' = ChunkSize(firmware.len, Records)
  /\ stage' = "pieces"
  /\ UNCHANGED <<cards, source, job, sptr, optr, dumps, events, old, calm>>

(* n bytes from the start of a record.                                     *)
FromRecord(r, n) ==
  LET from == r * firmware.record
      limit == Min({from + firmware.record, firmware.len})
  IN Bytes(from, Min({from + n, limit})) \o (IF from + n > limit THEN <<Beyond>> ELSE <<>>)

WholeChunk == chunkSize
AtMostLeft == IF fwSize >= chunkSize THEN chunkSize ELSE fwSize

FirmwareRecord ==
  /\ stage = "pieces" /\ job = "firmware" /\ i < Records
  /\ AppendBuf(FromRecord(i, AtMostLeft))
  /\ fwSize' = Word(fwSize - chunkSize)
  /\ i' = i + 1
  /\ UNCHANGED <<stage, cards, source, job, sptr, optr, chunkSize, dumps, old>>

FirmwareDone ==
  /\ stage = "pieces" /\ job = "firmware" /\ i >= Records
  /\ NextJob
  /\ UNCHANGED <<cards, copies, source, locals, dumps, events, old, calm>>

DumpNext ==
  \/ StartDump \/ Missing \/ OpenHelper \/ NoMarker \/ HelperPiece \/ HelperRest
  \/ OpenFirmware \/ FirmwareRecord \/ FirmwareDone
  \/ \E c \in Card : Move(c)
DumpSpec == DumpInit /\ [][DumpNext]_dumpVars

----------------------------------------------------------------------------
(* Properties.                                                             *)

(* What the current dump has added to a file: nothing replaces what an     *)
(* earlier dump left there.                                                *)
Before(c, f) == IF old[c][f] = Absent THEN <<>> ELSE old[c][f]
Added(c, f) == SubSeq(copies[c][f], Len(Before(c, f)) + 1, Len(copies[c][f]))
Finished == stage = "app" /\ dumps > 0 /\ calm

(* The records are put together right when there is only one, or when they *)
(* are short enough for an int and their mean is above half their size:    *)
(* one byte in the second of two records gives half the size away.         *)
Guessed ==
  \/ Records = 1
  \/ /\ firmware.record <= 2 ^ (IntBits - 2)
     /\ firmware.len # firmware.record + 1 \/ firmware.record = 2

(* A dump that nothing disturbed adds exactly the firmware to the file on  *)
(* each card, for the sizes for which the chunks can be found again, and   *)
(* for no others.                                                          *)
FirmwareWhole ==
  Finished /\ firmware.len > 0 =>
    \A c \in cards : Added(c, "firmware") = Bytes(0, firmware.len) <=> Guessed

(* A dump that nothing disturbed adds exactly the helper without its       *)
(* markers, in order, unless two bytes of data look like markers first.    *)
IsMarker(b) == b >= helper.marker /\ (b - helper.marker) % Stride = 0
InOrder(s) == \A k \in 1 .. Len(s) - 1 : s[k] < s[k + 1]
HelperWhole ==
  Finished /\ helper.len > 0 /\ Min(Markers) = helper.marker =>
    \A c \in cards :
      LET a == Added(c, "helper")
      IN InOrder(a) /\ {a[k] : k \in DOMAIN a} = {b \in 0 .. helper.len - 1 : ~ IsMarker(b)}

(* Whatever cards and writes do during any number of dumps, a file only    *)
(* grows, and what one dump adds to it is in order and has no byte twice.  *)
Begins(b, s) == Len(b) <= Len(s) /\ SubSeq(s, 1, Len(b)) = b
AddedInOrder ==
  \A c \in Card, f \in File : copies[c][f] # Absent =>
    /\ Begins(Before(c, f), copies[c][f])
    /\ f = "helper" \/ Guessed => InOrder(Added(c, f))
=============================================================================
