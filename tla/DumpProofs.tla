----------------------------- MODULE DumpProofs -----------------------------
(***************************************************************************)
(* Proofs about the two things that are written to the memory card.        *)
(*                                                                         *)
(* The memory trace does no harm without a cause, and its file is what was *)
(* traced, for every number of chunks, every size of the buffer, of a      *)
(* frame and of a batch, and every number of accesses.                     *)
(*                                                                         *)
(* A firmware dump adds to the files what it should, for every number of   *)
(* cards, every helper and firmware, and however often cards move and      *)
(* writes fail.  What is proved of the firmware is proved for the 16 bits  *)
(* of an int, whose powers of two can be listed.                           *)
(***************************************************************************)
EXTENDS IrqTrace, FwDump, SequenceTheorems, WellFoundedInduction, TLAPS

----------------------------------------------------------------------------
(* The memory trace.                                                       *)

(* What the argument needs of the types.                                   *)
Types ==
  /\ accesses \in Nat
  /\ slot \in Chunk \cup {Nowhere}
  /\ end \in [chunk : Chunk \cup {Nowhere}, at : Nat]

Installing == {"copy", "vector", "pointers", "enable"}

(* Until a launch frees feature 0 it is granted once at most, so there is  *)
(* one installation.  While it runs nothing is trapped; each of its steps  *)
(* has set what the next relies on, and when accesses are trapped all of   *)
(* it is set and the pointer has moved one frame for each access at most.  *)
Installed ==
  /\ pc # "lost"
  /\ slot = Nowhere => pc \notin Installing
  /\ pc \in Installing \/ slot = Nowhere => ~ monitor
  /\ pc \in {"vector", "pointers", "enable"} \/ monitor => slot \in handler
  /\ pc \in {"pointers", "enable"} \/ monitor => vector = slot
  /\ pc = "enable" \/ monitor => end.chunk = slot /\ slot # Nowhere
  /\ end.at <= accesses * Frame
  /\ harm => accesses * Frame - 1 > Room

Inv == Types /\ (~ reused /\ ~ blind => Installed)

LEMMA Sizes == Frame \in Nat \ {0} /\ Room \in Nat
BY IrqTraceAssumption

(* One access more is one frame more.                                      *)
LEMMA OneFrameMore ==
  ASSUME NEW n \in Nat
  PROVE  (n + 1) * Frame = n * Frame + Frame /\ n * Frame \in Nat
BY Sizes

LEMMA InitInv == Init => Inv
<1> SUFFICES ASSUME Init PROVE Inv
  OBVIOUS
<1>1. Types
  BY DEF Init, Types
<1>2. end.at <= accesses * Frame
  BY IrqTraceAssumption DEF Init
<1>3. Installed
  BY <1>2 DEF Init, Installed, Installing
<1> QED
  BY <1>1, <1>3 DEF Inv

LEMMA TypeStep == Types /\ [Next]_vars => Types'
<1> SUFFICES ASSUME Types, [Next]_vars PROVE Types'
  OBVIOUS
<1> USE DEF Types
<1>1. CASE Start
  BY <1>1 DEF Start, CallFails, CopyHandler, SetVector, SetPointers, Enable, hooks, dump, history, memory
<1>2. CASE Dump
  BY <1>2 DEF Dump, DumpBlind, OpenDump, WriteBatch, WriteFails, EndDump, hooks, dump, history, memory
<1>3. CASE Record
  <2>1. end' = [end EXCEPT !.at = end.at + Frame] /\ accesses' = accesses + 1 /\ slot' = slot
    BY <1>3 DEF Record, NextFrame
  <2>2. end.at + Frame \in Nat /\ accesses + 1 \in Nat
    BY Sizes
  <2> QED
    BY <2>1, <2>2
<1>4. CASE Runaway \/ Relaunch \/ Refused
  BY <1>4 DEF Runaway, Relaunch, Refused, vars, hooks, dump, history, memory
<1>5. ASSUME NEW c \in Chunk, Allocate(c) \/ Reuse(c) PROVE Types'
  BY <1>5 DEF Allocate, Reuse, hooks, dump, history, memory
<1>6. CASE UNCHANGED vars
  BY <1>6 DEF vars, hooks, dump, history, memory
<1> QED
  BY <1>1, <1>2, <1>3, <1>4, <1>5, <1>6 DEF Next

LEMMA InstalledStep ==
  Types /\ Installed /\ [Next]_vars /\ ~ reused' /\ ~ blind' => Installed'
<1> SUFFICES ASSUME Types, Installed, [Next]_vars, ~ reused', ~ blind' PROVE Installed'
  OBVIOUS
<1> USE DEF Installed, Installing
<1>1. CASE Start
  <2>1. CASE CallFails
    BY <1>1, <2>1 DEF CallFails, hooks, dump, history, memory
  <2>2. CASE CopyHandler
    BY <2>2 DEF CopyHandler, hooks, dump, history, memory
  <2>3. CASE SetVector
    BY <2>3 DEF SetVector, MonitorLater, hooks, dump, history, memory
  <2>4. CASE SetPointers
    <3>1. 0 <= accesses * Frame
      BY OneFrameMore DEF Types
    <3> QED
      BY <2>4, <3>1 DEF SetPointers, hooks, dump, history, memory
  <2>5. CASE Enable
    BY <2>5 DEF Enable, hooks, dump, history, memory
  <2> QED
    BY <1>1, <2>1, <2>2, <2>3, <2>4, <2>5 DEF Start
<1>2. CASE Dump
  <2>1. CASE DumpBlind
    BY <2>1 DEF DumpBlind
  <2>2. CASE OpenDump \/ WriteBatch \/ WriteFails \/ EndDump
    BY <2>2 DEF OpenDump, WriteBatch, WriteFails, EndDump, hooks, dump, history, memory
  <2> QED
    BY <1>2, <2>1, <2>2 DEF Dump
<1>3. CASE Record
  <2>1. /\ accesses' = accesses + 1 /\ end'.at = end.at + Frame /\ end'.chunk = end.chunk
        /\ UNCHANGED <<pc, slot, handler, vector, monitor>>
    BY <1>3 DEF Record, NextFrame, Types
  <2>2. accesses' * Frame = accesses * Frame + Frame
    BY <2>1, OneFrameMore DEF Types
  <2>3. end'.at <= accesses' * Frame
    BY <2>1, <2>2, Sizes, OneFrameMore DEF Types
  <2>4. harm' => accesses' * Frame - 1 > Room
    <3>1. CASE harm
      BY <2>2, <3>1, Sizes, OneFrameMore DEF Types
    <3>2. CASE ~ harm /\ harm'
      <4>1. ~ Inside(end.at)
        BY <1>3, <3>2 DEF Record
      <4>2. end.at + Frame - 1 > Room
        BY <4>1, Sizes DEF Inside, Types
      <4> QED
        BY <2>2, <4>2, Sizes, OneFrameMore DEF Types
    <3> QED
      BY <3>1, <3>2
  <2> QED
    BY <2>1, <2>3, <2>4
<1>4. CASE Runaway
  BY <1>4 DEF Runaway
<1>5. CASE Relaunch
  BY <1>5 DEF Relaunch
<1>6. CASE Refused \/ UNCHANGED vars
  BY <1>6 DEF Refused, vars, hooks, dump, history, memory
<1>7. ASSUME NEW c \in Chunk, Allocate(c) PROVE Installed'
  BY <1>7, IrqTraceAssumption DEF Allocate, hooks, dump, history, memory
<1>8. ASSUME NEW c \in Chunk, Reuse(c) PROVE Installed'
  BY <1>8 DEF Reuse, hooks, dump, history, memory
<1> QED
  BY <1>1, <1>2, <1>3, <1>4, <1>5, <1>6, <1>7, <1>8 DEF Next

(* Once feature 0 was freed, or memory dumped before any trace, that stays *)
(* so.                                                                     *)
LEMMA CauseStays == [Next]_vars => (reused => reused') /\ (blind => blind')
<1> SUFFICES ASSUME [Next]_vars PROVE (reused => reused') /\ (blind => blind')
  OBVIOUS
<1>1. CASE Start
  BY <1>1 DEF Start, CallFails, CopyHandler, SetVector, SetPointers, Enable, history
<1>2. CASE Dump
  BY <1>2 DEF Dump, DumpBlind, OpenDump, WriteBatch, WriteFails, EndDump, history
<1>3. CASE Record \/ Runaway \/ Relaunch \/ Refused \/ UNCHANGED vars
  BY <1>3 DEF Record, Runaway, Relaunch, Refused, vars, history
<1>4. ASSUME NEW c \in Chunk, Allocate(c) \/ Reuse(c) PROVE (reused => reused') /\ (blind => blind')
  BY <1>4 DEF Allocate, Reuse, history
<1> QED
  BY <1>1, <1>2, <1>3, <1>4 DEF Next

(* The trace writes outside its buffer or runs code that is gone only      *)
(* after its buffer is full, the application was launched again or a dump  *)
(* was asked for before any trace: whatever the user does and whenever     *)
(* accesses are trapped, also while the handler is being installed.        *)
THEOREM HarmIsCaused == Spec => []HarmNeedsCause
<1>1. Inv /\ [Next]_vars => Inv'
  BY TypeStep, InstalledStep, CauseStays DEF Inv
<1>2. Inv => HarmNeedsCause
  BY DEF Inv, Installed, HarmNeedsCause
<1> QED
  BY InitInv, <1>1, <1>2, PTL DEF Spec

----------------------------------------------------------------------------
(* What dumps leave in the file.                                           *)

WordSet == Nat \X Int

DumpTypes ==
  /\ ram \in [Chunk -> [0 .. Room - 1 -> WordSet]]
  /\ file \in Seq(WordSet)
  /\ {log, stop, first, asked} \subseteq Nat
  /\ base \in Chunk \cup {Nowhere}
  /\ pc \in Installing => slot # Nowhere
  /\ pc = "dump" => base # Nowhere /\ log <= Len(file) /\ log <= stop

(* The word k of a trace, and the ones the handler writes.                 *)
Traced(k) == <<first + (k \div Frame), k % Frame>>
IsWritten(k) == k < Room /\ k % Frame # Frame - 1

(* As long as feature 0 is not freed the buffer holds every access since   *)
(* the trace began, and a dump under way copies what was there when it was *)
(* asked for.                                                              *)
TraceKept ==
  kept =>
    /\ pc \notin {"copy", "vector", "pointers"}
    /\ slot \in Chunk /\ base = slot /\ end.chunk = slot
    /\ first \in 1 .. accesses + 1 /\ end.at = Frame * (accesses - first + 1)
    /\ \A k \in 0 .. end.at - 1 : IsWritten(k) => ram[slot][k] = Traced(k)
    /\ pc = "dump" =>
         /\ asked \in first - 1 .. accesses /\ stop = Frame * (asked - first + 1)
         /\ \A k \in 0 .. log - 1 : IsWritten(k) => file[k + 1] = Traced(k)

(* Frames are whole in the buffer, and in the file but for a dump that has *)
(* just got so far.                                                        *)
FramesWhole ==
  /\ end.at % Frame = 0 /\ stop % Frame = 0
  /\ ~ torn /\ ~ blind /\ pc # "lost" =>
       Len(file) % Frame = 0 \/ (pc = "dump" /\ Len(file) = log)

FileInv == Types /\ DumpTypes /\ TraceKept /\ FramesWhole

LEMMA LargerOf ==
  ASSUME NEW a \in Int, NEW b \in Int
  PROVE  Max({a, b}) = IF a >= b THEN a ELSE b
<1> DEFINE m == IF a >= b THEN a ELSE b
<1>1. m \in {a, b} /\ \A y \in {a, b} : m >= y
  OBVIOUS
<1>2. \A x \in {a, b} : (\A y \in {a, b} : x >= y) => x = m
  OBVIOUS
<1> HIDE DEF m
<1>3. Max({a, b}) = m
  BY <1>1, <1>2 DEF Max
<1> QED
  BY <1>3 DEF m

LEMMA SmallerOf ==
  ASSUME NEW a \in Int, NEW b \in Int
  PROVE  Min({a, b}) = IF a <= b THEN a ELSE b
<1> DEFINE m == IF a <= b THEN a ELSE b
<1>1. m \in {a, b} /\ \A y \in {a, b} : m <= y
  OBVIOUS
<1>2. \A x \in {a, b} : (\A y \in {a, b} : x <= y) => x = m
  OBVIOUS
<1> HIDE DEF m
<1>3. Min({a, b}) = m
  BY <1>1, <1>2 DEF Min
<1> QED
  BY <1>3 DEF m

(* The words of frame q.                                                   *)
LEMMA InFrame ==
  ASSUME NEW q \in Nat, NEW r \in 0 .. Frame - 1
  PROVE  (Frame * q + r) \div Frame = q /\ (Frame * q + r) % Frame = r
<1> DEFINE k == Frame * q + r
           d == k \div Frame
           e == k % Frame
<1>1. Frame \in Nat \ {0} /\ k \in Nat /\ k = Frame * q + r /\ r \in Nat /\ r < Frame
  BY Sizes
<1> HIDE DEF k
<1>2. d \in Nat /\ e \in Nat /\ e < Frame /\ k = Frame * d + e
  BY <1>1
<1> HIDE DEF d, e
<1>3. Frame * d < Frame * (q + 1) /\ Frame * q < Frame * (d + 1)
  BY <1>1, <1>2
<1>4. d = q
  BY <1>1, <1>2, <1>3
<1>5. e = r
  BY <1>1, <1>2, <1>4
<1> QED
  BY <1>4, <1>5 DEF d, e, k

LEMMA FrameSteps ==
  ASSUME NEW n \in Nat
  PROVE  /\ n % Frame = 0 => (n + Frame) % Frame = 0
         /\ (Frame * n) % Frame = 0 /\ Frame * n \in Nat
         /\ Frame * (n + 1) = Frame * n + Frame
<1>1. Frame \in Nat \ {0} /\ 0 \in 0 .. Frame - 1
  BY Sizes
<1>2. Frame * n \in Nat /\ Frame * (n + 1) = Frame * n + Frame
  BY <1>1
<1>3. (Frame * n) % Frame = 0
  <2>1. Frame * n + 0 = Frame * n
    BY <1>2
  <2>2. (Frame * n + 0) % Frame = 0
    BY <1>1, InFrame
  <2> QED
    BY <2>1, <2>2
<1>4. ASSUME n % Frame = 0 PROVE (n + Frame) % Frame = 0
  <2>1. n \div Frame \in Nat /\ n = Frame * (n \div Frame)
    BY <1>1, <1>4
  <2>2. n + Frame = Frame * (n \div Frame + 1) + 0
    BY <1>1, <2>1
  <2>3. (Frame * (n \div Frame + 1) + 0) % Frame = 0
    BY <1>1, <2>1, InFrame
  <2> QED
    BY <2>2, <2>3
<1> QED
  BY <1>2, <1>3, <1>4

(* A write puts the next n words of the log where the file is at.          *)
LEMMA WrittenWords ==
  ASSUME DumpTypes, pc = "dump", NEW n \in Nat
  PROVE  LET f == Written(Words(n)) IN
         /\ f \in Seq(WordSet)
         /\ Len(f) = IF Len(file) >= log + n THEN Len(file) ELSE log + n
         /\ \A k \in 1 .. Len(f) :
              f[k] = IF k - log \in 1 .. n
                       THEN IF k <= Room THEN ram[base][k - 1] ELSE Stale
                       ELSE file[k]
<1> DEFINE M == Max({Len(file), log + n})
           F == Len(file)
           w == Words(n)
           f == Written(w)
<1>1. /\ log \in Nat /\ log <= F /\ F \in Nat /\ file \in Seq(WordSet) /\ base \in Chunk
      /\ \A k \in 1 .. F : file[k] \in WordSet
  BY DEF DumpTypes
<1>2. M = (IF F >= log + n THEN F ELSE log + n) /\ M \in Nat
  BY <1>1, LargerOf
<1>3. w = [k \in 1 .. n |-> IF log + k <= Room THEN ram[base][log + k - 1] ELSE Stale]
  BY DEF Words
<1>4. Len(w) = n
  BY <1>3
<1>5. \A k \in 1 .. n : w[k] = (IF log + k <= Room THEN ram[base][log + k - 1] ELSE Stale) /\ w[k] \in WordSet
  <2> TAKE k \in 1 .. n
  <2>1. w[k] = IF log + k <= Room THEN ram[base][log + k - 1] ELSE Stale
    BY <1>3
  <2>2. log + k <= Room => log + k - 1 \in 0 .. Room - 1
    BY <1>1, Sizes
  <2>3. log + k <= Room => ram[base][log + k - 1] \in WordSet
    BY <1>1, <2>2 DEF DumpTypes
  <2>4. Stale \in WordSet
    BY DEF Stale, WordSet
  <2> QED
    BY <2>1, <2>3, <2>4
<1> HIDE DEF w
<1>6. f = [k \in 1 .. M |-> IF k - log \in 1 .. n THEN w[k - log] ELSE file[k]]
  BY <1>4 DEF Written
<1> HIDE DEF M, F, f
<1>7. \A k \in 1 .. M : k - log \in 1 .. n \/ k \in 1 .. F
  BY <1>1, <1>2
<1>8. \A k \in 1 .. M : (IF k - log \in 1 .. n THEN w[k - log] ELSE file[k]) \in WordSet
  BY <1>1, <1>5, <1>7
<1>9. f \in [1 .. M -> WordSet]
  BY <1>6, <1>8
<1>10. f \in Seq(WordSet) /\ Len(f) = M
  BY <1>2, <1>6, <1>9
<1>11. \A k \in 1 .. M :
         f[k] = IF k - log \in 1 .. n
                  THEN IF k <= Room THEN ram[base][k - 1] ELSE Stale
                  ELSE file[k]
  <2> TAKE k \in 1 .. M
  <2>1. f[k] = IF k - log \in 1 .. n THEN w[k - log] ELSE file[k]
    BY <1>6
  <2>2. ASSUME k - log \in 1 .. n
        PROVE  w[k - log] = IF k <= Room THEN ram[base][k - 1] ELSE Stale
    <3> DEFINE j == k - log
    <3>1. j \in 1 .. n /\ log + j = k /\ log + j - 1 = k - 1
      BY <1>1, <1>2, <2>2
    <3> HIDE DEF j
    <3>2. w[j] = IF log + j <= Room THEN ram[base][log + j - 1] ELSE Stale
      BY <1>5, <3>1
    <3>3. w[j] = IF k <= Room THEN ram[base][k - 1] ELSE Stale
      BY <3>1, <3>2
    <3> QED
      BY <3>3 DEF j
  <2> QED
    BY <2>1, <2>2
<1> QED
  BY <1>2, <1>10, <1>11 DEF f, w, F

LEMMA BatchSize ==
  ASSUME DumpTypes, pc = "dump", log < stop
  PROVE  BatchLength \in 1 .. stop - log
<1>1. log \in Nat /\ stop \in Nat /\ Batch \in Nat \ {0}
  BY IrqTraceAssumption DEF DumpTypes
<1> QED
  BY <1>1, SmallerOf DEF BatchLength

LEMMA InitFile == Init => FileInv
<1> SUFFICES ASSUME Init PROVE FileInv
  OBVIOUS
<1>1. 0 % Frame = 0 /\ Len(file) = 0 /\ file \in Seq(WordSet)
  BY Sizes DEF Init
<1>2. ram \in [Chunk -> [0 .. Room - 1 -> WordSet]]
  BY DEF Init, Stale, WordSet
<1> QED
  BY <1>1, <1>2 DEF Init, FileInv, Types, DumpTypes, Installing, TraceKept, FramesWhole

(* A frame is added at the end of the buffer and nowhere else.             *)
LEMMA RecordFile == FileInv /\ Record => DumpTypes' /\ TraceKept' /\ FramesWhole'
<1> SUFFICES ASSUME FileInv, Record PROVE DumpTypes' /\ TraceKept' /\ FramesWhole'
  OBVIOUS
<1> DEFINE d == end.chunk
           new == [k \in 0 .. Room - 1 |->
                    IF k - end.at \in 0 .. Frame - 2 THEN <<accesses + 1, k - end.at>> ELSE ram[d][k]]
<1>1. /\ Types /\ DumpTypes /\ TraceKept /\ FramesWhole
      /\ d \in Chunk /\ accesses \in Nat /\ end.at \in Nat /\ Frame \in Nat \ {0} /\ Room \in Nat
  BY Sizes DEF FileInv, Types, Record
<1>2. /\ accesses' = accesses + 1 /\ end'.at = end.at + Frame /\ end'.chunk = d
      /\ UNCHANGED <<pc, slot, base, first, kept, file, log, stop, asked, torn, blind>>
  BY <1>1 DEF Record, NextFrame, dump, Types
<1>3. ram' = [ram EXCEPT ![d] = new]
  BY <1>2 DEF Record
<1>4. ram \in [Chunk -> [0 .. Room - 1 -> WordSet]]
  BY <1>1 DEF DumpTypes
<1>5. new \in [0 .. Room - 1 -> WordSet]
  <2>1. \A k \in 0 .. Room - 1 : ram[d][k] \in WordSet /\ <<accesses + 1, k - end.at>> \in WordSet
    BY <1>1, <1>4 DEF WordSet
  <2> QED
    BY <2>1
<1>6. ram'[d] = new
  BY <1>1, <1>3, <1>4
<1>7. \A k \in 0 .. Room - 1 :
        new[k] = IF k - end.at \in 0 .. Frame - 2 THEN <<accesses + 1, k - end.at>> ELSE ram[d][k]
  OBVIOUS
<1> HIDE DEF new
<1>8. ram' \in [Chunk -> [0 .. Room - 1 -> WordSet]]
  BY <1>3, <1>4, <1>5
<1>9. DumpTypes'
  BY <1>1, <1>2, <1>8 DEF DumpTypes, Installing
<1>10. FramesWhole'
  BY <1>1, <1>2, FrameSteps DEF FramesWhole
<1>11. ASSUME kept PROVE TraceKept'
  <2>1. /\ slot = d /\ base = d /\ first \in 1 .. accesses + 1 /\ end.at = Frame * (accesses - first + 1)
        /\ \A k \in 0 .. end.at - 1 : IsWritten(k) => ram[d][k] = Traced(k)
    BY <1>1, <1>11 DEF TraceKept
  <2> DEFINE q == accesses - first + 1
  <2>2. q \in Nat /\ first \in Nat /\ end.at = Frame * q /\ first + q = accesses + 1
        /\ accesses' - first + 1 = q + 1
    BY <1>1, <1>2, <2>1
  <2> HIDE DEF q
  <2>3. end'.at = Frame * (accesses' - first + 1)
    BY <1>2, <2>2, FrameSteps
  <2>4. ASSUME NEW k \in 0 .. end.at + Frame - 1, IsWritten(k)
        PROVE  new[k] = Traced(k)
    <3>1. k \in 0 .. Room - 1 /\ k % Frame # Frame - 1
      BY <1>1, <2>4 DEF IsWritten
    <3>2. CASE k < end.at
      <4>1. ~ (k - end.at \in 0 .. Frame - 2) /\ k \in 0 .. end.at - 1
        BY <1>1, <3>1, <3>2
      <4> QED
        BY <1>7, <2>1, <2>4, <3>1, <4>1
    <3>3. CASE ~ k < end.at
      <4> DEFINE r == k - end.at
      <4>1. r \in 0 .. Frame - 1 /\ k = Frame * q + r
        BY <1>1, <2>2, <3>1, <3>3
      <4> HIDE DEF r
      <4>2. k \div Frame = q /\ k % Frame = r
        BY <2>2, <4>1, InFrame
      <4>3. r \in 0 .. Frame - 2
        BY <1>1, <3>1, <4>1, <4>2
      <4>4. new[k] = <<accesses + 1, r>>
        BY <1>7, <3>1, <4>3 DEF r
      <4> QED
        BY <2>2, <4>2, <4>4 DEF Traced
    <3> QED
      BY <3>2, <3>3
  <2>5. \A k \in 0 .. end'.at - 1 : IsWritten(k) => ram'[d][k] = Traced(k)
    <3>1. end'.at - 1 = end.at + Frame - 1
      BY <1>1, <1>2
    <3>2. \A k \in 0 .. end.at + Frame - 1 : IsWritten(k) => new[k] = Traced(k)
      BY <2>4
    <3> QED
      BY <1>6, <3>1, <3>2
  <2>6. pc = "dump" => /\ asked \in first - 1 .. accesses + 1 /\ stop = Frame * (asked - first + 1)
                       /\ \A k \in 0 .. log - 1 : IsWritten(k) => file[k + 1] = Traced(k)
    <3>1. ASSUME pc = "dump" PROVE asked \in first - 1 .. accesses
      BY <1>1, <1>11, <3>1 DEF TraceKept
    <3>2. pc = "dump" => asked \in first - 1 .. accesses + 1
      BY <1>1, <2>2, <3>1
    <3> QED
      BY <1>1, <1>11, <3>2 DEF TraceKept
  <2>7. pc \notin {"copy", "vector", "pointers"} /\ first \in 1 .. accesses' + 1
    BY <1>1, <1>2, <1>11, <2>1 DEF TraceKept
  <2> QED
    BY <1>1, <1>2, <2>1, <2>3, <2>5, <2>6, <2>7 DEF TraceKept, Traced, IsWritten
<1>12. ~ kept => TraceKept'
  BY <1>2 DEF TraceKept
<1> QED
  BY <1>9, <1>10, <1>11, <1>12

LEMMA StartFile == FileInv /\ Start => DumpTypes' /\ TraceKept' /\ FramesWhole'
<1> SUFFICES ASSUME FileInv, Start PROVE DumpTypes' /\ TraceKept' /\ FramesWhole'
  OBVIOUS
<1>1. Types /\ DumpTypes /\ TraceKept /\ FramesWhole
  BY DEF FileInv
<1>2. CASE CallFails \/ CopyHandler \/ SetVector
  <2>1. /\ pc \in {"copy", "vector"} /\ pc' \in {"idle", "vector", "pointers"}
        /\ pc' = "idle" \/ slot' # Nowhere
        /\ UNCHANGED <<slot, ram, base, end, file, log, stop, asked, accesses, first, kept, torn, blind>>
    BY <1>1, <1>2 DEF CallFails, CopyHandler, SetVector, memory, hooks, dump, history, DumpTypes, Installing
  <2>2. DumpTypes'
    BY <1>1, <2>1 DEF DumpTypes, Installing
  <2>3. TraceKept'
    BY <1>1, <2>1 DEF TraceKept
  <2>4. FramesWhole'
    BY <1>1, <2>1 DEF FramesWhole
  <2> QED
    BY <2>2, <2>3, <2>4
<1>3. CASE SetPointers
  <2>1. /\ pc = "pointers" /\ pc' = "enable" /\ base' = slot /\ end'.chunk = slot /\ end'.at = 0
        /\ first' = accesses + 1 /\ slot \in Chunk
        /\ UNCHANGED <<slot, ram, file, log, stop, asked, accesses, torn, blind>>
    BY <1>1, <1>3 DEF SetPointers, memory, dump, Types, DumpTypes, Installing
  <2>2. DumpTypes'
    BY <1>1, <2>1 DEF DumpTypes, Installing, Types
  <2>3. /\ Frame * (accesses' - first' + 1) = 0 /\ first' \in 1 .. accesses' + 1 /\ 0 % Frame = 0
        /\ 0 .. 0 - 1 = {}
    BY <1>1, <2>1, Sizes DEF Types
  <2>4. TraceKept'
    BY <2>1, <2>3 DEF TraceKept
  <2>5. FramesWhole'
    BY <1>1, <2>1, <2>3 DEF FramesWhole
  <2> QED
    BY <2>2, <2>4, <2>5
<1>4. CASE Enable
  <2>1. /\ pc = "enable" /\ pc' = "idle"
        /\ UNCHANGED <<slot, ram, base, end, file, log, stop, asked, accesses, first, kept, torn, blind>>
    BY <1>4 DEF Enable, memory, dump, history
  <2>2. DumpTypes'
    BY <1>1, <2>1 DEF DumpTypes, Installing
  <2>3. TraceKept'
    BY <1>1, <2>1 DEF TraceKept, IsWritten, Traced
  <2>4. FramesWhole'
    BY <1>1, <2>1 DEF FramesWhole
  <2> QED
    BY <2>2, <2>3, <2>4
<1> QED
  BY <1>2, <1>3, <1>4 DEF Start

(* What happens to feature 0 outside a trace.                              *)
LEMMA OtherFile ==
  ASSUME FileInv,
         Runaway \/ Relaunch \/ Refused \/ (\E c \in Chunk : Allocate(c) \/ Reuse(c)) \/ UNCHANGED vars
  PROVE  DumpTypes' /\ TraceKept' /\ FramesWhole'
<1>1. Types /\ DumpTypes /\ TraceKept /\ FramesWhole
  BY DEF FileInv
<1>2. CASE Runaway
  <2>1. /\ pc' = "lost"
        /\ UNCHANGED <<slot, ram, base, end, file, log, stop, asked, accesses, first, kept, torn, blind>>
    BY <1>2 DEF Runaway, memory, hooks, dump, history
  <2>2. DumpTypes'
    BY <1>1, <2>1 DEF DumpTypes, Installing
  <2>3. TraceKept'
    BY <1>1, <2>1 DEF TraceKept, IsWritten, Traced
  <2>4. FramesWhole'
    BY <1>1, <2>1 DEF FramesWhole
  <2> QED
    BY <2>2, <2>3, <2>4
<1>3. CASE Relaunch
  <2>1. /\ pc = "idle" /\ ~ kept'
        /\ UNCHANGED <<pc, ram, base, end, file, log, stop, asked, first, torn, blind>>
    BY <1>3 DEF Relaunch, hooks, dump
  <2> QED
    BY <1>1, <2>1 DEF DumpTypes, Installing, TraceKept, FramesWhole
<1>4. CASE Refused \/ UNCHANGED vars
  <2>1. UNCHANGED <<pc, slot, ram, base, end, file, log, stop, asked, accesses, first, kept, torn, blind>>
    BY <1>4 DEF Refused, vars, memory, hooks, dump, history
  <2> QED
    BY <1>1, <2>1 DEF DumpTypes, Installing, TraceKept, FramesWhole, IsWritten, Traced
<1>5. ASSUME NEW c \in Chunk, Allocate(c) PROVE DumpTypes' /\ TraceKept' /\ FramesWhole'
  <2>1. /\ pc = "idle" /\ pc' = "copy" /\ slot = Nowhere /\ slot' # Nowhere /\ ~ kept
        /\ UNCHANGED <<ram, base, end, file, log, stop, asked, first, kept, torn, blind>>
    BY <1>1, <1>5, IrqTraceAssumption DEF Allocate, hooks, dump, history, TraceKept
  <2> QED
    BY <1>1, <2>1 DEF DumpTypes, Installing, TraceKept, FramesWhole
<1>6. ASSUME NEW c \in Chunk, Reuse(c) PROVE DumpTypes' /\ TraceKept' /\ FramesWhole'
  <2> DEFINE gone == [k \in 0 .. Room - 1 |-> Stale]
  <2>1. /\ c # slot /\ ram' = [ram EXCEPT ![c] = gone]
        /\ UNCHANGED <<pc, slot, base, end, file, log, stop, asked, accesses, first, kept, torn, blind>>
    BY <1>6 DEF Reuse, hooks, dump, history
  <2>2. gone \in [0 .. Room - 1 -> WordSet]
    BY DEF Stale, WordSet
  <2> HIDE DEF gone
  <2>3. ram' \in [Chunk -> [0 .. Room - 1 -> WordSet]] /\ (slot \in Chunk => ram'[slot] = ram[slot])
    BY <1>1, <2>1, <2>2 DEF DumpTypes
  <2>4. DumpTypes'
    BY <1>1, <2>1, <2>3 DEF DumpTypes, Installing
  <2>5. TraceKept'
    BY <1>1, <2>1, <2>3 DEF TraceKept, IsWritten, Traced
  <2>6. FramesWhole'
    BY <1>1, <2>1 DEF FramesWhole
  <2> QED
    BY <2>4, <2>5, <2>6
<1> QED
  BY <1>2, <1>3, <1>4, <1>5, <1>6

(* A batch is the next words of the log, written where the file ended: it  *)
(* holds the trace as far as the log does.                                 *)
LEMMA WriteFile == FileInv /\ WriteBatch => DumpTypes' /\ TraceKept' /\ FramesWhole'
<1> SUFFICES ASSUME FileInv, WriteBatch PROVE DumpTypes' /\ TraceKept' /\ FramesWhole'
  OBVIOUS
<1> DEFINE n == BatchLength
<1>1. Types /\ DumpTypes /\ TraceKept /\ FramesWhole /\ pc = "dump" /\ log < stop
  BY DEF FileInv, WriteBatch
<1>2. n \in 1 .. stop - log
  BY <1>1, BatchSize
<1>3. /\ file' = Written(Words(n)) /\ log' = log + n
      /\ UNCHANGED <<pc, slot, ram, base, end, stop, asked, accesses, first, kept, torn, blind>>
  BY DEF WriteBatch, memory, hooks, history
<1> HIDE DEF n
<1>4. log \in Nat /\ stop \in Nat /\ n \in Nat /\ log' <= stop /\ log' \in Nat /\ Len(file) \in Nat
  BY <1>1, <1>2, <1>3 DEF DumpTypes
<1>5. /\ file' \in Seq(WordSet)
      /\ Len(file') = IF Len(file) >= log + n THEN Len(file) ELSE log + n
      /\ \A k \in 1 .. Len(file') :
           file'[k] = IF k - log \in 1 .. n
                        THEN IF k <= Room THEN ram[base][k - 1] ELSE Stale
                        ELSE file[k]
  BY <1>1, <1>3, <1>4, WrittenWords
<1>6. log' <= Len(file')
  BY <1>3, <1>4, <1>5
<1>7. DumpTypes'
  BY <1>1, <1>3, <1>4, <1>5, <1>6 DEF DumpTypes, Installing
<1>8. FramesWhole'
  <2>1. Len(file') = Len(file) \/ Len(file') = log'
    BY <1>3, <1>5
  <2>2. Len(file) = log => Len(file') = log'
    BY <1>2, <1>3, <1>4, <1>5
  <2> QED
    BY <1>1, <1>3, <2>1, <2>2 DEF FramesWhole
<1>9. ASSUME kept PROVE TraceKept'
  <2>1. /\ slot \in Chunk /\ base = slot
        /\ first \in 1 .. accesses + 1 /\ end.at = Frame * (accesses - first + 1)
        /\ \A k \in 0 .. end.at - 1 : IsWritten(k) => ram[slot][k] = Traced(k)
        /\ asked \in first - 1 .. accesses /\ stop = Frame * (asked - first + 1)
        /\ \A k \in 0 .. log - 1 : IsWritten(k) => file[k + 1] = Traced(k)
    BY <1>1, <1>9 DEF TraceKept
  <2>2. stop <= end.at /\ end.at \in Nat
    <3> DEFINE a == asked - first + 1
               b == accesses - first + 1
    <3>1. a \in Nat /\ b \in Nat /\ a <= b
      BY <1>1, <2>1 DEF Types
    <3> HIDE DEF a, b
    <3>2. Frame * a <= Frame * b
      BY <3>1, Sizes
    <3> QED
      BY <1>1, <2>1, <3>2 DEF a, b, Types
  <2>3. ASSUME NEW k \in 0 .. log + n - 1, IsWritten(k)
        PROVE  file'[k + 1] = Traced(k)
    <3>1. k < Room /\ k \in Nat
      BY <1>4, <2>3 DEF IsWritten
    <3>2. k + 1 \in 1 .. Len(file')
      BY <1>3, <1>4, <1>6, <2>3
    <3> DEFINE at == k + 1
    <3>3. at \in 1 .. Len(file') /\ at - 1 = k /\ at <= Room
      BY <3>1, <3>2, Sizes
    <3> HIDE DEF at
    <3>4. file'[at] = IF at - log \in 1 .. n
                       THEN IF at <= Room THEN ram[base][at - 1] ELSE Stale
                       ELSE file[at]
      BY <1>5, <3>3
    <3>5. CASE k < log
      <4>1. ~ (at - log \in 1 .. n) /\ k \in 0 .. log - 1
        BY <1>4, <3>1, <3>5 DEF at
      <4>2. file[k + 1] = Traced(k)
        BY <2>1, <2>3, <4>1
      <4> QED
        BY <3>4, <4>1, <4>2 DEF at
    <3>6. CASE ~ k < log
      <4>1. at - log \in 1 .. n /\ k \in 0 .. end.at - 1
        BY <1>3, <1>4, <2>2, <2>3, <3>6 DEF at
      <4>2. ram[slot][k] = Traced(k)
        BY <2>1, <2>3, <4>1
      <4>3. file'[at] = ram[base][k]
        BY <3>3, <3>4, <4>1
      <4> QED
        BY <2>1, <4>2, <4>3 DEF at
    <3> QED
      BY <3>5, <3>6
  <2>4. \A k \in 0 .. log' - 1 : IsWritten(k) => file'[k + 1] = Traced(k)
    <3>1. \A k \in 0 .. log + n - 1 : IsWritten(k) => file'[k + 1] = Traced(k)
      BY <2>3
    <3>2. log' - 1 = log + n - 1
      BY <1>3, <1>4
    <3> QED
      BY <3>1, <3>2
  <2> QED
    BY <1>1, <1>3, <1>9, <2>4 DEF TraceKept, IsWritten, Traced
<1>10. ~ kept => TraceKept'
  BY <1>3 DEF TraceKept
<1> QED
  BY <1>7, <1>8, <1>9, <1>10

LEMMA DumpFile == FileInv /\ Dump => DumpTypes' /\ TraceKept' /\ FramesWhole'
<1> SUFFICES ASSUME FileInv, Dump PROVE DumpTypes' /\ TraceKept' /\ FramesWhole'
  OBVIOUS
<1>1. Types /\ DumpTypes /\ TraceKept /\ FramesWhole
  BY DEF FileInv
<1>2. CASE DumpBlind
  <2>1. /\ pc' \in {"idle", "lost"} /\ blind' /\ base = Nowhere
        /\ file' \in {file, <<Stale>>}
        /\ UNCHANGED <<slot, ram, base, end, log, stop, asked, first, kept>>
    BY <1>2 DEF DumpBlind, memory, hooks
  <2>2. file' \in Seq(WordSet)
    <3>1. Stale \in WordSet
      BY DEF Stale, WordSet
    <3>2. <<Stale>> \in Seq(WordSet)
      BY <3>1
    <3> QED
      BY <1>1, <2>1, <3>2 DEF DumpTypes
  <2>3. ~ kept'
    BY <1>1, <2>1, IrqTraceAssumption DEF TraceKept
  <2> QED
    BY <1>1, <2>1, <2>2, <2>3 DEF DumpTypes, Installing, TraceKept, FramesWhole
<1>3. CASE OpenDump
  <2>1. /\ pc = "idle" /\ pc' = "dump" /\ base # Nowhere
        /\ log' = 0 /\ stop' = end.at /\ asked' = accesses
        /\ UNCHANGED <<slot, ram, base, end, file, accesses, first, kept, torn, blind>>
    BY <1>3 DEF OpenDump, memory, hooks, history
  <2>2. DumpTypes'
    BY <1>1, <2>1 DEF DumpTypes, Installing, Types
  <2>3. 0 .. 0 - 1 = {} /\ (kept => accesses \in first - 1 .. accesses)
    BY <1>1 DEF TraceKept, Types
  <2>4. TraceKept'
    BY <1>1, <2>1, <2>3 DEF TraceKept, IsWritten, Traced
  <2>5. FramesWhole'
    BY <1>1, <2>1 DEF FramesWhole
  <2> QED
    BY <2>2, <2>4, <2>5
<1>4. CASE WriteBatch
  BY <1>4, WriteFile
<1>5. CASE WriteFails
  <2>1. /\ pc = "dump" /\ log < stop /\ pc' = "idle" /\ torn'
        /\ UNCHANGED <<slot, ram, base, end, log, stop, asked, accesses, first, kept>>
    BY <1>5 DEF WriteFails, memory, hooks
  <2>2. file' \in Seq(WordSet)
    <3>1. PICK n \in 0 .. BatchLength - 1 : file' = Written(Words(n))
      BY <1>5 DEF WriteFails
    <3>2. n \in Nat
      BY <1>1, <2>1, BatchSize
    <3> QED
      BY <1>1, <2>1, <3>1, <3>2, WrittenWords
  <2>3. DumpTypes'
    BY <1>1, <2>1, <2>2 DEF DumpTypes, Installing
  <2>4. TraceKept'
    BY <1>1, <2>1 DEF TraceKept, IsWritten, Traced
  <2>5. FramesWhole'
    BY <1>1, <2>1 DEF FramesWhole
  <2> QED
    BY <2>3, <2>4, <2>5
<1>6. CASE EndDump
  <2>1. /\ pc = "dump" /\ log >= stop /\ pc' = "idle"
        /\ UNCHANGED <<slot, ram, base, end, file, log, stop, asked, accesses, first, kept, torn, blind>>
    BY <1>6 DEF EndDump, memory, hooks, dump, history
  <2>2. log = stop
    BY <1>1, <2>1 DEF DumpTypes
  <2>3. DumpTypes'
    BY <1>1, <2>1 DEF DumpTypes, Installing
  <2>4. TraceKept'
    BY <1>1, <2>1 DEF TraceKept, IsWritten, Traced
  <2>5. FramesWhole'
    BY <1>1, <2>1, <2>2 DEF FramesWhole
  <2> QED
    BY <2>3, <2>4, <2>5
<1> QED
  BY <1>2, <1>3, <1>4, <1>5, <1>6 DEF Dump

LEMMA FileInvariant == Spec => []FileInv
<1>1. FileInv /\ [Next]_vars => FileInv'
  <2> SUFFICES ASSUME FileInv, [Next]_vars PROVE FileInv'
    OBVIOUS
  <2>1. Types'
    BY TypeStep DEF FileInv
  <2>2. DumpTypes' /\ TraceKept' /\ FramesWhole'
    <3>1. \/ Start \/ Dump \/ Record
          \/ Runaway \/ Relaunch \/ Refused \/ (\E c \in Chunk : Allocate(c) \/ Reuse(c)) \/ UNCHANGED vars
      BY DEF Next
    <3> QED
      BY <3>1, StartFile, DumpFile, RecordFile, OtherFile
  <2> QED
    BY <2>1, <2>2 DEF FileInv
<1> QED
  BY InitFile, <1>1, PTL DEF Spec

(* What a dump has written of a buffer that is still the trace's own is    *)
(* the accesses up to the moment it was asked for, frame by frame, however *)
(* many are trapped meanwhile and whatever the file held before.           *)
THEOREM DumpCopiesTrace == Spec => []DumpIsTrace
<1>1. FileInv => DumpIsTrace
  <2> SUFFICES ASSUME FileInv, pc = "dump", log >= stop, kept
               PROVE  /\ stop = Frame * (asked - first + 1)
                      /\ Len(file) >= stop
                      /\ \A k \in 0 .. Min({stop, Room}) - 1 :
                           k % Frame # Frame - 1 => file[k + 1] = <<first + (k \div Frame), k % Frame>>
    BY DEF DumpIsTrace
  <2>1. /\ stop = Frame * (asked - first + 1)
        /\ \A k \in 0 .. log - 1 : IsWritten(k) => file[k + 1] = Traced(k)
        /\ log \in Nat /\ stop \in Nat /\ log <= Len(file) /\ Len(file) \in Nat /\ Room \in Nat
    BY Sizes DEF FileInv, TraceKept, DumpTypes
  <2>2. Len(file) >= stop
    BY <2>1
  <2>3. ASSUME NEW k \in 0 .. Min({stop, Room}) - 1, k % Frame # Frame - 1
        PROVE  file[k + 1] = Traced(k)
    <3>1. Min({stop, Room}) = IF stop <= Room THEN stop ELSE Room
      BY <2>1, SmallerOf
    <3>2. k \in 0 .. log - 1 /\ k < Room
      BY <2>1, <3>1
    <3> QED
      BY <2>1, <2>3, <3>2 DEF IsWritten
  <2> QED
    BY <2>1, <2>2, <2>3 DEF Traced
<1> QED
  BY FileInvariant, <1>1, PTL

(* Whatever is traced and dumped in whatever order, the file ends with a   *)
(* whole frame, although batches are none: but after a write that failed   *)
(* and a dump without a trace.                                             *)
THEOREM DumpsAreWhole == Spec => []WholeFrames
<1>1. FileInv => WholeFrames
  BY DEF FileInv, FramesWhole, WholeFrames
<1> QED
  BY FileInvariant, <1>1, PTL

----------------------------------------------------------------------------
(* The powers of two in the size of a chunk.                              *)

PowerTable == {<<0, 1>>, <<1, 2>>, <<2, 4>>, <<3, 8>>, <<4, 16>>, <<5, 32>>, <<6, 64>>, <<7, 128>>, <<8, 256>>,
             <<9, 512>>, <<10, 1024>>, <<11, 2048>>, <<12, 4096>>, <<13, 8192>>, <<14, 16384>>, <<15, 32768>>, <<16, 65536>>}

LEMMA PowerIn == ASSUME NEW n \in 0 .. 16 PROVE <<n, 2 ^ n>> \in PowerTable
<1>p0. CASE n = 0
  BY <1>p0, SMT DEF PowerTable
<1>p1. CASE n = 1
  BY <1>p1, SMT DEF PowerTable
<1>p2. CASE n = 2
  BY <1>p2, SMT DEF PowerTable
<1>p3. CASE n = 3
  BY <1>p3, SMT DEF PowerTable
<1>p4. CASE n = 4
  BY <1>p4, SMT DEF PowerTable
<1>p5. CASE n = 5
  BY <1>p5, SMT DEF PowerTable
<1>p6. CASE n = 6
  BY <1>p6, SMT DEF PowerTable
<1>p7. CASE n = 7
  BY <1>p7, SMT DEF PowerTable
<1>p8. CASE n = 8
  BY <1>p8, SMT DEF PowerTable
<1>p9. CASE n = 9
  BY <1>p9, SMT DEF PowerTable
<1>p10. CASE n = 10
  BY <1>p10, SMT DEF PowerTable
<1>p11. CASE n = 11
  BY <1>p11, SMT DEF PowerTable
<1>p12. CASE n = 12
  BY <1>p12, SMT DEF PowerTable
<1>p13. CASE n = 13
  BY <1>p13, SMT DEF PowerTable
<1>p14. CASE n = 14
  BY <1>p14, SMT DEF PowerTable
<1>p15. CASE n = 15
  BY <1>p15, SMT DEF PowerTable
<1>p16. CASE n = 16
  BY <1>p16, SMT DEF PowerTable
<1> QED
  BY <1>p0, <1>p1, <1>p2, <1>p3, <1>p4, <1>p5, <1>p6, <1>p7, <1>p8, <1>p9, <1>p10, <1>p11, <1>p12, <1>p13, <1>p14, <1>p15, <1>p16, SMT

LEMMA PowerPair ==
  ASSUME NEW m, NEW a, NEW n, NEW b, <<m, a>> \in PowerTable, <<n, b>> \in PowerTable
  PROVE  b \in Nat \ {0} /\ (m < n => 2 * a <= b) /\ (n = m + 1 => b = 2 * a) /\ (n <= m => b <= a)
BY SMT DEF PowerTable

LEMMA PowersGrow ==
  ASSUME NEW m \in 0 .. 16, NEW n \in 0 .. 16
  PROVE  /\ 2 ^ n \in Nat \ {0} /\ 2 ^ m \in Nat \ {0}
         /\ m < n => 2 * 2 ^ m <= 2 ^ n
         /\ n = m + 1 => 2 ^ n = 2 * 2 ^ m
         /\ n <= m => 2 ^ n <= 2 ^ m
<1> DEFINE a == 2 ^ m
           b == 2 ^ n
<1>1. <<m, a>> \in PowerTable /\ <<n, b>> \in PowerTable
  BY PowerIn
<1> HIDE DEF a, b
<1>2. b \in Nat \ {0} /\ (m < n => 2 * a <= b) /\ (n = m + 1 => b = 2 * a) /\ (n <= m => b <= a)
  BY <1>1, PowerPair
<1>3. a \in Nat \ {0}
  BY <1>1, PowerPair
<1> QED
  BY <1>2, <1>3 DEF a, b

Huge == 2 ^ 32 - 2 ^ 15

LEMMA HugeIs == Huge \in Nat /\ Huge >= 2 ^ 31 /\ Huge > 2 ^ 16 /\ 2 ^ 16 \in Nat /\ 2 ^ 31 \in Nat
BY SMT DEF Huge

LEMMA ShiftIs ==
  ASSUME IntBits = 16, NEW n \in 0 .. 16
  PROVE  Shift(n) = IF n <= 14 THEN 2 ^ n ELSE IF n = 15 THEN Huge ELSE 0
<1>1. CASE n <= 14
  <2>1. n < IntBits - 1
    BY <1>1
  <2> QED
    BY <1>1, <2>1 DEF Shift
<1>2. CASE n = 15
  <2>1. ~ (n < IntBits - 1) /\ n = IntBits - 1 /\ 2 * IntBits = 32
    BY <1>2
  <2> QED
    BY <1>2, <2>1 DEF Shift, Huge
<1>3. CASE n = 16
  <2>1. ~ (n < IntBits - 1) /\ ~ (n = IntBits - 1)
    BY <1>3
  <2> QED
    BY <1>3, <2>1 DEF Shift
<1> QED
  BY <1>1, <1>2, <1>3

(* The mean of R pieces of which all but the last are of size 2 * h.       *)
LEMMA QuotientOf ==
  ASSUME NEW a \in Nat, NEW b \in Nat \ {0}
  PROVE  a \div b \in Nat /\ (a \div b) * b <= a /\ a < (a \div b) * b + b
OBVIOUS

Divided(h, len, R, p) ==
  /\ R >= 2 /\ (R - 1) * (2 * h) < len /\ len <= R * (2 * h)
  /\ p \in h .. 2 * h
  /\ h >= 2 => (p = h <=> len = 2 * h + 1)
  /\ h >= 2 /\ p = h => R = 2

LEMMA MeanOf ==
  ASSUME NEW h \in Nat \ {0}, NEW len \in Nat \ {0}, NEW R \in Nat, NEW p,
         R = (len + 2 * h - 1) \div (2 * h), R # 1, p = len \div R
  PROVE  Divided(h, len, R, p)
<1> DEFINE c == 2 * h
<1>1. c \in Nat \ {0} /\ c = 2 * h
  OBVIOUS
<1>2. R * c <= len + c - 1 /\ len + c - 1 < R * c + c
  <2>1. len + c - 1 \in Nat
    BY <1>1
  <2> HIDE DEF c
  <2>2. R = (len + c - 1) \div c
    BY DEF c
  <2> QED
    BY <1>1, <2>1, <2>2, QuotientOf
<1> HIDE DEF c
<1>r. R * c \in Nat
  BY <1>1
<1>3. R >= 2
  <2>1. R # 0
    BY <1>1, <1>2
  <2> QED
    BY <2>1
<1>4. (R - 1) * c = R * c - c
  BY <1>1
<1>5. (R - 1) * c < len /\ len <= R * c
  BY <1>1, <1>2, <1>4, <1>r
<1>6. p \in Nat /\ p * R <= len /\ len < p * R + R
  <2>1. R \in Nat \ {0} /\ len \in Nat
    BY <1>3
  <2> QED
    BY <2>1, QuotientOf
<1>7. p <= c
  <2> SUFFICES ASSUME p >= c + 1 PROVE FALSE
    BY <1>1, <1>6
  <2>1. p * R >= (c + 1) * R
    BY <1>1, <1>6
  <2>2. (c + 1) * R = R * c + R
    BY <1>1
  <2> QED
    BY <1>3, <1>5, <1>6, <1>r, <2>1, <2>2
<1>8. p * R = R * p /\ R * p \in Nat /\ R * h \in Nat /\ R * c = 2 * (R * h)
  BY <1>1, <1>6
<1>9. p >= h
  <2> SUFFICES ASSUME p + 1 <= h PROVE FALSE
    BY <1>6
  <2>1. R * (p + 1) <= R * h
    BY <1>6
  <2>2. R * (p + 1) = R * p + R
    BY <1>6
  <2>3. len < R * h
    BY <1>6, <1>8, <2>1, <2>2
  <2>4. 2 * (R * h) - c < R * h
    BY <1>1, <1>4, <1>5, <1>8, <2>3
  <2>5. R * h < 2 * h
    BY <1>1, <1>8, <2>4
  <2>6. R * h >= 2 * h
    BY <1>3
  <2> QED
    BY <1>8, <2>5, <2>6
<1>10. h >= 2 /\ p = h => R = 2 /\ len = 2 * h + 1
  <2> SUFFICES ASSUME h >= 2, p = h PROVE R = 2 /\ len = 2 * h + 1
    OBVIOUS
  <2>1. len < R * h + R
    BY <1>6, <1>8
  <2>2. R * h - 2 * h < R - 1
    BY <1>1, <1>4, <1>5, <1>8, <2>1
  <2>3. R = 2
    <3> SUFFICES ASSUME R >= 3 PROVE FALSE
      BY <1>3
    <3>1. (R - 2) * h = R * h - 2 * h
      BY <1>3
    <3>2. (R - 2) * h >= 2 * (R - 2)
      BY <1>3
    <3> QED
      BY <1>3, <1>8, <2>2, <3>1, <3>2
  <2>4. R * h = 2 * h /\ R * c = 4 * h
    BY <1>1, <2>3
  <2> QED
    BY <1>1, <1>4, <1>5, <2>1, <2>3, <2>4
<1>11. h >= 2 /\ len = 2 * h + 1 => p = h
  <2> SUFFICES ASSUME h >= 2, len = 2 * h + 1, p >= h + 1 PROVE FALSE
    BY <1>6, <1>9
  <2>1. R * p <= 2 * h + 1
    BY <1>6, <1>8
  <2>2. R * (h + 1) <= R * p /\ R * (h + 1) = R * h + R
    BY <1>6
  <2>3. R * h >= 2 * h
    BY <1>3
  <2> QED
    BY <1>3, <1>8, <2>1, <2>2, <2>3
<1> QED
  BY <1>1, <1>3, <1>5, <1>7, <1>9, <1>10, <1>11, <1>6 DEF c, Divided

LEMMA MinIs ==
  ASSUME NEW S, S \subseteq Int, NEW x \in S, \A y \in S : x <= y
  PROVE  Min(S) = x
<1>1. \A z \in S : (\A y \in S : z <= y) <=> z = x
  OBVIOUS
<1>2. Min(S) = CHOOSE z \in S : z = x
  BY <1>1 DEF Min
<1> QED
  BY <1>2

LEMMA FitOf ==
  ASSUME NEW p \in Nat \ {0}, p <= 2 ^ 14
  PROVE  \E n \in 0 .. 13 : 2 ^ n <= p /\ p <= 2 ^ (n + 1) /\ (n = 0 \/ 2 ^ n < p)
<1>1. /\ 2 ^ 1 \in Nat
      /\ 2 ^ 2 \in Nat
      /\ 2 ^ 3 \in Nat
      /\ 2 ^ 4 \in Nat
      /\ 2 ^ 5 \in Nat
      /\ 2 ^ 6 \in Nat
      /\ 2 ^ 7 \in Nat
      /\ 2 ^ 8 \in Nat
      /\ 2 ^ 9 \in Nat
      /\ 2 ^ 10 \in Nat
      /\ 2 ^ 11 \in Nat
      /\ 2 ^ 12 \in Nat
      /\ 2 ^ 13 \in Nat
      /\ 2 ^ 14 \in Nat
  BY SMT
<1>a. CASE p <= 2 ^ 1
  <2>1. 2 ^ 0 <= p /\ p <= 2 ^ (0 + 1) /\ 0 \in 0 .. 13
    BY <1>a, SMT
  <2> QED
    BY <2>1
<1>c1. CASE 2 ^ 1 < p /\ p <= 2 ^ 2
  <2>1. 1 + 1 = 2 /\ 1 \in 0 .. 13 /\ 2 ^ 1 <= p
    BY <1>c1, <1>1
  <2> QED
    BY <1>c1, <2>1, Zenon
<1>c2. CASE 2 ^ 2 < p /\ p <= 2 ^ 3
  <2>1. 2 + 1 = 3 /\ 2 \in 0 .. 13 /\ 2 ^ 2 <= p
    BY <1>c2, <1>1
  <2> QED
    BY <1>c2, <2>1, Zenon
<1>c3. CASE 2 ^ 3 < p /\ p <= 2 ^ 4
  <2>1. 3 + 1 = 4 /\ 3 \in 0 .. 13 /\ 2 ^ 3 <= p
    BY <1>c3, <1>1
  <2> QED
    BY <1>c3, <2>1, Zenon
<1>c4. CASE 2 ^ 4 < p /\ p <= 2 ^ 5
  <2>1. 4 + 1 = 5 /\ 4 \in 0 .. 13 /\ 2 ^ 4 <= p
    BY <1>c4, <1>1
  <2> QED
    BY <1>c4, <2>1, Zenon
<1>c5. CASE 2 ^ 5 < p /\ p <= 2 ^ 6
  <2>1. 5 + 1 = 6 /\ 5 \in 0 .. 13 /\ 2 ^ 5 <= p
    BY <1>c5, <1>1
  <2> QED
    BY <1>c5, <2>1, Zenon
<1>c6. CASE 2 ^ 6 < p /\ p <= 2 ^ 7
  <2>1. 6 + 1 = 7 /\ 6 \in 0 .. 13 /\ 2 ^ 6 <= p
    BY <1>c6, <1>1
  <2> QED
    BY <1>c6, <2>1, Zenon
<1>c7. CASE 2 ^ 7 < p /\ p <= 2 ^ 8
  <2>1. 7 + 1 = 8 /\ 7 \in 0 .. 13 /\ 2 ^ 7 <= p
    BY <1>c7, <1>1
  <2> QED
    BY <1>c7, <2>1, Zenon
<1>c8. CASE 2 ^ 8 < p /\ p <= 2 ^ 9
  <2>1. 8 + 1 = 9 /\ 8 \in 0 .. 13 /\ 2 ^ 8 <= p
    BY <1>c8, <1>1
  <2> QED
    BY <1>c8, <2>1, Zenon
<1>c9. CASE 2 ^ 9 < p /\ p <= 2 ^ 10
  <2>1. 9 + 1 = 10 /\ 9 \in 0 .. 13 /\ 2 ^ 9 <= p
    BY <1>c9, <1>1
  <2> QED
    BY <1>c9, <2>1, Zenon
<1>c10. CASE 2 ^ 10 < p /\ p <= 2 ^ 11
  <2>1. 10 + 1 = 11 /\ 10 \in 0 .. 13 /\ 2 ^ 10 <= p
    BY <1>c10, <1>1
  <2> QED
    BY <1>c10, <2>1, Zenon
<1>c11. CASE 2 ^ 11 < p /\ p <= 2 ^ 12
  <2>1. 11 + 1 = 12 /\ 11 \in 0 .. 13 /\ 2 ^ 11 <= p
    BY <1>c11, <1>1
  <2> QED
    BY <1>c11, <2>1, Zenon
<1>c12. CASE 2 ^ 12 < p /\ p <= 2 ^ 13
  <2>1. 12 + 1 = 13 /\ 12 \in 0 .. 13 /\ 2 ^ 12 <= p
    BY <1>c12, <1>1
  <2> QED
    BY <1>c12, <2>1, Zenon
<1>c13. CASE 2 ^ 13 < p /\ p <= 2 ^ 14
  <2>1. 13 + 1 = 14 /\ 13 \in 0 .. 13 /\ 2 ^ 13 <= p
    BY <1>c13, <1>1
  <2> QED
    BY <1>c13, <2>1, Zenon
<1> QED
  BY <1>1, <1>a, <1>c1, <1>c2, <1>c3, <1>c4, <1>c5, <1>c6, <1>c7, <1>c8, <1>c9, <1>c10, <1>c11, <1>c12, <1>c13, SMT

Fits(p) == {n \in 0 .. IntBits - 1 : Shift(n) <= p /\ Shift(n + 1) >= p}
Chosen(p) == IF Fits(p) = {} THEN 0 ELSE Shift(Min(Fits(p)) + 1)

LEMMA SmallChunk ==
  ASSUME IntBits = 16, NEW p \in Nat \ {0}, p <= 2 ^ 14
  PROVE  \E n \in 0 .. 13 : /\ 2 ^ n <= p /\ p <= 2 ^ (n + 1) /\ (n = 0 \/ 2 ^ n < p)
                            /\ Chosen(p) = 2 ^ (n + 1)
<1>1. PICK n \in 0 .. 13 : 2 ^ n <= p /\ p <= 2 ^ (n + 1) /\ (n = 0 \/ 2 ^ n < p)
  BY FitOf
<1>2. n \in 0 .. 16 /\ n + 1 \in 0 .. 16 /\ n <= 14 /\ n + 1 <= 14 /\ IntBits - 1 = 15
  OBVIOUS
<1>3. Shift(n) = 2 ^ n /\ Shift(n + 1) = 2 ^ (n + 1)
  BY <1>2, ShiftIs
<1>4. n \in Fits(p)
  BY <1>1, <1>2, <1>3 DEF Fits
<1>5. ASSUME NEW y \in Fits(p), y < n PROVE FALSE
  <2>1. y \in 0 .. 15 /\ Shift(y + 1) >= p
    BY <1>2 DEF Fits
  <2>2. y + 1 \in 0 .. 16 /\ y + 1 <= 14 /\ y + 1 <= n /\ n > 0
    BY <1>5, <2>1
  <2>3. 2 ^ (y + 1) >= p
    BY <2>1, <2>2, ShiftIs
  <2>4. 2 ^ (y + 1) <= 2 ^ n /\ 2 ^ (y + 1) \in Nat /\ 2 ^ n \in Nat
    BY <1>2, <2>2, PowersGrow
  <2> QED
    BY <1>1, <2>2, <2>3, <2>4
<1>6. Fits(p) \subseteq Int
  BY <1>2 DEF Fits
<1>7. Min(Fits(p)) = n
  <2>1. \A y \in Fits(p) : n <= y
    BY <1>5, <1>6
  <2> QED
    BY <1>4, <1>6, <2>1, MinIs
<1>8. Chosen(p) = 2 ^ (n + 1)
  BY <1>3, <1>4, <1>7 DEF Chosen
<1> QED
  BY <1>1, <1>8

LEMMA BigChunk ==
  ASSUME IntBits = 16, NEW p \in Nat, p > 2 ^ 14, p <= 2 ^ 16
  PROVE  Chosen(p) = Huge
<1>1. Shift(14) = 2 ^ 14 /\ Shift(15) = Huge /\ 2 ^ 14 \in Nat
  <2>1. 14 \in 0 .. 16 /\ 15 \in 0 .. 16
    OBVIOUS
  <2> QED
    BY <2>1, ShiftIs, PowersGrow
<1>2. 14 \in Fits(p)
  <2>1. 14 + 1 = 15 /\ 14 \in 0 .. IntBits - 1
    OBVIOUS
  <2>2. Shift(15) >= p /\ Shift(14) <= p
    BY <1>1, HugeIs
  <2> QED
    BY <2>1, <2>2 DEF Fits
<1>3. ASSUME NEW y \in Fits(p), y < 14 PROVE FALSE
  <2>1. y \in 0 .. 15 /\ Shift(y + 1) >= p
    BY DEF Fits
  <2>2. y + 1 \in 0 .. 16 /\ y + 1 <= 14 /\ 14 \in 0 .. 16
    BY <1>3, <2>1
  <2>3. 2 ^ (y + 1) >= p
    BY <2>1, <2>2, ShiftIs
  <2>4. 2 ^ (y + 1) <= 2 ^ 14 /\ 2 ^ (y + 1) \in Nat
    BY <2>2, PowersGrow
  <2> QED
    BY <1>1, <2>3, <2>4
<1>4. Min(Fits(p)) = 14
  <2>1. Fits(p) \subseteq Int
    BY DEF Fits
  <2>2. \A y \in Fits(p) : 14 <= y
    BY <1>3, <2>1
  <2> QED
    BY <1>2, <2>1, <2>2, MinIs
<1>5. 14 + 1 = 15
  OBVIOUS
<1> QED
  BY <1>1, <1>2, <1>4, <1>5 DEF Chosen

(* What getChunkSZ makes of a firmware.                                    *)
LEMMA FirmwareIs ==
  ASSUME IntBits = 16, firmware \in Firmwares, firmware.len > 0
  PROVE  /\ firmware.len \in Nat \ {0} /\ firmware.len < 2 ^ 31
         /\ \E r \in 1 .. 16 : firmware.record = 2 ^ r
         /\ Records = (firmware.len + firmware.record - 1) \div firmware.record
<1>1. /\ firmware \in [len : 0 .. 2 ^ (2 * IntBits - 1) - 1, record : {2 ^ n : n \in 1 .. IntBits}]
      /\ Records = (firmware.len + firmware.record - 1) \div firmware.record
  BY FwDumpAssumption DEF Records, RecordCount
<1>2. 2 * IntBits - 1 = 31
  OBVIOUS
<1>3. firmware.len \in 0 .. 2 ^ 31 - 1 /\ firmware.record \in {2 ^ n : n \in 1 .. 16}
  BY <1>1, <1>2
<1>4. 2 ^ 31 \in Nat
  BY HugeIs
<1>5. firmware.len \in Nat \ {0} /\ firmware.len < 2 ^ 31
  <2> DEFINE b == 2 ^ 31
             a == firmware.len
  <2>1. b \in Nat /\ a \in 0 .. b - 1 /\ a > 0
    BY <1>3, <1>4
  <2> HIDE DEF a, b
  <2>2. a \in Nat \ {0} /\ a < b
    BY <2>1
  <2> QED
    BY <2>2 DEF a, b
<1>6. \E r \in 1 .. 16 : firmware.record = 2 ^ r
  BY <1>3
<1> QED
  BY <1>1, <1>5, <1>6

LEMMA ChunkIs ==
  ASSUME IntBits = 16, firmware \in Firmwares, firmware.len > 0
  PROVE  LET len == firmware.len
             C == ChunkSize(len, Records) IN
         /\ Records \in Nat \ {0} /\ C \in Nat /\ firmware.record \in Nat \ {0}
         /\ (Records - 1) * firmware.record < len /\ len <= Records * firmware.record
         /\ Records = 1 => C >= len
         /\ Records # 1 /\ Guessed => C = firmware.record
         /\ ~ Guessed => \/ Records = 2 /\ len = 2 * C + 1
                         \/ firmware.record < len /\ len < C
<1> DEFINE len == firmware.len
           R == Records
           p == len \div R
           C == ChunkSize(len, R)
<1>1. PICK r \in 1 .. 16 : firmware.record = 2 ^ r
  BY FirmwareIs
<1> DEFINE h == 2 ^ (r - 1)
<1>2. /\ r - 1 \in 0 .. 16 /\ r \in 0 .. 16 /\ r = (r - 1) + 1 /\ 14 \in 0 .. 16
      /\ 16 \in 0 .. 16 /\ r <= 16
  BY <1>1
<1>3. h \in Nat \ {0} /\ firmware.record = 2 * h /\ 2 * h <= 2 ^ 16 /\ 2 ^ 14 \in Nat
  <2>1. h \in Nat \ {0} /\ 2 ^ r = 2 * h /\ 2 ^ 14 \in Nat
    BY <1>2, PowersGrow
  <2>2. 2 ^ r <= 2 ^ 16
    BY <1>2, PowersGrow
  <2> QED
    BY <1>1, <2>1, <2>2
<1>4. len \in Nat \ {0} /\ len < 2 ^ 31 /\ R = (len + 2 * h - 1) \div (2 * h)
  BY <1>3, FirmwareIs
<1>5. C = Chosen(p)
  BY DEF ChunkSize, Chosen, Fits
<1> DEFINE record == firmware.record
<1>r. record = 2 * h
  BY <1>3
<1>g. Guessed <=> \/ R = 1
                  \/ record <= 2 ^ 14 /\ (len # record + 1 \/ record = 2)
  <2>1. IntBits - 2 = 14
    OBVIOUS
  <2> QED
    BY <2>1 DEF Guessed
<1> HIDE DEF h, C, len, R, p, record
<1>6. CASE R = 1
  <2>1. 2 * h \in Nat \ {0} /\ len + 2 * h - 1 \in Nat
    BY <1>3, <1>4
  <2>2. (R * (2 * h)) <= len + 2 * h - 1 /\ len + 2 * h - 1 < R * (2 * h) + 2 * h
    BY <1>4, <2>1, QuotientOf
  <2>3. len <= 2 * h
    BY <1>3, <1>4, <1>6, <2>2
  <2>4. p = len
    BY <1>4, <1>6 DEF p
  <2>5. C \in Nat /\ C >= len
    <3>1. CASE len <= 2 ^ 14
      <4>1. PICK n \in 0 .. 13 : p <= 2 ^ (n + 1) /\ Chosen(p) = 2 ^ (n + 1)
        BY <1>4, <2>4, <3>1, SmallChunk
      <4>2. n + 1 \in 0 .. 16
        OBVIOUS
      <4>3. 2 ^ (n + 1) \in Nat
        BY <4>2, PowersGrow
      <4> QED
        BY <1>5, <2>4, <4>1, <4>3
    <3>2. CASE len > 2 ^ 14
      <4>1. len <= 2 ^ 16
        BY <1>3, <1>4, <2>3, HugeIs
      <4>2. Chosen(p) = Huge
        BY <1>4, <2>4, <3>2, <4>1, BigChunk
      <4> QED
        BY <1>4, <1>5, <4>1, <4>2, HugeIs
    <3> QED
      BY <1>3, <1>4, <3>1, <3>2
  <2> QED
    BY <1>3, <1>4, <1>6, <1>r, <1>g, <2>3, <2>5 DEF C, len, R, record
<1>7. CASE R # 1
  <2>1. R \in Nat
    <3>1. 2 * h \in Nat \ {0} /\ len + 2 * h - 1 \in Nat
      BY <1>3, <1>4
    <3> QED
      BY <1>4, <3>1, QuotientOf
  <2>2. /\ R >= 2 /\ (R - 1) * (2 * h) < len /\ len <= R * (2 * h)
        /\ p \in h .. 2 * h
        /\ h >= 2 => (p = h <=> len = 2 * h + 1)
        /\ h >= 2 /\ p = h => R = 2
    <3>1. /\ h \in Nat \ {0} /\ len \in Nat \ {0} /\ R \in Nat /\ R # 1
          /\ R = (len + 2 * h - 1) \div (2 * h) /\ p = len \div R
      BY <1>3, <1>4, <1>7, <2>1 DEF p
    <3>2. Divided(h, len, R, p)
      BY <3>1, MeanOf, Zenon
    <3> QED
      BY <3>2 DEF Divided
  <2>3. p \in Nat \ {0} /\ h <= p /\ p <= 2 * h
    BY <1>3, <2>2
  <2>4. len > record
    <3> DEFINE q == R - 1
               c == 2 * h
    <3>1. q \in Nat /\ q >= 1 /\ c \in Nat /\ q * c < len
      BY <1>3, <2>1, <2>2
    <3> HIDE DEF q, c
    <3>2. q * c >= c /\ q * c \in Nat
      BY <3>1
    <3> QED
      BY <1>4, <1>r, <3>1, <3>2 DEF c
  <2>5. CASE p > 2 ^ 14
    <3>1. p <= 2 ^ 16
      BY <1>3, <2>3, HugeIs
    <3>2. C = Huge
      BY <1>5, <2>3, <2>5, <3>1, BigChunk
    <3>3. C \in Nat /\ C > len
      BY <1>4, <3>2, HugeIs
    <3>4. record > 2 ^ 14
      BY <1>3, <1>r, <2>3, <2>5
    <3>5. ~ Guessed
      BY <1>3, <1>7, <1>g, <1>r, <3>4
    <3> QED
      BY <1>3, <1>7, <1>r, <2>1, <2>2, <2>4, <3>3, <3>5 DEF C, len, R, record
  <2>6. CASE p <= 2 ^ 14
    <3>1. PICK n \in 0 .. 13 : /\ 2 ^ n <= p /\ p <= 2 ^ (n + 1) /\ (n = 0 \/ 2 ^ n < p)
                               /\ C = 2 ^ (n + 1)
      BY <1>5, <2>3, <2>6, SmallChunk
    <3>2. n \in 0 .. 16 /\ n + 1 \in 0 .. 16
      OBVIOUS
    <3>3. 2 ^ n \in Nat \ {0} /\ 2 ^ (n + 1) = 2 * 2 ^ n
      BY <3>2, PowersGrow
    <3> DEFINE a == 2 ^ n
    <3>4. n + 1 <= r - 1 => 2 * a <= h
      <4>1. n + 1 <= r - 1 => 2 ^ (n + 1) <= h
        BY <1>2, <3>2, PowersGrow DEF h
      <4> QED
        BY <3>3, <4>1
    <3>5. n >= r => a >= 2 * h
      <4>1. n >= r => 2 ^ r <= a
        BY <1>2, <3>2, PowersGrow
      <4>2. 2 ^ r = 2 * h
        BY <1>1, <1>r DEF record
      <4> QED
        BY <4>1, <4>2
    <3>6. n = r - 1 => a = h
      BY DEF h
    <3>7. /\ a \in Nat \ {0} /\ a <= p /\ p <= 2 * a /\ (n = 0 \/ a < p) /\ C = 2 * a
      BY <3>1, <3>3
    <3>8. n = 0 => a = 1
      <4>1. 2 ^ 0 = 1
        BY SMT
      <4> QED
        BY <4>1
    <3> HIDE DEF a
    <3>9. C \in Nat
      BY <3>7
    <3>10. CASE h = 1
      <4>1. C = record /\ record = 2 /\ 2 <= 2 ^ 14
        <5>1. a = 1
          BY <1>2, <2>3, <3>5, <3>6, <3>7, <3>8, <3>10
        <5>2. 2 <= 2 ^ 14
          BY SMT
        <5> QED
          BY <1>r, <3>7, <3>10, <5>1, <5>2
      <4>2. Guessed
        BY <1>g, <4>1
      <4> QED
        BY <1>3, <1>7, <1>r, <2>1, <2>2, <2>4, <3>9, <4>1, <4>2 DEF C, len, R, record
    <3>11. CASE h >= 2 /\ p = h
      <4>1. R = 2 /\ len = 2 * h + 1
        BY <2>2, <3>11
      <4>2. C = h
        <5>1. a # h
          BY <3>7, <3>8, <3>11
        <5>2. n < r - 1
          BY <1>2, <1>3, <3>5, <3>6, <3>7, <3>11, <5>1
        <5> QED
          BY <1>2, <1>3, <3>4, <3>7, <3>11, <5>2
      <4>3. ~ Guessed
        BY <1>3, <1>7, <1>g, <1>r, <3>11, <4>1
      <4> QED
        BY <1>3, <1>7, <1>r, <2>1, <2>2, <2>4, <3>9, <4>1, <4>2, <4>3 DEF C, len, R, record
    <3>12. CASE h >= 2 /\ p > h
      <4>1. a = h
        <5>1. n >= r - 1
          BY <1>2, <1>3, <2>3, <3>4, <3>7, <3>12
        <5>2. n < r
          BY <1>2, <1>3, <2>3, <3>5, <3>7, <3>8, <3>12
        <5> QED
          BY <1>2, <3>6, <5>1, <5>2
      <4>2. C = record
        BY <1>r, <3>7, <4>1
      <4>3. len # record + 1
        BY <1>r, <2>2, <3>12
      <4>4. Guessed
        <5>1. r <= 14
          BY <1>2, <3>6, <4>1, <3>1, <3>5, <3>7, <1>3, <3>4
        <5>2. 2 ^ r <= 2 ^ 14
          BY <1>2, <5>1, PowersGrow
        <5> QED
          BY <1>1, <1>g, <4>3, <5>2 DEF record
      <4> QED
        BY <1>3, <1>7, <1>r, <2>1, <2>2, <2>4, <3>9, <4>2, <4>4 DEF C, len, R, record
    <3> QED
      BY <1>3, <2>3, <3>10, <3>11, <3>12
  <2> QED
    BY <1>3, <2>3, <2>5, <2>6
<1> QED
  BY <1>6, <1>7

----------------------------------------------------------------------------
(* What is in the files.                                                   *)

Piece == Nat \cup {Beyond}

LEMMA BytesAre ==
  ASSUME NEW a \in Nat, NEW b \in Nat, a <= b
  PROVE  /\ Bytes(a, b) \in Seq(Piece) /\ Len(Bytes(a, b)) = b - a /\ DOMAIN Bytes(a, b) = 1 .. b - a
         /\ \A k \in 1 .. b - a : Bytes(a, b)[k] = a + k - 1
         /\ InOrder(Bytes(a, b)) /\ \A k \in 1 .. b - a : Bytes(a, b)[k] >= a /\ Bytes(a, b)[k] < b
<1> DEFINE s == Bytes(a, b)
           n == b - a
<1>1. n \in Nat /\ s = [k \in 1 .. n |-> a + k - 1]
  BY DEF Bytes
<1>2. \A k \in 1 .. n : s[k] = a + k - 1 /\ s[k] \in Piece /\ s[k] >= a /\ s[k] < b
  BY <1>1 DEF Piece
<1> HIDE DEF s
<1>3. s \in Seq(Piece) /\ Len(s) = n /\ DOMAIN s = 1 .. n
  <2>1. s \in [1 .. n -> Piece]
    BY <1>1, <1>2
  <2>2. s \in Seq(Piece)
    BY <1>1, <2>1, SeqDef
  <2>3. DOMAIN s = 1 .. n
    BY <2>1
  <2> HIDE DEF n
  <2> QED
    BY <1>1, <2>2, <2>3
<1>4. InOrder(s)
  BY <1>1, <1>2, <1>3 DEF InOrder
<1> QED
  BY <1>2, <1>3, <1>4 DEF s

LEMMA Joined ==
  ASSUME NEW s \in Seq(Piece), NEW t \in Seq(Piece)
  PROVE  /\ s \o t \in Seq(Piece) /\ Len(s \o t) = Len(s) + Len(t) /\ Len(s) \in Nat /\ Len(t) \in Nat
         /\ DOMAIN (s \o t) = 1 .. Len(s) + Len(t) /\ DOMAIN s = 1 .. Len(s) /\ DOMAIN t = 1 .. Len(t)
         /\ \A k \in 1 .. Len(s) : (s \o t)[k] = s[k]
         /\ \A k \in 1 .. Len(t) : (s \o t)[Len(s) + k] = t[k]
         /\ \A k \in 1 .. Len(s) + Len(t) : k > Len(s) => k - Len(s) \in 1 .. Len(t) /\ (s \o t)[k] = t[k - Len(s)]
<1>1. s \o t \in Seq(Piece) /\ Len(s \o t) = Len(s) + Len(t) /\ Len(s) \in Nat /\ Len(t) \in Nat
  OBVIOUS
<1>2. \A k \in 1 .. Len(s) + Len(t) : (s \o t)[k] = IF k <= Len(s) THEN s[k] ELSE t[k - Len(s)]
  BY ConcatProperties
<1> QED
  BY <1>1, <1>2

LEMMA PiecesAre ==
  ASSUME NEW s \in Seq(Piece)
  PROVE  \A k \in 1 .. Len(s) : s[k] \in Int
BY DEF Piece, Beyond

LEMMA JoinedInOrder ==
  ASSUME NEW s \in Seq(Piece), NEW t \in Seq(Piece), NEW a \in Nat, InOrder(s), InOrder(t),
         \A k \in 1 .. Len(s) : s[k] < a, \A k \in 1 .. Len(t) : t[k] >= a
  PROVE  InOrder(s \o t)
<1> DEFINE u == s \o t
           m == Len(s)
           n == Len(t)
<1>1. /\ m \in Nat /\ n \in Nat /\ Len(u) = m + n
      /\ \A k \in 1 .. m : u[k] = s[k]
      /\ \A k \in 1 .. m + n : k > m => k - m \in 1 .. n /\ u[k] = t[k - m]
  BY Joined
<1>2. (\A k \in 1 .. m : s[k] \in Int) /\ \A k \in 1 .. n : t[k] \in Int
  BY PiecesAre
<1>3. (\A k \in 1 .. m - 1 : s[k] < s[k + 1]) /\ \A k \in 1 .. n - 1 : t[k] < t[k + 1]
  BY DEF InOrder
<1>4. (\A k \in 1 .. m : s[k] < a) /\ \A k \in 1 .. n : t[k] >= a
  OBVIOUS
<1> HIDE DEF u, m, n
<1>5. ASSUME NEW k \in 1 .. Len(u) - 1 PROVE u[k] < u[k + 1]
  <2>1. CASE k < m
    <3>1. k \in 1 .. m - 1 /\ k + 1 \in 1 .. m /\ k \in 1 .. m
      BY <1>1, <2>1
    <3> QED
      BY <1>1, <1>3, <3>1
  <2>2. CASE k = m
    <3>1. k \in 1 .. m /\ k + 1 \in 1 .. m + n /\ k + 1 > m /\ (k + 1) - m = 1 /\ 1 \in 1 .. n
      BY <1>1, <2>2
    <3>2. u[k] = s[k] /\ u[k + 1] = t[1]
      BY <1>1, <3>1
    <3>3. s[k] < a /\ t[1] >= a /\ s[k] \in Int /\ t[1] \in Int
      BY <1>2, <1>4, <3>1
    <3> QED
      BY <3>2, <3>3
  <2>3. CASE k > m
    <3> DEFINE j == k - m
    <3>1. /\ k \in 1 .. m + n /\ k + 1 \in 1 .. m + n /\ k + 1 > m /\ j \in 1 .. n - 1
          /\ (k + 1) - m = j + 1
      BY <1>1, <2>3
    <3>2. u[k] = t[j] /\ u[k + 1] = t[j + 1]
      BY <1>1, <2>3, <3>1
    <3> QED
      BY <1>3, <3>1, <3>2
  <2> QED
    BY <1>1, <2>1, <2>2, <2>3
<1>6. InOrder(u)
  BY <1>5 DEF InOrder
<1> QED
  BY <1>6 DEF u

LEMMA BytesJoin ==
  ASSUME NEW a \in Nat, NEW b \in Nat, a <= b
  PROVE  Bytes(0, a) \o Bytes(a, b) = Bytes(0, b)
<1> DEFINE s == Bytes(0, a)
           t == Bytes(a, b)
           v == Bytes(0, b)
<1>1. /\ s \in Seq(Piece) /\ Len(s) = a /\ \A k \in 1 .. a : s[k] = 0 + k - 1
  <2>1. 0 \in Nat /\ 0 <= a /\ a - 0 = a
    OBVIOUS
  <2> QED
    BY <2>1, BytesAre
<1>2. /\ v \in Seq(Piece) /\ Len(v) = b /\ \A k \in 1 .. b : v[k] = 0 + k - 1
  <2>1. 0 \in Nat /\ 0 <= b /\ b - 0 = b
    OBVIOUS
  <2> QED
    BY <2>1, BytesAre
<1>3. /\ t \in Seq(Piece) /\ Len(t) = b - a /\ \A k \in 1 .. b - a : t[k] = a + k - 1
  BY BytesAre
<1> HIDE DEF s, t, v
<1> DEFINE u == s \o t
<1>4. /\ u \in Seq(Piece) /\ Len(u) = a + (b - a)
      /\ \A k \in 1 .. a : u[k] = s[k]
      /\ \A k \in 1 .. a + (b - a) : k > a => k - a \in 1 .. b - a /\ u[k] = t[k - a]
  <2>1. /\ u \in Seq(Piece) /\ Len(u) = Len(s) + Len(t)
        /\ \A k \in 1 .. Len(s) : u[k] = s[k]
        /\ \A k \in 1 .. Len(s) + Len(t) : k > Len(s) => k - Len(s) \in 1 .. Len(t) /\ u[k] = t[k - Len(s)]
    BY <1>1, <1>3, Joined
  <2> HIDE DEF u
  <2> QED
    BY <1>1, <1>3, <2>1
<1> HIDE DEF u
<1>5. Len(u) = Len(v)
  BY <1>2, <1>4
<1>6. ASSUME NEW k \in 1 .. Len(u) PROVE u[k] = v[k]
  <2>0. k \in 1 .. b /\ k \in 1 .. a + (b - a)
    BY <1>2, <1>5
  <2>1. CASE k <= a
    BY <1>1, <1>2, <1>4, <2>0, <2>1
  <2>2. CASE k > a
    <3>1. k - a \in 1 .. b - a /\ u[k] = t[k - a]
      BY <1>4, <2>0, <2>2
    <3>2. t[k - a] = a + (k - a) - 1
      BY <1>3, <3>1
    <3> QED
      BY <1>2, <2>0, <3>1, <3>2
  <2> QED
    BY <2>0, <2>1, <2>2
<1>7. u = v
  BY <1>2, <1>4, <1>5, <1>6, SeqEqual
<1> QED
  BY <1>7 DEF u, s, t, v

(* The part of a file that is new, before and after more is written.       *)
LEMMA Grown ==
  ASSUME NEW b \in Seq(Piece), NEW s \in Seq(Piece), NEW t \in Seq(Piece), Begins(b, s)
  PROVE  /\ Begins(b, s \o t)
         /\ SubSeq(s, Len(b) + 1, Len(s)) \in Seq(Piece)
         /\ SubSeq(s \o t, Len(b) + 1, Len(s \o t)) = SubSeq(s, Len(b) + 1, Len(s)) \o t
<1> DEFINE l == Len(b)
           m == Len(s)
           n == Len(t)
           u == s \o t
           x == SubSeq(s, l + 1, m)
           y == SubSeq(u, l + 1, m + n)
           z == SubSeq(u, 1, l)
<1>1. l \in Nat /\ m \in Nat /\ n \in Nat /\ l <= m /\ SubSeq(s, 1, l) = b
  BY DEF Begins
<1>2. /\ u \in Seq(Piece) /\ Len(u) = m + n
      /\ \A k \in 1 .. m : u[k] = s[k]
      /\ \A k \in 1 .. m + n : k > m => k - m \in 1 .. n /\ u[k] = t[k - m]
  BY Joined
<1> HIDE DEF l, m, n, u
<1>3. x \in Seq(Piece) /\ Len(x) = m - l /\ \A k \in 1 .. m - l : x[k] = s[l + k]
  <2>1. l + 1 \in 1 .. m + 1 /\ m \in l .. m /\ m - (l + 1) + 1 = m - l
    BY <1>1
  <2>2. x = [k \in 1 .. m - l |-> s[l + k]]
    BY <1>1 DEF m
  <2>3. x \in Seq(Piece)
    BY <1>1, <2>1 DEF m
  <2> QED
    BY <1>1, <2>2, <2>3
<1>4. y \in Seq(Piece) /\ Len(y) = m + n - l /\ \A k \in 1 .. m + n - l : y[k] = u[l + k]
  <2>2. y = [k \in 1 .. m + n - l |-> u[l + k]]
    BY <1>1, <1>2
  <2>3. y \in Seq(Piece)
    BY <1>1, <1>2
  <2> QED
    BY <1>1, <2>2, <2>3
<1>5. z \in Seq(Piece) /\ Len(z) = l /\ \A k \in 1 .. l : z[k] = u[k]
  BY <1>1, <1>2
<1>6. \A k \in 1 .. l : b[k] = s[k]
  <2>1. \A k \in 1 .. l : SubSeq(s, 1, l)[k] = s[k]
    BY <1>1 DEF m
  <2> QED
    BY <1>1, <2>1
<1>7. z = b
  <2>1. Len(z) = Len(b) /\ b \in Seq(Piece)
    BY <1>5 DEF l
  <2>2. \A k \in 1 .. Len(z) : z[k] = b[k]
    BY <1>1, <1>2, <1>5, <1>6
  <2> QED
    BY <1>5, <2>1, <2>2, SeqEqual
<1> HIDE DEF x, y, z
<1>8. y = x \o t
  <2> DEFINE v == x \o t
  <2>1. /\ v \in Seq(Piece) /\ Len(v) = (m - l) + n
        /\ \A k \in 1 .. m - l : v[k] = x[k]
        /\ \A k \in 1 .. (m - l) + n : k > m - l => k - (m - l) \in 1 .. n /\ v[k] = t[k - (m - l)]
    <3>1. /\ v \in Seq(Piece) /\ Len(v) = Len(x) + Len(t)
          /\ \A k \in 1 .. Len(x) : v[k] = x[k]
          /\ \A k \in 1 .. Len(x) + Len(t) : k > Len(x) => k - Len(x) \in 1 .. Len(t) /\ v[k] = t[k - Len(x)]
      BY <1>3, Joined
    <3> HIDE DEF v
    <3> QED
      BY <1>3, <3>1 DEF n
  <2> HIDE DEF v
  <2>2. Len(v) = Len(y)
    BY <1>1, <1>4, <2>1
  <2>3. ASSUME NEW k \in 1 .. Len(y) PROVE v[k] = y[k]
    <3>0. k \in 1 .. m + n - l /\ k \in 1 .. (m - l) + n /\ l + k \in 1 .. m + n
      BY <1>1, <1>4
    <3>1. y[k] = u[l + k]
      BY <1>4, <3>0
    <3>2. CASE k <= m - l
      BY <1>1, <1>2, <1>3, <2>1, <3>0, <3>1, <3>2
    <3>3. CASE k > m - l
      <4>1. v[k] = t[k - (m - l)]
        BY <2>1, <3>0, <3>3
      <4>2. u[l + k] = t[(l + k) - m]
        BY <1>1, <1>2, <3>0, <3>3
      <4>3. (l + k) - m = k - (m - l)
        BY <1>1
      <4> QED
        BY <3>1, <4>1, <4>2, <4>3
    <3> QED
      BY <1>1, <3>0, <3>2, <3>3
  <2>4. v = y
    BY <1>4, <2>1, <2>2, <2>3, SeqEqual
  <2> QED
    BY <2>4 DEF v
<1>9. Begins(b, u)
  BY <1>1, <1>2, <1>7 DEF Begins, z, l
<1> QED
  BY <1>2, <1>3, <1>8, <1>9 DEF u, l, m, n, x, y

----------------------------------------------------------------------------
(* What creating a file and writing to it do to the files on the cards.    *)

Shape == cards \subseteq Card /\ job \in File /\ \A c \in Card : DOMAIN copies[c] = File

(* A file is not there, or what this dump has added stands behind what was *)
(* there when it began.                                                    *)
Content(f) ==
  \A c \in Card :
    /\ copies[c][f] \in Seq(Piece) \cup {Absent} /\ old[c][f] \in Seq(Piece) \cup {Absent}
    /\ copies[c][f] = Absent => old[c][f] = Absent
    /\ copies[c][f] # Absent => Begins(Before(c, f), copies[c][f])

LEMMA AbsentIsNone == Absent \notin Seq(Piece)
<1> SUFFICES ASSUME Absent \in Seq(Piece) PROVE FALSE
  OBVIOUS
<1>1. Absent[1] = -2 /\ Len(Absent) = 1
  BY DEF Absent
<1>2. Absent[1] \in Piece
  BY <1>1
<1> QED
  BY <1>1, <1>2 DEF Piece, Beyond

LEMMA AddedIn ==
  ASSUME NEW f \in File, NEW c \in Card, Content(f), copies[c][f] # Absent
  PROVE  /\ Before(c, f) \in Seq(Piece) /\ copies[c][f] \in Seq(Piece)
         /\ Begins(Before(c, f), copies[c][f]) /\ Added(c, f) \in Seq(Piece)
<1>1. Before(c, f) \in Seq(Piece) /\ copies[c][f] \in Seq(Piece) /\ Begins(Before(c, f), copies[c][f])
  BY DEF Content, Before
<1> DEFINE b == Before(c, f)
           s == copies[c][f]
<1>2. SubSeq(s, Len(b) + 1, Len(s)) \in Seq(Piece)
  <2>1. b \in Seq(Piece) /\ s \in Seq(Piece) /\ Begins(b, s)
    BY <1>1
  <2>2. <<>> \in Seq(Piece)
    OBVIOUS
  <2> HIDE DEF b, s
  <2> QED
    BY <2>1, <2>2, Grown
<1> QED
  BY <1>1, <1>2 DEF Added

LEMMA CreatedFiles ==
  ASSUME Shape, copies' = Created, UNCHANGED <<cards, job>>
  PROVE  /\ Shape'
         /\ \A c \in Card, f \in File :
              copies'[c][f] = IF c \in cards /\ f = job THEN Kept(copies[c][f]) ELSE copies[c][f]
<1>1. ASSUME NEW c \in Card
      PROVE  copies'[c] = IF c \in cards THEN [copies[c] EXCEPT ![job] = Kept(copies[c][job])] ELSE copies[c]
  BY DEF Created
<1>2. ASSUME NEW c \in Card
      PROVE  /\ DOMAIN copies'[c] = File
             /\ \A f \in File : copies'[c][f] = IF c \in cards /\ f = job THEN Kept(copies[c][f]) ELSE copies[c][f]
  <2>1. DOMAIN copies[c] = File /\ job \in File
    BY DEF Shape
  <2>2. CASE c \in cards
    <3>1. copies'[c] = [copies[c] EXCEPT ![job] = Kept(copies[c][job])]
      BY <1>1, <2>2
    <3> QED
      BY <2>1, <2>2, <3>1
  <2>3. CASE c \notin cards
    BY <1>1, <2>1, <2>3
  <2> QED
    BY <2>2, <2>3
<1> QED
  BY <1>2 DEF Shape

LEMMA AppendedFiles ==
  ASSUME Shape, NEW bytes, NEW to, copies' = Appended(bytes, to)
  PROVE  /\ \A c \in Card : DOMAIN copies'[c] = File
         /\ \A c \in Card, f \in File :
              copies'[c][f] = IF c \in to /\ f = job THEN copies[c][f] \o bytes ELSE copies[c][f]
<1>1. ASSUME NEW c \in Card
      PROVE  copies'[c] = IF c \in to THEN [copies[c] EXCEPT ![job] = copies[c][job] \o bytes] ELSE copies[c]
  BY DEF Appended
<1>2. ASSUME NEW c \in Card
      PROVE  /\ DOMAIN copies'[c] = File
             /\ \A f \in File : copies'[c][f] = IF c \in to /\ f = job THEN copies[c][f] \o bytes ELSE copies[c][f]
  <2>1. DOMAIN copies[c] = File /\ job \in File
    BY DEF Shape
  <2>2. CASE c \in to
    <3>1. copies'[c] = [copies[c] EXCEPT ![job] = copies[c][job] \o bytes]
      BY <1>1, <2>2
    <3> QED
      BY <2>1, <2>2, <3>1
  <2>3. CASE c \notin to
    BY <1>1, <2>1, <2>3
  <2> QED
    BY <2>2, <2>3
<1> QED
  BY <1>2

(* Files that stay as they are.                                            *)
LEMMA SameFile ==
  ASSUME NEW f \in File, Content(f), UNCHANGED old, \A c \in Card : copies'[c][f] = copies[c][f]
  PROVE  Content(f)' /\ \A c \in Card : Added(c, f)' = Added(c, f)
<1>1. \A c \in Card : Before(c, f)' = Before(c, f)
  BY DEF Before
<1> QED
  BY <1>1 DEF Content, Added

(* A dump begins: nothing is added yet.                                    *)
LEMMA NothingYet ==
  ASSUME NEW f \in File, Content(f), old' = copies, UNCHANGED copies
  PROVE  Content(f)' /\ \A c \in Card : copies'[c][f] # Absent => Added(c, f)' = <<>>
<1> SUFFICES ASSUME NEW c \in Card
             PROVE  /\ copies'[c][f] \in Seq(Piece) \cup {Absent} /\ old'[c][f] \in Seq(Piece) \cup {Absent}
                    /\ copies'[c][f] = Absent => old'[c][f] = Absent
                    /\ copies'[c][f] # Absent => Begins(Before(c, f)', copies'[c][f]) /\ Added(c, f)' = <<>>
  BY DEF Content
<1> DEFINE s == copies[c][f]
<1>1. copies'[c][f] = s /\ old'[c][f] = s /\ s \in Seq(Piece) \cup {Absent}
  BY DEF Content
<1>2. Before(c, f)' = IF s = Absent THEN <<>> ELSE s
  BY <1>1 DEF Before
<1>3. Added(c, f)' = SubSeq(s, Len(Before(c, f)') + 1, Len(s))
  BY <1>1 DEF Added
<1> HIDE DEF s
<1>4. ASSUME s # Absent PROVE Begins(Before(c, f)', s) /\ Added(c, f)' = <<>>
  <2>1. s \in Seq(Piece) /\ Before(c, f)' = s
    BY <1>1, <1>2, <1>4
  <2>2. SubSeq(s, 1, Len(s)) = s /\ Len(s) <= Len(s)
    BY <2>1, SubSeqFull
  <2>3. SubSeq(s, Len(s) + 1, Len(s)) = <<>>
    BY <2>1
  <2> QED
    BY <1>3, <2>1, <2>2, <2>3 DEF Begins
<1> QED
  BY <1>1, <1>4

(* A file that is created is empty; one that is there stays.               *)
LEMMA CreatedFile ==
  ASSUME Shape, NEW f \in File, Content(f), copies' = Created, UNCHANGED <<cards, job, old>>
  PROVE  /\ Shape' /\ Content(f)'
         /\ \A c \in Card :
              /\ copies[c][f] # Absent => copies'[c][f] # Absent /\ Added(c, f)' = Added(c, f)
              /\ copies[c][f] = Absent /\ copies'[c][f] # Absent => f = job /\ Added(c, f)' = <<>>
              /\ c \in cards /\ f = job => copies'[c][f] # Absent
<1>1. /\ Shape'
      /\ \A c \in Card : copies'[c][f] = IF c \in cards /\ f = job THEN Kept(copies[c][f]) ELSE copies[c][f]
  BY CreatedFiles
<1>2. ASSUME NEW c \in Card
      PROVE  /\ copies'[c][f] \in Seq(Piece) \cup {Absent} /\ old'[c][f] \in Seq(Piece) \cup {Absent}
             /\ copies'[c][f] = Absent => old'[c][f] = Absent
             /\ copies'[c][f] # Absent => Begins(Before(c, f)', copies'[c][f])
             /\ copies[c][f] # Absent => copies'[c][f] # Absent /\ Added(c, f)' = Added(c, f)
             /\ copies[c][f] = Absent /\ copies'[c][f] # Absent => f = job /\ Added(c, f)' = <<>>
             /\ c \in cards /\ f = job => copies'[c][f] # Absent
  <2>1. Before(c, f)' = Before(c, f)
    BY DEF Before
  <2>2. /\ copies[c][f] \in Seq(Piece) \cup {Absent} /\ old[c][f] \in Seq(Piece) \cup {Absent}
        /\ copies[c][f] = Absent => old[c][f] = Absent
        /\ copies[c][f] # Absent => Begins(Before(c, f), copies[c][f])
    BY DEF Content
  <2>3. CASE copies'[c][f] = copies[c][f]
    <3>1. Added(c, f)' = Added(c, f)
      BY <2>1, <2>3 DEF Added
    <3>2. c \in cards /\ f = job => copies'[c][f] # Absent
      <4>1. <<>> # Absent
        BY DEF Absent
      <4> QED
        BY <1>1, <4>1 DEF Kept
    <3> QED
      BY <2>1, <2>2, <2>3, <3>1, <3>2
  <2>4. CASE copies'[c][f] # copies[c][f]
    <3>1. c \in cards /\ f = job /\ copies[c][f] = Absent /\ copies'[c][f] = <<>>
      BY <1>1, <2>4 DEF Kept
    <3>2. old[c][f] = Absent /\ Before(c, f) = <<>>
      BY <2>2, <3>1 DEF Before
    <3>3. <<>> # Absent /\ <<>> \in Seq(Piece) /\ Len(<<>>) = 0 /\ SubSeq(<<>>, 1, 0) = <<>>
      BY DEF Absent
    <3>4. Begins(Before(c, f)', copies'[c][f])
      BY <2>1, <3>1, <3>2, <3>3 DEF Begins
    <3>5. Added(c, f)' = <<>>
      BY <2>1, <3>1, <3>2, <3>3 DEF Added
    <3> QED
      BY <2>2, <3>1, <3>3, <3>4, <3>5
  <2> QED
    BY <2>3, <2>4
<1> QED
  BY <1>1, <1>2 DEF Content

(* A piece is written to the files that are there, or to all but one.      *)
LEMMA AppendedFile ==
  ASSUME Shape, NEW f \in File, Content(f), NEW bytes, f = job => bytes \in Seq(Piece),
         AppendBuf(bytes), UNCHANGED <<cards, old>>, calm \in BOOLEAN
  PROVE  /\ cards' \subseteq Card /\ (\A c \in Card : DOMAIN copies'[c] = File)
         /\ Content(f)' /\ calm' \in BOOLEAN /\ (calm' => calm)
         /\ \A c \in Card :
              /\ copies'[c][f] = Absent <=> copies[c][f] = Absent
              /\ f # job => Added(c, f)' = Added(c, f)
              /\ copies[c][f] # Absent /\ f = job => Added(c, f)' \in {Added(c, f), Added(c, f) \o bytes}
              /\ copies[c][f] # Absent /\ f = job /\ c \in cards /\ calm' =>
                   Added(c, f)' = Added(c, f) \o bytes
<1>1. \E to \in SUBSET Holders :
        copies' = Appended(bytes, to) /\ (calm' => calm) /\ (calm' => to = Holders) /\ calm' \in BOOLEAN
  <2>1. CASE copies' = Appended(bytes, Holders) /\ UNCHANGED <<events, calm>>
    BY <2>1
  <2>2. ASSUME NEW c \in Holders, copies' = Appended(bytes, Holders \ {c}), calm' = FALSE
        PROVE  \E to \in SUBSET Holders :
                 copies' = Appended(bytes, to) /\ (calm' => calm) /\ (calm' => to = Holders) /\ calm' \in BOOLEAN
    BY <2>2
  <2> QED
    BY <2>1, <2>2 DEF AppendBuf
<1>2. PICK to \in SUBSET Holders :
        copies' = Appended(bytes, to) /\ (calm' => calm) /\ (calm' => to = Holders) /\ calm' \in BOOLEAN
  BY <1>1
<1>3. /\ \A c \in Card : DOMAIN copies'[c] = File
      /\ \A c \in Card : copies'[c][f] = IF c \in to /\ f = job THEN copies[c][f] \o bytes ELSE copies[c][f]
  BY <1>2, AppendedFiles
<1>4. ASSUME NEW c \in Card
      PROVE  /\ copies'[c][f] \in Seq(Piece) \cup {Absent} /\ old'[c][f] \in Seq(Piece) \cup {Absent}
             /\ copies'[c][f] = Absent => old'[c][f] = Absent
             /\ copies'[c][f] # Absent => Begins(Before(c, f)', copies'[c][f])
             /\ copies'[c][f] = Absent <=> copies[c][f] = Absent
             /\ f # job => Added(c, f)' = Added(c, f)
             /\ copies[c][f] # Absent /\ f = job => Added(c, f)' \in {Added(c, f), Added(c, f) \o bytes}
             /\ copies[c][f] # Absent /\ f = job /\ c \in cards /\ calm' =>
                  Added(c, f)' = Added(c, f) \o bytes
  <2>1. Before(c, f)' = Before(c, f)
    BY DEF Before
  <2>2. /\ copies[c][f] \in Seq(Piece) \cup {Absent} /\ old[c][f] \in Seq(Piece) \cup {Absent}
        /\ copies[c][f] = Absent => old[c][f] = Absent
        /\ copies[c][f] # Absent => Begins(Before(c, f), copies[c][f])
    BY DEF Content
  <2>3. CASE ~ (c \in to /\ f = job)
    <3>1. copies'[c][f] = copies[c][f]
      BY <1>3, <2>3
    <3>2. Added(c, f)' = Added(c, f)
      BY <2>1, <3>1 DEF Added
    <3>3. ~ (copies[c][f] # Absent /\ f = job /\ c \in cards /\ calm')
      BY <1>2, <2>3 DEF Holders
    <3> QED
      BY <2>1, <2>2, <3>1, <3>2, <3>3
  <2>4. CASE c \in to /\ f = job
    <3>1. copies[c][f] # Absent /\ copies'[c][f] = copies[c][f] \o bytes /\ bytes \in Seq(Piece)
      BY <1>2, <1>3, <2>4 DEF Holders
    <3>2. /\ Before(c, f) \in Seq(Piece) /\ copies[c][f] \in Seq(Piece)
          /\ Begins(Before(c, f), copies[c][f]) /\ Added(c, f) \in Seq(Piece)
      BY <3>1, AddedIn
    <3>3. copies'[c][f] \in Seq(Piece)
      BY <3>1, <3>2
    <3>4. /\ Begins(Before(c, f), copies[c][f] \o bytes)
          /\ SubSeq(copies[c][f] \o bytes, Len(Before(c, f)) + 1, Len(copies[c][f] \o bytes))
               = SubSeq(copies[c][f], Len(Before(c, f)) + 1, Len(copies[c][f])) \o bytes
      <4> DEFINE b == Before(c, f)
                 s == copies[c][f]
      <4>1. b \in Seq(Piece) /\ s \in Seq(Piece) /\ Begins(b, s) /\ bytes \in Seq(Piece)
        BY <3>1, <3>2
      <4> HIDE DEF b, s
      <4>2. /\ Begins(b, s \o bytes)
            /\ SubSeq(s \o bytes, Len(b) + 1, Len(s \o bytes)) = SubSeq(s, Len(b) + 1, Len(s)) \o bytes
        BY <4>1, Grown
      <4> QED
        BY <4>2 DEF b, s
    <3>5. Added(c, f)' = Added(c, f) \o bytes
      <4>1. Added(c, f)' = SubSeq(copies'[c][f], Len(Before(c, f)) + 1, Len(copies'[c][f]))
        BY <2>1 DEF Added
      <4> QED
        BY <3>1, <3>4, <4>1 DEF Added
    <3>6. copies'[c][f] # Absent
      BY <3>3, AbsentIsNone
    <3> QED
      BY <2>1, <2>2, <2>4, <3>1, <3>3, <3>4, <3>5, <3>6
  <2> QED
    BY <2>3, <2>4
<1> QED
  BY <1>2, <1>3, <1>4 DEF Content, Shape

----------------------------------------------------------------------------
(* The helper.                                                             *)

Mark == Min(Markers)
Marked(b) == b >= Mark /\ (b - Mark) % Stride = 0
Data(n) == {b \in 0 .. n - 1 : ~ Marked(b)}
Here(c, f) == copies[c][f] # Absent
Elements(s) == {s[k] : k \in DOMAIN s}

(* While the pieces are written there is no marker from sptr to optr; what *)
(* is written is in order and, if nothing went wrong, all that is in front *)
(* of sptr.                                                                *)
HelperTypes ==
  /\ Shape /\ Content("helper") /\ helper \in Helpers /\ calm \in BOOLEAN
  /\ stage \in {"app", "create", "pieces", "lost"} /\ dumps \in Nat

HelperPlace ==
  /\ helper.len > 0 /\ Markers # {}
  /\ sptr \in Nat /\ optr \in Nat /\ sptr <= optr /\ sptr <= helper.len /\ Mark <= optr
  /\ (optr - Mark) % Stride = 0
  /\ \A b \in sptr .. optr - 1 : ~ Marked(b)

HelperSoFar ==
  \A c \in Card : Here(c, "helper") =>
    /\ \A k \in 1 .. Len(Added(c, "helper")) : Added(c, "helper")[k] < sptr
    /\ calm /\ c \in cards => Elements(Added(c, "helper")) = Data(sptr)

HelperHere == calm => \A c \in cards : Here(c, "helper")

HelperDone ==
  calm /\ helper.len > 0 =>
    Markers # {} /\ \A c \in cards : Here(c, "helper") /\ Elements(Added(c, "helper")) = Data(helper.len)

HelperInv ==
  /\ HelperTypes
  /\ \A c \in Card : Here(c, "helper") => InOrder(Added(c, "helper"))
  /\ stage = "create" /\ job = "helper" =>
       \A c \in Card : Here(c, "helper") => Added(c, "helper") = <<>>
  /\ stage = "pieces" /\ job = "helper" => HelperPlace /\ HelperSoFar /\ HelperHere
  /\ stage = "app" /\ dumps > 0 => HelperDone
  /\ stage \in {"create", "pieces"} /\ job = "firmware" => HelperDone

LEMMA MinOf ==
  ASSUME NEW S, S \subseteq Nat, S # {}
  PROVE  Min(S) \in S /\ \A s \in S : Min(S) <= s
<1>1. PICK n \in S : \A m \in S : ~ (<<m, n>> \in OpToRel(<, Nat))
  BY WFMin, NatLessThanWellFounded
<1>2. \A m \in S : ~ (m < n)
  BY <1>1, Zenon DEF OpToRel
<1>3. \A m \in S : n <= m
  BY <1>2
<1> QED
  BY <1>3 DEF Min

LEMMA HelperSizes ==
  ASSUME helper \in Helpers
  PROVE  /\ helper.len \in Nat /\ Stride \in Nat \ {0} /\ Markers \subseteq Nat
         /\ Markers # {} => Mark \in Nat
<1>1. helper.len \in Nat /\ Stride \in Nat \ {0} /\ helper.ff \subseteq Nat
  BY FwDumpAssumption
<1>2. Markers \subseteq Nat
  BY <1>1 DEF Markers
<1>3. Markers # {} => Min(Markers) \in Markers
  BY <1>2, MinOf
<1> QED
  BY <1>1, <1>2, <1>3 DEF Mark

LEMMA DividedBy ==
  ASSUME NEW S \in Nat \ {0}, NEW y \in Nat
  PROVE  y \div S \in Nat /\ y % S \in Nat /\ y % S < S /\ y = S * (y \div S) + (y % S)
OBVIOUS

(* From one marker to the next.                                            *)
LEMMA NextMark ==
  ASSUME NEW S \in Nat \ {0}, NEW x \in Nat, x % S = 0
  PROVE  (x + S) % S = 0 /\ \A d \in 1 .. S - 1 : (x + d) % S # 0
<1>1. \A y \in Nat : y \div S \in Nat /\ y % S \in Nat /\ y % S < S /\ y = S * (y \div S) + (y % S)
  BY DividedBy
<1>2. PICK q \in Nat : x = S * q
  <2>1. x \div S \in Nat /\ x = S * (x \div S) + 0
    BY <1>1
  <2> DEFINE q == x \div S
  <2>2. q \in Nat /\ x = S * q + 0
    BY <2>1
  <2> HIDE DEF q
  <2>3. x = S * q
    BY <2>2
  <2> QED
    BY <2>2, <2>3
<1>3. ASSUME NEW d \in 0 .. S PROVE (x + d) % S = 0 => d \in {0, S}
  <2> DEFINE y == x + d
             p == y \div S
  <2>1. y \in Nat /\ y = S * q + d
    BY <1>2
  <2> HIDE DEF y
  <2>2. p \in Nat /\ (y % S = 0 => y = S * p)
    BY <1>1, <2>1
  <2> HIDE DEF p
  <2>3. ASSUME y % S = 0 PROVE d \in {0, S}
    <3>1. S * p = S * q + d
      BY <2>1, <2>2, <2>3
    <3>2. S * (p - q) = S * p - S * q
      BY <2>2
    <3>3. S * (p - q) = d
      BY <2>2, <3>1, <3>2
    <3>4. p - q >= 0
      <4> SUFFICES ASSUME p - q <= -1 PROVE FALSE
        BY <2>2
      <4>1. S * (q - p) >= S
        BY <2>2
      <4>2. S * (q - p) = -(S * (p - q))
        BY <2>2
      <4> QED
        BY <2>2, <3>3, <4>1, <4>2
    <3>5. p - q >= 2 => S * (p - q) >= 2 * S
      BY <2>2
    <3>6. p - q \in {0, 1}
      BY <2>2, <3>3, <3>4, <3>5
    <3> QED
      BY <2>2, <3>3, <3>6
  <2> QED
    BY <2>3 DEF y
<1>4. (x + S) % S = 0
  <2> DEFINE y == x + S
             p == y \div S
             r == y % S
  <2>1. y \in Nat /\ y = S * q + S
    BY <1>2
  <2> HIDE DEF y
  <2>2. p \in Nat /\ r \in Nat /\ r < S /\ y = S * p + r
    BY <1>1, <2>1
  <2> HIDE DEF p, r
  <2> DEFINE m == (q + 1) - p
  <2>3. S * m = S * (q + 1) - S * p /\ S * (q + 1) = S * q + S /\ m \in Int
    BY <2>2
  <2>4. S * m = r
    BY <2>1, <2>2, <2>3
  <2> HIDE DEF m
  <2>5. m >= 1 => S * m >= S
    BY <2>3
  <2>6. m <= -1 => S * m <= -S
    BY <2>3
  <2>7. m = 0
    BY <2>2, <2>3, <2>4, <2>5, <2>6
  <2>8. r = 0
    BY <2>4, <2>7
  <2> QED
    BY <2>8 DEF r, y
<1>5. ASSUME NEW d \in 1 .. S - 1 PROVE (x + d) % S # 0
  <2>1. d \in 0 .. S /\ d # 0 /\ d # S
    OBVIOUS
  <2> QED
    BY <1>3, <2>1
<1> QED
  BY <1>4, <1>5

LEMMA SameMarks ==
  ASSUME UNCHANGED helper
  PROVE  Markers' = Markers /\ Mark' = Mark /\ (\A b : Marked(b)' = Marked(b)) /\ \A n : Data(n)' = Data(n)
<1>1. Markers' = Markers
  BY DEF Markers
<1>2. Mark' = Mark
  BY <1>1 DEF Mark
<1>3. \A b : Marked(b)' = Marked(b)
  BY <1>2 DEF Marked
<1>4. \A n : Data(n)' = Data(n)
  BY <1>3 DEF Data
<1> QED
  BY <1>1, <1>2, <1>3, <1>4

LEMMA DoneStays ==
  ASSUME HelperTypes, HelperDone, UNCHANGED <<helper, cards, old>>, calm' => calm,
         \A c \in Card : copies'[c]["helper"] = copies[c]["helper"]
  PROVE  HelperDone'
<1>1. \A c \in Card : Here(c, "helper")' = Here(c, "helper") /\ Added(c, "helper")' = Added(c, "helper")
  BY DEF Here, Added, Before
<1>2. cards \subseteq Card
  BY DEF HelperTypes, Shape
<1> QED
  BY <1>1, <1>2, SameMarks DEF HelperDone, Elements

LEMMA HelperFiles == {"helper", "firmware"} = File /\ "helper" # "firmware"
BY DEF File

(* The steps that leave the helper's files alone.                          *)
LEMMA HelperSame ==
  ASSUME HelperInv, UNCHANGED <<helper, cards, old, dumps>>, calm' \in BOOLEAN, calm' => calm,
         \A c \in Card : DOMAIN copies'[c] = File /\ copies'[c]["helper"] = copies[c]["helper"],
         stage \in {"create", "pieces"}, job = "firmware",
         \/ stage' \in {"create", "pieces"} /\ job' = "firmware"
         \/ stage' = "app" /\ job' \in File
  PROVE  HelperInv'
<1>1. HelperTypes /\ HelperDone
  BY DEF HelperInv
<1>2. HelperDone'
  BY <1>1, DoneStays
<1>3. Content("helper")' /\ \A c \in Card : Added(c, "helper")' = Added(c, "helper")
  BY <1>1, SameFile, HelperFiles DEF HelperTypes
<1>4. HelperTypes'
  BY <1>1, <1>3, HelperFiles DEF HelperTypes, Shape
<1>5. \A c \in Card : Here(c, "helper")' => InOrder(Added(c, "helper")')
  BY <1>3 DEF HelperInv, Here
<1>6. ~ (job' = "helper" /\ stage' \in {"create", "pieces"})
  BY HelperFiles
<1> QED
  BY <1>2, <1>4, <1>5, <1>6 DEF HelperInv, InOrder

LEMMA HelperBegins == DumpInit => HelperInv
<1> SUFFICES ASSUME DumpInit PROVE HelperInv
  OBVIOUS
<1>1. \A c \in Card, f \in File : copies[c][f] = Absent /\ old[c][f] = Absent
  BY DEF DumpInit
<1>2. HelperTypes
  BY <1>1, HelperFiles DEF DumpInit, HelperTypes, Shape, Content
<1>3. \A c \in Card : ~ Here(c, "helper")
  BY <1>1, HelperFiles DEF Here
<1> QED
  BY <1>2, <1>3 DEF DumpInit, HelperInv

LEMMA HelperStart == HelperInv /\ StartDump => HelperInv'
<1> SUFFICES ASSUME HelperInv, StartDump PROVE HelperInv'
  OBVIOUS
<1>1. HelperTypes /\ old' = copies /\ UNCHANGED copies
  BY DEF HelperInv, StartDump
<1>2. Content("helper")' /\ \A c \in Card : copies'[c]["helper"] # Absent => Added(c, "helper")' = <<>>
  BY <1>1, NothingYet, HelperFiles DEF HelperTypes
<1>3. HelperTypes'
  BY <1>1, <1>2, HelperFiles DEF HelperTypes, Shape, StartDump, source
<1>4. InOrder(<<>>)
  BY DEF InOrder
<1>5. stage' = "create" /\ job' = "helper"
  BY DEF StartDump
<1> QED
  BY <1>2, <1>3, <1>4, <1>5, HelperFiles DEF HelperInv, Here, InOrder

LEMMA HelperMove == HelperInv /\ (\E c \in Card : Move(c)) => HelperInv'
<1> SUFFICES ASSUME HelperInv, NEW c \in Card, Move(c) PROVE HelperInv'
  OBVIOUS
<1>1. /\ UNCHANGED <<stage, copies, helper, job, sptr, optr, dumps, old>>
      /\ calm' = FALSE /\ cards' = IF c \in cards THEN cards \ {c} ELSE cards \cup {c}
  BY DEF Move, source, locals
<1>2. /\ \A d \in Card : Here(d, "helper")' = Here(d, "helper") /\ Added(d, "helper")' = Added(d, "helper")
      /\ \A d \in Card : Before(d, "helper")' = Before(d, "helper")
  BY <1>1 DEF Here, Added, Before
<1>3. HelperTypes'
  BY <1>1, <1>2 DEF HelperInv, HelperTypes, Shape, Content
<1>4. HelperPlace' = HelperPlace
  BY <1>1, SameMarks DEF HelperPlace
<1>5. HelperSoFar => HelperSoFar'
  BY <1>1, <1>2 DEF HelperSoFar
<1>6. HelperHere' /\ HelperDone'
  BY <1>1 DEF HelperHere, HelperDone
<1> QED
  BY <1>1, <1>2, <1>3, <1>4, <1>5, <1>6 DEF HelperInv, InOrder

LEMMA HelperMissing == HelperInv /\ Missing => HelperInv'
<1> SUFFICES ASSUME HelperInv, Missing PROVE HelperInv'
  OBVIOUS
<1>1. UNCHANGED <<cards, copies, helper, dumps, old, calm>> /\ stage = "create" /\ HelperTypes
  BY DEF HelperInv, Missing, source
<1>2. CASE job = "helper"
  <2>1. helper.len = 0 /\ stage' = "create" /\ job' = "firmware"
    BY <1>2 DEF Missing, NextJob
  <2>2. HelperDone'
    BY <1>1, <2>1 DEF HelperDone, HelperTypes
  <2>3. Content("helper")' /\ \A c \in Card : Added(c, "helper")' = Added(c, "helper")
    BY <1>1, SameFile, HelperFiles DEF HelperTypes
  <2>4. HelperTypes'
    BY <1>1, <2>1, <2>3, HelperFiles DEF HelperTypes, Shape
  <2>5. \A c \in Card : Here(c, "helper")' => InOrder(Added(c, "helper"))'
    BY <1>1, <2>3 DEF HelperInv, Here, InOrder
  <2> QED
    BY <2>1, <2>2, <2>4, <2>5, HelperFiles DEF HelperInv
<1>3. CASE job = "firmware"
  <2>1. stage' = "app" /\ job' = "firmware"
    BY <1>3, HelperFiles DEF Missing, NextJob
  <2>2. \A c \in Card : DOMAIN copies'[c] = File /\ copies'[c]["helper"] = copies[c]["helper"]
    BY <1>1 DEF HelperTypes, Shape
  <2>3. calm' \in BOOLEAN
    BY <1>1 DEF HelperTypes
  <2> QED
    BY <1>1, <1>3, <2>1, <2>2, <2>3, HelperSame, HelperFiles
<1> QED
  BY <1>1, <1>2, <1>3 DEF HelperTypes, Shape, File

LEMMA HelperOpen == HelperInv /\ OpenHelper => HelperInv'
<1> SUFFICES ASSUME HelperInv, OpenHelper PROVE HelperInv'
  OBVIOUS
<1>1. /\ HelperTypes /\ stage = "create" /\ job = "helper" /\ helper.len > 0 /\ Markers # {}
      /\ copies' = Created /\ sptr' = 0 /\ optr' = Mark /\ stage' = "pieces"
      /\ UNCHANGED <<cards, helper, job, dumps, old, calm>>
  BY DEF HelperInv, OpenHelper, Mark, source
<1>2. /\ Shape' /\ Content("helper")'
      /\ \A c \in Card :
           /\ Here(c, "helper") => Here(c, "helper")' /\ Added(c, "helper")' = Added(c, "helper")
           /\ ~ Here(c, "helper") /\ Here(c, "helper")' => Added(c, "helper")' = <<>>
           /\ c \in cards => Here(c, "helper")'
  BY <1>1, CreatedFile, HelperFiles DEF HelperTypes, Here
<1>3. HelperTypes'
  BY <1>1, <1>2 DEF HelperTypes
<1>4. \A c \in Card : Here(c, "helper")' => Added(c, "helper")' = <<>>
  BY <1>1, <1>2 DEF HelperInv
<1>5. HelperPlace'
  <2>1. Mark \in Nat /\ Stride \in Nat \ {0} /\ helper.len \in Nat
    BY <1>1, HelperSizes DEF HelperTypes
  <2>2. Markers' = Markers /\ Mark' = Mark /\ \A b : Marked(b)' = Marked(b)
    BY <1>1, SameMarks
  <2>3. (Mark - Mark) % Stride = 0
    <3>1. Mark - Mark = 0
      BY <2>1
    <3>2. 0 % Stride = 0
      BY <2>1
    <3> QED
      BY <3>1, <3>2
  <2>4. \A b \in 0 .. Mark - 1 : ~ Marked(b)
    BY <2>1 DEF Marked
  <2> QED
    BY <1>1, <2>1, <2>2, <2>3, <2>4 DEF HelperPlace
<1>6. HelperSoFar'
  <2>1. Data(0)' = {}
    BY DEF Data
  <2>2. Elements(<<>>) = {}
    BY DEF Elements
  <2>3. Len(<<>>) = 0
    OBVIOUS
  <2> QED
    BY <1>1, <1>4, <2>1, <2>2, <2>3 DEF HelperSoFar, Elements
<1>7. HelperHere'
  BY <1>1, <1>2 DEF HelperHere, HelperTypes, Shape
<1>8. \A c \in Card : Here(c, "helper")' => InOrder(Added(c, "helper"))'
  <2>1. InOrder(<<>>)
    BY DEF InOrder
  <2> QED
    BY <1>4, <2>1 DEF InOrder
<1> QED
  BY <1>1, <1>3, <1>5, <1>6, <1>7, <1>8, HelperFiles DEF HelperInv

LEMMA HelperLost == HelperInv /\ NoMarker => HelperInv'
<1> SUFFICES ASSUME HelperInv, NoMarker PROVE HelperInv'
  OBVIOUS
<1>1. UNCHANGED <<cards, copies, helper, job, dumps, old, calm>> /\ stage' = "lost" /\ HelperTypes
  BY DEF HelperInv, NoMarker, source
<1>2. Content("helper")' /\ \A c \in Card : Added(c, "helper")' = Added(c, "helper")
  BY <1>1, SameFile, HelperFiles DEF HelperTypes
<1>3. HelperTypes'
  BY <1>1, <1>2 DEF HelperTypes, Shape
<1> QED
  BY <1>1, <1>2, <1>3 DEF HelperInv, Here, InOrder

LEMMA ElementsJoined ==
  ASSUME NEW s \in Seq(Piece), NEW t \in Seq(Piece)
  PROVE  Elements(s \o t) = Elements(s) \cup Elements(t)
<1> DEFINE u == s \o t
           m == Len(s)
           n == Len(t)
<1>1. /\ m \in Nat /\ n \in Nat /\ DOMAIN u = 1 .. m + n /\ DOMAIN s = 1 .. m /\ DOMAIN t = 1 .. n
      /\ \A k \in 1 .. m : u[k] = s[k]
      /\ \A k \in 1 .. n : u[m + k] = t[k]
      /\ \A k \in 1 .. m + n : k > m => k - m \in 1 .. n /\ u[k] = t[k - m]
  BY Joined
<1> HIDE DEF u, m, n
<1>2. ASSUME NEW x \in Elements(u) PROVE x \in Elements(s) \cup Elements(t)
  <2>1. PICK k \in 1 .. m + n : x = u[k]
    BY <1>1 DEF Elements
  <2>2. CASE k <= m
    <3>1. k \in 1 .. m
      BY <1>1, <2>2
    <3> QED
      BY <1>1, <2>1, <3>1 DEF Elements
  <2>3. CASE k > m
    <3>1. k - m \in 1 .. n /\ u[k] = t[k - m]
      BY <1>1, <2>3
    <3> QED
      BY <1>1, <2>1, <3>1 DEF Elements
  <2> QED
    BY <1>1, <2>2, <2>3
<1>3. ASSUME NEW x \in Elements(s) PROVE x \in Elements(u)
  <2>1. PICK k \in 1 .. m : x = s[k]
    BY <1>1 DEF Elements
  <2>2. k \in DOMAIN u /\ u[k] = x
    BY <1>1, <2>1
  <2> QED
    BY <2>2 DEF Elements
<1>4. ASSUME NEW x \in Elements(t) PROVE x \in Elements(u)
  <2>1. PICK k \in 1 .. n : x = t[k]
    BY <1>1 DEF Elements
  <2>2. m + k \in DOMAIN u /\ u[m + k] = x
    BY <1>1, <2>1
  <2> QED
    BY <2>2 DEF Elements
<1>5. Elements(u) = Elements(s) \cup Elements(t)
  BY <1>2, <1>3, <1>4
<1> QED
  BY <1>5 DEF u

LEMMA ElementsOfBytes ==
  ASSUME NEW a \in Nat, NEW b \in Nat, a <= b
  PROVE  Elements(Bytes(a, b)) = a .. b - 1
<1> DEFINE s == Bytes(a, b)
<1>1. DOMAIN s = 1 .. b - a /\ \A k \in 1 .. b - a : s[k] = a + k - 1
  BY BytesAre
<1> HIDE DEF s
<1>2. ASSUME NEW x \in a .. b - 1 PROVE x \in Elements(s)
  <2>1. x - a + 1 \in 1 .. b - a
    OBVIOUS
  <2>2. s[x - a + 1] = x
    BY <1>1, <2>1
  <2> QED
    BY <1>1, <2>1, <2>2 DEF Elements
<1>3. ASSUME NEW x \in Elements(s) PROVE x \in a .. b - 1
  BY <1>1 DEF Elements
<1>4. Elements(s) = a .. b - 1
  BY <1>2, <1>3
<1> QED
  BY <1>4 DEF s

(* A piece of the helper is written.                                       *)
LEMMA PieceWritten ==
  ASSUME HelperInv, stage = "pieces", job = "helper", NEW b \in Nat, sptr <= b,
         AppendBuf(Bytes(sptr, b)), UNCHANGED <<cards, old, helper, dumps>>
  PROVE  /\ (\A c \in Card : DOMAIN copies'[c] = File)
         /\ Content("helper")' /\ calm' \in BOOLEAN /\ (calm' => calm)
         /\ \A c \in Card :
              /\ Here(c, "helper")' = Here(c, "helper")
              /\ Here(c, "helper") =>
                   /\ Added(c, "helper")' \in Seq(Piece) /\ InOrder(Added(c, "helper")')
                   /\ \A k \in 1 .. Len(Added(c, "helper")') : Added(c, "helper")'[k] < b
                   /\ calm' /\ c \in cards =>
                        Elements(Added(c, "helper")') = Data(sptr) \cup (sptr .. b - 1)
<1>1. HelperTypes /\ HelperPlace /\ HelperSoFar /\ sptr \in Nat
  BY DEF HelperInv, HelperPlace
<1> DEFINE t == Bytes(sptr, b)
<1>2. /\ t \in Seq(Piece) /\ InOrder(t) /\ Elements(t) = sptr .. b - 1 /\ Len(t) = b - sptr
      /\ \A k \in 1 .. b - sptr : t[k] >= sptr /\ t[k] < b
  BY <1>1, BytesAre, ElementsOfBytes
<1>t. AppendBuf(t)
  OBVIOUS
<1> HIDE DEF t
<1>3. /\ (\A c \in Card : DOMAIN copies'[c] = File)
      /\ Content("helper")' /\ calm' \in BOOLEAN /\ (calm' => calm)
      /\ \A c \in Card :
           /\ copies'[c]["helper"] = Absent <=> copies[c]["helper"] = Absent
           /\ copies[c]["helper"] # Absent =>
                Added(c, "helper")' \in {Added(c, "helper"), Added(c, "helper") \o t}
           /\ copies[c]["helper"] # Absent /\ c \in cards /\ calm' =>
                Added(c, "helper")' = Added(c, "helper") \o t
  BY <1>1, <1>2, <1>t, AppendedFile, HelperFiles DEF HelperTypes
<1>4. ASSUME NEW c \in Card, Here(c, "helper")
      PROVE  /\ Added(c, "helper")' \in Seq(Piece) /\ InOrder(Added(c, "helper")')
             /\ \A k \in 1 .. Len(Added(c, "helper")') : Added(c, "helper")'[k] < b
             /\ calm' /\ c \in cards => Elements(Added(c, "helper")') = Data(sptr) \cup (sptr .. b - 1)
  <2> DEFINE s == Added(c, "helper")
  <2>1. s \in Seq(Piece)
    BY <1>1, <1>4, AddedIn, HelperFiles DEF Here, HelperTypes
  <2>2. /\ InOrder(s) /\ \A k \in 1 .. Len(s) : s[k] < sptr
        /\ calm /\ c \in cards => Elements(s) = Data(sptr)
    BY <1>1, <1>4 DEF HelperInv, HelperSoFar
  <2>3. /\ Added(c, "helper")' \in {s, s \o t}
        /\ calm' /\ c \in cards => Added(c, "helper")' = s \o t
    BY <1>3, <1>4 DEF Here
  <2> DEFINE u == s \o t
  <2> HIDE DEF s
  <2>4. InOrder(u)
    <3>1. \A k \in 1 .. Len(t) : t[k] >= sptr
      BY <1>2
    <3> QED
      BY <1>1, <1>2, <2>1, <2>2, <3>1, JoinedInOrder
  <2>5. /\ u \in Seq(Piece) /\ Len(u) = Len(s) + Len(t) /\ Len(s) \in Nat /\ Len(t) \in Nat
        /\ \A k \in 1 .. Len(s) : u[k] = s[k]
        /\ \A k \in 1 .. Len(s) + Len(t) : k > Len(s) => k - Len(s) \in 1 .. Len(t) /\ u[k] = t[k - Len(s)]
    BY <1>2, <2>1, Joined
  <2>6. Elements(u) = Elements(s) \cup (sptr .. b - 1)
    BY <1>2, <2>1, ElementsJoined
  <2> HIDE DEF u
  <2>7. \A k \in 1 .. Len(s) : s[k] < b
    <3>1. \A k \in 1 .. Len(s) : s[k] \in Int
      BY <2>1, PiecesAre
    <3> QED
      BY <1>1, <2>2, <3>1
  <2>8. \A k \in 1 .. Len(u) : u[k] < b
    <3> SUFFICES ASSUME NEW k \in 1 .. Len(u) PROVE u[k] < b
      OBVIOUS
    <3>1. CASE k <= Len(s)
      BY <2>5, <2>7, <3>1
    <3>2. CASE k > Len(s)
      BY <1>2, <2>5, <3>2
    <3> QED
      BY <2>5, <3>1, <3>2
  <2>9. CASE Added(c, "helper")' = u
    BY <1>3, <2>2, <2>4, <2>5, <2>6, <2>8, <2>9
  <2>10. CASE Added(c, "helper")' = s
    BY <1>3, <2>1, <2>2, <2>3, <2>4, <2>6, <2>7, <2>8, <2>10 DEF u
  <2> QED
    BY <2>3, <2>9, <2>10 DEF u
<1> QED
  BY <1>3, <1>4 DEF Here

LEMMA HelperPieceStep == HelperInv /\ HelperPiece => HelperInv'
<1> SUFFICES ASSUME HelperInv, HelperPiece PROVE HelperInv'
  OBVIOUS
<1>1. /\ HelperTypes /\ HelperPlace /\ HelperSoFar /\ HelperHere
      /\ stage = "pieces" /\ job = "helper" /\ optr < helper.len
      /\ AppendBuf(Bytes(sptr, optr)) /\ sptr' = optr + 1 /\ optr' = optr + Stride
      /\ UNCHANGED <<stage, cards, helper, job, dumps, old>>
  BY DEF HelperPiece, PastMarker, HelperInv, source
<1>2. sptr \in Nat /\ optr \in Nat /\ sptr <= optr /\ Markers # {} /\ Mark <= optr
  BY <1>1 DEF HelperPlace
<1>3. /\ (\A c \in Card : DOMAIN copies'[c] = File)
      /\ Content("helper")' /\ calm' \in BOOLEAN /\ (calm' => calm)
      /\ \A c \in Card :
           /\ Here(c, "helper")' = Here(c, "helper")
           /\ Here(c, "helper") =>
                /\ Added(c, "helper")' \in Seq(Piece) /\ InOrder(Added(c, "helper")')
                /\ \A k \in 1 .. Len(Added(c, "helper")') : Added(c, "helper")'[k] < optr
                /\ calm' /\ c \in cards =>
                     Elements(Added(c, "helper")') = Data(sptr) \cup (sptr .. optr - 1)
  BY <1>1, <1>2, PieceWritten
<1>4. HelperTypes'
  BY <1>1, <1>3 DEF HelperTypes, Shape
<1>5. /\ Mark \in Nat /\ Stride \in Nat \ {0} /\ helper.len \in Nat
      /\ Markers' = Markers /\ Mark' = Mark /\ (\A b : Marked(b)' = Marked(b))
      /\ \A n : Data(n)' = Data(n)
  BY <1>1, <1>2, HelperSizes, SameMarks DEF HelperTypes
<1>6. HelperPlace'
  <2> DEFINE x == optr - Mark
  <2>1. x \in Nat /\ x % Stride = 0
    BY <1>1, <1>2, <1>5 DEF HelperPlace
  <2> HIDE DEF x
  <2>2. (x + Stride) % Stride = 0 /\ \A d \in 1 .. Stride - 1 : (x + d) % Stride # 0
    BY <1>5, <2>1, NextMark
  <2>3. optr' - Mark = x + Stride
    BY <1>1, <1>2, <1>5 DEF x
  <2>4. ASSUME NEW b \in sptr' .. optr' - 1 PROVE ~ Marked(b)
    <3>1. b - optr \in 1 .. Stride - 1 /\ b - Mark = x + (b - optr)
      BY <1>1, <1>2, <1>5 DEF x
    <3>2. (b - Mark) % Stride # 0
      BY <2>2, <3>1
    <3> QED
      BY <3>2 DEF Marked
  <2>5. /\ sptr' \in Nat /\ optr' \in Nat /\ sptr' <= optr' /\ sptr' <= helper.len /\ Mark <= optr'
    BY <1>1, <1>2, <1>5
  <2>6. (optr' - Mark) % Stride = 0
    BY <2>2, <2>3
  <2>7. helper' = helper /\ helper.len > 0
    BY <1>1 DEF HelperPlace
  <2> QED
    BY <1>2, <1>5, <2>4, <2>5, <2>6, <2>7 DEF HelperPlace
<1>7. Data(sptr) \cup (sptr .. optr - 1) = Data(sptr')
  <2>1. Marked(optr) /\ \A b \in sptr .. optr - 1 : ~ Marked(b)
    BY <1>1, <1>2 DEF HelperPlace, Marked
  <2> QED
    BY <1>1, <1>2, <2>1 DEF Data
<1>8. HelperSoFar'
  <2>0. Data(sptr)' = Data(sptr')
    BY <1>5 DEF Data
  <2>1. ASSUME NEW c \in Card, Here(c, "helper")'
        PROVE  \A k \in 1 .. Len(Added(c, "helper")') : Added(c, "helper")'[k] < sptr'
    <3> DEFINE u == Added(c, "helper")'
    <3>1. u \in Seq(Piece) /\ \A k \in 1 .. Len(u) : u[k] < optr
      BY <1>3, <2>1
    <3> HIDE DEF u
    <3>2. \A k \in 1 .. Len(u) : u[k] \in Int
      BY <3>1, PiecesAre
    <3>3. \A k \in 1 .. Len(u) : u[k] < sptr'
      BY <1>1, <1>2, <3>1, <3>2
    <3> QED
      BY <3>3 DEF u
  <2>2. ASSUME NEW c \in Card, Here(c, "helper")', calm', c \in cards
        PROVE  Elements(Added(c, "helper")') = Data(sptr')
    BY <1>3, <1>7, <2>2
  <2>3. \A c \in Card : Elements(Added(c, "helper"))' = Elements(Added(c, "helper")')
    BY DEF Elements
  <2> QED
    BY <1>1, <2>0, <2>1, <2>2, <2>3 DEF HelperSoFar
<1>9. HelperHere'
  BY <1>1, <1>3 DEF HelperHere, HelperTypes, Shape
<1>10. \A c \in Card : Here(c, "helper")' => InOrder(Added(c, "helper"))'
  BY <1>3 DEF InOrder
<1> QED
  BY <1>1, <1>4, <1>6, <1>8, <1>9, <1>10, HelperFiles DEF HelperInv

LEMMA HelperRestStep == HelperInv /\ HelperRest => HelperInv'
<1> SUFFICES ASSUME HelperInv, HelperRest PROVE HelperInv'
  OBVIOUS
<1>1. /\ HelperTypes /\ HelperPlace /\ HelperSoFar /\ HelperHere
      /\ stage = "pieces" /\ job = "helper" /\ optr >= helper.len
      /\ AppendBuf(Bytes(sptr, helper.len)) /\ stage' = "create" /\ job' = "firmware"
      /\ UNCHANGED <<cards, helper, dumps, old>>
  BY DEF HelperRest, NextJob, HelperInv, source
<1>2. /\ sptr \in Nat /\ optr \in Nat /\ sptr <= helper.len /\ Markers # {} /\ helper.len \in Nat
  BY <1>1, HelperSizes DEF HelperPlace, HelperTypes
<1>3. /\ (\A c \in Card : DOMAIN copies'[c] = File)
      /\ Content("helper")' /\ calm' \in BOOLEAN /\ (calm' => calm)
      /\ \A c \in Card :
           /\ Here(c, "helper")' = Here(c, "helper")
           /\ Here(c, "helper") =>
                /\ InOrder(Added(c, "helper")')
                /\ calm' /\ c \in cards =>
                     Elements(Added(c, "helper")') = Data(sptr) \cup (sptr .. helper.len - 1)
  BY <1>1, <1>2, PieceWritten
<1>4. HelperTypes'
  BY <1>1, <1>3, HelperFiles DEF HelperTypes, Shape
<1>5. Data(sptr) \cup (sptr .. helper.len - 1) = Data(helper.len)
  <2>1. \A b \in sptr .. helper.len - 1 : ~ Marked(b)
    BY <1>1, <1>2 DEF HelperPlace
  <2> QED
    BY <1>2, <2>1 DEF Data
<1>6. HelperDone'
  <2>1. Markers' = Markers /\ \A n : Data(n)' = Data(n)
    BY <1>1, SameMarks
  <2>2. ASSUME calm', NEW c \in cards
        PROVE  Here(c, "helper")' /\ Elements(Added(c, "helper")') = Data(helper.len)
    BY <1>1, <1>3, <1>5, <2>2 DEF HelperHere, HelperTypes, Shape
  <2>3. calm' => \A c \in cards' : Here(c, "helper")' /\ Elements(Added(c, "helper"))' = Data(helper.len)'
    BY <1>1, <2>1, <2>2 DEF Elements
  <2> QED
    BY <1>1, <1>2, <2>1, <2>3 DEF HelperDone
<1>7. \A c \in Card : Here(c, "helper")' => InOrder(Added(c, "helper"))'
  BY <1>3 DEF InOrder
<1> QED
  BY <1>1, <1>4, <1>6, <1>7, HelperFiles DEF HelperInv

LEMMA OtherJob ==
  ASSUME Shape, NEW bytes, AppendBuf(bytes), calm \in BOOLEAN
  PROVE  /\ \A c \in Card : DOMAIN copies'[c] = File
         /\ \A c \in Card, f \in File : f # job => copies'[c][f] = copies[c][f]
         /\ calm' \in BOOLEAN /\ (calm' => calm)
<1>1. CASE copies' = Appended(bytes, Holders) /\ UNCHANGED <<events, calm>>
  BY <1>1, AppendedFiles
<1>2. ASSUME NEW d \in Holders, copies' = Appended(bytes, Holders \ {d}), calm' = FALSE
      PROVE  /\ \A c \in Card : DOMAIN copies'[c] = File
             /\ \A c \in Card, f \in File : f # job => copies'[c][f] = copies[c][f]
             /\ calm' \in BOOLEAN /\ (calm' => calm)
  <2>1. /\ \A c \in Card : DOMAIN copies'[c] = File
        /\ \A c \in Card, f \in File : f # job => copies'[c][f] = copies[c][f]
    <3> DEFINE to == Holders \ {d}
    <3>1. copies' = Appended(bytes, to)
      BY <1>2
    <3> HIDE DEF to
    <3> QED
      BY <3>1, AppendedFiles
  <2> QED
    BY <1>2, <2>1
<1> QED
  BY <1>1, <1>2 DEF AppendBuf

LEMMA HelperOther == HelperInv /\ (OpenFirmware \/ FirmwareRecord \/ FirmwareDone) => HelperInv'
<1> SUFFICES ASSUME HelperInv, OpenFirmware \/ FirmwareRecord \/ FirmwareDone PROVE HelperInv'
  OBVIOUS
<1>1. HelperTypes /\ Shape /\ calm \in BOOLEAN
  BY DEF HelperInv, HelperTypes
<1>2. CASE OpenFirmware
  <2>1. /\ stage = "create" /\ job = "firmware" /\ stage' = "pieces" /\ copies' = Created
        /\ UNCHANGED <<helper, cards, old, dumps, calm, job>>
    BY <1>2 DEF OpenFirmware, source
  <2>2. \A c \in Card : DOMAIN copies'[c] = File /\ copies'[c]["helper"] = copies[c]["helper"]
    BY <1>1, <2>1, CreatedFiles, HelperFiles DEF Shape
  <2> QED
    BY <1>1, <2>1, <2>2, HelperSame
<1>3. CASE FirmwareRecord
  <2>1. /\ stage = "pieces" /\ job = "firmware" /\ stage' = stage
        /\ UNCHANGED <<helper, cards, old, dumps, job>>
    BY <1>3 DEF FirmwareRecord, source
  <2>2. /\ \A c \in Card : DOMAIN copies'[c] = File /\ copies'[c]["helper"] = copies[c]["helper"]
        /\ calm' \in BOOLEAN /\ (calm' => calm)
    <3>1. PICK bytes : AppendBuf(bytes)
      BY <1>3 DEF FirmwareRecord
    <3> QED
      BY <1>1, <2>1, <3>1, OtherJob, HelperFiles
  <2> QED
    BY <1>1, <2>1, <2>2, HelperSame
<1>4. CASE FirmwareDone
  <2>1. /\ stage = "pieces" /\ job = "firmware" /\ stage' = "app"
        /\ UNCHANGED <<copies, helper, cards, old, dumps, calm, job>>
    BY <1>4, HelperFiles DEF FirmwareDone, NextJob, source
  <2> QED
    BY <1>1, <2>1, HelperSame, HelperFiles DEF Shape
<1> QED
  BY <1>2, <1>3, <1>4

LEMMA HelperStutter == HelperInv /\ UNCHANGED dumpVars => HelperInv'
<1> SUFFICES ASSUME HelperInv, UNCHANGED dumpVars PROVE HelperInv'
  OBVIOUS
<1>1. UNCHANGED <<stage, cards, copies, helper, job, sptr, optr, dumps, old, calm>>
  BY DEF dumpVars, source, locals
<1>2. /\ \A c \in Card : Here(c, "helper")' = Here(c, "helper") /\ Added(c, "helper")' = Added(c, "helper")
      /\ \A c \in Card : Before(c, "helper")' = Before(c, "helper")
  BY <1>1 DEF Here, Added, Before
<1>3. Markers' = Markers /\ Mark' = Mark /\ (\A b : Marked(b)' = Marked(b)) /\ \A n : Data(n)' = Data(n)
  BY <1>1, SameMarks
<1>4. HelperTypes'
  BY <1>1, <1>2 DEF HelperInv, HelperTypes, Shape, Content
<1>5. HelperPlace' = HelperPlace
  BY <1>1, <1>3 DEF HelperPlace
<1>6. HelperSoFar => HelperSoFar'
  <2>1. Data(sptr)' = Data(sptr)
    BY <1>1, <1>3 DEF Data
  <2> QED
    BY <1>1, <1>2, <2>1 DEF HelperSoFar, Elements
<1>7. HelperHere => HelperHere'
  BY <1>1, <1>2, <1>4 DEF HelperHere, Here
<1>8. HelperDone => HelperDone'
  BY <1>1, DoneStays DEF HelperInv
<1> QED
  BY <1>1, <1>2, <1>4, <1>5, <1>6, <1>7, <1>8 DEF HelperInv, InOrder

LEMMA HelperStep == HelperInv /\ [DumpNext]_dumpVars => HelperInv'
BY HelperStart, HelperMove, HelperMissing, HelperOpen, HelperLost, HelperPieceStep, HelperRestStep,
   HelperOther, HelperStutter DEF DumpNext

(* What a dump that nothing disturbed adds is the helper, whole and in     *)
(* order, without its markers.                                             *)
THEOREM HelperDumped == DumpSpec => []HelperWhole
<1>1. HelperInv => HelperWhole
  <2> SUFFICES ASSUME HelperInv, Finished, helper.len > 0, Mark = helper.marker, NEW c \in cards
               PROVE  /\ InOrder(Added(c, "helper"))
                      /\ Elements(Added(c, "helper")) = {b \in 0 .. helper.len - 1 : ~ IsMarker(b)}
    BY DEF HelperWhole, Mark, Elements
  <2>1. HelperDone /\ calm /\ c \in Card
    BY DEF HelperInv, Finished, HelperTypes, Shape
  <2>2. Here(c, "helper") /\ Elements(Added(c, "helper")) = Data(helper.len)
    BY <2>1 DEF HelperDone
  <2>3. InOrder(Added(c, "helper"))
    BY <2>1, <2>2 DEF HelperInv
  <2>4. Data(helper.len) = {b \in 0 .. helper.len - 1 : ~ IsMarker(b)}
    BY DEF Data, Marked, IsMarker
  <2> QED
    BY <2>2, <2>3, <2>4
<1> QED
  BY <1>1, HelperBegins, HelperStep, PTL DEF DumpSpec

----------------------------------------------------------------------------
(* The firmware.                                                           *)

Reached(n) ==
  IF n * firmware.record <= firmware.len THEN n * firmware.record ELSE firmware.len

FirmwareTypes ==
  /\ Shape /\ Content("firmware") /\ firmware \in Firmwares /\ calm \in BOOLEAN
  /\ stage \in {"app", "create", "pieces", "lost"} /\ dumps \in Nat

(* If the chunks are found again the loop has written all that is in front *)
(* of record i.  If not, it writes too little, or something from behind    *)
(* the first record.                                                       *)
FirmwarePlace ==
  /\ firmware.len > 0 /\ i \in 0 .. Records /\ fwSize \in Nat
  /\ chunkSize = ChunkSize(firmware.len, Records)
  /\ i = 0 => fwSize = firmware.len
  /\ Guessed /\ i < Records => fwSize = firmware.len - i * firmware.record

Broken(s) ==
  \/ Records = 2 /\ firmware.len = 2 * chunkSize + 1 /\ Len(s) <= i * chunkSize
  \/ /\ firmware.record < firmware.len /\ firmware.len < chunkSize
     /\ IF i = 0 THEN s = <<>> ELSE Len(s) > firmware.record /\ s[firmware.record + 1] = Beyond

FirmwareSoFar ==
  \A c \in Card : Here(c, "firmware") =>
    /\ Guessed => \A k \in 1 .. Len(Added(c, "firmware")) : Added(c, "firmware")[k] < Reached(i)
    /\ calm /\ c \in cards =>
         /\ Guessed => Added(c, "firmware") = Bytes(0, Reached(i))
         /\ ~ Guessed => Broken(Added(c, "firmware"))

FirmwareHere == calm => \A c \in cards : Here(c, "firmware")

FirmwareRight ==
  calm /\ firmware.len > 0 =>
    \A c \in cards :
      /\ Here(c, "firmware")
      /\ Guessed => Added(c, "firmware") = Bytes(0, firmware.len)
      /\ ~ Guessed => Added(c, "firmware") # Bytes(0, firmware.len)

NoFirmware == \A c \in Card : Here(c, "firmware") => Added(c, "firmware") = <<>>
FirmwareInOrder ==
  \A c \in Card : Here(c, "firmware") /\ Guessed => InOrder(Added(c, "firmware"))

FirmwareInv ==
  /\ FirmwareTypes /\ FirmwareInOrder
  /\ stage = "create" \/ (stage = "pieces" /\ job = "helper") => NoFirmware
  /\ stage = "pieces" /\ job = "firmware" => FirmwarePlace /\ FirmwareSoFar /\ FirmwareHere
  /\ stage = "app" /\ dumps > 0 => FirmwareRight

LEMMA NoneInOrder == InOrder(<<>>)
BY DEF InOrder

LEMMA FirmwareBegins == DumpInit => FirmwareInv
<1> SUFFICES ASSUME DumpInit PROVE FirmwareInv
  OBVIOUS
<1>1. \A c \in Card, f \in File : copies[c][f] = Absent /\ old[c][f] = Absent
  BY DEF DumpInit
<1>2. FirmwareTypes
  BY <1>1, HelperFiles DEF DumpInit, FirmwareTypes, Shape, Content
<1>3. \A c \in Card : ~ Here(c, "firmware")
  BY <1>1, HelperFiles DEF Here
<1> QED
  BY <1>2, <1>3 DEF DumpInit, FirmwareInv, FirmwareInOrder

LEMMA FirmwareStart == FirmwareInv /\ StartDump => FirmwareInv'
<1> SUFFICES ASSUME FirmwareInv, StartDump PROVE FirmwareInv'
  OBVIOUS
<1>1. FirmwareTypes /\ old' = copies /\ UNCHANGED copies
  BY DEF FirmwareInv, StartDump
<1>2. Content("firmware")' /\ \A c \in Card : copies'[c]["firmware"] # Absent => Added(c, "firmware")' = <<>>
  BY <1>1, NothingYet, HelperFiles DEF FirmwareTypes
<1>3. FirmwareTypes'
  BY <1>1, <1>2, HelperFiles DEF FirmwareTypes, Shape, StartDump, source
<1>4. NoFirmware'
  BY <1>2 DEF NoFirmware, Here
<1>5. FirmwareInOrder'
  BY <1>4, NoneInOrder DEF NoFirmware, FirmwareInOrder, InOrder
<1>6. stage' = "create" /\ job' = "helper"
  BY DEF StartDump
<1> QED
  BY <1>3, <1>4, <1>5, <1>6 DEF FirmwareInv

(* What holds of the files before and after a step that leaves them alone. *)
LEMMA FirmwareSame ==
  ASSUME FirmwareInv, UNCHANGED <<firmware, old, dumps>>, calm' \in BOOLEAN, cards' \subseteq Card,
         stage' \in {"app", "create", "pieces", "lost"}, job' \in File,
         \A c \in Card : DOMAIN copies'[c] = File /\ copies'[c]["firmware"] = copies[c]["firmware"]
  PROVE  /\ FirmwareTypes' /\ FirmwareInOrder' /\ (NoFirmware => NoFirmware')
         /\ \A c \in Card : /\ Here(c, "firmware")' = Here(c, "firmware")
                            /\ Added(c, "firmware")' = Added(c, "firmware")
         /\ Records' = Records /\ Guessed' = Guessed
<1>1. FirmwareTypes
  BY DEF FirmwareInv
<1>2. Content("firmware")' /\ \A c \in Card : Added(c, "firmware")' = Added(c, "firmware")
  BY <1>1, SameFile, HelperFiles DEF FirmwareTypes
<1>3. \A c \in Card : Here(c, "firmware")' = Here(c, "firmware")
  BY DEF Here
<1>4. Records' = Records /\ Guessed' = Guessed
  BY DEF Records, Guessed, RecordCount
<1>5. FirmwareTypes'
  BY <1>1, <1>2, HelperFiles DEF FirmwareTypes, Shape
<1>6. FirmwareInOrder'
  BY <1>2, <1>3, <1>4 DEF FirmwareInv, FirmwareInOrder, InOrder
<1>7. NoFirmware => NoFirmware'
  BY <1>2, <1>3 DEF NoFirmware
<1> QED
  BY <1>2, <1>3, <1>4, <1>5, <1>6, <1>7

LEMMA FirmwareMove == FirmwareInv /\ (\E c \in Card : Move(c)) => FirmwareInv'
<1> SUFFICES ASSUME FirmwareInv, NEW d \in Card, Move(d) PROVE FirmwareInv'
  OBVIOUS
<1>1. /\ UNCHANGED <<stage, copies, firmware, job, i, fwSize, chunkSize, dumps, old>>
      /\ calm' = FALSE /\ cards' = IF d \in cards THEN cards \ {d} ELSE cards \cup {d}
  BY DEF Move, source, locals
<1>0. FirmwareTypes /\ Shape
  BY DEF FirmwareInv, FirmwareTypes
<1>2. /\ cards' \subseteq Card /\ calm' \in BOOLEAN /\ job' \in File
      /\ stage' \in {"app", "create", "pieces", "lost"}
      /\ \A c \in Card : DOMAIN copies'[c] = File /\ copies'[c]["firmware"] = copies[c]["firmware"]
  BY <1>0, <1>1 DEF FirmwareTypes, Shape
<1>3. /\ FirmwareTypes' /\ FirmwareInOrder' /\ (NoFirmware => NoFirmware')
      /\ \A c \in Card : /\ Here(c, "firmware")' = Here(c, "firmware")
                         /\ Added(c, "firmware")' = Added(c, "firmware")
      /\ Records' = Records /\ Guessed' = Guessed
  BY <1>1, <1>2, FirmwareSame
<1>4. FirmwarePlace => FirmwarePlace'
  BY <1>1, <1>3 DEF FirmwarePlace, ChunkSize
<1>5. FirmwareSoFar => FirmwareSoFar'
  <2>1. Reached(i)' = Reached(i)
    BY <1>1 DEF Reached
  <2> QED
    BY <1>1, <1>3, <2>1 DEF FirmwareSoFar
<1>6. FirmwareHere' /\ FirmwareRight'
  BY <1>1 DEF FirmwareHere, FirmwareRight
<1> QED
  BY <1>1, <1>3, <1>4, <1>5, <1>6 DEF FirmwareInv

LEMMA FirmwareStutter == FirmwareInv /\ UNCHANGED dumpVars => FirmwareInv'
<1> SUFFICES ASSUME FirmwareInv, UNCHANGED dumpVars PROVE FirmwareInv'
  OBVIOUS
<1>1. UNCHANGED <<stage, cards, copies, firmware, job, i, fwSize, chunkSize, dumps, old, calm>>
  BY DEF dumpVars, source, locals
<1>0. FirmwareTypes /\ Shape
  BY DEF FirmwareInv, FirmwareTypes
<1>2. /\ cards' \subseteq Card /\ calm' \in BOOLEAN /\ job' \in File
      /\ stage' \in {"app", "create", "pieces", "lost"}
      /\ \A c \in Card : DOMAIN copies'[c] = File /\ copies'[c]["firmware"] = copies[c]["firmware"]
  BY <1>0, <1>1 DEF FirmwareTypes, Shape
<1>3. /\ FirmwareTypes' /\ FirmwareInOrder' /\ (NoFirmware => NoFirmware')
      /\ \A c \in Card : /\ Here(c, "firmware")' = Here(c, "firmware")
                         /\ Added(c, "firmware")' = Added(c, "firmware")
      /\ Records' = Records /\ Guessed' = Guessed
  BY <1>1, <1>2, FirmwareSame
<1>4. FirmwarePlace => FirmwarePlace'
  BY <1>1, <1>3 DEF FirmwarePlace, ChunkSize
<1>5. FirmwareSoFar => FirmwareSoFar'
  <2>1. Reached(i)' = Reached(i)
    BY <1>1 DEF Reached
  <2>2. \A c \in Card : Broken(Added(c, "firmware"))' = Broken(Added(c, "firmware"))
    BY <1>1, <1>3 DEF Broken
  <2>3. \A c \in Card : (Added(c, "firmware") = Bytes(0, Reached(i)))' = (Added(c, "firmware") = Bytes(0, Reached(i)))
    BY <1>3, <2>1 DEF Bytes
  <2> QED
    BY <1>1, <1>3, <2>1, <2>2, <2>3 DEF FirmwareSoFar
<1>6. (FirmwareHere => FirmwareHere') /\ (FirmwareRight => FirmwareRight')
  BY <1>0, <1>1, <1>3 DEF FirmwareHere, FirmwareRight, Shape, Bytes
<1> QED
  BY <1>1, <1>3, <1>4, <1>5, <1>6 DEF FirmwareInv

(* The steps that write no firmware.                                       *)
LEMMA FirmwareOther ==
  FirmwareInv /\ (Missing \/ OpenHelper \/ NoMarker \/ HelperPiece \/ HelperRest) => FirmwareInv'
<1> SUFFICES ASSUME FirmwareInv, Missing \/ OpenHelper \/ NoMarker \/ HelperPiece \/ HelperRest
             PROVE  FirmwareInv'
  OBVIOUS
<1>0. FirmwareTypes /\ Shape /\ calm \in BOOLEAN /\ cards \subseteq Card /\ job \in File
      /\ \A c \in Card : DOMAIN copies[c] = File
  BY DEF FirmwareInv, FirmwareTypes, Shape
<1>1. CASE Missing \/ NoMarker
  <2>1. UNCHANGED <<firmware, cards, copies, old, dumps, calm>> /\ stage = "create"
    BY <1>1 DEF Missing, NoMarker, source
  <2>2. \/ stage' = "create" /\ job' = "firmware"
        \/ stage' = "app" /\ job' = job /\ firmware.len = 0
        \/ stage' = "lost" /\ job' = job
    BY <1>0, <1>1, HelperFiles DEF Missing, NoMarker, NextJob
  <2>3. stage' \in {"app", "create", "pieces", "lost"} /\ job' \in File
    BY <1>0, <2>2, HelperFiles
  <2>4. FirmwareTypes' /\ FirmwareInOrder' /\ (NoFirmware => NoFirmware')
    BY <1>0, <2>1, <2>3, FirmwareSame
  <2>5. NoFirmware
    BY <2>1 DEF FirmwareInv
  <2>6. firmware.len = 0 => FirmwareRight'
    BY <2>1 DEF FirmwareRight
  <2> QED
    BY <2>2, <2>4, <2>5, <2>6 DEF FirmwareInv
<1>2. CASE OpenHelper \/ HelperPiece \/ HelperRest
  <2>1. /\ UNCHANGED <<firmware, cards, old, dumps>> /\ job = "helper" /\ stage \in {"create", "pieces"}
        /\ \/ stage' = "pieces" /\ job' = "helper"
           \/ stage' = "create" /\ job' = "firmware"
    <3>1. CASE OpenHelper
      BY <3>1 DEF OpenHelper, source
    <3>2. CASE HelperPiece
      BY <3>2 DEF HelperPiece, source
    <3>3. CASE HelperRest
      BY <3>3 DEF HelperRest, NextJob, source
    <3> QED
      BY <1>2, <3>1, <3>2, <3>3
  <2>2. /\ \A c \in Card : DOMAIN copies'[c] = File /\ copies'[c]["firmware"] = copies[c]["firmware"]
        /\ calm' \in BOOLEAN
    <3>1. CASE OpenHelper
      <4>1. copies' = Created /\ UNCHANGED <<cards, job, calm>>
        BY <3>1 DEF OpenHelper
      <4> QED
        BY <1>0, <2>1, <4>1, CreatedFiles, HelperFiles DEF Shape
    <3>2. CASE HelperPiece \/ HelperRest
      <4>1. PICK bytes : AppendBuf(bytes)
        BY <3>2 DEF HelperPiece, HelperRest
      <4> QED
        BY <1>0, <2>1, <4>1, OtherJob, HelperFiles
    <3> QED
      BY <1>2, <3>1, <3>2
  <2>3. stage' \in {"app", "create", "pieces", "lost"} /\ job' \in File /\ cards' \subseteq Card
    BY <1>0, <2>1, HelperFiles
  <2>4. FirmwareTypes' /\ FirmwareInOrder' /\ (NoFirmware => NoFirmware')
    BY <2>1, <2>2, <2>3, FirmwareSame
  <2>5. NoFirmware
    BY <2>1 DEF FirmwareInv
  <2> QED
    BY <2>1, <2>4, <2>5, HelperFiles DEF FirmwareInv
<1> QED
  BY <1>1, <1>2

(* A word that fits stays as it is.                                        *)
LEMMA WordIs ==
  ASSUME IntBits = 16, NEW x \in Int
  PROVE  Word(x) \in Nat /\ (0 <= x /\ x < 2 ^ 31 => Word(x) = x)
<1> DEFINE b == 2 ^ 32
           h == 2 ^ 31
<1>1. b \in Nat \ {0} /\ h \in Nat /\ h <= b
  BY SMT
<1>2. Word(x) = x % b
  BY DEF Word
<1> HIDE DEF b
<1>3. x % b \in 0 .. b - 1 /\ (0 <= x /\ x < b => x % b = x)
  BY <1>1
<1> HIDE DEF h
<1>4. Word(x) \in Nat /\ (0 <= x /\ x < h => Word(x) = x)
  BY <1>1, <1>2, <1>3
<1> QED
  BY <1>4 DEF h

(* n bytes of a record end at its limit, or one byte behind it.            *)
Surplus(over) == IF over THEN <<Beyond>> ELSE <<>>
Cut(a, n, limit) == Bytes(a, Min({a + n, limit})) \o Surplus(a + n > limit)

LEMMA SurplusIs == Surplus(FALSE) = <<>> /\ Surplus(TRUE) = <<Beyond>>
BY Zenon DEF Surplus

LEMMA CutRecord ==
  ASSUME NEW a \in Nat, NEW limit \in Nat, a <= limit, NEW n \in Nat
  PROVE  /\ Cut(a, n, limit) \in Seq(Piece) /\ Len(Cut(a, n, limit)) <= n
         /\ a + n = limit => Cut(a, n, limit) = Bytes(a, limit)
         /\ a + n > limit => /\ Len(Cut(a, n, limit)) = limit - a + 1
                             /\ Cut(a, n, limit)[limit - a + 1] = Beyond
<1> DEFINE t == Cut(a, n, limit)
<1>1. Min({a + n, limit}) = IF a + n <= limit THEN a + n ELSE limit
  BY SmallerOf
<1>2. CASE a + n <= limit
  <2> DEFINE e == a + n
             s == Bytes(a, e)
  <2>1. e \in Nat /\ a <= e /\ e - a = n
    OBVIOUS
  <2>2. s \in Seq(Piece) /\ Len(s) = n
    <3> HIDE DEF e
    <3> QED
      BY <2>1, BytesAre
  <2>3. t = s \o <<>>
    <3>1. (a + n > limit) = FALSE /\ Min({a + n, limit}) = e
      BY <1>1, <1>2
    <3> QED
      BY <3>1, SurplusIs, Zenon DEF Cut
  <2>4. e = limit => s = Bytes(a, limit)
    OBVIOUS
  <2> HIDE DEF s, t
  <2>5. t = s
    BY <2>2, <2>3
  <2> QED
    BY <1>2, <2>2, <2>4, <2>5 DEF t
<1>3. CASE a + n > limit
  <2> DEFINE s == Bytes(a, limit)
             z == <<Beyond>>
             m == limit - a
  <2>1. s \in Seq(Piece) /\ Len(s) = m /\ m \in Nat
    BY BytesAre
  <2>2. t = s \o z
    <3>1. (a + n > limit) = TRUE /\ Min({a + n, limit}) = limit
      BY <1>1, <1>3
    <3> QED
      BY <3>1, SurplusIs, Zenon DEF Cut
  <2>3. z \in Seq(Piece) /\ Len(z) = 1 /\ z[1] = Beyond
    BY DEF Piece
  <2> HIDE DEF s, z, t
  <2>4. t \in Seq(Piece) /\ Len(t) = m + 1 /\ t[m + 1] = Beyond
    <3>1. /\ s \o z \in Seq(Piece) /\ Len(s \o z) = Len(s) + Len(z)
          /\ \A k \in 1 .. Len(z) : (s \o z)[Len(s) + k] = z[k]
      BY <2>1, <2>3, Joined
    <3>2. (s \o z)[Len(s) + 1] = z[1]
      BY <2>3, <3>1
    <3> QED
      BY <2>1, <2>2, <2>3, <3>1, <3>2
  <2> HIDE DEF m
  <2>5. m + 1 <= n /\ ~ a + n = limit
    BY <1>3 DEF m
  <2> QED
    BY <1>3, <2>4, <2>5 DEF t, m
<1> QED
  BY <1>2, <1>3

(* What is left of a firmware, and where its records end.                  *)
Limit(r) ==
  LET from == r * firmware.record
  IN IF from + firmware.record <= firmware.len THEN from + firmware.record ELSE firmware.len

LEMMA FromRecordIs ==
  ASSUME NEW n \in Nat, NEW r \in Nat, firmware.record \in Nat, firmware.len \in Nat
  PROVE  FromRecord(r, n) = Cut(r * firmware.record, n, Limit(r))
<1> DEFINE from == r * firmware.record
           to == from + firmware.record
           len == firmware.len
<1>1. from \in Int /\ to \in Int /\ len \in Int
  OBVIOUS
<1> HIDE DEF to
<1>2. Min({to, len}) = Limit(r)
  <2> HIDE DEF from, len
  <2>1. Min({to, len}) = IF to <= len THEN to ELSE len
    BY <1>1, SmallerOf
  <2> QED
    BY <2>1 DEF Limit, to, from, len
<1>3. Min({r * firmware.record + firmware.record, firmware.len}) = Limit(r)
  BY <1>2 DEF to
<1> QED
  BY <1>3, Zenon DEF FromRecord, Cut, Surplus

LEMMA Places ==
  ASSUME IntBits = 16, firmware \in Firmwares, firmware.len > 0
  PROVE  /\ firmware.record \in Nat \ {0} /\ firmware.len \in Nat \ {0} /\ firmware.len < 2 ^ 31
         /\ Records \in Nat \ {0} /\ Reached(0) = 0 /\ Reached(Records) = firmware.len
         /\ \A r \in 0 .. Records - 1 :
              /\ r * firmware.record \in Nat /\ r * firmware.record < firmware.len
              /\ Reached(r) = r * firmware.record /\ Limit(r) = Reached(r + 1)
              /\ Limit(r) \in Nat /\ r * firmware.record < Limit(r)
<1> DEFINE a == firmware.record
           len == firmware.len
           R == Records
<1>1. /\ R \in Nat \ {0} /\ a \in Nat \ {0} /\ (R - 1) * a < len /\ len <= R * a
  BY ChunkIs
<1>2. len \in Nat \ {0} /\ len < 2 ^ 31
  BY FirmwareIs
<1>3. \A r : Reached(r) = IF r * a <= len THEN r * a ELSE len
  BY DEF Reached
<1>4. \A r : Limit(r) = IF r * a + a <= len THEN r * a + a ELSE len
  BY DEF Limit
<1> HIDE DEF a, len, R
<1>5. Reached(0) = 0 /\ Reached(R) = len
  <2>1. R * a \in Nat /\ 0 * a = 0
    BY <1>1
  <2> QED
    BY <1>1, <1>2, <1>3, <2>1
<1>6. ASSUME NEW r \in 0 .. R - 1
      PROVE  /\ r * a \in Nat /\ r * a < len /\ Reached(r) = r * a /\ Limit(r) = Reached(r + 1)
             /\ Limit(r) \in Nat /\ r * a < Limit(r)
  <2>1. r * a \in Nat /\ (r + 1) * a = r * a + a /\ r * a + a > r * a
    BY <1>1
  <2>2. r * a <= (R - 1) * a /\ (R - 1) * a \in Nat
    BY <1>1
  <2> DEFINE x == r * a
             y == (r + 1) * a
  <2>3. x \in Nat /\ y = x + a /\ x < len
    BY <1>1, <1>2, <2>1, <2>2
  <2>4. Reached(r) = (IF x <= len THEN x ELSE len) /\ Reached(r + 1) = (IF y <= len THEN y ELSE len)
        /\ Limit(r) = (IF x + a <= len THEN x + a ELSE len)
    BY <1>3, <1>4
  <2> HIDE DEF x, y
  <2>5. Reached(r) = x /\ Limit(r) = Reached(r + 1) /\ Limit(r) \in Nat /\ x < Limit(r)
    BY <1>1, <1>2, <2>3, <2>4
  <2> QED
    BY <2>3, <2>5 DEF x
<1> QED
  BY <1>1, <1>2, <1>5, <1>6 DEF a, len, R

(* What the loop reads of record i, and what is left after it.             *)
LEMMA RecordRead ==
  ASSUME IntBits = 16, FirmwareTypes, FirmwarePlace, i < Records
  PROVE  LET t == FromRecord(i, AtMostLeft) IN
         /\ i \in Nat /\ t \in Seq(Piece) /\ Len(t) <= chunkSize /\ chunkSize \in Nat
         /\ Guessed => t = Bytes(Reached(i), Reached(i + 1))
         /\ Reached(i) \in Nat /\ Reached(i + 1) \in Nat /\ Reached(i) <= Reached(i + 1)
         /\ i = 0 /\ firmware.record < firmware.len /\ firmware.len < chunkSize =>
              Len(t) = firmware.record + 1 /\ t[firmware.record + 1] = Beyond
         /\ Word(fwSize - chunkSize) \in Nat
         /\ Guessed /\ i + 1 < Records =>
              Word(fwSize - chunkSize) = firmware.len - (i + 1) * firmware.record
<1> DEFINE a == firmware.record
           len == firmware.len
           R == Records
           from == i * a
           limit == Limit(i)
           n == AtMostLeft
           t == FromRecord(i, n)
<1>1. /\ a \in Nat \ {0} /\ len \in Nat \ {0} /\ len < 2 ^ 31 /\ R \in Nat \ {0} /\ 2 ^ 31 \in Nat
      /\ i \in 0 .. R - 1 /\ chunkSize = ChunkSize(len, R) /\ fwSize \in Nat
      /\ i = 0 => fwSize = len
      /\ Guessed => fwSize = len - from
  BY Places, HugeIs DEF FirmwareTypes, FirmwarePlace
<1>2. /\ from \in Nat /\ from < len /\ Reached(i) = from /\ limit = Reached(i + 1)
      /\ limit \in Nat /\ from < limit
  <2>1. \A r \in 0 .. R - 1 :
          /\ r * a \in Nat /\ r * a < len /\ Reached(r) = r * a /\ Limit(r) = Reached(r + 1)
          /\ Limit(r) \in Nat /\ r * a < Limit(r)
    BY Places DEF FirmwareTypes, FirmwarePlace
  <2> HIDE DEF a, len, R
  <2> QED
    BY <1>1, <2>1
<1>3. /\ chunkSize \in Nat /\ (R - 1) * a < len /\ len <= R * a
      /\ R = 1 => chunkSize >= len
      /\ R # 1 /\ Guessed => chunkSize = a
  BY <1>1, ChunkIs DEF FirmwareTypes, FirmwarePlace
<1>4. n = IF fwSize >= chunkSize THEN chunkSize ELSE fwSize
  BY DEF AtMostLeft
<1>5. n \in Nat /\ n <= chunkSize
  BY <1>1, <1>3, <1>4
<1>6. limit = IF from + a <= len THEN from + a ELSE len
  BY DEF Limit
<1>7. t = Cut(from, n, limit)
  BY <1>1, <1>5, FromRecordIs
<1> HIDE DEF t, n, limit, len, a, R
<1>8. Guessed => from + n = limit
  <2> SUFFICES ASSUME Guessed PROVE from + n = limit
    OBVIOUS
  <2>1. CASE R = 1
    <3>1. i = 0 /\ from = 0 /\ R * a = a
      BY <1>1, <2>1
    <3> QED
      BY <1>1, <1>3, <1>4, <1>6, <2>1, <3>1
  <2>2. CASE R # 1
    <3> HIDE DEF from
    <3> QED
      BY <1>1, <1>2, <1>3, <1>4, <1>6, <2>2
  <2> QED
    BY <2>1, <2>2
<1>9. /\ t \in Seq(Piece) /\ Len(t) <= n
      /\ Guessed => t = Bytes(from, limit)
      /\ from + n > limit => Len(t) = limit - from + 1 /\ t[limit - from + 1] = Beyond
  <2> HIDE DEF from
  <2>1. from \in Nat /\ limit \in Nat /\ from <= limit /\ n \in Nat
    BY <1>2, <1>5
  <2>2. /\ Cut(from, n, limit) \in Seq(Piece) /\ Len(Cut(from, n, limit)) <= n
        /\ from + n = limit => Cut(from, n, limit) = Bytes(from, limit)
        /\ from + n > limit => /\ Len(Cut(from, n, limit)) = limit - from + 1
                               /\ Cut(from, n, limit)[limit - from + 1] = Beyond
    BY <2>1, CutRecord
  <2> QED
    BY <1>7, <1>8, <2>2, Zenon
<1>10. Len(t) <= chunkSize
  BY <1>3, <1>5, <1>9
<1>11. i = 0 /\ a < len /\ len < chunkSize => Len(t) = a + 1 /\ t[a + 1] = Beyond
  <2> SUFFICES ASSUME i = 0, a < len, len < chunkSize PROVE Len(t) = a + 1 /\ t[a + 1] = Beyond
    OBVIOUS
  <2>1. from = 0
    BY <1>1
  <2> HIDE DEF from
  <2>2. n = len /\ limit = a
    BY <1>1, <1>3, <1>4, <1>6, <2>1
  <2>3. from + n > limit /\ limit - from + 1 = a + 1
    BY <1>1, <2>1, <2>2
  <2> QED
    BY <1>9, <2>3
<1>12. fwSize - chunkSize \in Int /\ Word(fwSize - chunkSize) \in Nat
  BY <1>1, <1>3, WordIs
<1>13. Guessed /\ i + 1 < R => Word(fwSize - chunkSize) = len - (i + 1) * a
  <2> SUFFICES ASSUME Guessed, i + 1 < R PROVE Word(fwSize - chunkSize) = len - (i + 1) * a
    OBVIOUS
  <2>1. /\ (i + 1) * a = from + a /\ R # 1
        /\ \A r \in 0 .. R - 1 : r * a \in Nat /\ r * a < len
    <3>1. \A r \in 0 .. R - 1 : r * a \in Nat /\ r * a < len
      BY Places DEF FirmwareTypes, FirmwarePlace, R, a, len
    <3> QED
      BY <1>1, <3>1
  <2> DEFINE next == (i + 1) * a
  <2>2. next \in Nat /\ next < len /\ next = from + a
    BY <1>1, <2>1
  <2> DEFINE x == fwSize - chunkSize
             h == 2 ^ 31
  <2>3. h \in Nat /\ len < h
    BY <1>1
  <2> HIDE DEF next, from, h
  <2>4. x = len - next /\ 0 <= x /\ x < h /\ x \in Int
    BY <1>1, <1>2, <1>3, <2>1, <2>2, <2>3 DEF from
  <2> HIDE DEF x
  <2>5. Word(x) = x
    BY <2>4, WordIs DEF h
  <2> QED
    BY <2>4, <2>5 DEF x, next
<1> QED
  BY <1>1, <1>2, <1>3, <1>9, <1>10, <1>11, <1>12, <1>13 DEF t, n, limit, len, a, R

LEMMA FirmwareOpenStep == IntBits = 16 /\ FirmwareInv /\ OpenFirmware => FirmwareInv'
<1> SUFFICES ASSUME IntBits = 16, FirmwareInv, OpenFirmware PROVE FirmwareInv'
  OBVIOUS
<1>1. /\ FirmwareTypes /\ Shape /\ Content("firmware") /\ NoFirmware
      /\ stage = "create" /\ job = "firmware" /\ firmware.len > 0
      /\ copies' = Created /\ stage' = "pieces"
      /\ i' = 0 /\ fwSize' = firmware.len /\ chunkSize' = ChunkSize(firmware.len, Records)
      /\ UNCHANGED <<cards, firmware, job, dumps, old, calm>>
  BY DEF OpenFirmware, FirmwareInv, FirmwareTypes, source
<1>2. /\ Shape' /\ Content("firmware")'
      /\ \A c \in Card :
           /\ copies[c]["firmware"] # Absent =>
                copies'[c]["firmware"] # Absent /\ Added(c, "firmware")' = Added(c, "firmware")
           /\ copies[c]["firmware"] = Absent /\ copies'[c]["firmware"] # Absent => Added(c, "firmware")' = <<>>
           /\ c \in cards => copies'[c]["firmware"] # Absent
  BY <1>1, CreatedFile, HelperFiles
<1>3. FirmwareTypes'
  BY <1>1, <1>2 DEF FirmwareTypes
<1>4. \A c \in Card : Here(c, "firmware")' => Added(c, "firmware")' = <<>>
  BY <1>1, <1>2 DEF NoFirmware, Here
<1>5. FirmwareInOrder'
  BY <1>4, NoneInOrder DEF FirmwareInOrder, InOrder
<1>6. /\ Records' = Records /\ (Guessed' <=> Guessed)
      /\ Records \in Nat \ {0} /\ firmware.len \in Nat
  BY <1>1, Places DEF FirmwareTypes, Records, RecordCount, Guessed
<1>7. FirmwarePlace'
  <2>1. ChunkSize(firmware.len, Records)' = ChunkSize(firmware.len, Records)
    BY <1>1, <1>6 DEF ChunkSize
  <2>2. firmware.record \in Nat /\ firmware.len \in Nat
    BY <1>1, Places DEF FirmwareTypes
  <2>3. 0 * firmware.record = 0 /\ firmware.len - 0 = firmware.len
    BY <2>2
  <2>4. 0 \in 0 .. Records
    BY <1>6
  <2> QED
    BY <1>1, <1>6, <2>1, <2>2, <2>3, <2>4 DEF FirmwarePlace
<1>8. FirmwareSoFar'
  <2>1. Reached(0) = 0 /\ Bytes(0, 0) = <<>>
    <3>1. Reached(0) = 0
      BY <1>1, Places DEF FirmwareTypes
    <3>2. Bytes(0, 0) \in Seq(Piece) /\ Len(Bytes(0, 0)) = 0
      BY BytesAre
    <3> QED
      BY <3>1, <3>2
  <2>2. ~ Guessed => \/ Records = 2 /\ firmware.len = 2 * chunkSize' + 1
                     \/ firmware.record < firmware.len /\ firmware.len < chunkSize'
    BY <1>1, ChunkIs DEF FirmwareTypes
  <2>3. ASSUME NEW c \in Card, Here(c, "firmware")'
        PROVE  /\ Guessed' => \A k \in 1 .. Len(Added(c, "firmware")') : Added(c, "firmware")'[k] < Reached(i)'
               /\ calm' /\ c \in cards' =>
                    /\ Guessed' => Added(c, "firmware")' = Bytes(0, Reached(i)')
                    /\ ~ Guessed' => Broken(Added(c, "firmware"))'
    <3>1. Added(c, "firmware")' = <<>> /\ Reached(i)' = Reached(0)
      BY <1>1, <1>4, <2>3 DEF Reached
    <3>2. ~ Guessed' => Broken(Added(c, "firmware"))'
      <4>1. chunkSize' \in Nat
        BY <1>1, ChunkIs DEF FirmwareTypes
      <4> DEFINE x == chunkSize'
      <4>2. 0 <= 0 * x
        <5>1. x \in Nat
          BY <4>1
        <5> HIDE DEF x
        <5> QED
          BY <5>1
      <4>3. Len(<<>>) = 0
        OBVIOUS
      <4> QED
        BY <1>1, <1>6, <2>2, <3>1, <4>2, <4>3 DEF Broken
    <3>3. 1 .. Len(<<>>) = {}
      OBVIOUS
    <3> QED
      BY <2>1, <3>1, <3>2, <3>3
  <2> QED
    BY <2>3 DEF FirmwareSoFar, Bytes
<1>9. FirmwareHere'
  BY <1>1, <1>2 DEF FirmwareHere, Here, Shape
<1> QED
  BY <1>1, <1>3, <1>5, <1>7, <1>8, <1>9, HelperFiles DEF FirmwareInv

LEMMA FirmwareRecordStep == IntBits = 16 /\ FirmwareInv /\ FirmwareRecord => FirmwareInv'
<1> SUFFICES ASSUME IntBits = 16, FirmwareInv, FirmwareRecord PROVE FirmwareInv'
  OBVIOUS
<1> DEFINE t == FromRecord(i, AtMostLeft)
<1>1. /\ stage = "pieces" /\ job = "firmware" /\ i < Records
      /\ AppendBuf(t) /\ fwSize' = Word(fwSize - chunkSize) /\ i' = i + 1
      /\ UNCHANGED <<stage, cards, firmware, job, chunkSize, dumps, old>>
  BY DEF FirmwareRecord, source
<1>2. /\ FirmwareTypes /\ FirmwarePlace /\ FirmwareSoFar /\ FirmwareHere /\ FirmwareInOrder
      /\ Shape /\ Content("firmware") /\ calm \in BOOLEAN
  BY <1>1 DEF FirmwareInv, FirmwareTypes
<1>3. /\ i \in Nat /\ t \in Seq(Piece) /\ Len(t) <= chunkSize /\ chunkSize \in Nat
      /\ Guessed => t = Bytes(Reached(i), Reached(i + 1))
      /\ Reached(i) \in Nat /\ Reached(i + 1) \in Nat /\ Reached(i) <= Reached(i + 1)
      /\ i = 0 /\ firmware.record < firmware.len /\ firmware.len < chunkSize =>
           Len(t) = firmware.record + 1 /\ t[firmware.record + 1] = Beyond
      /\ Word(fwSize - chunkSize) \in Nat
      /\ Guessed /\ i + 1 < Records =>
           Word(fwSize - chunkSize) = firmware.len - (i + 1) * firmware.record
  BY <1>1, <1>2, RecordRead
<1> HIDE DEF t
<1>4. /\ cards' \subseteq Card /\ (\A c \in Card : DOMAIN copies'[c] = File)
      /\ Content("firmware")' /\ calm' \in BOOLEAN /\ (calm' => calm)
      /\ \A c \in Card :
           /\ copies'[c]["firmware"] = Absent <=> copies[c]["firmware"] = Absent
           /\ copies[c]["firmware"] # Absent =>
                Added(c, "firmware")' \in {Added(c, "firmware"), Added(c, "firmware") \o t}
           /\ copies[c]["firmware"] # Absent /\ c \in cards /\ calm' =>
                Added(c, "firmware")' = Added(c, "firmware") \o t
  BY <1>1, <1>2, <1>3, AppendedFile, HelperFiles
<1>5. FirmwareTypes'
  BY <1>1, <1>2, <1>4 DEF FirmwareTypes, Shape
<1>6. /\ Records' = Records /\ (Guessed' <=> Guessed) /\ Records \in Nat
      /\ Reached(i)' = Reached(i + 1)
  <2>1. Records \in Nat
    BY <1>2, Places DEF FirmwareTypes, FirmwarePlace
  <2> QED
    BY <1>1, <2>1 DEF Records, RecordCount, Guessed, Reached
<1>7. FirmwarePlace'
  <2>1. ChunkSize(firmware.len, Records)' = ChunkSize(firmware.len, Records)
    BY <1>1, <1>6 DEF ChunkSize
  <2>2. i' \in 0 .. Records /\ i' # 0
    BY <1>1, <1>3, <1>6
  <2> QED
    BY <1>1, <1>2, <1>3, <1>6, <2>1, <2>2 DEF FirmwarePlace
<1>8. ASSUME NEW c \in Card, Here(c, "firmware")
      PROVE  /\ Guessed => /\ InOrder(Added(c, "firmware")')
                           /\ \A k \in 1 .. Len(Added(c, "firmware")') : Added(c, "firmware")'[k] < Reached(i + 1)
             /\ calm' /\ c \in cards =>
                  /\ Guessed => Added(c, "firmware")' = Bytes(0, Reached(i + 1))
                  /\ ~ Guessed => Broken(Added(c, "firmware"))'
  <2> DEFINE s == Added(c, "firmware")
             u == s \o t
             a == Reached(i)
             b == Reached(i + 1)
  <2>1. s \in Seq(Piece)
    BY <1>2, <1>8, AddedIn, HelperFiles DEF Here
  <2>2. /\ Guessed => InOrder(s) /\ \A k \in 1 .. Len(s) : s[k] < a
        /\ calm /\ c \in cards => (Guessed => s = Bytes(0, a)) /\ (~ Guessed => Broken(s))
    BY <1>2, <1>8 DEF FirmwareSoFar, FirmwareInOrder
  <2>3. /\ Added(c, "firmware")' \in {s, u}
        /\ calm' /\ c \in cards => calm /\ Added(c, "firmware")' = u
    BY <1>4, <1>8 DEF Here
  <2>4. /\ u \in Seq(Piece) /\ Len(u) = Len(s) + Len(t) /\ Len(s) \in Nat /\ Len(t) \in Nat
        /\ \A k \in 1 .. Len(s) : u[k] = s[k]
        /\ \A k \in 1 .. Len(t) : u[Len(s) + k] = t[k]
        /\ \A k \in 1 .. Len(s) + Len(t) : k > Len(s) => k - Len(s) \in 1 .. Len(t) /\ u[k] = t[k - Len(s)]
    <3> HIDE DEF s
    <3> QED
      BY <1>3, <2>1, Joined
  <2>p. a \in Nat /\ b \in Nat /\ a <= b /\ (Guessed => t = Bytes(a, b))
    BY <1>3
  <2> HIDE DEF s, a, b
  <2>5. ASSUME Guessed
        PROVE  /\ InOrder(u) /\ InOrder(s)
               /\ \A k \in 1 .. Len(u) : u[k] < b
               /\ \A k \in 1 .. Len(s) : s[k] < b
    <3>1. /\ InOrder(t) /\ Len(t) = b - a
          /\ \A k \in 1 .. b - a : t[k] >= a /\ t[k] < b
      BY <2>p, <2>5, BytesAre
    <3>2. \A k \in 1 .. Len(t) : t[k] >= a /\ t[k] < b
      BY <3>1
    <3>3. InOrder(u)
      BY <1>3, <2>1, <2>2, <2>5, <2>p, <3>1, <3>2, JoinedInOrder
    <3>4. \A k \in 1 .. Len(s) : s[k] < b
      <4>1. \A k \in 1 .. Len(s) : s[k] \in Int
        BY <2>1, PiecesAre
      <4> QED
        BY <2>2, <2>5, <2>p, <4>1
    <3> HIDE DEF u
    <3>5. \A k \in 1 .. Len(u) : u[k] < b
      <4> SUFFICES ASSUME NEW k \in 1 .. Len(u) PROVE u[k] < b
        OBVIOUS
      <4>1. CASE k <= Len(s)
        BY <2>4, <3>4, <4>1
      <4>2. CASE k > Len(s)
        BY <2>4, <3>2, <4>2
      <4> QED
        BY <2>4, <4>1, <4>2
    <3> QED
      BY <2>2, <2>5, <3>3, <3>4, <3>5
  <2>6. ASSUME calm, c \in cards, Guessed PROVE u = Bytes(0, b)
    <3>1. s = Bytes(0, a) /\ t = Bytes(a, b)
      BY <2>2, <2>6, <2>p
    <3> QED
      BY <2>p, <3>1, BytesJoin
  <2>7. ASSUME calm, c \in cards, ~ Guessed, Added(c, "firmware")' = u PROVE Broken(Added(c, "firmware"))'
    <3>1. /\ chunkSize' = chunkSize /\ firmware' = firmware /\ Records' = Records /\ i' = i + 1
          /\ firmware.record \in Nat \ {0}
      BY <1>1, <1>2, <1>6, Places DEF FirmwareTypes, FirmwarePlace
    <3>2. Broken(s)
      BY <2>2, <2>7
    <3> HIDE DEF u
    <3>3. CASE Records = 2 /\ firmware.len = 2 * chunkSize + 1 /\ Len(s) <= i * chunkSize
      <4>1. (i + 1) * chunkSize = i * chunkSize + chunkSize /\ i * chunkSize \in Nat
        BY <1>3
      <4>2. Len(u) <= (i + 1) * chunkSize
        BY <1>3, <2>4, <3>3, <4>1
      <4> QED
        BY <2>7, <3>1, <3>3, <4>2 DEF Broken
    <3>4. CASE /\ firmware.record < firmware.len /\ firmware.len < chunkSize
               /\ IF i = 0 THEN s = <<>> ELSE Len(s) > firmware.record /\ s[firmware.record + 1] = Beyond
      <4> DEFINE r == firmware.record + 1
      <4>1. Len(u) > firmware.record /\ u[r] = Beyond
        <5>1. CASE i = 0
          <6>1. Len(t) = r /\ t[r] = Beyond
            BY <1>3, <3>4, <5>1
          <6>2. u = t
            BY <1>3, <3>4, <5>1 DEF u
          <6>3. r > firmware.record
            BY <3>1
          <6> QED
            BY <6>1, <6>2, <6>3
        <5>2. CASE i # 0
          <6>1. r \in 1 .. Len(s) /\ s[r] = Beyond
            BY <2>4, <3>1, <3>4, <5>2
          <6>2. u[r] = s[r]
            BY <2>4, <6>1
          <6> QED
            BY <2>4, <3>1, <3>4, <5>2, <6>1, <6>2
        <5> QED
          BY <5>1, <5>2
      <4> QED
        BY <1>3, <2>7, <3>1, <3>4, <4>1 DEF Broken
    <3> QED
      BY <3>2, <3>3, <3>4 DEF Broken
  <2> QED
    BY <2>3, <2>5, <2>6, <2>7 DEF b
<1>9. FirmwareSoFar' /\ FirmwareInOrder'
  BY <1>1, <1>4, <1>6, <1>8 DEF FirmwareSoFar, FirmwareInOrder, InOrder, Here, Bytes
<1>10. FirmwareHere'
  BY <1>1, <1>2, <1>4 DEF FirmwareHere, Here, Shape
<1> QED
  BY <1>1, <1>5, <1>7, <1>9, <1>10, HelperFiles DEF FirmwareInv

LEMMA FirmwareDoneStep == IntBits = 16 /\ FirmwareInv /\ FirmwareDone => FirmwareInv'
<1> SUFFICES ASSUME IntBits = 16, FirmwareInv, FirmwareDone PROVE FirmwareInv'
  OBVIOUS
<1>1. /\ stage = "pieces" /\ job = "firmware" /\ i >= Records /\ stage' = "app" /\ job' = job
      /\ UNCHANGED <<cards, copies, firmware, i, chunkSize, dumps, old, calm>>
  BY HelperFiles DEF FirmwareDone, NextJob, source, locals
<1>2. /\ FirmwareTypes /\ FirmwarePlace /\ FirmwareSoFar /\ FirmwareHere
      /\ Shape /\ calm \in BOOLEAN /\ cards \subseteq Card
  BY <1>1 DEF FirmwareInv, FirmwareTypes, Shape
<1>3. /\ FirmwareTypes' /\ FirmwareInOrder'
      /\ \A c \in Card : /\ Here(c, "firmware")' = Here(c, "firmware")
                         /\ Added(c, "firmware")' = Added(c, "firmware")
      /\ Records' = Records /\ Guessed' = Guessed
  <2>1. /\ cards' \subseteq Card /\ calm' \in BOOLEAN /\ job' \in File
        /\ stage' \in {"app", "create", "pieces", "lost"}
        /\ \A c \in Card : DOMAIN copies'[c] = File /\ copies'[c]["firmware"] = copies[c]["firmware"]
    BY <1>1, <1>2, HelperFiles DEF Shape
  <2> QED
    BY <1>1, <2>1, FirmwareSame
<1>4. /\ Records \in Nat \ {0} /\ Reached(Records) = firmware.len
      /\ firmware.len \in Nat \ {0} /\ firmware.record \in Nat \ {0}
  BY <1>2, Places DEF FirmwareTypes, FirmwarePlace
<1>5. i = Records /\ Reached(i) = firmware.len
  <2>1. i = Records
    BY <1>1, <1>2, <1>4 DEF FirmwarePlace
  <2> QED
    BY <1>4, <2>1
<1>6. ASSUME calm, NEW c \in cards
      PROVE  /\ Here(c, "firmware")
             /\ Guessed => Added(c, "firmware") = Bytes(0, firmware.len)
             /\ ~ Guessed => Added(c, "firmware") # Bytes(0, firmware.len)
  <2> DEFINE s == Added(c, "firmware")
             v == Bytes(0, firmware.len)
  <2>1. Here(c, "firmware") /\ (Guessed => s = v) /\ (~ Guessed => Broken(s))
    BY <1>2, <1>5, <1>6 DEF FirmwareHere, FirmwareSoFar
  <2>2. Len(v) = firmware.len /\ \A k \in 1 .. firmware.len : v[k] = k - 1
    <3> DEFINE n == firmware.len
    <3>1. 0 \in Nat /\ n \in Nat /\ 0 <= n /\ n - 0 = n
      BY <1>4
    <3> HIDE DEF n
    <3>2. Len(Bytes(0, n)) = n /\ \A k \in 1 .. n : Bytes(0, n)[k] = 0 + k - 1
      BY <3>1, BytesAre
    <3> QED
      BY <3>2 DEF n
  <2>3. ASSUME Broken(s) PROVE s # v
    <3> HIDE DEF s, v
    <3>1. CASE Records = 2 /\ firmware.len = 2 * chunkSize + 1 /\ Len(s) <= i * chunkSize
      <4>1. chunkSize \in Nat /\ i = 2
        BY <1>2, <1>5, <3>1, ChunkIs DEF FirmwareTypes, FirmwarePlace
      <4> QED
        BY <2>2, <3>1, <4>1
    <3>2. CASE firmware.record < firmware.len /\ i # 0 /\ s[firmware.record + 1] = Beyond
      <4> DEFINE r == firmware.record + 1
      <4>1. r \in 1 .. firmware.len /\ r - 1 = firmware.record
        BY <1>4, <3>2
      <4> HIDE DEF r
      <4>2. v[r] = firmware.record
        BY <2>2, <4>1
      <4> QED
        BY <1>4, <3>2, <4>2 DEF Beyond, r
    <3> QED
      BY <1>4, <1>5, <2>3, <3>1, <3>2 DEF Broken
  <2> QED
    BY <2>1, <2>3
<1>7. FirmwareRight'
  BY <1>1, <1>3, <1>6, <1>2 DEF FirmwareRight, Bytes
<1> QED
  BY <1>1, <1>3, <1>7, HelperFiles DEF FirmwareInv

LEMMA FirmwareStep == IntBits = 16 /\ FirmwareInv /\ [DumpNext]_dumpVars => FirmwareInv'
BY FirmwareStart, FirmwareMove, FirmwareOther, FirmwareOpenStep, FirmwareRecordStep, FirmwareDoneStep,
   FirmwareStutter DEF DumpNext

(* A dump that nothing disturbed adds the firmware, whole and in order, to *)
(* the file on every card if Guessed says so, and something else if not.   *)
THEOREM FirmwareDumped == ASSUME IntBits = 16 PROVE DumpSpec => []FirmwareWhole
<1>1. FirmwareInv => FirmwareWhole
  BY DEF FirmwareInv, FirmwareRight, FirmwareWhole, Finished
<1>2. FirmwareInv /\ [DumpNext]_dumpVars => FirmwareInv'
  BY FirmwareStep
<1> QED
  BY <1>1, <1>2, FirmwareBegins, PTL DEF DumpSpec

(* Whatever the cards do, a file keeps what it had, and what a dump adds   *)
(* stands behind it in order.                                              *)
THEOREM DumpsAppend == ASSUME IntBits = 16 PROVE DumpSpec => []AddedInOrder
<1>1. HelperInv /\ FirmwareInv => AddedInOrder
  <2> SUFFICES ASSUME HelperInv, FirmwareInv, NEW c \in Card, NEW f \in File, copies[c][f] # Absent
               PROVE  /\ Begins(Before(c, f), copies[c][f])
                      /\ f = "helper" \/ Guessed => InOrder(Added(c, f))
    BY DEF AddedInOrder
  <2>1. Content(f)
    BY HelperFiles DEF HelperInv, HelperTypes, FirmwareInv, FirmwareTypes, File
  <2>2. f = "helper" \/ Guessed => InOrder(Added(c, f))
    BY HelperFiles DEF HelperInv, FirmwareInv, FirmwareInOrder, Here, File
  <2> QED
    BY <2>1, <2>2 DEF Content
<1>2. FirmwareInv /\ [DumpNext]_dumpVars => FirmwareInv'
  BY FirmwareStep
<1> QED
  BY <1>1, <1>2, FirmwareBegins, HelperBegins, HelperStep, PTL DEF DumpSpec
=============================================================================
