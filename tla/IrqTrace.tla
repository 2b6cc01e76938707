------------------------------ MODULE IrqTrace ------------------------------
(***************************************************************************)
(* The memory trace: start_irq_trace and dump_trace_log in m68k/mainform.c *)
(* over install_irqhandler and the data-abort handler in arm/debug.c.  The *)
(* handler is copied into a feature chunk and the abort vector pointed at  *)
(* it; from then on every traced access of any program appends a frame of  *)
(* registers behind the handler.  The chunk is feature 0, the slot of the  *)
(* kernel, which check_image frees at every launch.                        *)
(*                                                                         *)
(* Memory behind the handler is counted in words.  A word is               *)
(* <<access, index in its frame>>, or Stale where this trace never wrote.  *)
(***************************************************************************)
EXTENDS Integers, Sequences, FiniteSetsExt

CONSTANTS
  Chunk,       \* memory that FtrPtrNew may grant
  Room,        \* words of the trace buffer behind the handler
  Frame,       \* 16: words the pointer moves for each access
  Batch,       \* 100: words of bigbuf
  Nowhere,     \* no chunk: an empty slot, Palm OS's own vector, words never set
  MaxAccesses  \* bound: traced accesses

ASSUME IrqTraceAssumption ==
  /\ {Room, Frame, Batch} \subseteq Nat \ {0}
  /\ Nowhere \notin Chunk /\ MaxAccesses \in Nat

Stale == <<0, 0>>

VARIABLES
  pc,        \* "idle" in the event loop, a step of install_irqhandler, "dump", "lost"
  slot,      \* the chunk of feature 0
  handler,   \* chunks whose memory holds an undamaged handler
  vector,    \* DATAH: the chunk of the handler that runs on an abort
  monitor,   \* the debug registers trap accesses
  base,      \* *0x68: the chunk whose words the log begins at
  end,       \* *0x64: [chunk, at], where the next frame goes
  ram,       \* the words of each chunk
  file,      \* /cocoboot.trc
  log, stop, \* the local pointers of dump_trace_log
  accesses,  \* traced accesses so far
  first,     \* history: the first access of the latest trace
  asked,     \* history: accesses when the dump began
  harm,      \* history: a frame was written outside the buffer
  kept,      \* history: feature 0 was not freed since the latest trace began
  reused,    \* history: a launch freed feature 0 under a trace
  blind,     \* history: a dump was asked for before any trace
  torn       \* history: a dump failed half way

memory == <<slot, handler, ram>>
hooks == <<vector, monitor, base, end>>
dump == <<file, log, stop, asked>>
history == <<accesses, first, harm, kept, reused, blind, torn>>
vars == <<pc, memory, hooks, dump, history>>

Init ==
  /\ pc = "idle" /\ slot = Nowhere /\ handler = {}
  /\ vector = Nowhere /\ monitor = FALSE
  /\ base = Nowhere /\ end = [chunk |-> Nowhere, at |-> 0]
  /\ ram = [c \in Chunk |-> [k \in 0 .. Room - 1 |-> Stale]]
  /\ file = <<>> /\ log = 0 /\ stop = 0
  /\ accesses = 0 /\ first = 1 /\ asked = 0
  /\ harm = FALSE /\ kept = FALSE /\ reused = FALSE /\ blind = FALSE /\ torn = FALSE

----------------------------------------------------------------------------
(* start_irq_trace.                                                        *)

Allocate(c) ==
  /\ pc = "idle" /\ slot = Nowhere
  /\ slot' = c
  /\ pc' = "copy"
  /\ UNCHANGED <<handler, ram, hooks, dump, history>>

(* An alert and nothing else: FtrPtrNew has no memory or the feature exists *)
(* already, load_parts cannot get feature 0 for a kernel while a trace     *)
(* holds it, or the file of a dump cannot be opened.                       *)
Refused == pc = "idle" /\ UNCHANGED vars

(* call_arm fails: the alert is that of a trace that did start, and the    *)
(* buffer is kept.                                                         *)
CallFails ==
  /\ pc = "copy"
  /\ pc' = "idle"
  /\ UNCHANGED <<memory, hooks, dump, history>>

(* install_irqhandler, step by step; an access of an earlier trace may be  *)
(* trapped in between.  The handler is copied through the data cache and   *)
(* nothing cleans that or empties the instruction cache: that the copy is  *)
(* what runs once the vector points at it is an assumption.                *)
CopyHandler ==
  /\ pc = "copy"
  /\ handler' = handler \cup {slot}
  /\ pc' = "vector"
  /\ UNCHANGED <<slot, ram, hooks, dump, history>>

MonitorTooEarly == monitor' = TRUE
MonitorLater == UNCHANGED monitor

SetVector ==
  /\ pc = "vector"
  /\ vector' = slot /\ MonitorLater
  /\ pc' = "pointers"
  /\ UNCHANGED <<memory, base, end, dump, history>>

(* The stores to 0x64 and 0x68 in one step: a frame between them would go  *)
(* to the new end and leave only the base, which no handler reads, behind. *)
SetPointers ==
  /\ pc = "pointers"
  /\ base' = slot /\ end' = [chunk |-> slot, at |-> 0]
  /\ first' = accesses + 1 /\ kept' = TRUE
  /\ pc' = "enable"
  /\ UNCHANGED <<memory, vector, monitor, dump, accesses, harm, reused, blind, torn>>

(* What comes back is the end of the handler, never 0: the user reads      *)
(* "Error:" and an address.                                                *)
Enable ==
  /\ pc = "enable"
  /\ monitor' = TRUE
  /\ pc' = "idle"
  /\ UNCHANGED <<memory, vector, base, end, dump, history>>

----------------------------------------------------------------------------
(* A traced access, by any program at any moment: the handler writes all   *)
(* but the last word of a frame and moves the pointer.                     *)

Inside(at) == at + Frame - 1 <= Room
Overlapping(at) == at + Frame - 1
NextFrame(at) == at + Frame

Record ==
  /\ monitor /\ pc # "lost" /\ accesses < MaxAccesses
  /\ vector \in handler /\ end.chunk # Nowhere
  /\ accesses' = accesses + 1
  /\ ram' = [ram EXCEPT ![end.chunk] = [k \in 0 .. Room - 1 |->
              IF k - end.at \in 0 .. Frame - 2 THEN <<accesses', k - end.at>> ELSE @[k]]]
  /\ end' = [end EXCEPT !.at = NextFrame(@)]
  /\ harm' = (harm \/ slot # end.chunk \/ ~ Inside(end.at))
  /\ UNCHANGED <<pc, slot, handler, vector, monitor, base, dump, first, kept, reused, blind, torn>>

(* The memory behind the vector is no handler any more, or the handler     *)
(* writes through words nobody has set.                                    *)
Runaway ==
  /\ monitor /\ pc # "lost"
  /\ vector \notin handler \/ end.chunk = Nowhere
  /\ pc' = "lost"
  /\ UNCHANGED <<memory, hooks, dump, history>>

----------------------------------------------------------------------------
(* What else happens to feature 0.                                         *)

(* A launch: check_image does not get feature 0 and frees it all the same. *)
Relaunch ==
  /\ pc = "idle" /\ slot # Nowhere
  /\ slot' = Nowhere
  /\ kept' = FALSE /\ reused' = TRUE
  /\ UNCHANGED <<pc, handler, ram, hooks, dump, accesses, first, harm, blind, torn>>

(* Memory that is free becomes a kernel or belongs to another program.     *)
Reuse(c) ==
  /\ pc # "lost" /\ c # slot
  /\ handler' = handler \ {c}
  /\ ram' = [ram EXCEPT ![c] = [k \in 0 .. Room - 1 |-> Stale]]
  /\ UNCHANGED <<pc, slot, hooks, dump, history>>

----------------------------------------------------------------------------
(* dump_trace_log.  Its end pointer is read once.                          *)

(* "TODO: make this safe when no trace has been run": whatever is found in *)
(* the two words is taken for addresses.                                   *)
DumpBlind ==
  /\ pc = "idle" /\ base = Nowhere
  /\ blind' = TRUE
  /\ \/ pc' = "lost" /\ UNCHANGED file
     \/ file' \in {file, <<Stale>>} /\ UNCHANGED pc
  /\ UNCHANGED <<memory, hooks, log, stop, asked, accesses, first, harm, kept, reused, torn>>

(* The file is opened for writing; what it holds already stays.            *)
OpenDump ==
  /\ pc = "idle" /\ base # Nowhere
  /\ log' = 0 /\ stop' = end.at /\ asked' = accesses
  /\ pc' = "dump"
  /\ UNCHANGED <<memory, hooks, file, history>>

WholeBatch == Batch
BatchLength == Min({Batch, stop - log})

(* The words of the log from log on; behind the buffer anything is read.   *)
Words(n) == [k \in 1 .. n |-> IF log + k <= Room THEN ram[base][log + k - 1] ELSE Stale]

(* The file with words written at the position reached so far.             *)
Written(words) ==
  [k \in 1 .. Max({Len(file), log + Len(words)}) |->
     IF k - log \in 1 .. Len(words) THEN words[k - log] ELSE file[k]]

WriteBatch ==
  /\ pc = "dump" /\ log < stop
  /\ file' = Written(Words(BatchLength))
  /\ log' = log + BatchLength
  /\ UNCHANGED <<pc, memory, hooks, stop, asked, history>>

WriteFails ==
  /\ pc = "dump" /\ log < stop
  /\ \E n \in 0 .. BatchLength - 1 : file' = Written(Words(n))
  /\ torn' = TRUE
  /\ pc' = "idle"
  /\ UNCHANGED <<memory, hooks, log, stop, asked, accesses, first, harm, kept, reused, blind>>

EndDump ==
  /\ pc = "dump" /\ log >= stop
  /\ pc' = "idle"
  /\ UNCHANGED <<memory, hooks, dump, history>>

Start == CallFails \/ CopyHandler \/ SetVector \/ SetPointers \/ Enable
Dump == DumpBlind \/ OpenDump \/ WriteBatch \/ WriteFails \/ EndDump

Next ==
  \/ Start \/ Dump \/ Record \/ Runaway \/ Relaunch \/ Refused
  \/ \E c \in Chunk : Allocate(c) \/ Reuse(c)

Spec == Init /\ [][Next]_vars

----------------------------------------------------------------------------
(* Properties.                                                             *)

(* A dump of a buffer that is still the trace's own holds a frame for each *)
(* access made since the trace began and before the dump was asked for, in *)
(* order and whole but for the word the handler never writes, as far as    *)
(* the buffer reaches: also when accesses are trapped during the dump.     *)
DumpIsTrace ==
  pc = "dump" /\ log >= stop /\ kept =>
    /\ stop = Frame * (asked - first + 1)
    /\ Len(file) >= stop
    /\ \A k \in 0 .. Min({stop, Room}) - 1 :
         k % Frame # Frame - 1 => file[k + 1] = <<first + (k \div Frame), k % Frame>>

(* traceparse.py reads the file frame by frame and takes no other length.  *)
(* Batches are not whole frames, but what dumps leave is, whatever was     *)
(* dumped before, unless a write failed or there was no trace; Palm OS is  *)
(* not lost in the middle of one.                                          *)
WholeFrames == pc \notin {"dump", "lost"} /\ ~ torn /\ ~ blind => Len(file) % Frame = 0

(* The trace does no harm, neither writing outside its buffer nor running  *)
(* code that is gone, before the buffer is full, as long as the            *)
(* application is not launched again and no dump precedes the trace.       *)
HarmNeedsCause ==
  harm \/ pc = "lost" => reused \/ blind \/ accesses * Frame - 1 > Room
=============================================================================
