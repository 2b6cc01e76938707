------------------------------ MODULE Console ------------------------------
(***************************************************************************)
(* The USB serial console of m68k/cocoboot.c: the menu opens the port, and *)
(* on each round of the event loop handle_console takes what has arrived,  *)
(* splits it into commands and runs them.  The host at the other end of    *)
(* the cable sends lines; the port delivers their bytes in batches of any  *)
(* size.  A polite host waits for the prompt before its next line, others  *)
(* send ahead.                                                             *)
(***************************************************************************)
EXTENDS Integers, Sequences

CONSTANTS
  Char,         \* bytes that are not line ends
  CR, LF,       \* '\r' and '\n'
  Lines,        \* the lines the host may send
  LineEnds,     \* how it ends them: <<CR>>, <<LF>> or <<CR, LF>>
  BufSize,      \* sizeof(console_buffer)
  MaxLines,     \* bound: lines the host sends
  MaxOpens      \* bound: times the menu entry is chosen

Byte == Char \cup {CR, LF}

ASSUME ConsoleAssumption ==
  /\ CR # LF /\ CR \notin Char /\ LF \notin Char
  /\ Lines \subseteq Seq(Char)
  /\ LineEnds \subseteq {<<CR>>, <<LF>>, <<CR, LF>>}
  /\ BufSize \in Nat \ {0} /\ MaxLines \in Nat /\ MaxOpens \in Nat

VARIABLES
  pc,        \* "loop" in the event loop, "scan" inside handle_console
  usb_port,  \* TRUE when usb_port is not 0
  host,      \* the host: is it polite, and how does it end its lines
  wire,      \* bytes sent by the host and not yet received
  buf,       \* console_buffer up to console_buffer_fill
  i,         \* the scan index, from 0
  executed,  \* commands passed to handle_command that are not empty, in order
  sent,      \* lines the host has sent, in order
  prompts,   \* prompts the host has seen and not yet answered
  opens      \* times the console was opened

vars == <<pc, usb_port, host, wire, buf, i, executed, sent, prompts, opens>>

Init ==
  /\ pc = "loop" /\ usb_port = FALSE
  /\ host \in [polite : BOOLEAN, end : LineEnds]
  /\ wire = <<>> /\ buf = <<>> /\ i = 0
  /\ executed = <<>> /\ sent = <<>> /\ prompts = 0 /\ opens = 0

----------------------------------------------------------------------------
(* open_console from the menu.  SrmOpen may fail, and may refuse a port    *)
(* that is open already.                                                    *)
UsbConsole ==
  /\ pc = "loop" /\ opens < MaxOpens
  /\ usb_port' \in BOOLEAN
  /\ buf' = <<>>
  /\ prompts' = IF usb_port' THEN prompts + 1 ELSE prompts
  /\ opens' = opens + 1
  /\ UNCHANGED <<pc, host, wire, i, executed, sent>>

(* The host; the cable is of use only after the console was opened.        *)
HostSends ==
  /\ opens > 0 /\ Len(sent) < MaxLines
  /\ host.polite => prompts > 0
  /\ \E l \in Lines :
       /\ wire' = wire \o l \o host.end
       /\ sent' = Append(sent, l)
  /\ prompts' = IF host.polite THEN 0 ELSE prompts
  /\ UNCHANGED <<pc, usb_port, host, buf, i, executed, opens>>

----------------------------------------------------------------------------
(* handle_console.                                                         *)

Fits(n) == Len(buf) + n <= BufSize

(* The batch is cut to the size of the buffer, not to the room left in it. *)
Receive ==
  /\ pc = "loop" /\ usb_port /\ wire # <<>>
  /\ \E n \in 1 .. Len(wire) :
       /\ n <= BufSize
       /\ wire' = SubSeq(wire, n + 1, Len(wire))
       /\ IF Fits(n) THEN pc' = "scan" /\ buf' = buf \o SubSeq(wire, 1, n)
                     ELSE pc' = "wild" /\ UNCHANGED buf
  /\ i' = 0
  /\ UNCHANGED <<usb_port, host, executed, sent, prompts, opens>>

At(k) == buf[k + 1]
LineEndAt(k) == At(k) \in {CR, LF}

ScanOn ==
  /\ pc = "scan" /\ i < Len(buf) /\ ~ LineEndAt(i)
  /\ i' = i + 1
  /\ UNCHANGED <<pc, usb_port, host, wire, buf, executed, sent, prompts, opens>>

(* The last byte of the line end at k: "\r\n" and "\n\n" count as one.     *)
SingleEnd(k) == k
LastOfEnd(k) == IF k + 1 < Len(buf) /\ At(k + 1) = LF THEN k + 1 ELSE k

(* The buffer once bytes 0 to k are popped off.                            *)
KeepEnd(k) == SubSeq(buf, k + 1, Len(buf))
Popped(k) == SubSeq(buf, k + 2, Len(buf))

(* An empty command is answered with a prompt as well, but runs nothing.   *)
AddCommand(c) == IF c = <<>> THEN executed ELSE Append(executed, c)

(* A full command: run it, pop it off and go on with byte 1 of what is     *)
(* left, for the loop increments the index that was just set to 0.         *)

RunCommand ==
  /\ pc = "scan" /\ i < Len(buf) /\ LineEndAt(i)
  /\ executed' = AddCommand(SubSeq(buf, 1, i))
  /\ buf' = Popped(LastOfEnd(i))
  /\ i' = 1
  /\ prompts' = prompts + 1
  /\ UNCHANGED <<pc, usb_port, host, wire, sent, opens>>

StayInScan == pc' = "scan"
BackToLoop == pc' = "loop"

ScanEnds ==
  /\ pc = "scan" /\ i >= Len(buf)
  /\ BackToLoop
  /\ UNCHANGED <<usb_port, host, wire, buf, i, executed, sent, prompts, opens>>

Step == Receive \/ ScanOn \/ RunCommand \/ ScanEnds

Next == Step \/ UsbConsole \/ HostSends

(* The event loop wakes up every 10 ticks while the console is open.       *)
Spec == Init /\ [][Next]_vars
FairSpec == Spec /\ WF_vars(Step)

----------------------------------------------------------------------------
(* Properties.                                                             *)

Reader == INSTANCE LineReader
  WITH done <- executed, cut <- opens > 1

(* However the bytes of the host's lines are split into batches, the       *)
(* commands run are the lines sent, whole, once each and in order, with    *)
(* nothing but empty commands between them, which come from a "\r\n" split *)
(* by a batch.  Opening the console again may cut the line that is under   *)
(* way, but what is run is never a mixture of two lines.  No line sent is  *)
(* empty.                                                                  *)
LinesKept == Reader!Spec

(* A host that ends its lines with one byte, waits for the prompt before   *)
(* each of them and keeps them shorter than the buffer never makes         *)
(* handle_console write past it.  A host that sends "\r\n" may: when a     *)
(* batch splits the two, one line is answered by two prompts and the next  *)
(* two lines can be under way at once.                                     *)
NoOverrun ==
  host.polite /\ Len(host.end) = 1 /\ opens = 1
    /\ (\A l \in Lines : Len(l) < BufSize)
  => pc # "wild"

(* Between two rounds of the event loop the buffer holds the beginning of  *)
(* one line at most: every full command in it was run, as long as the host *)
(* sends no empty lines.                                                   *)
(* cocoboot.c:343 "do we have a full command?", 347 "yes! process it".     *)
NoneWaiting ==
  pc = "loop" /\ <<>> \notin Lines => \A k \in 1 .. Len(buf) : buf[k] \in Char

(* Every line sent over a console that stays open is run.                  *)
EveryLineRuns ==
  \A n \in 1 .. MaxLines :
    usb_port /\ opens = 1 /\ Len(sent) >= n
      ~> Len(executed) >= n \/ opens > 1 \/ pc = "wild"
=============================================================================
