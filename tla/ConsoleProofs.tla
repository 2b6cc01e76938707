---------------------------- MODULE ConsoleProofs ----------------------------
(***************************************************************************)
(* Proofs about the USB console, for every alphabet and every set of       *)
(* lines, every size of the buffer, any number of lines and openings, and  *)
(* every way the bytes can be cut into batches.                            *)
(***************************************************************************)
EXTENDS Console, SequenceTheorems, WellFoundedInduction, TLAPS

Ends == {CR, LF}
EndKinds == {<<CR>>, <<LF>>, <<CR, LF>>}

Types ==
  /\ pc \in {"loop", "scan", "wild"} /\ usb_port \in BOOLEAN
  /\ host.end \in EndKinds
  /\ buf \in Seq(Byte) /\ wire \in Seq(Byte)
  /\ i \in Nat /\ prompts \in Nat /\ opens \in Nat

(* The bytes that are still to be run: those received come first.          *)
Stream == buf \o wire

(* What follows a line end is the next line, or the '\n' of a "\r\n".      *)
Follows(s) ==
  \A k \in 1 .. Len(s) - 1 : s[k] \in Ends => s[k + 1] \in Char \/ (s[k] = CR /\ s[k + 1] = LF)

(* No line end is passed by the scan, although it skips a byte after each  *)
(* command.                                                                *)
Scanned ==
  /\ Follows(Stream)
  /\ pc = "scan" => \A k \in 1 .. Len(buf) : k <= i => buf[k] \in Char
  /\ pc = "loop" => \A k \in 1 .. Len(buf) : buf[k] \in Char

(* A polite host has one line under way at most, and none while it sees a  *)
(* prompt.                                                                 *)
PoliteHost == host.polite /\ Len(host.end) = 1 /\ \A l \in Lines : Len(l) < BufSize

OneLine ==
  /\ pc # "wild"
  /\ opens = 0 => Len(Stream) = 0 /\ prompts = 0 /\ pc = "loop" /\ ~ usb_port
  /\ \/ Len(Stream) = 0 /\ prompts <= 1
     \/ /\ prompts = 0 /\ Len(Stream) \in 1 .. BufSize
        /\ \A k \in 1 .. Len(Stream) - 1 : Stream[k] \notin Ends

Inv ==
  /\ Types
  /\ <<>> \notin Lines /\ pc # "wild" => Scanned
  /\ PoliteHost /\ opens <= 1 => OneLine

----------------------------------------------------------------------------
LEMMA Bytes ==
  /\ CR # LF /\ CR \notin Char /\ LF \notin Char /\ CR \in Byte /\ LF \in Byte
  /\ Lines \subseteq Seq(Byte) /\ BufSize \in Nat
  /\ \A l \in Lines : l \in Seq(Char)
<1>1. \A l \in Lines : l \in Seq(Char)
  BY ConsoleAssumption
<1>2. Char \subseteq Byte
  BY DEF Byte
<1>3. \A l \in Lines : l \in Seq(Byte)
  BY <1>1, <1>2, SeqMonotonic
<1> QED
  BY <1>1, <1>3, ConsoleAssumption DEF Byte

(* A line with its end, as the host sends it.                              *)
LEMMA LineSent ==
  ASSUME NEW l \in Lines, NEW e \in EndKinds
  PROVE  /\ l \o e \in Seq(Byte) /\ Len(l \o e) = Len(l) + Len(e) /\ Len(e) \in {1, 2}
         /\ Len(l) \in Nat /\ e \in Seq(Byte)
         /\ \A k \in 1 .. Len(l) : (l \o e)[k] \in Char
         /\ Follows(l \o e)
<1>1. l \in Seq(Byte) /\ l \in Seq(Char) /\ CR \in Byte /\ LF \in Byte
  BY Bytes
<1>2. e \in Seq(Byte) /\ Len(e) \in {1, 2} /\ e[1] \in Ends /\ (Len(e) = 2 => e[1] = CR /\ e[2] = LF)
  <2>1. CASE e = <<CR>>
    BY <1>1, <2>1 DEF Ends
  <2>2. CASE e = <<LF>>
    BY <1>1, <2>2 DEF Ends
  <2>3. CASE e = <<CR, LF>>
    BY <1>1, <2>3 DEF Ends
  <2> QED
    BY <2>1, <2>2, <2>3 DEF EndKinds
<1>3. /\ l \o e \in Seq(Byte) /\ Len(l \o e) = Len(l) + Len(e)
      /\ \A k \in 1 .. Len(l) + Len(e) : (l \o e)[k] = IF k <= Len(l) THEN l[k] ELSE e[k - Len(l)]
  BY <1>1, <1>2, ConcatProperties
<1>4. Len(l) \in Nat /\ \A k \in 1 .. Len(l) : l[k] \in Char
  BY <1>1
<1> DEFINE t == l \o e
           n == Len(l)
<1> HIDE DEF t
<1>5. \A k \in 1 .. n : t[k] \in Char
  BY <1>2, <1>3, <1>4 DEF t
<1>6. Follows(t)
  <2> SUFFICES ASSUME NEW k \in 1 .. Len(t) - 1, t[k] \in Ends
               PROVE  t[k + 1] \in Char \/ (t[k] = CR /\ t[k + 1] = LF)
    BY DEF Follows
  <2>1. Len(t) = n + Len(e)
    BY <1>3 DEF t
  <2>2. ~ k \in 1 .. n
    BY <1>5, Bytes DEF Ends
  <2>3. Len(e) = 2 /\ k = n + 1
    <3> DEFINE m == Len(e)
    <3>1. m \in {1, 2} /\ k \in 1 .. n + m - 1 /\ n \in Nat
      BY <1>2, <1>4, <2>1
    <3> HIDE DEF m, n
    <3>2. m = 2 /\ k = n + 1
      BY <2>2, <3>1
    <3> QED
      BY <3>2 DEF m
  <2>4. t[k] = e[1] /\ t[k + 1] = e[2]
    <3>1. k - n = 1 /\ (k + 1) - n = 2 /\ k \in 1 .. n + Len(e) /\ k + 1 \in 1 .. n + Len(e)
          /\ ~ k <= n /\ ~ k + 1 <= n
      BY <1>4, <2>3
    <3> QED
      BY <1>3, <3>1 DEF t
  <2> QED
    BY <1>2, <2>3, <2>4
<1> QED
  BY <1>2, <1>3, <1>4, <1>5, <1>6 DEF t

(* t is s without its first d bytes.                                       *)
Rest(t, s, d) == Len(t) = Len(s) - d /\ \A k \in 1 .. Len(t) : t[k] = s[k + d]

(* The end of a stream is ordered as the stream is.                        *)
LEMMA RestFollows ==
  ASSUME NEW s \in Seq(Byte), NEW t \in Seq(Byte), NEW d \in Nat, Rest(t, s, d), Follows(s)
  PROVE  Follows(t)
<1> SUFFICES ASSUME NEW k \in 1 .. Len(t) - 1, t[k] \in Ends
             PROVE  t[k + 1] \in Char \/ (t[k] = CR /\ t[k + 1] = LF)
  BY DEF Follows
<1>1. Len(s) \in Nat /\ Len(t) = Len(s) - d
  BY DEF Rest
<1>2. k + d \in 1 .. Len(s) - 1 /\ (k + 1) + d = (k + d) + 1 /\ k \in 1 .. Len(t) /\ k + 1 \in 1 .. Len(t)
  BY <1>1
<1>3. t[k] = s[k + d] /\ t[k + 1] = s[(k + d) + 1]
  <2>1. t[k + 1] = s[(k + 1) + d]
    BY <1>2 DEF Rest
  <2> QED
    BY <1>2, <2>1 DEF Rest
<1> QED
  BY <1>2, <1>3 DEF Follows

(* A line is added to an ordered stream.                                   *)
LEMMA MoreFollows ==
  ASSUME NEW s \in Seq(Byte), NEW t \in Seq(Byte), Follows(s), Follows(t), t # <<>> => t[1] \in Char
  PROVE  Follows(s \o t)
<1> DEFINE c == s \o t
           n == Len(s)
<1>1. n \in Nat /\ Len(t) \in Nat /\ Len(c) = n + Len(t)
      /\ \A k \in 1 .. n + Len(t) : c[k] = IF k <= n THEN s[k] ELSE t[k - n]
  BY ConcatProperties
<1> HIDE DEF c, n
<1> SUFFICES ASSUME NEW k \in 1 .. Len(c) - 1, c[k] \in Ends
             PROVE  c[k + 1] \in Char \/ (c[k] = CR /\ c[k + 1] = LF)
  BY DEF Follows, c
<1>2. k \in 1 .. n + Len(t) /\ k + 1 \in 1 .. n + Len(t)
  BY <1>1
<1>3. CASE k < n
  <2>1. c[k] = s[k] /\ c[k + 1] = s[k + 1] /\ k \in 1 .. n - 1
    BY <1>1, <1>2, <1>3
  <2> QED
    BY <2>1 DEF Follows, n
<1>4. CASE k = n
  <2>1. (k + 1) - n = 1 /\ ~ k + 1 <= n /\ t # <<>>
    BY <1>1, <1>2, <1>4
  <2>2. c[k + 1] = t[1]
    BY <1>1, <1>2, <2>1
  <2> QED
    BY <2>1, <2>2
<1>5. CASE k > n
  <2>1. k - n \in 1 .. Len(t) - 1 /\ (k + 1) - n = (k - n) + 1 /\ ~ k <= n /\ ~ k + 1 <= n
    BY <1>1, <1>2, <1>5
  <2>2. c[k] = t[k - n] /\ c[k + 1] = t[(k - n) + 1]
    BY <1>1, <1>2, <2>1
  <2> QED
    BY <2>1, <2>2 DEF Follows
<1> QED
  BY <1>1, <1>3, <1>4, <1>5

LEMMA StreamIs ==
  ASSUME Types
  PROVE  /\ Stream \in Seq(Byte) /\ Len(Stream) = Len(buf) + Len(wire)
         /\ Len(buf) \in Nat /\ Len(wire) \in Nat
         /\ \A k \in 1 .. Len(buf) : Stream[k] = buf[k] /\ k \in 1 .. Len(Stream)
         /\ \A k \in 1 .. Len(wire) : Stream[k + Len(buf)] = wire[k]
<1>1. buf \in Seq(Byte) /\ wire \in Seq(Byte) /\ Len(buf) \in Nat /\ Len(wire) \in Nat
  BY DEF Types
<1>2. /\ Stream \in Seq(Byte) /\ Len(Stream) = Len(buf) + Len(wire)
      /\ \A k \in 1 .. Len(buf) + Len(wire) :
           Stream[k] = IF k <= Len(buf) THEN buf[k] ELSE wire[k - Len(buf)]
  BY <1>1, ConcatProperties DEF Stream
<1>3. \A k \in 1 .. Len(buf) : Stream[k] = buf[k] /\ k \in 1 .. Len(Stream)
  BY <1>1, <1>2
<1>4. \A k \in 1 .. Len(wire) : Stream[k + Len(buf)] = wire[k]
  <2> TAKE k \in 1 .. Len(wire)
  <2>1. k + Len(buf) \in 1 .. Len(buf) + Len(wire) /\ ~ k + Len(buf) <= Len(buf)
        /\ (k + Len(buf)) - Len(buf) = k
    BY <1>1
  <2> QED
    BY <1>2, <2>1
<1> QED
  BY <1>1, <1>2, <1>3, <1>4

LEMMA Joined ==
  ASSUME NEW s \in Seq(Byte), NEW t \in Seq(Byte), NEW u \in Seq(Byte)
  PROVE  (s \o t) \o u = s \o (t \o u)
<1> DEFINE v == s \o t
           w == t \o u
           x == v \o u
           y == s \o w
<1>1. Len(s) \in Nat /\ Len(t) \in Nat /\ Len(u) \in Nat
  OBVIOUS
<1>2. /\ v \in Seq(Byte) /\ Len(v) = Len(s) + Len(t)
      /\ \A k \in 1 .. Len(s) + Len(t) : v[k] = IF k <= Len(s) THEN s[k] ELSE t[k - Len(s)]
  BY ConcatProperties
<1>3. /\ w \in Seq(Byte) /\ Len(w) = Len(t) + Len(u)
      /\ \A k \in 1 .. Len(t) + Len(u) : w[k] = IF k <= Len(t) THEN t[k] ELSE u[k - Len(t)]
  BY ConcatProperties
<1> HIDE DEF v, w
<1>a. v \in Seq(Byte) /\ w \in Seq(Byte)
  BY <1>2, <1>3
<1>4. /\ x \in Seq(Byte) /\ Len(x) = Len(v) + Len(u)
      /\ \A k \in 1 .. Len(v) + Len(u) : x[k] = IF k <= Len(v) THEN v[k] ELSE u[k - Len(v)]
  BY <1>a, ConcatProperties
<1>5. /\ y \in Seq(Byte) /\ Len(y) = Len(s) + Len(w)
      /\ \A k \in 1 .. Len(s) + Len(w) : y[k] = IF k <= Len(s) THEN s[k] ELSE w[k - Len(s)]
  BY <1>a, ConcatProperties
<1> HIDE DEF x, y
<1>6. Len(x) = Len(y) /\ Len(x) = Len(s) + Len(t) + Len(u)
  BY <1>1, <1>2, <1>3, <1>4, <1>5
<1>7. ASSUME NEW k \in 1 .. Len(x) PROVE x[k] = y[k]
  <2>1. x[k] = (IF k <= Len(v) THEN v[k] ELSE u[k - Len(v)]) /\ y[k] = IF k <= Len(s) THEN s[k] ELSE w[k - Len(s)]
    BY <1>1, <1>2, <1>3, <1>4, <1>5, <1>6
  <2>2. CASE k <= Len(s)
    <3>1. k <= Len(v) /\ k \in 1 .. Len(s) + Len(t)
      BY <1>1, <1>2, <1>6, <2>2
    <3> QED
      BY <1>2, <2>1, <2>2, <3>1
  <2>3. CASE ~ k <= Len(s) /\ k <= Len(v)
    <3>1. k \in 1 .. Len(s) + Len(t) /\ k - Len(s) \in 1 .. Len(t) + Len(u) /\ k - Len(s) <= Len(t)
      BY <1>1, <1>2, <1>6, <2>3
    <3> QED
      BY <1>2, <1>3, <2>1, <2>3, <3>1
  <2>4. CASE ~ k <= Len(v)
    <3>1. ~ k <= Len(s) /\ k - Len(s) \in 1 .. Len(t) + Len(u) /\ ~ k - Len(s) <= Len(t)
          /\ (k - Len(s)) - Len(t) = k - Len(v)
      BY <1>1, <1>2, <1>6, <2>4
    <3> QED
      BY <1>3, <2>1, <2>4, <3>1
  <2> QED
    BY <2>2, <2>3, <2>4
<1>8. x = y
  BY <1>4, <1>5, <1>6, <1>7, SeqEqual
<1> QED
  BY <1>8 DEF x, y, v, w

(* Receiving moves bytes within the stream.                                *)
LEMMA SameStream ==
  ASSUME Types, NEW n \in 1 .. Len(wire),
         wire' = SubSeq(wire, n + 1, Len(wire)), buf' = buf \o SubSeq(wire, 1, n)
  PROVE  Stream' = Stream /\ wire' \in Seq(Byte) /\ buf' \in Seq(Byte)
<1> DEFINE a == SubSeq(wire, 1, n)
           b == SubSeq(wire, n + 1, Len(wire))
<1>1. buf \in Seq(Byte) /\ wire \in Seq(Byte) /\ Len(wire) \in Nat
  BY DEF Types
<1>2. a \in Seq(Byte) /\ b \in Seq(Byte) /\ Len(a) = n /\ Len(b) = Len(wire) - n
      /\ (\A k \in 1 .. n : a[k] = wire[k]) /\ \A k \in 1 .. Len(wire) - n : b[k] = wire[k + n]
  <2>1. /\ a \in Seq(Byte) /\ Len(a) = n /\ \A k \in 1 .. n : a[k] = wire[k]
    BY <1>1
  <2>2. /\ b \in Seq(Byte) /\ Len(b) = Len(wire) - n /\ \A k \in 1 .. Len(wire) - n : b[k] = wire[k + n]
    BY <1>1
  <2> QED
    BY <2>1, <2>2
<1> HIDE DEF a, b
<1>3. a \o b = wire
  <2>1. Len(a \o b) = Len(wire) /\ a \o b \in Seq(Byte)
    <3>1. Len(a \o b) = Len(a) + Len(b) /\ a \o b \in Seq(Byte)
      BY <1>2, ConcatProperties
    <3> QED
      BY <1>1, <1>2, <3>1
  <2>2. ASSUME NEW k \in 1 .. Len(wire) PROVE (a \o b)[k] = wire[k]
    <3>1. (a \o b)[k] = IF k <= n THEN a[k] ELSE b[k - n]
      BY <1>1, <1>2, ConcatProperties
    <3>2. CASE k <= n
      BY <1>1, <1>2, <3>1, <3>2
    <3>3. CASE ~ k <= n
      <4>1. k - n \in 1 .. Len(wire) - n /\ (k - n) + n = k
        BY <1>1, <3>3
      <4> QED
        BY <1>2, <3>1, <3>3, <4>1
    <3> QED
      BY <3>2, <3>3
  <2> QED
    BY <1>1, <2>1, <2>2, SeqEqual
<1>4. (buf \o a) \o b = buf \o (a \o b)
  BY <1>1, <1>2, Joined
<1>5. buf \o a \in Seq(Byte)
  BY <1>1, <1>2, ConcatProperties
<1> QED
  BY <1>2, <1>3, <1>4, <1>5 DEF Stream, a, b

(* Sending adds to the stream.                                             *)
LEMMA StreamGrows ==
  ASSUME Types, NEW l \in Lines, wire' = wire \o l \o host.end, buf' = buf
  PROVE  Stream' = Stream \o (l \o host.end) /\ wire' \in Seq(Byte)
<1> DEFINE e == host.end
<1>1. buf \in Seq(Byte) /\ wire \in Seq(Byte) /\ l \in Seq(Byte) /\ e \in Seq(Byte) /\ l \o e \in Seq(Byte)
  <2>1. host.end \in EndKinds
    BY DEF Types
  <2> QED
    BY <2>1, LineSent, Bytes DEF Types
<1> HIDE DEF e
<1>2. (wire \o l) \o e = wire \o (l \o e) /\ wire \o (l \o e) \in Seq(Byte)
  BY <1>1, Joined, ConcatProperties
<1>3. buf \o (wire \o (l \o e)) = (buf \o wire) \o (l \o e)
  BY <1>1, Joined
<1> QED
  BY <1>2, <1>3 DEF Stream, e

(* Popping a command takes bytes off the beginning of the stream.          *)
LEMMA StreamShrinks ==
  ASSUME Types, NEW k \in Nat, k + 1 <= Len(buf), buf' = Popped(k), wire' = wire
  PROVE  /\ buf' \in Seq(Byte) /\ Len(buf') = Len(buf) - (k + 1)
         /\ Stream' \in Seq(Byte) /\ Len(Stream') = Len(Stream) - (k + 1)
         /\ \A j \in 1 .. Len(Stream') : Stream'[j] = Stream[j + (k + 1)]
         /\ \A j \in 1 .. Len(buf') : buf'[j] = buf[j + (k + 1)]
<1> DEFINE b == SubSeq(buf, k + 2, Len(buf))
           d == k + 1
<1>1. buf \in Seq(Byte) /\ wire \in Seq(Byte) /\ Len(buf) \in Nat /\ Len(wire) \in Nat
  BY DEF Types
<1>2. b \in Seq(Byte) /\ Len(b) = Len(buf) - d /\ (\A j \in 1 .. Len(b) : b[j] = buf[j + d])
      /\ d \in Nat /\ d <= Len(buf)
  BY <1>1
<1>3. buf' = b
  BY DEF Popped
<1> HIDE DEF b, d
<1>4. /\ b \o wire \in Seq(Byte) /\ Len(b \o wire) = Len(b) + Len(wire)
      /\ \A j \in 1 .. Len(b) + Len(wire) : (b \o wire)[j] = IF j <= Len(b) THEN b[j] ELSE wire[j - Len(b)]
  BY <1>1, <1>2, ConcatProperties
<1>5. /\ Len(buf \o wire) = Len(buf) + Len(wire)
      /\ \A j \in 1 .. Len(buf) + Len(wire) :
           (buf \o wire)[j] = IF j <= Len(buf) THEN buf[j] ELSE wire[j - Len(buf)]
  BY <1>1, ConcatProperties
<1>6. ASSUME NEW j \in 1 .. Len(b) + Len(wire) PROVE (b \o wire)[j] = (buf \o wire)[j + d]
  <2>1. j + d \in 1 .. Len(buf) + Len(wire) /\ (j <= Len(b) <=> j + d <= Len(buf))
        /\ j - Len(b) = (j + d) - Len(buf)
    BY <1>1, <1>2
  <2>2. (buf \o wire)[j + d] = IF j + d <= Len(buf) THEN buf[j + d] ELSE wire[(j + d) - Len(buf)]
    BY <1>5, <2>1
  <2>3. CASE j <= Len(b)
    <3>1. b[j] = buf[j + d]
      BY <1>1, <1>2, <2>3
    <3> QED
      BY <1>4, <2>1, <2>2, <2>3, <3>1
  <2>4. CASE ~ j <= Len(b)
    BY <1>4, <2>1, <2>2, <2>4
  <2> QED
    BY <2>3, <2>4
<1> QED
  BY <1>1, <1>2, <1>3, <1>4, <1>5, <1>6 DEF Stream, d

----------------------------------------------------------------------------
LEMMA InitInv == Init => Inv
<1> SUFFICES ASSUME Init PROVE Inv
  OBVIOUS
<1>1. Types
  <2>1. host.end \in LineEnds
    BY DEF Init
  <2>2. buf \in Seq(Byte) /\ wire \in Seq(Byte)
    BY DEF Init
  <2> QED
    BY <2>1, <2>2, ConsoleAssumption DEF Init, Types, EndKinds
<1>2. Stream \in Seq(Byte) /\ Len(Stream) = 0 /\ Len(buf) = 0
  <2>1. Len(buf) = 0 /\ Len(wire) = 0
    BY DEF Init
  <2> QED
    BY <1>1, <2>1, StreamIs
<1>3. Scanned
  BY <1>2 DEF Init, Scanned, Follows
<1>4. OneLine
  BY <1>2 DEF Init, OneLine
<1> QED
  BY <1>1, <1>3, <1>4 DEF Inv

(* Opening drops the buffer.                                               *)
LEMMA UsbConsoleInv == Inv /\ UsbConsole => Inv'
<1> SUFFICES ASSUME Inv, UsbConsole PROVE Inv'
  OBVIOUS
<1>1. Types'
  BY DEF Inv, Types, UsbConsole
<1>2. Types
  BY DEF Inv
<1>3. Stream' \in Seq(Byte) /\ Len(Stream') = Len(wire) /\ \A k \in 1 .. Len(Stream') : Stream'[k] = wire[k]
  <2>1. Stream' = <<>> \o wire /\ wire \in Seq(Byte)
    BY <1>2 DEF UsbConsole, Stream, Types
  <2> QED
    BY <2>1, ConcatEmptySeq
<1>4. ASSUME <<>> \notin Lines, pc' # "wild" PROVE Scanned'
  <2>1. Follows(Stream)
    BY <1>4 DEF Inv, Scanned, UsbConsole
  <2> DEFINE d == Len(buf)
  <2>2. d \in Nat /\ Stream \in Seq(Byte) /\ Rest(Stream', Stream, d)
    <3>1. d \in Nat /\ Stream \in Seq(Byte) /\ Len(Stream) = d + Len(wire) /\ Len(wire) \in Nat
          /\ \A k \in 1 .. Len(wire) : Stream[k + d] = wire[k]
      BY <1>2, StreamIs
    <3> HIDE DEF d
    <3>2. Len(Stream') = Len(Stream) - d
      BY <1>3, <3>1
    <3>3. ASSUME NEW k \in 1 .. Len(Stream') PROVE Stream'[k] = Stream[k + d]
      <4>1. k \in 1 .. Len(wire) /\ Stream'[k] = wire[k]
        BY <1>3
      <4> QED
        BY <3>1, <4>1
    <3> QED
      BY <3>1, <3>2, <3>3 DEF Rest
  <2> HIDE DEF d
  <2>3. Follows(Stream')
    BY <1>3, <2>1, <2>2, RestFollows
  <2>4. Follows(Stream)'
    BY <2>3 DEF Follows
  <2> QED
    BY <2>4 DEF Scanned, UsbConsole
<1>5. ASSUME PoliteHost', opens' <= 1 PROVE OneLine'
  <2>1. opens = 0 /\ PoliteHost
    BY <1>2, <1>5 DEF UsbConsole, Types, PoliteHost
  <2>2. Len(Stream) = 0 /\ prompts = 0
    BY <1>2, <2>1 DEF Inv, OneLine
  <2>3. Len(Stream') = 0
    BY <1>2, <1>3, <2>2, StreamIs
  <2>4. opens' # 0 /\ prompts' <= 1 /\ pc' # "wild"
    BY <1>2, <2>1, <2>2 DEF UsbConsole, Types
  <2> QED
    BY <2>3, <2>4 DEF OneLine
<1> QED
  BY <1>1, <1>4, <1>5 DEF Inv

(* A polite host sends onto an empty stream.                               *)
LEMMA HostSendsInv == Inv /\ HostSends => Inv'
<1> SUFFICES ASSUME Inv, HostSends PROVE Inv'
  OBVIOUS
<1>1. Types
  BY DEF Inv
<1>2. PICK l \in Lines : wire' = wire \o l \o host.end
  BY DEF HostSends
<1> DEFINE t == l \o host.end
<1>3. host.end \in EndKinds
  BY <1>1 DEF Types
<1>4. /\ t \in Seq(Byte) /\ Len(t) = Len(l) + Len(host.end) /\ Len(host.end) \in {1, 2} /\ Len(l) \in Nat
      /\ \A k \in 1 .. Len(l) : t[k] \in Char
      /\ Follows(t)
  BY <1>3, LineSent
<1>5. Stream' = Stream \o t /\ wire' \in Seq(Byte)
  BY <1>1, <1>2, StreamGrows DEF HostSends
<1> HIDE DEF t
<1>6. Types'
  BY <1>1, <1>5 DEF Types, HostSends
<1>7. Stream \in Seq(Byte)
  BY <1>1, StreamIs
<1>8. ASSUME <<>> \notin Lines, pc' # "wild" PROVE Scanned'
  <2>1. Scanned
    BY <1>8 DEF Inv, HostSends
  <2>2. t[1] \in Char
    <3>1. l # <<>> /\ l \in Seq(Byte)
      BY <1>8, Bytes
    <3>2. Len(l) # 0
      BY <3>1, EmptySeq
    <3>3. 1 \in 1 .. Len(l)
      BY <1>4, <3>2
    <3> QED
      BY <1>4, <3>3
  <2>3. Follows(Stream')
    BY <1>4, <1>5, <1>7, <2>1, <2>2, MoreFollows DEF Scanned
  <2>4. Follows(Stream)'
    BY <2>3 DEF Follows
  <2> QED
    BY <2>1, <2>4 DEF Scanned, HostSends
<1>9. ASSUME PoliteHost', opens' <= 1 PROVE OneLine'
  <2>1. PoliteHost /\ opens <= 1 /\ prompts > 0 /\ prompts' = 0 /\ opens' = opens /\ opens > 0 /\ pc' = pc
    BY <1>9 DEF PoliteHost, HostSends
  <2>2. OneLine
    BY <2>1 DEF Inv
  <2>3. Len(Stream) = 0
    BY <2>1, <2>2 DEF OneLine
  <2>4. Stream' = t
    <3>1. Stream = <<>>
      BY <1>7, <2>3, EmptySeq
    <3> QED
      BY <1>4, <1>5, <3>1, ConcatEmptySeq
  <2>5. Len(host.end) = 1 /\ Len(l) < BufSize /\ BufSize \in Nat
    BY <2>1, Bytes DEF PoliteHost
  <2>6. Len(t) \in 1 .. BufSize /\ \A k \in 1 .. Len(t) - 1 : t[k] \notin Ends
    <3>1. Len(t) = Len(l) + 1
      BY <1>4, <2>5
    <3>2. Len(t) \in 1 .. BufSize /\ Len(t) - 1 = Len(l)
      BY <1>4, <2>5, <3>1
    <3> QED
      BY <1>4, <3>2, Bytes DEF Ends
  <2> QED
    BY <1>1, <2>1, <2>2, <2>4, <2>6 DEF OneLine, Types
<1> QED
  BY <1>6, <1>8, <1>9 DEF Inv

(* The bytes received are bytes of the stream already.                     *)
LEMMA ReceiveInv == Inv /\ Receive => Inv'
<1> SUFFICES ASSUME Inv, Receive PROVE Inv'
  OBVIOUS
<1>1. Types
  BY DEF Inv
<1>2. PICK n \in 1 .. Len(wire) :
        /\ n <= BufSize
        /\ wire' = SubSeq(wire, n + 1, Len(wire))
        /\ IF Fits(n) THEN pc' = "scan" /\ buf' = buf \o SubSeq(wire, 1, n)
                      ELSE pc' = "wild" /\ UNCHANGED buf
  BY DEF Receive
<1>3. CASE Fits(n)
  <2>1. Stream' = Stream /\ wire' \in Seq(Byte) /\ buf' \in Seq(Byte) /\ pc' = "scan"
    BY <1>1, <1>2, <1>3, SameStream
  <2>2. Types'
    BY <1>1, <2>1 DEF Types, Receive
  <2>3. ASSUME <<>> \notin Lines PROVE Scanned'
    <3>1. Follows(Stream)
      BY <2>3 DEF Inv, Scanned, Receive
    <3>2. Follows(Stream)'
      BY <2>1, <3>1 DEF Follows
    <3> QED
      BY <2>1, <2>2, <3>2 DEF Scanned, Receive, Types
  <2>4. ASSUME PoliteHost', opens' <= 1 PROVE OneLine'
    <3>1. OneLine
      BY <2>4 DEF Inv, PoliteHost, Receive
    <3>2. opens # 0
      BY <3>1 DEF OneLine, Receive
    <3> QED
      BY <2>1, <3>1, <3>2 DEF OneLine, Receive
  <2> QED
    BY <2>2, <2>3, <2>4 DEF Inv
<1>4. CASE ~ Fits(n)
  <2>1. wire' \in Seq(Byte) /\ buf' = buf /\ pc' = "wild"
    <3>1. wire \in Seq(Byte) /\ Len(wire) \in Nat
      BY <1>1 DEF Types
    <3>2. SubSeq(wire, n + 1, Len(wire)) \in Seq(Byte)
      BY <3>1
    <3> QED
      BY <1>2, <1>4, <3>2
  <2>2. Types'
    BY <1>1, <2>1 DEF Types, Receive
  <2>3. ASSUME PoliteHost, opens <= 1 PROVE FALSE
    <3>1. OneLine /\ opens # 0
      BY <2>3 DEF Inv, OneLine, Receive
    <3>2. Len(Stream) = Len(buf) + Len(wire) /\ Len(buf) \in Nat /\ Len(wire) \in Nat
      BY <1>1, StreamIs
    <3>3. Len(buf) + n <= BufSize
      BY <3>1, <3>2, Bytes DEF OneLine
    <3> QED
      BY <1>4, <3>3 DEF Fits
  <2> QED
    BY <2>1, <2>2, <2>3 DEF Inv, PoliteHost, Receive
<1> QED
  BY <1>3, <1>4

LEMMA ScanOnInv == Inv /\ ScanOn => Inv'
<1> SUFFICES ASSUME Inv, ScanOn PROVE Inv'
  OBVIOUS
<1>1. Types /\ Types'
  BY DEF Inv, Types, ScanOn
<1>2. Stream' = Stream
  BY DEF Stream, ScanOn
<1>3. buf[i + 1] \in Char
  <2>1. i + 1 \in 1 .. Len(buf) /\ buf \in Seq(Byte)
    BY <1>1 DEF Types, ScanOn
  <2>2. buf[i + 1] \in Byte
    BY <2>1, ElementOfSeq
  <2> QED
    BY <2>2 DEF Byte, ScanOn, LineEndAt, At
<1>4. ASSUME <<>> \notin Lines PROVE Scanned'
  <2>1. Scanned
    BY <1>4 DEF Inv, ScanOn
  <2>2. \A k \in 1 .. Len(buf) : k <= i + 1 => buf[k] \in Char
    <3> SUFFICES ASSUME NEW k \in 1 .. Len(buf), k <= i + 1 PROVE buf[k] \in Char
      OBVIOUS
    <3>1. k <= i \/ k = i + 1
      BY <1>1 DEF Types
    <3> QED
      BY <1>3, <2>1, <3>1 DEF Scanned, ScanOn
  <2>3. Follows(Stream)'
    BY <1>2, <2>1 DEF Follows, Scanned
  <2> QED
    BY <2>2, <2>3 DEF Scanned, ScanOn
<1>5. ASSUME PoliteHost', opens' <= 1 PROVE OneLine'
  BY <1>2, <1>5 DEF Inv, OneLine, PoliteHost, ScanOn
<1> QED
  BY <1>1, <1>4, <1>5 DEF Inv

LEMMA ScanEndsInv == Inv /\ ScanEnds => Inv'
<1> SUFFICES ASSUME Inv, ScanEnds PROVE Inv'
  OBVIOUS
<1>1. Types /\ Types'
  BY DEF Inv, Types, ScanEnds, BackToLoop
<1>2. Stream' = Stream
  BY DEF Stream, ScanEnds
<1>3. ASSUME <<>> \notin Lines PROVE Scanned'
  <2>1. Scanned
    BY <1>3 DEF Inv, ScanEnds
  <2>2. \A k \in 1 .. Len(buf) : k <= i
    BY <1>1 DEF Types, ScanEnds
  <2>3. Follows(Stream)'
    BY <1>2, <2>1 DEF Follows, Scanned
  <2> QED
    BY <2>1, <2>2, <2>3 DEF Scanned, ScanEnds, BackToLoop
<1>4. ASSUME PoliteHost', opens' <= 1 PROVE OneLine'
  BY <1>2, <1>4 DEF Inv, OneLine, PoliteHost, ScanEnds, BackToLoop
<1> QED
  BY <1>1, <1>3, <1>4 DEF Inv

(* The byte that the scan skips after a command begins a line: the '\n' of *)
(* the line end was popped with it.                                        *)
LEMMA RunCommandInv == Inv /\ RunCommand => Inv'
<1> SUFFICES ASSUME Inv, RunCommand PROVE Inv'
  OBVIOUS
<1> DEFINE e == LastOfEnd(i)
<1>1. Types
  BY DEF Inv
<1>2. i \in Nat /\ i < Len(buf) /\ Len(buf) \in Nat /\ buf[i + 1] \in Ends /\ buf \in Seq(Byte)
  BY <1>1 DEF Types, RunCommand, LineEndAt, At, Ends
<1>3. \/ e = i /\ (i + 1 < Len(buf) => buf[(i + 1) + 1] # LF)
      \/ e = i + 1 /\ i + 1 < Len(buf) /\ buf[(i + 1) + 1] = LF
  BY DEF LastOfEnd, At
<1>4. buf' = Popped(e) /\ wire' = wire
  BY DEF RunCommand
<1> HIDE DEF e
<1>5. e \in Nat /\ e + 1 <= Len(buf) /\ e + 1 \in Nat
  BY <1>2, <1>3
<1>6. /\ buf' \in Seq(Byte) /\ Len(buf') = Len(buf) - (e + 1)
      /\ Stream' \in Seq(Byte) /\ Len(Stream') = Len(Stream) - (e + 1)
      /\ \A j \in 1 .. Len(Stream') : Stream'[j] = Stream[j + (e + 1)]
      /\ \A j \in 1 .. Len(buf') : buf'[j] = buf[j + (e + 1)]
  BY <1>1, <1>4, <1>5, StreamShrinks
<1>7. Types'
  BY <1>1, <1>6 DEF Types, RunCommand
<1>8. /\ Stream \in Seq(Byte) /\ Len(Stream) = Len(buf) + Len(wire) /\ Len(wire) \in Nat
      /\ \A k \in 1 .. Len(buf) : Stream[k] = buf[k] /\ k \in 1 .. Len(Stream)
  BY <1>1, StreamIs
<1>9. ASSUME <<>> \notin Lines PROVE Scanned'
  <2>1. Follows(Stream)
    BY <1>9 DEF Inv, Scanned, RunCommand
  <2> DEFINE d == e + 1
  <2> HIDE DEF d
  <2>2. Follows(Stream')
    <3>1. d \in Nat /\ Rest(Stream', Stream, d)
      BY <1>5, <1>6 DEF d, Rest
    <3> QED
      BY <1>6, <1>8, <2>1, <3>1, RestFollows
  <2>3. Follows(Stream)'
    BY <2>2 DEF Follows
  <2>4. ASSUME 1 \in 1 .. Len(buf') PROVE buf'[1] \in Char
    <3>1. d \in 1 .. Len(buf) /\ d + 1 \in 1 .. Len(buf) /\ buf'[1] = buf[d + 1]
      <4>1. 1 + (e + 1) = d + 1
        BY <1>5 DEF d
      <4>2. buf'[1] = buf[d + 1]
        BY <1>6, <2>4, <4>1
      <4>3. d \in Nat \ {0} /\ Len(buf') = Len(buf) - d
        BY <1>5, <1>6 DEF d
      <4> QED
        BY <1>2, <2>4, <4>2, <4>3
    <3>2. buf[d] \in Ends => buf[d + 1] \in Char \/ (buf[d] = CR /\ buf[d + 1] = LF)
      <4>1. d \in 1 .. Len(Stream) - 1
        BY <1>2, <1>8, <3>1
      <4> QED
        BY <1>8, <2>1, <3>1, <4>1 DEF Follows
    <3>3. CASE e = i /\ (i + 1 < Len(buf) => buf[(i + 1) + 1] # LF)
      <4>1. d = i + 1
        BY <3>3 DEF d
      <4>2. i + 1 < Len(buf)
        BY <1>2, <3>1, <4>1
      <4> QED
        BY <1>2, <3>1, <3>2, <3>3, <4>1, <4>2
    <3>4. CASE e = i + 1 /\ i + 1 < Len(buf) /\ buf[(i + 1) + 1] = LF
      <4>1. buf[d] = LF
        BY <3>4 DEF d
      <4> QED
        BY <3>1, <3>2, <4>1, Bytes DEF Ends
    <3> QED
      BY <1>3, <3>3, <3>4
  <2>5. \A k \in 1 .. Len(buf') : k <= 1 => buf'[k] \in Char
    <3> SUFFICES ASSUME NEW k \in 1 .. Len(buf'), k <= 1 PROVE buf'[k] \in Char
      OBVIOUS
    <3>1. k = 1
      OBVIOUS
    <3> QED
      BY <2>4, <3>1
  <2> QED
    BY <2>3, <2>5 DEF Scanned, RunCommand
<1>10. ASSUME PoliteHost', opens' <= 1 PROVE OneLine'
  <2>1. OneLine /\ PoliteHost
    BY <1>10 DEF Inv, PoliteHost, RunCommand
  <2>2. Stream[i + 1] \in Ends /\ i + 1 \in 1 .. Len(Stream)
    BY <1>2, <1>8
  <2>3. prompts = 0 /\ ~ i + 1 \in 1 .. Len(Stream) - 1
    BY <2>1, <2>2 DEF OneLine
  <2>4. Len(Stream) = i + 1 /\ Len(buf) = i + 1
    BY <1>2, <1>8, <2>2, <2>3
  <2>5. e = i
    BY <1>2, <1>3, <2>4
  <2>6. Len(Stream') = 0
    BY <1>2, <1>6, <2>4, <2>5
  <2>7. prompts' = 1
    BY <2>3 DEF RunCommand
  <2> QED
    BY <2>1, <2>6, <2>7 DEF OneLine, RunCommand
<1> QED
  BY <1>7, <1>9, <1>10 DEF Inv

LEMMA Invariance == Spec => []Inv
<1>1. Init => Inv
  BY InitInv
<1>2. Inv /\ [Next]_vars => Inv'
  <2> SUFFICES ASSUME Inv, [Next]_vars PROVE Inv'
    OBVIOUS
  <2>1. CASE UNCHANGED vars
    BY <2>1 DEF vars, Inv, Types, Scanned, OneLine, PoliteHost, Stream, Follows
  <2> QED
    BY <2>1, UsbConsoleInv, HostSendsInv, ReceiveInv, ScanOnInv, RunCommandInv, ScanEndsInv DEF Next, Step
<1> QED
  BY <1>1, <1>2, PTL DEF Spec

(* However lines are cut into batches, and although the scan skips a byte  *)
(* after each command, no full line is left in console_buffer for a later  *)
(* round as long as no line is empty.                                      *)
THEOREM NoLineLeft == Spec => []NoneWaiting
<1>1. Inv => NoneWaiting
  BY DEF Inv, Scanned, NoneWaiting
<1> QED
  BY <1>1, Invariance, PTL

(* handle_console never writes past console_buffer while a host waits for  *)
(* prompts, ends its lines with one byte and keeps them shorter than the   *)
(* buffer, whatever size that has.                                         *)
THEOREM PoliteHostFits == Spec => []NoOverrun
<1>1. Inv => NoOverrun
  BY DEF Inv, Types, OneLine, PoliteHost, NoOverrun
<1> QED
  BY <1>1, Invariance, PTL

----------------------------------------------------------------------------
(* The lines.  off[n] is the place in the stream behind which line n       *)
(* begins, not positive when the line is gone or begun.                    *)
Layout(off, s, ls, e) ==
  /\ off \in [1 .. Len(ls) + 1 -> Int]
  /\ off[1] <= 0 /\ off[Len(ls) + 1] = Len(s)
  /\ \A n \in 1 .. Len(ls) :
       /\ off[n + 1] = off[n] + Len(ls[n]) + Len(e)
       /\ off[n + 1] <= Len(s)
       /\ \A k \in 1 .. Len(s) :
            /\ off[n] < k /\ k <= off[n] + Len(ls[n]) => s[k] = ls[n][k - off[n]]
            /\ off[n] + Len(ls[n]) < k /\ k <= off[n + 1] => s[k] \in Ends

(* As long as the console was opened once, what is still to be run begins  *)
(* with the next line, or with the '\n' that a batch cut off the line      *)
(* before.                                                                 *)
LineInv ==
  /\ sent \in Seq(Lines) /\ executed \in Seq(Seq(Byte))
  /\ opens = 0 => Len(sent) = 0
  /\ pc # "wild" =>
       \E off : /\ Layout(off, Stream, sent, host.end)
                /\ opens <= 1 => Len(executed) <= Len(sent) /\ off[Len(executed) + 1] \in {0, 1}

LEMMA LineTypes ==
  ASSUME <<>> \notin Lines, NEW ls \in Seq(Lines), NEW n \in 1 .. Len(ls)
  PROVE  /\ ls[n] \in Lines /\ ls[n] \in Seq(Char) /\ ls[n] \in Seq(Byte) /\ Len(ls[n]) \in Nat \ {0}
         /\ \A k \in 1 .. Len(ls[n]) : ls[n][k] \in Char
<1>1. ls[n] \in Lines
  BY ElementOfSeq
<1>2. ls[n] \in Seq(Char) /\ ls[n] \in Seq(Byte) /\ ls[n] # <<>>
  BY <1>1, Bytes
<1>3. Len(ls[n]) \in Nat \ {0}
  BY <1>2, EmptySeq
<1>4. \A k \in 1 .. Len(ls[n]) : ls[n][k] \in Char
  BY <1>2, ElementOfSeq
<1> QED
  BY <1>1, <1>2, <1>3, <1>4

LEMMA EndTypes ==
  ASSUME NEW e \in EndKinds
  PROVE  e \in Seq(Byte) /\ Len(e) \in {1, 2} /\ \A k \in 1 .. Len(e) : e[k] \in Ends
<1>1. CR \in Byte /\ LF \in Byte /\ e \in {<<CR>>, <<LF>>, <<CR, LF>>}
  BY Bytes DEF EndKinds
<1>2. CASE e = <<CR>>
  BY <1>1, <1>2 DEF Ends
<1>3. CASE e = <<LF>>
  BY <1>1, <1>3 DEF Ends
<1>4. CASE e = <<CR, LF>>
  BY <1>1, <1>4 DEF Ends
<1> QED
  BY <1>1, <1>2, <1>3, <1>4

(* Taking bytes off the beginning moves every line.                        *)
LEMMA LayoutMoves ==
  ASSUME NEW ls \in Seq(Lines), <<>> \notin Lines, NEW e \in EndKinds,
         NEW s \in Seq(Byte), NEW t \in Seq(Byte), NEW d \in Nat, NEW off, Layout(off, s, ls, e), Rest(t, s, d)
  PROVE  \E new : Layout(new, t, ls, e) /\ \A n \in 1 .. Len(ls) + 1 : new[n] = off[n] - d
<1> DEFINE new == [n \in 1 .. Len(ls) + 1 |-> off[n] - d]
           N == Len(ls)
<1>1. N \in Nat /\ Len(s) \in Nat /\ Len(t) \in Nat /\ Len(e) \in Nat
      /\ Len(t) = Len(s) - d
  BY EndTypes DEF Rest
<1>2. off \in [1 .. N + 1 -> Int] /\ off[1] <= 0 /\ off[N + 1] = Len(s)
  BY DEF Layout
<1>3. new \in [1 .. N + 1 -> Int] /\ \A n \in 1 .. N + 1 : new[n] = off[n] - d
  BY <1>2
<1> HIDE DEF new
<1>4. new[1] <= 0 /\ new[N + 1] = Len(t)
  <2>1. 1 \in 1 .. N + 1 /\ N + 1 \in 1 .. N + 1
    BY <1>1
  <2>2. new[1] = off[1] - d /\ new[N + 1] = off[N + 1] - d /\ off[1] \in Int
    BY <1>2, <1>3, <2>1
  <2>3. new[N + 1] = Len(t)
    BY <1>1, <1>2, <2>2
  <2>4. new[1] <= 0
    BY <1>2, <2>2
  <2> QED
    BY <2>3, <2>4
<1>5. ASSUME NEW n \in 1 .. N
      PROVE  /\ new[n + 1] = new[n] + Len(ls[n]) + Len(e)
             /\ new[n + 1] <= Len(t)
             /\ \A k \in 1 .. Len(t) :
                  /\ new[n] < k /\ k <= new[n] + Len(ls[n]) => t[k] = ls[n][k - new[n]]
                  /\ new[n] + Len(ls[n]) < k /\ k <= new[n + 1] => t[k] \in Ends
  <2> DEFINE w == Len(ls[n])
             a == off[n]
             b == off[n + 1]
  <2>1. w \in Nat
    BY LineTypes
  <2>2. a \in Int /\ b \in Int /\ new[n] = a - d /\ new[n + 1] = b - d
    <3>1. n \in 1 .. N + 1 /\ n + 1 \in 1 .. N + 1
      BY <1>1
    <3> QED
      BY <1>2, <1>3, <3>1
  <2>3. b = a + w + Len(e) /\ b <= Len(s)
    BY DEF Layout
  <2>4. \A k \in 1 .. Len(s) :
          /\ a < k /\ k <= a + w => s[k] = ls[n][k - a]
          /\ a + w < k /\ k <= b => s[k] \in Ends
    BY DEF Layout
  <2> HIDE DEF w, a, b
  <2>5. ASSUME NEW k \in 1 .. Len(t)
        PROVE  /\ new[n] < k /\ k <= new[n] + w => t[k] = ls[n][k - new[n]]
               /\ new[n] + w < k /\ k <= new[n + 1] => t[k] \in Ends
    <3> DEFINE j == k + d
               p == new[n]
               q == new[n + 1]
    <3>1. j \in 1 .. Len(s) /\ t[k] = s[j] /\ k \in Int
      BY <1>1 DEF Rest
    <3>2. p = a - d /\ q = b - d
      BY <2>2
    <3> HIDE DEF p, q
    <3>3. (p < k <=> a < j) /\ (k <= p + w <=> j <= a + w) /\ (k <= q <=> j <= b) /\ (p + w < k <=> a + w < j)
      BY <2>1, <2>2, <3>1, <3>2
    <3>4. k - p = j - a
      BY <2>2, <3>1, <3>2
    <3> HIDE DEF j
    <3>5. /\ p < k /\ k <= p + w => t[k] = ls[n][k - p]
          /\ p + w < k /\ k <= q => t[k] \in Ends
      BY <2>4, <3>1, <3>3, <3>4
    <3> QED
      BY <3>5 DEF p, q
  <2>6. new[n + 1] = new[n] + w + Len(e) /\ new[n + 1] <= Len(t)
    BY <1>1, <2>1, <2>2, <2>3
  <2> QED
    BY <2>5, <2>6 DEF w
<1>6. Layout(new, t, ls, e)
  BY <1>3, <1>4, <1>5 DEF Layout
<1> QED
  BY <1>3, <1>6

(* A line sent is laid behind the others.                                  *)
LEMMA LayoutGrows ==
  ASSUME NEW ls \in Seq(Lines), <<>> \notin Lines, NEW e \in EndKinds,
         NEW s \in Seq(Byte), NEW l \in Lines, NEW off, Layout(off, s, ls, e)
  PROVE  \E new : /\ Layout(new, s \o (l \o e), Append(ls, l), e)
                  /\ \A n \in 1 .. Len(ls) + 1 : new[n] = off[n]
<1> DEFINE N == Len(ls)
           t == l \o e
           s2 == s \o t
           m == Len(s) + Len(l) + Len(e)
           new == [n \in 1 .. N + 2 |-> IF n = N + 2 THEN m ELSE off[n]]
           ls2 == Append(ls, l)
<1>1. N \in Nat /\ Len(s) \in Nat /\ Len(e) \in Nat \ {0} /\ e \in Seq(Byte)
      /\ \A k \in 1 .. Len(e) : e[k] \in Ends
  <2>1. N \in Nat /\ Len(s) \in Nat
    OBVIOUS
  <2>2. e \in Seq(Byte) /\ Len(e) \in {1, 2} /\ \A k \in 1 .. Len(e) : e[k] \in Ends
    BY EndTypes
  <2>3. \A z \in {1, 2} : z \in Nat \ {0}
    OBVIOUS
  <2> QED
    BY <2>1, <2>2, <2>3
<1>2. l \in Seq(Byte) /\ Len(l) \in Nat
  BY Bytes
<1>3. /\ t \in Seq(Byte) /\ Len(t) = Len(l) + Len(e)
      /\ \A k \in 1 .. Len(l) + Len(e) : t[k] = IF k <= Len(l) THEN l[k] ELSE e[k - Len(l)]
  BY <1>1, <1>2, ConcatProperties
<1>4. ls2 \in Seq(Lines) /\ Len(ls2) = N + 1 /\ ls2[N + 1] = l /\ \A n \in 1 .. N : ls2[n] = ls[n]
  <2>1. ls2 \in Seq(Lines) /\ Len(ls2) = N + 1
    OBVIOUS
  <2>2. ls2[N + 1] = l
    OBVIOUS
  <2>3. \A n \in 1 .. N : ls2[n] = ls[n]
    OBVIOUS
  <2> QED
    BY <2>1, <2>2, <2>3
<1> HIDE DEF t, ls2
<1>5. /\ s2 \in Seq(Byte) /\ Len(s2) = Len(s) + Len(t)
      /\ \A k \in 1 .. Len(s) + Len(t) : s2[k] = IF k <= Len(s) THEN s[k] ELSE t[k - Len(s)]
  <2>1. t \in Seq(Byte)
    BY <1>3
  <2> QED
    BY <2>1, ConcatProperties
<1> HIDE DEF s2
<1>6. off \in [1 .. N + 1 -> Int] /\ off[1] <= 0 /\ off[N + 1] = Len(s)
  BY DEF Layout
<1>7. m \in Nat /\ m = Len(s2)
  BY <1>1, <1>2, <1>3, <1>5
<1>8. /\ new \in [1 .. N + 2 -> Int] /\ new[N + 2] = m
      /\ \A n \in 1 .. N + 1 : new[n] = off[n]
  <2>1. N + 2 \in 1 .. N + 2
    BY <1>1
  <2>2. \A n \in 1 .. N + 1 : n \in 1 .. N + 2 /\ n # N + 2
    BY <1>1
  <2>3. \A n \in 1 .. N + 2 : n = N + 2 \/ n \in 1 .. N + 1
    BY <1>1
  <2>4. \A n \in 1 .. N + 2 : (IF n = N + 2 THEN m ELSE off[n]) \in Int
    BY <1>6, <1>7, <2>3
  <2> HIDE DEF m
  <2> QED
    BY <2>1, <2>2, <2>4
<1> HIDE DEF new
<1>9. ASSUME NEW n \in 1 .. N + 1
      PROVE  /\ new[n + 1] = new[n] + Len(ls2[n]) + Len(e)
             /\ new[n + 1] <= Len(s2)
             /\ \A k \in 1 .. Len(s2) :
                  /\ new[n] < k /\ k <= new[n] + Len(ls2[n]) => s2[k] = ls2[n][k - new[n]]
                  /\ new[n] + Len(ls2[n]) < k /\ k <= new[n + 1] => s2[k] \in Ends
  <2>1. CASE n \in 1 .. N
    <3>1. n \in 1 .. N + 1 /\ n + 1 \in 1 .. N + 1
      BY <1>1, <2>1
    <3>2. new[n] = off[n] /\ new[n + 1] = off[n + 1] /\ ls2[n] = ls[n] /\ Len(ls[n]) \in Nat
          /\ off[n] \in Int /\ off[n + 1] \in Int
      BY <1>4, <1>6, <1>8, <2>1, <3>1, LineTypes
    <3>3. off[n + 1] = off[n] + Len(ls[n]) + Len(e) /\ off[n + 1] <= Len(s)
      BY <2>1 DEF Layout
    <3>4. off[n + 1] <= Len(s2) /\ off[n] + Len(ls[n]) <= Len(s)
      <4> DEFINE a == off[n]
                 b == off[n + 1]
                 w == Len(ls[n])
                 z == Len(e)
                 u == Len(s)
                 v == Len(l)
      <4>1. a \in Int /\ b \in Int /\ w \in Nat /\ b = a + w + z /\ b <= u /\ z \in Nat /\ u \in Nat /\ v \in Nat
        BY <1>1, <1>2, <3>2, <3>3
      <4>2. Len(s2) = u + (v + z)
        BY <1>3, <1>5
      <4> HIDE DEF a, b, w, z, u, v
      <4>3. b <= u + (v + z) /\ a + w <= u
        BY <4>1
      <4> QED
        BY <4>2, <4>3 DEF a, b, w, u
    <3>5. ASSUME NEW k \in 1 .. Len(s2)
          PROVE  /\ off[n] < k /\ k <= off[n] + Len(ls[n]) => s2[k] = ls[n][k - off[n]]
                 /\ off[n] + Len(ls[n]) < k /\ k <= off[n + 1] => s2[k] \in Ends
      <4>1. CASE k <= Len(s)
        <5>1. k \in 1 .. Len(s) /\ k \in 1 .. Len(s) + Len(t)
          BY <1>5, <4>1
        <5>2. s2[k] = s[k]
          BY <1>5, <4>1, <5>1
        <5> QED
          BY <2>1, <5>1, <5>2 DEF Layout
      <4>2. CASE ~ k <= Len(s)
        BY <1>1, <3>2, <3>3, <3>4, <4>2
      <4> QED
        BY <4>1, <4>2
    <3> QED
      BY <3>2, <3>3, <3>4, <3>5
  <2>2. CASE n = N + 1
    <3>1. new[n] = Len(s) /\ new[n + 1] = m /\ ls2[n] = l
      <4>1. N + 1 \in 1 .. N + 1 /\ n + 1 = N + 2
        BY <1>1, <2>2
      <4> QED
        BY <1>4, <1>6, <1>8, <2>2, <4>1
    <3>2. ASSUME NEW k \in 1 .. Len(s2)
          PROVE  /\ Len(s) < k /\ k <= Len(s) + Len(l) => s2[k] = l[k - Len(s)]
                 /\ Len(s) + Len(l) < k /\ k <= m => s2[k] \in Ends
      <4> DEFINE j == k - Len(s)
      <4>1. CASE Len(s) < k
        <5>1. j \in 1 .. Len(l) + Len(e) /\ s2[k] = t[j] /\ (k <= Len(s) + Len(l) <=> j <= Len(l))
          BY <1>1, <1>2, <1>3, <1>5, <4>1
        <5> HIDE DEF j
        <5>2. t[j] = IF j <= Len(l) THEN l[j] ELSE e[j - Len(l)]
          BY <1>3, <5>1
        <5>3. ~ j <= Len(l) => j - Len(l) \in 1 .. Len(e)
          BY <1>1, <1>2, <5>1
        <5>4. ~ j <= Len(l) => t[j] \in Ends
          BY <1>1, <5>2, <5>3
        <5>5. Len(s) + Len(l) < k => ~ j <= Len(l)
          BY <1>1, <1>2, <5>1
        <5>6. k <= Len(s) + Len(l) => s2[k] = l[k - Len(s)]
          BY <5>1, <5>2 DEF j
        <5> QED
          BY <5>1, <5>4, <5>5, <5>6
      <4>2. CASE ~ Len(s) < k
        BY <1>1, <1>2, <4>2
      <4> QED
        BY <4>1, <4>2
    <3>3. m = Len(s) + Len(l) + Len(e) /\ m <= Len(s2)
      BY <1>7
    <3> HIDE DEF m
    <3> QED
      BY <3>1, <3>2, <3>3
  <2> QED
    BY <1>1, <2>1, <2>2
<1>10. new[1] <= 0 /\ new[N + 2] = Len(s2)
  <2>1. 1 \in 1 .. N + 1
    BY <1>1
  <2> QED
    BY <1>6, <1>7, <1>8, <2>1
<1>11. Layout(new, s2, ls2, e)
  <2>1. Len(ls2) + 1 = N + 2
    BY <1>1, <1>4
  <2> QED
    BY <1>4, <1>8, <1>9, <1>10, <2>1 DEF Layout
<1> QED
  BY <1>8, <1>11 DEF s2, ls2, t

(* Every byte of the stream belongs to a line.                             *)
LEMMA LineOf ==
  ASSUME NEW ls \in Seq(Lines), NEW e, NEW s \in Seq(Byte), NEW off, Layout(off, s, ls, e),
         NEW k \in 1 .. Len(s)
  PROVE  \E n \in 1 .. Len(ls) : off[n] < k /\ k <= off[n + 1]
<1> DEFINE N == Len(ls)
           S == {n \in 1 .. N : k <= off[n + 1]}
<1>1. N \in Nat /\ off \in [1 .. N + 1 -> Int] /\ off[1] <= 0 /\ off[N + 1] = Len(s)
  BY DEF Layout
<1>2. N # 0 /\ N \in S
  <2>1. N # 0
    <3>1. N = 0 => off[1] = Len(s)
      BY <1>1
    <3> QED
      BY <1>1, <3>1
  <2>2. N \in 1 .. N
    BY <1>1, <2>1
  <2> QED
    BY <1>1, <2>1, <2>2
<1> HIDE DEF S
<1>3. S \subseteq Nat
  BY <1>1 DEF S
<1>4. PICK n \in S : \A m \in S : ~ (<<m, n>> \in OpToRel(<, Nat))
  BY <1>2, <1>3, WFMin, NatLessThanWellFounded
<1>5. \A m \in S : ~ (m < n)
  BY <1>3, <1>4, Zenon DEF OpToRel
<1>6. n \in 1 .. N /\ k <= off[n + 1]
  BY DEF S
<1>7. off[n] < k
  <2>1. CASE n = 1
    BY <1>1, <2>1
  <2>2. CASE n # 1
    <3> DEFINE m == n - 1
    <3>1. m \in 1 .. N /\ m < n /\ m + 1 = n
      BY <1>1, <1>6, <2>2
    <3>2. off[n] \in Int
      <4>1. n \in 1 .. N + 1
        BY <1>1, <1>6
      <4> QED
        BY <1>1, <4>1
    <3> HIDE DEF m
    <3>3. ~ k <= off[m + 1]
      BY <1>5, <3>1 DEF S
    <3> QED
      BY <3>1, <3>2, <3>3
  <2> QED
    BY <2>1, <2>2
<1> QED
  BY <1>6, <1>7

(* What RunCommand finds and pops.                                         *)
LEMMA PopShifts ==
  ASSUME Inv, RunCommand, NEW d, d = LastOfEnd(i) + 1
  PROVE  /\ i \in Nat /\ i + 1 \in 1 .. Len(buf) /\ Stream[i + 1] \in Ends /\ Len(buf) \in Nat
         /\ d \in Nat /\ d <= Len(buf) /\ (d = i + 1 \/ (d = i + 2 /\ Stream[i + 2] = LF))
         /\ Stream \in Seq(Byte) /\ buf \in Seq(Byte) /\ Len(buf) <= Len(Stream)
         /\ \A k \in 1 .. Len(buf) : Stream[k] = buf[k] /\ k \in 1 .. Len(Stream)
         /\ Stream' \in Seq(Byte) /\ Len(Stream') = Len(Stream) - d
         /\ \A j \in 1 .. Len(Stream') : Stream'[j] = Stream[j + d]
<1> DEFINE e == LastOfEnd(i)
<1>1. Types
  BY DEF Inv
<1>2. i \in Nat /\ i < Len(buf) /\ Len(buf) \in Nat /\ buf[i + 1] \in Ends /\ buf \in Seq(Byte)
  BY <1>1 DEF Types, RunCommand, LineEndAt, At, Ends
<1>3. e = i \/ (e = i + 1 /\ i + 1 < Len(buf) /\ buf[(i + 1) + 1] = LF)
  BY DEF LastOfEnd, At
<1>4. buf' = Popped(e) /\ wire' = wire /\ d = e + 1
  BY DEF RunCommand
<1> HIDE DEF e
<1>5. e \in Nat /\ e + 1 <= Len(buf) /\ d \in Nat
  BY <1>2, <1>3, <1>4
<1>6. /\ Stream' \in Seq(Byte) /\ Len(Stream') = Len(Stream) - (e + 1)
      /\ \A j \in 1 .. Len(Stream') : Stream'[j] = Stream[j + (e + 1)]
  BY <1>1, <1>4, <1>5, StreamShrinks
<1>7. /\ Stream \in Seq(Byte) /\ Len(Stream) = Len(buf) + Len(wire) /\ Len(wire) \in Nat
      /\ \A k \in 1 .. Len(buf) : Stream[k] = buf[k] /\ k \in 1 .. Len(Stream)
  BY <1>1, StreamIs
<1>8. i + 1 \in 1 .. Len(buf) /\ Stream[i + 1] \in Ends /\ Len(buf) <= Len(Stream)
  BY <1>2, <1>7
<1>9. d = i + 1 \/ (d = i + 2 /\ Stream[i + 2] = LF)
  <2>1. ASSUME e = i + 1, i + 1 < Len(buf), buf[(i + 1) + 1] = LF
        PROVE  d = i + 2 /\ Stream[i + 2] = LF
    <3>1. i + 2 \in 1 .. Len(buf) /\ (i + 1) + 1 = i + 2 /\ d = i + 2
      BY <1>2, <1>4, <2>1
    <3> QED
      BY <1>7, <2>1, <3>1
  <2> QED
    BY <1>3, <1>4, <2>1
<1> QED
  BY <1>2, <1>4, <1>5, <1>6, <1>7, <1>8, <1>9

(* The bytes up to a line end are the rest of one line.                    *)
LEMMA CommandIs ==
  ASSUME Inv, <<>> \notin Lines, RunCommand, sent \in Seq(Lines), NEW d, d = LastOfEnd(i) + 1,
         NEW off, Layout(off, Stream, sent, host.end),
         NEW n \in 1 .. Len(sent), off[n] < 1, 1 <= off[n + 1]
  PROVE  /\ \/ i = 0 /\ off[n] + Len(sent[n]) < 1
            \/ /\ i = off[n] + Len(sent[n]) /\ i >= 1 /\ 1 - off[n] \in 1 .. Len(sent[n])
               /\ SubSeq(buf, 1, i) = SubSeq(sent[n], 1 - off[n], Len(sent[n]))
         /\ d <= off[n + 1]
<1> DEFINE l == sent[n]
           w == Len(l)
           a == off[n]
           b == off[n + 1]
           N == Len(sent)
           z == Len(host.end)
           M == Len(Stream)
<1>1. /\ i \in Nat /\ i + 1 \in 1 .. Len(buf) /\ Stream[i + 1] \in Ends /\ Len(buf) \in Nat
      /\ d \in Nat /\ d <= Len(buf) /\ (d = i + 1 \/ (d = i + 2 /\ Stream[i + 2] = LF))
      /\ Stream \in Seq(Byte) /\ buf \in Seq(Byte) /\ Len(buf) <= Len(Stream)
      /\ \A k \in 1 .. Len(buf) : Stream[k] = buf[k] /\ k \in 1 .. Len(Stream)
  BY PopShifts
<1>2. l \in Seq(Char) /\ l \in Seq(Byte) /\ w \in Nat \ {0} /\ \A k \in 1 .. w : l[k] \in Char
  BY LineTypes
<1>3. a \in Int /\ b \in Int /\ N \in Nat /\ off[N + 1] = M /\ off \in [1 .. N + 1 -> Int] /\ M \in Nat
  <2>1. N \in Nat /\ off \in [1 .. N + 1 -> Int] /\ off[N + 1] = M
    BY DEF Layout
  <2>2. n \in 1 .. N + 1 /\ n + 1 \in 1 .. N + 1
    BY <2>1
  <2>3. M \in Nat
    BY <1>1
  <2> QED
    BY <2>1, <2>2, <2>3
<1>4. /\ b = a + w + z /\ b <= M
      /\ \A k \in 1 .. M :
           /\ a < k /\ k <= a + w => Stream[k] = l[k - a]
           /\ a + w < k /\ k <= b => Stream[k] \in Ends
  BY DEF Layout
<1>5. z \in {1, 2}
  <2>1. host.end \in EndKinds
    BY DEF Inv, Types
  <2> QED
    BY <2>1, EndTypes
<1>6. \A k \in 1 .. Len(buf) : k <= i => Stream[k] \in Char
  BY <1>1 DEF Inv, Scanned, RunCommand
<1>7. a < 1 /\ 1 <= b
  OBVIOUS
<1>8. \A k \in 1 .. M : k <= a + w => Stream[k] \in Char
  <2> TAKE k \in 1 .. M
  <2>1. ASSUME k <= a + w PROVE Stream[k] \in Char
    <3>1. k - a \in 1 .. w /\ a < k
      BY <1>2, <1>3, <1>7, <2>1
    <3> QED
      BY <1>2, <1>4, <2>1, <3>1
  <2> QED
    BY <2>1
<1>9. \A x \in Ends : x \notin Char
  BY Bytes DEF Ends
<1> HIDE DEF w, a, b, z, M, l
<1>10. i + 1 \in 1 .. M /\ ~ i + 1 <= a + w
  <2>1. i + 1 \in 1 .. M
    BY <1>1 DEF M
  <2> QED
    BY <1>1, <1>8, <1>9, <2>1
<1>11. i + 1 <= b
  <2> SUFFICES ASSUME ~ i + 1 <= b PROVE FALSE
    BY <1>1, <1>3
  <2>1. b \in 1 .. Len(buf) /\ b <= i /\ b \in 1 .. M
    BY <1>1, <1>3, <1>4, <1>7
  <2>2. a + w < b
    BY <1>2, <1>3, <1>4, <1>5
  <2>3. Stream[b] \in Ends /\ Stream[b] \in Char
    BY <1>3, <1>4, <1>6, <2>1, <2>2
  <2> QED
    BY <1>9, <2>3
<1>12. d <= b
  <2> SUFFICES ASSUME ~ d <= b PROVE FALSE
    BY <1>1, <1>3
  <2>1. d = i + 2 /\ Stream[i + 2] = LF /\ b = i + 1 /\ d <= M
    <3>1. Len(buf) <= M
      BY <1>1 DEF M
    <3> QED
      BY <1>1, <1>3, <1>11, <3>1
  <2>2. n # N
    <3>1. n = N => b = M
      BY <1>3 DEF b
    <3> QED
      BY <1>1, <1>3, <2>1, <3>1
  <2> DEFINE m == n + 1
  <2>3. m \in 1 .. N
    BY <1>3, <2>2
  <2> HIDE DEF m
  <2>4. Len(sent[m]) \in Nat \ {0} /\ \A k \in 1 .. Len(sent[m]) : sent[m][k] \in Char
    BY <2>3, LineTypes
  <2>5. off[m] = b
    BY DEF m, b
  <2>6. \A k \in 1 .. M : off[m] < k /\ k <= off[m] + Len(sent[m]) => Stream[k] = sent[m][k - off[m]]
    BY <2>3 DEF Layout, M
  <2>7. i + 2 \in 1 .. M /\ b < i + 2 /\ i + 2 <= b + Len(sent[m]) /\ (i + 2) - b = 1
    <3> DEFINE v == Len(sent[m])
    <3>1. v \in Nat \ {0}
      BY <2>4
    <3> HIDE DEF v
    <3>2. i + 2 \in 1 .. M /\ b < i + 2 /\ i + 2 <= b + v /\ (i + 2) - b = 1
      BY <1>1, <1>3, <2>1, <3>1
    <3> QED
      BY <3>2 DEF v
  <2>8. Stream[i + 2] = sent[m][1] /\ 1 \in 1 .. Len(sent[m])
    BY <2>4, <2>5, <2>6, <2>7
  <2> QED
    BY <2>1, <2>4, <2>8, Bytes
<1>13. CASE a + w < 1
  <2>1. i = 0
    <3> SUFFICES ASSUME i # 0 PROVE FALSE
      OBVIOUS
    <3>1. 1 \in 1 .. Len(buf) /\ 1 <= i /\ 1 \in 1 .. M
      BY <1>1, <1>3, <1>4, <1>7
    <3>2. Stream[1] \in Char /\ Stream[1] \in Ends
      BY <1>4, <1>6, <1>7, <1>13, <3>1
    <3> QED
      BY <1>9, <3>2
  <2> QED
    BY <1>12, <1>13, <2>1 DEF w, l, a, b
<1>14. CASE ~ a + w < 1
  <2> DEFINE q == a + w
  <2>1. q \in Nat \ {0} /\ q < i + 1 /\ q + 1 <= b
    BY <1>1, <1>2, <1>3, <1>4, <1>5, <1>10, <1>14
  <2>2. i = q
    <3> SUFFICES ASSUME q + 1 <= i PROVE FALSE
      BY <1>1, <2>1
    <3>1. q + 1 \in 1 .. Len(buf) /\ q + 1 \in 1 .. M /\ q < q + 1
      BY <1>1, <1>3, <1>4, <2>1
    <3>2. Stream[q + 1] \in Char /\ Stream[q + 1] \in Ends
      BY <1>4, <1>6, <2>1, <3>1
    <3> QED
      BY <1>9, <3>2
  <2>3. 1 - a \in 1 .. w
    BY <1>2, <1>3, <1>7, <2>1
  <2> DEFINE c == SubSeq(buf, 1, i)
             r == SubSeq(l, 1 - a, w)
  <2>4. c \in Seq(Byte) /\ Len(c) = i /\ \A k \in 1 .. i : c[k] = buf[k]
    BY <1>1
  <2>5. r \in Seq(Byte) /\ Len(r) = i /\ \A k \in 1 .. i : r[k] = l[k + (0 - a)]
    <3>1. w = Len(l)
      BY DEF w
    <3>2. w - (1 - a) + 1 = i
      BY <1>1, <1>2, <1>3, <2>2
    <3>3. r \in Seq(Byte) /\ Len(r) = w - (1 - a) + 1
      BY <1>2, <1>3, <2>3, <3>1
    <3>4. \A k \in 1 .. Len(r) : r[k] = l[(1 - a) + k - 1]
      BY <1>2, <1>3, <2>3, <3>1
    <3>5. \A k \in 1 .. i : (1 - a) + k - 1 = k + (0 - a)
      BY <1>3
    <3> HIDE DEF r
    <3> QED
      BY <3>2, <3>3, <3>4, <3>5
  <2> HIDE DEF c, r
  <2>6. ASSUME NEW k \in 1 .. i PROVE c[k] = r[k]
    <3>1. k \in 1 .. Len(buf) /\ k \in 1 .. M /\ a < k /\ k <= a + w /\ k + (0 - a) = k - a
      BY <1>1, <1>3, <1>4, <1>7, <1>10, <2>2
    <3>2. buf[k] = l[k - a]
      BY <1>1, <1>4, <3>1
    <3> QED
      BY <2>4, <2>5, <3>1, <3>2
  <2>7. c = r
    BY <2>4, <2>5, <2>6, SeqEqual
  <2>8. i = a + w /\ i >= 1
    BY <2>1, <2>2
  <2>9. i = off[n] + Len(sent[n]) /\ i >= 1 /\ 1 - off[n] \in 1 .. Len(sent[n])
    BY <2>3, <2>8 DEF w, l, a
  <2>10. SubSeq(buf, 1, i) = SubSeq(sent[n], 1 - off[n], Len(sent[n]))
    BY <2>7, Zenon DEF c, r, w, l, a
  <2> QED
    BY <1>12, <2>9, <2>10 DEF b
<1> QED
  BY <1>12, <1>13, <1>14 DEF a, w, l, b

----------------------------------------------------------------------------
LEMMA InitLines == Init => LineInv
<1> SUFFICES ASSUME Init PROVE LineInv
  OBVIOUS
<1>1. Len(sent) = 0 /\ Len(executed) = 0 /\ sent \in Seq(Lines) /\ executed \in Seq(Seq(Byte))
  BY DEF Init
<1>2. Len(Stream) = 0
  <2>1. Types /\ Len(buf) = 0 /\ Len(wire) = 0
    BY InitInv DEF Init, Inv
  <2> QED
    BY <2>1, StreamIs
<1> DEFINE off == [n \in 1 .. 1 |-> 0]
<1>3. off \in [1 .. 1 -> Int] /\ off[1] = 0
  OBVIOUS
<1> HIDE DEF off
<1>4. Layout(off, Stream, sent, host.end)
  BY <1>1, <1>2, <1>3 DEF Layout
<1>5. Len(executed) <= Len(sent) /\ off[Len(executed) + 1] \in {0, 1}
  BY <1>1, <1>3
<1> QED
  BY <1>1, <1>4, <1>5 DEF LineInv

LEMMA LinesStay ==
  ASSUME LineInv, pc # "wild", Stream' = Stream, UNCHANGED <<sent, host, executed, opens>>
  PROVE  LineInv'
<1>1. PICK off : /\ Layout(off, Stream, sent, host.end)
                 /\ opens <= 1 => Len(executed) <= Len(sent) /\ off[Len(executed) + 1] \in {0, 1}
  BY DEF LineInv
<1>2. Layout(off, Stream', sent', host'.end)
  BY <1>1
<1>3. Layout(off, Stream, sent, host.end)'
  BY <1>2 DEF Layout
<1>4. \E o : /\ Layout(o, Stream, sent, host.end)'
             /\ opens' <= 1 => Len(executed') <= Len(sent') /\ o[Len(executed') + 1] \in {0, 1}
  BY <1>1, <1>3
<1> QED
  BY <1>4 DEF LineInv

(* Once the buffer was overrun nothing is said of the stream.              *)
LEMMA WildLines ==
  ASSUME LineInv, pc' = "wild", UNCHANGED <<sent, executed, opens>>
  PROVE  LineInv'
BY DEF LineInv

LEMMA UsbConsoleLines ==
  ASSUME Inv, <<>> \notin Lines, LineInv, UsbConsole
  PROVE  LineInv'
<1>1. Types /\ pc # "wild" /\ pc' # "wild" /\ UNCHANGED <<sent, host, executed, wire>> /\ opens' = opens + 1
      /\ opens \in Nat
  BY DEF Inv, UsbConsole, Types
<1>2. PICK off : /\ Layout(off, Stream, sent, host.end)
                 /\ opens <= 1 => Len(executed) <= Len(sent) /\ off[Len(executed) + 1] \in {0, 1}
  BY <1>1 DEF LineInv
<1> DEFINE d == Len(buf)
           N == Len(sent)
<1>3. d \in Nat /\ Stream \in Seq(Byte) /\ Len(Stream) = d + Len(wire) /\ Len(wire) \in Nat
      /\ \A k \in 1 .. Len(wire) : Stream[k + d] = wire[k]
  BY <1>1, StreamIs
<1>4. Stream' = wire /\ wire \in Seq(Byte)
  <2>1. Stream' = <<>> \o wire /\ wire \in Seq(Byte)
    BY <1>1 DEF UsbConsole, Stream, Types
  <2> QED
    BY <2>1, ConcatEmptySeq
<1> HIDE DEF d
<1>5. PICK new : Layout(new, wire, sent, host.end) /\ \A n \in 1 .. N + 1 : new[n] = off[n] - d
  <2>1. Rest(wire, Stream, d)
    BY <1>3 DEF Rest
  <2>2. sent \in Seq(Lines) /\ host.end \in EndKinds
    BY <1>1 DEF LineInv, Types
  <2> QED
    BY <1>2, <1>3, <1>4, <2>1, <2>2, LayoutMoves
<1>6. ASSUME opens' <= 1 PROVE Len(executed) <= N /\ new[Len(executed) + 1] \in {0, 1}
  <2>1. opens = 0 /\ N = 0
    BY <1>1, <1>6 DEF LineInv
  <2>2. Len(executed) = 0 /\ off[1] \in {0, 1} /\ off[1] <= 0 /\ off[1] = Len(Stream)
    <3>1. Len(executed) \in Nat
      BY DEF LineInv
    <3>2. off[1] <= 0 /\ off[N + 1] = Len(Stream)
      BY <1>2 DEF Layout
    <3>3. Len(executed) <= N /\ off[Len(executed) + 1] \in {0, 1}
      BY <1>2, <2>1
    <3>4. Len(executed) = 0
      BY <2>1, <3>1, <3>3
    <3> QED
      BY <2>1, <3>2, <3>3, <3>4
  <2>3. d = 0 /\ off[1] = 0
    BY <1>3, <2>2
  <2>4. new[1] = 0
    BY <1>5, <2>1, <2>3
  <2> QED
    BY <2>1, <2>2, <2>4
<1>7. Layout(new, Stream, sent, host.end)'
  BY <1>1, <1>4, <1>5 DEF Layout
<1>8. \E o : /\ Layout(o, Stream, sent, host.end)'
             /\ opens' <= 1 => Len(executed') <= Len(sent') /\ o[Len(executed') + 1] \in {0, 1}
  BY <1>1, <1>6, <1>7
<1>9. opens' # 0
  BY <1>1
<1> QED
  BY <1>1, <1>8, <1>9 DEF LineInv

LEMMA HostSendsLines ==
  ASSUME Inv, <<>> \notin Lines, LineInv, HostSends
  PROVE  /\ LineInv'
         /\ \E l \in Lines : sent' = Append(sent, l)
<1>1. Types /\ UNCHANGED <<pc, buf, host, executed, opens>> /\ opens \in Nat /\ opens # 0
  BY DEF Inv, HostSends, Types
<1>2. PICK l \in Lines : wire' = wire \o l \o host.end /\ sent' = Append(sent, l)
  BY DEF HostSends
<1>3. sent \in Seq(Lines) /\ executed \in Seq(Seq(Byte)) /\ sent' \in Seq(Lines) /\ Len(sent') = Len(sent) + 1
      /\ Len(sent) \in Nat /\ Len(executed) \in Nat
  BY <1>2 DEF LineInv
<1>4. ASSUME pc # "wild"
      PROVE  \E o : /\ Layout(o, Stream, sent, host.end)'
                    /\ opens' <= 1 => Len(executed') <= Len(sent') /\ o[Len(executed') + 1] \in {0, 1}
  <2>1. PICK off : /\ Layout(off, Stream, sent, host.end)
                   /\ opens <= 1 => Len(executed) <= Len(sent) /\ off[Len(executed) + 1] \in {0, 1}
    BY <1>4 DEF LineInv
  <2>2. Stream' = Stream \o (l \o host.end)
    BY <1>1, <1>2, StreamGrows
  <2>3. Stream \in Seq(Byte) /\ host.end \in EndKinds
    BY <1>1, StreamIs DEF Types
  <2>4. PICK new : /\ Layout(new, Stream \o (l \o host.end), Append(sent, l), host.end)
                   /\ \A n \in 1 .. Len(sent) + 1 : new[n] = off[n]
    BY <1>3, <2>1, <2>3, LayoutGrows
  <2>5. Layout(new, Stream', sent', host'.end)
    BY <1>1, <1>2, <2>2, <2>4
  <2>6. Layout(new, Stream, sent, host.end)'
    BY <2>5 DEF Layout
  <2>7. ASSUME opens <= 1 PROVE Len(executed) <= Len(sent') /\ new[Len(executed) + 1] \in {0, 1}
    <3>1. Len(executed) <= Len(sent) /\ off[Len(executed) + 1] \in {0, 1}
      BY <2>1, <2>7
    <3>2. Len(executed) + 1 \in 1 .. Len(sent) + 1 /\ Len(executed) <= Len(sent')
      BY <1>3, <3>1
    <3> QED
      BY <2>4, <3>1, <3>2
  <2> QED
    BY <1>1, <2>6, <2>7
<1>5. LineInv'
  BY <1>1, <1>3, <1>4 DEF LineInv
<1> QED
  BY <1>2, <1>5

(* A command that is not empty is the next line, or the rest of a line     *)
(* once the console was opened again.                                      *)
LEMMA RunCommandLines ==
  ASSUME Inv, <<>> \notin Lines, LineInv, RunCommand
  PROVE  /\ LineInv'
         /\ \/ executed' = executed
            \/ /\ opens <= 1 /\ Len(executed) < Len(sent)
               /\ executed' = Append(executed, sent[Len(executed) + 1])
            \/ /\ opens > 1
               /\ \E n \in 1 .. Len(sent) : \E k \in 1 .. Len(sent[n]) :
                    executed' = Append(executed, SubSeq(sent[n], k, Len(sent[n])))
<1> DEFINE d == LastOfEnd(i) + 1
           c == SubSeq(buf, 1, i)
           N == Len(sent)
           D == Len(executed)
<1>1. Types /\ pc # "wild" /\ UNCHANGED <<sent, host, opens>> /\ opens \in Nat /\ executed' = AddCommand(c)
      /\ host.end \in EndKinds
  BY DEF Inv, RunCommand, Types
<1>2. sent \in Seq(Lines) /\ executed \in Seq(Seq(Byte)) /\ N \in Nat /\ D \in Nat
  BY DEF LineInv
<1>3. PICK off : /\ Layout(off, Stream, sent, host.end)
                 /\ opens <= 1 => D <= N /\ off[D + 1] \in {0, 1}
  BY <1>1 DEF LineInv
<1> HIDE DEF d
<1>4. /\ i \in Nat /\ i + 1 \in 1 .. Len(buf) /\ Stream[i + 1] \in Ends /\ Len(buf) \in Nat
      /\ d \in Nat /\ d <= Len(buf) /\ (d = i + 1 \/ (d = i + 2 /\ Stream[i + 2] = LF))
      /\ Stream \in Seq(Byte) /\ buf \in Seq(Byte) /\ Len(buf) <= Len(Stream)
      /\ \A k \in 1 .. Len(buf) : Stream[k] = buf[k] /\ k \in 1 .. Len(Stream)
      /\ Stream' \in Seq(Byte) /\ Len(Stream') = Len(Stream) - d
      /\ \A j \in 1 .. Len(Stream') : Stream'[j] = Stream[j + d]
  BY PopShifts DEF d
<1>5. PICK new : Layout(new, Stream', sent, host.end) /\ \A n \in 1 .. N + 1 : new[n] = off[n] - d
  <2>1. Rest(Stream', Stream, d)
    BY <1>4 DEF Rest
  <2>2. d \in Nat /\ Stream \in Seq(Byte) /\ Stream' \in Seq(Byte) /\ Layout(off, Stream, sent, host.end)
        /\ sent \in Seq(Lines) /\ host.end \in EndKinds
    BY <1>1, <1>2, <1>3, <1>4
  <2> QED
    BY <2>1, <2>2, LayoutMoves
<1>6. off \in [1 .. N + 1 -> Int] /\ off[N + 1] = Len(Stream) /\ off[1] <= 0
  BY <1>3 DEF Layout
<1>7. \A n \in 1 .. N + 1 : new[n] = off[n] - d /\ off[n] \in Int
  BY <1>5, <1>6
<1>8. Layout(new, Stream, sent, host.end)'
  BY <1>1, <1>5 DEF Layout
<1>9. c \in Seq(Byte) /\ Len(c) = i
  BY <1>4
<1>10. \A n \in 1 .. N :
         /\ Len(sent[n]) \in Nat \ {0} /\ off[n] \in Int /\ off[n + 1] \in Int
         /\ off[n] + Len(sent[n]) + 1 <= off[n + 1] /\ off[n + 1] <= off[n] + Len(sent[n]) + 2
  <2> TAKE n \in 1 .. N
  <2> DEFINE w == Len(sent[n])
             z == Len(host.end)
             a == off[n]
             b == off[n + 1]
  <2>1. w \in Nat \ {0}
    BY <1>2, LineTypes
  <2>2. z \in {1, 2}
    BY <1>1, EndTypes
  <2>3. n \in 1 .. N + 1 /\ n + 1 \in 1 .. N + 1
    BY <1>2
  <2>4. a \in Int /\ b \in Int
    BY <1>6, <2>3
  <2>5. b = a + w + z
    BY <1>3 DEF Layout
  <2> HIDE DEF w, z, a, b
  <2>6. a + w + 1 <= b /\ b <= a + w + 2
    BY <2>1, <2>2, <2>4, <2>5
  <2> QED
    BY <2>1, <2>4, <2>6 DEF w, a, b
<1>11. ASSUME NEW n \in 1 .. N, off[n] < 1, 1 <= off[n + 1]
       PROVE  /\ \/ i = 0 /\ off[n] + Len(sent[n]) < 1
                 \/ /\ i = off[n] + Len(sent[n]) /\ i >= 1 /\ 1 - off[n] \in 1 .. Len(sent[n])
                    /\ c = SubSeq(sent[n], 1 - off[n], Len(sent[n]))
              /\ d <= off[n + 1]
  BY <1>2, <1>3, <1>11, CommandIs DEF d
<1>12. i = 0 => executed' = executed
  <2>1. i = 0 => c = <<>>
    BY <1>9, EmptySeq
  <2> QED
    BY <1>1, <2>1 DEF AddCommand
<1>13. i # 0 => executed' = Append(executed, c) /\ Len(executed') = D + 1
  <2>1. i # 0 => c # <<>>
    BY <1>4, <1>9, EmptySeq
  <2>2. i # 0 => executed' = Append(executed, c)
    BY <1>1, <2>1 DEF AddCommand
  <2>3. Len(Append(executed, c)) = D + 1
    BY <1>2, <1>9
  <2> QED
    BY <2>2, <2>3
<1>14. executed' \in Seq(Seq(Byte))
  <2>1. Append(executed, c) \in Seq(Seq(Byte))
    BY <1>2, <1>9
  <2> QED
    BY <1>2, <1>12, <1>13, <2>1
<1> HIDE DEF c
<1>15. ASSUME opens > 1
       PROVE  \/ executed' = executed
              \/ \E n \in 1 .. Len(sent) : \E k \in 1 .. Len(sent[n]) :
                   executed' = Append(executed, SubSeq(sent[n], k, Len(sent[n])))
  <2>1. 1 \in 1 .. Len(Stream)
    BY <1>4
  <2>2. PICK n \in 1 .. N : off[n] < 1 /\ 1 <= off[n + 1]
    BY <1>2, <1>3, <1>4, <2>1, LineOf
  <2>3. CASE i = 0
    BY <1>12, <2>3
  <2>4. CASE i # 0
    BY <1>11, <1>13, <2>2, <2>4
  <2> QED
    BY <2>3, <2>4
<1>16. ASSUME opens <= 1
       PROVE  /\ \/ executed' = executed
                 \/ D < N /\ executed' = Append(executed, sent[D + 1])
              /\ Len(executed') <= N /\ new[Len(executed') + 1] \in {0, 1}
  <2>1. D <= N /\ off[D + 1] \in {0, 1}
    BY <1>3, <1>16
  <2>2. CASE off[D + 1] = 0
    <3> DEFINE n == D + 1
    <3>1. D # N
      <4>1. Len(Stream) # 0
        BY <1>4
      <4> QED
        BY <1>6, <2>2, <4>1
    <3>2. n \in 1 .. N /\ n + 1 \in 1 .. N + 1
      BY <1>2, <2>1, <3>1
    <3>3. off[n] = 0
      BY <2>2
    <3> HIDE DEF n
    <3>4. off[n] < 1 /\ 1 <= off[n + 1] /\ ~ off[n] + Len(sent[n]) < 1
      BY <1>10, <3>2, <3>3
    <3>5. i = Len(sent[n]) /\ i >= 1 /\ c = SubSeq(sent[n], 1, Len(sent[n])) /\ d <= off[n + 1]
      <4>1. /\ i = off[n] + Len(sent[n]) /\ i >= 1 /\ c = SubSeq(sent[n], 1 - off[n], Len(sent[n]))
            /\ d <= off[n + 1]
        BY <1>11, <3>2, <3>4
      <4>2. off[n] + Len(sent[n]) = Len(sent[n]) /\ 1 - off[n] = 1
        BY <1>10, <3>2, <3>3
      <4> QED
        BY <4>1, <4>2
    <3>6. c = sent[n]
      <4>1. sent[n] \in Seq(Byte)
        BY <1>2, <3>2, LineTypes
      <4> QED
        BY <3>5, <4>1, SubSeqFull
    <3>7. new[n + 1] \in {0, 1}
      <4> DEFINE b == off[n + 1]
      <4>1. b \in Int /\ i + 1 <= b /\ b <= i + 2 /\ d <= b /\ new[n + 1] = b - d
        <5>1. off[n + 1] \in Int /\ off[n] + Len(sent[n]) + 1 <= off[n + 1] /\ off[n + 1] <= off[n] + Len(sent[n]) + 2
          BY <1>10, <3>2
        <5>2. off[n] + Len(sent[n]) = i
          BY <1>4, <3>3, <3>5
        <5> QED
          BY <1>7, <3>2, <3>5, <5>1, <5>2
      <4> HIDE DEF b
      <4>2. b - d \in {0, 1}
        BY <1>4, <4>1
      <4> QED
        BY <4>1, <4>2
    <3>8. executed' = Append(executed, sent[n]) /\ Len(executed') = D + 1
      <4>1. i # 0
        BY <1>4, <3>5
      <4>2. executed' = Append(executed, c) /\ Len(executed') = D + 1
        BY <1>13, <4>1, Zenon
      <4> QED
        BY <3>6, <4>2, Zenon
    <3>9. D < N /\ D + 1 <= N
      BY <1>2, <2>1, <3>1
    <3> QED
      BY <3>7, <3>8, <3>9 DEF n
  <2>3. CASE off[D + 1] = 1
    <3> DEFINE n == D
    <3>1. D # 0
      BY <1>6, <2>3
    <3>2. n \in 1 .. N /\ n + 1 \in 1 .. N + 1 /\ off[n + 1] = 1
      BY <1>2, <2>1, <2>3, <3>1
    <3> HIDE DEF n
    <3>3. off[n] + Len(sent[n]) < 1 /\ off[n] < 1 /\ 1 <= off[n + 1]
      BY <1>10, <3>2
    <3>4. i = 0 /\ d <= 1
      <4>1. i = off[n] + Len(sent[n]) => ~ i >= 1
        BY <3>3
      <4> QED
        BY <1>11, <3>2, <3>3, <4>1
    <3>5. executed' = executed /\ d = 1
      BY <1>4, <1>12, <3>4
    <3>6. new[n + 1] = 0
      BY <1>7, <3>2, <3>5
    <3> QED
      BY <2>1, <3>5, <3>6 DEF n
  <2> QED
    BY <2>1, <2>2, <2>3
<1>17. \E o : /\ Layout(o, Stream, sent, host.end)'
              /\ opens' <= 1 => Len(executed') <= Len(sent') /\ o[Len(executed') + 1] \in {0, 1}
  BY <1>1, <1>8, <1>16
<1>18. LineInv'
  BY <1>1, <1>2, <1>14, <1>17 DEF LineInv
<1>19. opens <= 1 \/ opens > 1
  BY <1>1
<1> QED
  BY <1>15, <1>16, <1>18, <1>19

LEMMA LineStep ==
  ASSUME Inv, <<>> \notin Lines, LineInv, [Next]_vars
  PROVE  LineInv'
<1>1. CASE UNCHANGED vars
  <2>1. Stream' = Stream /\ UNCHANGED <<sent, host, executed, opens, pc>>
    BY <1>1 DEF vars, Stream
  <2>2. CASE pc = "wild"
    BY <2>1, <2>2, WildLines
  <2>3. CASE pc # "wild"
    BY <2>1, <2>3, LinesStay
  <2> QED
    BY <2>2, <2>3
<1>2. CASE Receive
  <2>1. UNCHANGED <<sent, host, executed, opens>> /\ pc # "wild"
    BY <1>2 DEF Receive
  <2>2. PICK n \in 1 .. Len(wire) :
          /\ wire' = SubSeq(wire, n + 1, Len(wire))
          /\ (pc' = "scan" /\ buf' = buf \o SubSeq(wire, 1, n)) \/ pc' = "wild"
    BY <1>2 DEF Receive
  <2>3. CASE pc' = "wild"
    BY <2>1, <2>3, WildLines
  <2>4. CASE pc' # "wild"
    <3>1. Stream' = Stream
      BY <2>2, <2>4, SameStream DEF Inv
    <3> QED
      BY <2>1, <3>1, LinesStay
  <2> QED
    BY <2>3, <2>4
<1>3. CASE ScanOn \/ ScanEnds
  <2>1. Stream' = Stream /\ UNCHANGED <<sent, host, executed, opens>> /\ pc # "wild"
    BY <1>3 DEF ScanOn, ScanEnds, Stream
  <2> QED
    BY <2>1, LinesStay
<1> QED
  BY <1>1, <1>2, <1>3, RunCommandLines, UsbConsoleLines, HostSendsLines DEF Next, Step

LEMMA LinesAlways ==
  ASSUME <<>> \notin Lines
  PROVE  Spec => []LineInv
<1>1. Init => LineInv
  BY InitLines
<1>2. Inv /\ LineInv /\ [Next]_vars => LineInv'
  BY LineStep
<1> QED
  BY <1>1, <1>2, Invariance, PTL DEF Spec

----------------------------------------------------------------------------
(* A step of the console is one of the line reader, or none.               *)
LEMMA SendStep ==
  ASSUME Inv, <<>> \notin Lines, LineInv, HostSends
  PROVE  Reader!Send
<1>1. PICK l \in Lines : sent' = Append(sent, l)
  BY HostSendsLines
<1>2. sent \in Seq(Lines) /\ Len(sent) \in Nat
  BY DEF LineInv
<1>3. Len(sent') = Len(sent) + 1 /\ sent' \in Seq(Lines) /\ \A n \in 1 .. Len(sent) : sent'[n] = sent[n]
  BY <1>1, <1>2
<1>4. SubSeq(sent, 1, Len(sent)) = SubSeq(sent', 1, Len(sent))
  <2> DEFINE N == Len(sent)
             a == SubSeq(sent, 1, N)
             b == SubSeq(sent', 1, N)
  <2>1. a \in Seq(Lines) /\ Len(a) = N /\ \A n \in 1 .. N : a[n] = sent[n]
    BY <1>2
  <2>2. b \in Seq(Lines) /\ Len(b) = N /\ \A n \in 1 .. N : b[n] = sent'[n]
    BY <1>2, <1>3
  <2> HIDE DEF a, b
  <2>3. a = b
    BY <1>3, <2>1, <2>2, SeqEqual
  <2> QED
    BY <2>3 DEF a, b
<1>5. Len(sent) <= Len(sent')
  BY <1>2, <1>3
<1>6. Reader!IsPrefix(sent, sent')
  BY <1>4, <1>5 DEF Reader!IsPrefix
<1>7. executed' = executed /\ (opens > 1)' = (opens > 1)
  BY DEF HostSends
<1> QED
  BY <1>3, <1>6, <1>7 DEF Reader!Send

LEMMA Simulation ==
  ASSUME Inv, <<>> \notin Lines, LineInv, [Next]_vars
  PROVE  [Reader!Next]_(Reader!vars)
<1>1. CASE HostSends
  BY <1>1, SendStep DEF Reader!Next
<1>2. CASE UsbConsole
  <2>1. opens \in Nat /\ opens' = opens + 1 /\ UNCHANGED <<sent, executed>>
    BY <1>2 DEF Inv, Types, UsbConsole
  <2>2. CASE opens = 0 \/ opens > 1
    <3>1. (opens > 1)' = (opens > 1)
      BY <2>1, <2>2
    <3> QED
      BY <2>1, <3>1 DEF Reader!vars
  <2>3. CASE opens = 1
    <3>1. (opens > 1)' = TRUE
      BY <2>1, <2>3
    <3> QED
      BY <2>1, <3>1 DEF Reader!Next, Reader!Cut
  <2> QED
    BY <2>1, <2>2, <2>3
<1>3. CASE RunCommand
  <2>1. UNCHANGED <<sent, opens>> /\ opens \in Nat /\ (opens > 1)' = (opens > 1)
    BY <1>3 DEF RunCommand, Inv, Types
  <2>2. CASE executed' = executed
    BY <2>1, <2>2 DEF Reader!vars
  <2>3. CASE opens <= 1 /\ Len(executed) < Len(sent) /\ executed' = Append(executed, sent[Len(executed) + 1])
    <3>1. ~ opens > 1
      BY <2>1, <2>3
    <3> QED
      BY <2>1, <2>3, <3>1 DEF Reader!Next, Reader!RunNext
  <2>4. CASE /\ opens > 1
             /\ \E n \in 1 .. Len(sent) : \E k \in 1 .. Len(sent[n]) :
                  executed' = Append(executed, SubSeq(sent[n], k, Len(sent[n])))
    BY <2>1, <2>4 DEF Reader!Next, Reader!RunRest
  <2> QED
    BY <1>3, <2>2, <2>3, <2>4, RunCommandLines
<1>4. CASE Receive \/ ScanOn \/ ScanEnds \/ UNCHANGED vars
  <2>1. UNCHANGED <<sent, executed, opens>>
    BY <1>4 DEF Receive, ScanOn, ScanEnds, vars
  <2> QED
    BY <2>1 DEF Reader!vars
<1> QED
  BY <1>1, <1>2, <1>3, <1>4 DEF Next, Step

(* The console is a line reader: however bytes are cut into batches and    *)
(* whatever the size of the buffer, the commands run are the lines sent,   *)
(* whole, once each and in order, until the buffer is overrun; opening it  *)
(* again may cut a line, and never makes one command of two lines.         *)
THEOREM ConsoleReadsLines ==
  ASSUME <<>> \notin Lines
  PROVE  Spec => LinesKept
<1>1. Init => Reader!Init
  <2> SUFFICES ASSUME Init PROVE Reader!Init
    OBVIOUS
  <2>1. sent = <<>> /\ executed = <<>> /\ (opens > 1) = FALSE
    BY DEF Init
  <2> QED
    BY <2>1 DEF Reader!Init
<1>2. Inv /\ LineInv /\ [Next]_vars => [Reader!Next]_(Reader!vars)
  BY Simulation
<1> QED
  BY <1>1, <1>2, Invariance, LinesAlways, PTL DEF Spec, LinesKept, Reader!Spec
=============================================================================
