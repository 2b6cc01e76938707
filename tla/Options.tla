------------------------------ MODULE Options ------------------------------
(***************************************************************************)
(* Reading cocoboot.conf at the start of the application: read_config,     *)
(* read_line, parse_config_line and set_option in m68k/options.c.  A line  *)
(* is read byte by byte into one buffer that is never cleared, parsed in   *)
(* place, and sets one option or is reported with its number.              *)
(*                                                                         *)
(* The file is made of lines whose meaning is known from how they were     *)
(* put together, so that what the program makes of the bytes can be        *)
(* compared with what the author of the file wrote.                        *)
(***************************************************************************)
EXTENDS Integers, Sequences, FiniteSetsExt

CONSTANTS
  Letter,                    \* bytes without a meaning of their own
  Space, Equals, Hash,       \* ' ', '=' and '#'
  CR, LF, Nul,               \* '\r', '\n' and 0
  Stale,                     \* a byte left in the memory the buffer takes
  Keys,                      \* the options there are: sequences of letters
  Default,                   \* their values at the start
  Lines,                     \* lines: [text, key, value, error]
  LineEnds,                  \* how a line ends: <<LF>> or <<CR, LF>>
  BufLen,                    \* 2047: the most read_line takes for one line
  ValueLen,                  \* 1023: the most set_option keeps of a value
  MaxLines                   \* bound: lines of a file

Char == Letter \cup {Space, Equals, Hash, Stale}
None == <<>>

(* A line sets key to value, or is to be reported with the given error, or *)
(* means nothing.                                                          *)
Setting(l) == l.key # None
Faulty(l) == l.error # "none"

(* What the lines of a file mean, by the places of their bytes.  The word  *)
(* t is all there is from a to b but for the spaces around it.             *)
Word(s, a, b, t) ==
  \/ t = <<>> /\ \A n \in a .. b : s[n] = Space
  \/ \E p, q \in a .. b :
       /\ p <= q /\ t = SubSeq(s, p, q) /\ Space \notin {s[p], s[q]}
       /\ \A n \in a .. b : n < p \/ n > q => s[n] = Space

Silent(s) ==
  \/ \A n \in DOMAIN s : s[n] = Space
  \/ \E h \in DOMAIN s : s[h] = Hash /\ \A n \in 1 .. h - 1 : s[n] = Space

Parts(s) == {SubSeq(s, p, q) : p \in 1 .. Len(s), q \in 0 .. Len(s)}

(* The key k and the value v are before and behind the first equals sign.  *)
Divided(s, k, v) ==
  \E e \in DOMAIN s :
    /\ s[e] = Equals /\ \A n \in 1 .. e - 1 : s[n] # Equals
    /\ Word(s, 1, e - 1, k) /\ Word(s, e + 1, Len(s), v)

Reported(l, error) == l.error = error /\ ~ Setting(l)

Means(l) ==
  \/ Silent(l.text) /\ Reported(l, "none")
  \/ /\ ~ Silent(l.text) /\ \A n \in DOMAIN l.text : l.text[n] # Equals
     /\ Reported(l, "no equals sign found")
  \/ /\ ~ Silent(l.text)
     /\ \E k, v \in Parts(l.text) :
          /\ Divided(l.text, k, v)
          /\ \/ k = <<>> /\ Reported(l, "empty key")
             \/ k # <<>> /\ v = <<>> /\ Reported(l, "empty value")
             \/ k \notin Keys /\ <<>> \notin {k, v} /\ Reported(l, "unrecognised option")
             \/ k \in Keys /\ v # <<>> /\ l.key = k /\ l.value = v /\ ~ Faulty(l)

(* A text has no line ends of its own; line_no is an int of 16 bits.       *)
ASSUME OptionsAssumption ==
  /\ Equals # Space /\ Hash \notin {Space, Equals} /\ {Space, Equals, Hash} \cap Letter = {}
  /\ {CR, LF, Nul} \cap Char = {} /\ CR # LF /\ Nul \notin {CR, LF}
  /\ Keys \subseteq Seq(Letter) \ {<<>>} /\ Default \in [Keys -> Seq(Char)]
  /\ LineEnds \subseteq {<<LF>>, <<CR, LF>>}
  /\ {BufLen, ValueLen} \subseteq Nat \ {0} /\ MaxLines \in 0 .. 2 ^ 15 - 1
  /\ \A l \in Lines : l.text \in Seq(Char) /\ Means(l)

VARIABLES
  written,   \* the lines of the file; the last may lack its line end
  end,       \* how they end
  closed,    \* TRUE when the last does, too
  row, col,  \* the place in the file: bytes read of line row
  phase,     \* "start", "line" in read_line, "parse" or "done"
  buf,       \* buf[0 .. BufLen] of read_config
  i,         \* the index in read_line
  line_no,
  options,   \* the value of each option
  errors     \* what was reported: <<line number, message>>

source == <<written, end, closed>>
readVars == <<source, row, col, phase, buf, i, line_no, options, errors>>

(* buf is on the stack of read_config and has no initial value.            *)
ReadInit ==
  /\ written \in UNION {[1 .. n -> Lines] : n \in 0 .. MaxLines}
  /\ end \in LineEnds /\ closed \in BOOLEAN
  /\ row = 1 /\ col = 0
  /\ \E a, b \in {Nul, Stale} : buf = [k \in 0 .. BufLen |-> IF k < BufLen THEN a ELSE b]
  /\ phase = "start" /\ i = 0 /\ line_no = 1
  /\ options = Default /\ errors = <<>>

----------------------------------------------------------------------------
(* read_config finds and opens the file, or leaves the options alone.      *)
Open ==
  /\ phase = "start" /\ phase' \in {"line", "done"}
  /\ UNCHANGED <<source, row, col, buf, i, line_no, options, errors>>

(* read_line: one byte.                                                    *)
InBuffer(n) == n < BufLen
Bytes(n) == written[n].text \o IF closed \/ n < Len(written) THEN end ELSE <<>>
Reading ==
  phase = "line" /\ InBuffer(i) /\ row \in DOMAIN written /\ col < Len(Bytes(row))
Byte == Bytes(row)[col + 1]
NextByte == col' = col + 1 /\ UNCHANGED row
NextRow == row' = row + 1 /\ col' = 0

Unterminated == UNCHANGED buf
Terminated == buf' = [buf EXCEPT ![i] = Nul]

TakeNewline ==
  /\ Reading /\ Byte = LF
  /\ NextRow /\ Terminated
  /\ phase' = "parse"
  /\ UNCHANGED <<source, i, line_no, options, errors>>

(* A '\r' is skipped in the file but still takes its place in the buffer.  *)
SkipReturn ==
  /\ Reading /\ Byte = CR
  /\ NextByte
  /\ i' = i + 1
  /\ UNCHANGED <<source, phase, buf, line_no, options, errors>>

TakeByte ==
  /\ Reading /\ Byte \notin {CR, LF}
  /\ NextByte
  /\ buf' = [buf EXCEPT ![i] = Byte]
  /\ i' = i + 1
  /\ UNCHANGED <<source, phase, line_no, options, errors>>

(* The loop ends with the buffer full and no terminator.                   *)
LineFull ==
  /\ phase = "line" /\ ~ InBuffer(i)
  /\ phase' = "parse"
  /\ UNCHANGED <<source, row, col, buf, i, line_no, options, errors>>

IgnoreError == UNCHANGED phase
StopReading == phase' = "done"

(* The end of the file, or the card was pulled out: what was read of the   *)
(* line is dropped, and read_config returns.                               *)
ReadFails ==
  /\ phase = "line" /\ InBuffer(i)
  /\ StopReading
  /\ UNCHANGED <<source, row, col, buf, i, line_no, options, errors>>

----------------------------------------------------------------------------
(* parse_config_line and set_option, on the string that starts at buf[0].  *)
(* A string that no byte of the buffer ends is taken to end right after    *)
(* the buffer.                                                             *)

Ends(b) == {k \in 0 .. BufLen : b[k] = Nul}
StringEnd(b) == Min(Ends(b) \cup {BufLen + 1})
String(b) == [k \in 1 .. StringEnd(b) |-> b[k - 1]]

Solid(s) == {k \in DOMAIN s : s[k] # Space}
Trim(s) == IF Solid(s) = {} THEN <<>> ELSE SubSeq(s, Min(Solid(s)), Max(Solid(s)))

EqualsIn(s) == {k \in DOMAIN s : s[k] = Equals}
LastEquals(s) == Max(EqualsIn(s))
FirstEquals(s) == Min(EqualsIn(s))
KeyOf(s) == Trim(SubSeq(s, 1, FirstEquals(s) - 1))
ValueOf(s) == Trim(SubSeq(s, FirstEquals(s) + 1, Len(s)))

Ignored(s) == Solid(s) # {} => s[Min(Solid(s))] = Hash

Problem(s) ==
  IF EqualsIn(s) = {} THEN "no equals sign found"
  ELSE IF KeyOf(s) = <<>> THEN "empty key"
  ELSE IF ValueOf(s) = <<>> THEN "empty value"
  ELSE IF KeyOf(s) \notin Keys THEN "unrecognised option"
  ELSE "none"

(* Where parsing writes terminators: over the equals sign, behind the key  *)
(* and behind the value, as far as it gets.                                *)
CutsAt(s) ==
  IF EqualsIn(s) = {} THEN {}
  ELSE LET e == FirstEquals(s)
       IN {e} \cup (IF KeyOf(s) = <<>> THEN {} ELSE {1 + Max({k \in Solid(s) : k < e})})
              \cup (IF KeyOf(s) = <<>> \/ ValueOf(s) = <<>> THEN {} ELSE {1 + Max(Solid(s))})

KeepNumber == UNCHANGED line_no
CountLine == line_no' = line_no + 1

NextLine ==
  /\ phase' = "line" /\ i' = 0
  /\ CountLine
  /\ UNCHANGED <<source, row, col>>

(* A blank line or a comment.                                              *)
Ignore ==
  /\ phase = "parse"
  /\ Ignored(String(buf))
  /\ NextLine
  /\ UNCHANGED <<buf, options, errors>>

(* strncpy with room for the 0.                                            *)
Fitting(v) == SubSeq(v, 1, Min({Len(v), ValueLen}))

Parsed(s) == buf' = [k \in 0 .. BufLen |-> IF k + 1 \in CutsAt(s) THEN Nul ELSE buf[k]]

SetOption ==
  /\ phase = "parse"
  /\ LET s == String(buf)
     IN /\ ~ Ignored(s) /\ Problem(s) = "none"
        /\ options' = [options EXCEPT ![KeyOf(s)] = Fitting(ValueOf(s))]
        /\ Parsed(s)
  /\ NextLine
  /\ UNCHANGED errors

ShowParseError ==
  /\ phase = "parse"
  /\ LET s == String(buf)
     IN /\ ~ Ignored(s) /\ Problem(s) # "none"
        /\ errors' = Append(errors, <<line_no, Problem(s)>>)
        /\ Parsed(s)
  /\ NextLine
  /\ UNCHANGED options

Step ==
  \/ Open \/ TakeNewline \/ SkipReturn \/ TakeByte \/ LineFull \/ ReadFails
  \/ Ignore \/ SetOption \/ ShowParseError

(* A loop of straight-line code; the user confirms every alert.            *)
ReadSpec == ReadInit /\ [][Step]_readVars
FairSpec == ReadSpec /\ WF_readVars(Step)

----------------------------------------------------------------------------
(* Properties.                                                             *)

AllFit == \A k \in DOMAIN written : Len(written[k].text) < BufLen
Plain == AllFit /\ end = <<LF>>

(* The lines read_config is done with.                                     *)
Behind == SubSeq(written, 1, line_no - 1)
LastOf(k) == {n \in DOMAIN Behind : Setting(Behind[n]) /\ Behind[n].key = k}
FaultyLines == {n \in DOMAIN Behind : Faulty(Behind[n])}

Cut(v) == IF Len(v) > ValueLen THEN SubSeq(v, 1, ValueLen) ELSE v
Meant == [k \in Keys |-> IF LastOf(k) = {} THEN Default[k]
                         ELSE Cut(Behind[Max(LastOf(k))].value)]

(* At every moment, in a file whose lines end in '\n' and fit the buffer,  *)
(* the options are what the lines read so far say: the last line that sets *)
(* an option wins, whatever the lines before it left in the buffer, and no *)
(* line that is a comment, blank or faulty sets one.  Of a value that is   *)
(* too long as much is kept as fits.                                       *)
OptionsFollowLines == Plain => options = Meant

(* Every faulty line is reported once, in order, with its own number and   *)
(* what is wrong with it; no other line is.                                *)
ErrorsNameTheirLines ==
  Plain =>
    /\ {errors[n] : n \in DOMAIN errors} = {<<n, Behind[n].error>> : n \in FaultyLines}
    /\ \A m, n \in DOMAIN errors : m < n => errors[m][1] < errors[n][1]

(* read_line never leaves its buffer, however long a line is, and          *)
(* parse_config_line is only given a string that ends inside the buffer    *)
(* and no later than what was read, if every line fits.                    *)
StringEnds ==
  /\ i \in 0 .. BufLen /\ DOMAIN buf = 0 .. BufLen
  /\ phase = "parse" /\ Plain => Ends(buf) # {} /\ StringEnd(buf) <= i

(* read_config comes to an end, whatever the file.                         *)
ConfigEnds == <>(phase = "done")

(* options.c:60 "stripping linefeeds": a line that fits the buffer means    *)
(* the same whichever way it ends; stated for the values of the options.   *)
LinefeedsStripped == AllFit => options = Meant
=============================================================================
