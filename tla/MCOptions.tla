----------------------------- MODULE MCOptions -----------------------------
(* Two known keys and an unknown one; every kind of line, with and without  *)
(* spaces; a value that is cut; a line that does not fit in the buffer.     *)
EXTENDS Options

CONSTANTS k, u, x

Letters == {k, u, x}
KnownKeys == {<<k>>, <<x>>}
Empty == [key \in KnownKeys |-> <<x, x>>]
UnixEnds == {<<LF>>}
DosEnds == {<<CR, LF>>}
BothEnds == UnixEnds \cup DosEnds

Sets(text, key, value) == [text |-> text, key |-> key, value |-> value, error |-> "none"]
Nothing(text) == [text |-> text, key |-> None, value |-> <<>>, error |-> "none"]
Wrong(text, error) == [text |-> text, key |-> None, value |-> <<>>, error |-> error]

GoodLines ==
  { Sets(<<k, Equals, x>>, <<k>>, <<x>>),
    Sets(<<k, Space, Equals, k, Equals, u>>, <<k>>, <<k, Equals, u>>),
    Sets(<<Space, x, Equals, Space, u, Space>>, <<x>>, <<u>>),
    Sets(<<x, Equals, u, x, u, k>>, <<x>>, <<u, x, u, k>>) }
OtherLines ==
  { Nothing(<<>>), Nothing(<<Space>>), Nothing(<<Space, Hash, k, Equals, u>>),
    Wrong(<<k, x>>, "no equals sign found"), Wrong(<<Space, Equals, x>>, "empty key"),
    Wrong(<<k, Equals, Space>>, "empty value"), Wrong(<<u, Equals, x>>, "unrecognised option") }
LongLine == Nothing(<<Hash, x, x, x, x, x, x, k, Equals, u>>)

SomeLines == GoodLines \cup OtherLines
AllLines == SomeLines \cup {LongLine}
=============================================================================
