----------------------------- MODULE MCConsole -----------------------------
(* Lines of one and two characters, the longest that still fit the buffer   *)
(* with their end.                                                          *)
EXTENDS Console

CONSTANTS x, y

TwoChars == {x, y}
ShortLines == {<<x>>, <<y, x>>}
AllEnds == {<<CR>>, <<LF>>, <<CR, LF>>}
=============================================================================
