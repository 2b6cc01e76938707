----------------------------- MODULE MCFwDump -----------------------------
(* Markers three bytes apart; firmware of up to nine bytes in records of 2, *)
(* 4 or 8, where ints have four bits.  One helper has data that looks like  *)
(* a marker, one no marker at all.                                          *)
EXTENDS FwDump

CONSTANTS c1, c2

TwoCards == {c1, c2}
MCHelpers ==
  { [len |-> 8, marker |-> 1, ff |-> {1, 4, 7}], [len |-> 7, marker |-> 3, ff |-> {1, 3, 6}],
    [len |-> 8, marker |-> 2, ff |-> {1, 2, 4, 5}], [len |-> 4, marker |-> 2, ff |-> {2}],
    [len |-> 0, marker |-> 0, ff |-> {}] }
MCFirmwares == [len : 0 .. 9, record : {2, 4, 8}]
=============================================================================
