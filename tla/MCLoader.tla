------------------------------ MODULE MCLoader ------------------------------
(* Two volumes and two cards.  One card has a longer kernel, the other a    *)
(* shorter one and an initrd; the images compiled in fit a page or do not.  *)
EXTENDS Loader, TLC

CONSTANTS c1, c2

TwoCards == {c1, c2}
TwoVolumes == {1, 2}
CardFiles == (c1 :> [kernel |-> 4, initrd |-> Absent]) @@ (c2 :> [kernel |-> 3, initrd |-> 2])
NotCompiledIn == [i \in Image |-> Absent]
Tables == {NotCompiledIn, [kernel |-> Absent, initrd |-> 2], [kernel |-> 5, initrd |-> Absent]}
=============================================================================
