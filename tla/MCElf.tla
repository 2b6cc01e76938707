------------------------------- MODULE MCElf -------------------------------
(* An image of six words, the header, two program headers, a word of        *)
(* padding and two words of data, moved about in a RAM of ten words.        *)
EXTENDS Elf

Headers(load, d, deltas, sizes) ==
  { [load |-> load, vaddr |-> p + x, paddr |-> p, offset |-> 4, filesz |-> s[1], memsz |-> s[2]] :
      p \in d, x \in deltas, s \in sizes }

Sizes == {<<0, 2>>, <<1, 2>>, <<2, 2>>, <<2, 4>>, <<2, 3>>, <<4, 4>>}
Other == [NoHeader EXCEPT !.vaddr = 1]

Programs ==
  { <<g, h>> : g \in {NoHeader, Other} \cup Headers(TRUE, {0, 4, 6}, {0, 3}, Sizes),
               h \in {Other} \cup Headers(TRUE, 0 .. 8, {0, 3}, {<<2, 2>>, <<2, 4>>}) }

TwoSegments ==
  { [img |-> b, words |-> 6, live |-> {l}, phdr |-> p] : b \in {0, 2, 4}, l \in {1, 9}, p \in Programs }
MCImages == {e \in TwoSegments : WellFormed(e)}
=============================================================================
