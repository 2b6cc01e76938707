----------------------------- MODULE MCArmBoot -----------------------------
(* Two families of calls.  SmallLayouts: every layout of a small RAM, on    *)
(* devices whose pointers all translate and whose translation table lets    *)
(* the jump succeed.  Calls: every way the pointers, the section map, the   *)
(* table's protection and the CPU can be, in a safe layout, one whose       *)
(* tagged list overwrites the stack and one whose initrd overwrites the     *)
(* code.                                                                    *)
EXTENDS ArmBoot

TwoSections == {1, 2}
NoEntry == 0
SecondTag == {1}

Layout(k, i, n, c, hc, x, s, g, m) ==
  [ kernel |-> k, klen |-> 2, initrd |-> i, ilen |-> n, cmd |-> c, hasCmd |-> hc,
    code |-> x, stack |-> s, globals |-> g, mach |-> m, cpu |-> "intel",
    elf |-> FALSE, given |-> Pointers, translates |-> Pointers,
    codeV |-> 1, codeP |-> 1, stackV |-> 2, stackP |-> 2,
    tt |-> [sec \in TwoSections |-> sec], tableReadOnly |-> TRUE ]

(* The code, the stack and the globals each take their turn in the low,     *)
(* the middle and the high words.  The command line, with text or without,  *)
(* lies under either of the first two words of the tagged list, one of      *)
(* which reads as an empty text, under the words that follow, or elsewhere. *)
AllLayouts ==
  { Layout(k, i, n, c, hc, l[1], l[2], l[3], m) :
      k \in 0 .. 12, i \in 0 .. 11, n \in {0, 3}, c \in {0, 1, 2, 3, 4, 12}, hc \in BOOLEAN,
      l \in {<<0, 0, 0>>, <<13, 13, 13>>, <<5, 13, 0>>, <<0, 7, 8>>},
      m \in {"t3", "treo680", "other"} }

SmallLayouts == { d \in AllLayouts : WellPlaced(d) }

ThreeLayouts ==
  { [Layout(8, 9, 1, 12, TRUE, l[1], l[2], 13, "other") EXCEPT !.klen = 1] :
      l \in {<<0, 13>>, <<0, 3>>, <<7, 0>>} }

(* The pointers given and translated: all of them, or all but one.          *)
Given == {Pointers, Pointers \ {"kernel"}, Pointers \ {"cmdline"}}
AllButOne == {Pointers} \cup {Pointers \ {p} : p \in Pointers}

(* Which CPU and which kind of image go with which layout.                  *)
Machines == {<<"intel", FALSE>>, <<"ti", FALSE>>, <<"arm", TRUE>>}

(* Where code and stack are and what the table says of the two sections.    *)
Maps == { <<c, s, t>> \in TwoSections \X TwoSections \X [TwoSections -> TwoSections \cup {NoEntry}] :
            t[c] # NoEntry /\ t[s] # NoEntry }

Calls ==
  { [l EXCEPT !.cpu = v[1], !.elf = v[2], !.given = gv, !.translates = tr,
              !.codeV = m[1], !.codeP = m[3][m[1]], !.stackV = m[2],
              !.stackP = m[3][m[2]], !.tt = m[3], !.tableReadOnly = ro] :
      l \in ThreeLayouts, v \in Machines, gv \in Given, tr \in AllButOne,
      m \in Maps, ro \in BOOLEAN }

AllDevices == SmallLayouts \cup Calls
=============================================================================
