----------------------------- MODULE MCMachine -----------------------------
(* A Treo, a Tungsten and a machine that is not in the table, with CPUs of  *)
(* every kind, 16 or 32 MB of RAM of which Palm OS keeps back anything from *)
(* nothing to more than half, and MDCNFG with one or two pairs.             *)
EXTENDS Machine

Ids == { [vendor |-> Intel, part |-> 1041], [vendor |-> Intel, part |-> 720],
         [vendor |-> Intel, part |-> SA1100], [vendor |-> TI, part |-> 2341],
         [vendor |-> Arm, part |-> CPU920T], [vendor |-> Arm, part |-> 2342],
         [vendor |-> 68, part |-> 2577] }

NoPair == [enabled |-> {}, cols |-> 0, rows |-> 0, half |-> FALSE, bit12 |-> FALSE]
SomePair(e, h, b) == [enabled |-> e, cols |-> 1, rows |-> 2, half |-> h, bit12 |-> b]

Mdcnfgs == { [low |-> SomePair(e, h, b), high |-> q] :
               e \in {{0}, {0, 1}}, h \in BOOLEAN, b \in BOOLEAN, q \in {NoPair, SomePair({1}, FALSE, FALSE)} }

MCDevices ==
  { [oem |-> o, cpu |-> c, ttb |-> Base(c) + 3, ram |-> r, reported |-> r - k * (MB \div 2), mdcnfg |-> m] :
      o \in {"H102", "Frg1", "????"}, c \in {i \in Ids : i.vendor = Intel}, r \in {16 * MB}, k \in {6},
      m \in Mdcnfgs }
  \cup
  { [oem |-> o, cpu |-> c, ttb |-> Base(c) + 3, ram |-> r, reported |-> r - k * (MB \div 2),
     mdcnfg |-> [low |-> NoPair, high |-> NoPair]] :
      o \in {"H102", "Frg1", "????"}, c \in {i \in Ids : i.vendor # Intel}, r \in {16 * MB, 32 * MB},
      k \in {0, 5, 6, 7, 21, 22, 31} }
=============================================================================
