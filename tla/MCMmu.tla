------------------------------- MODULE MCMmu -------------------------------
(***************************************************************************)
(* Every table of five entries, each a section or invalid, with at most    *)
(* one coarse and one fine table that hold every kind of page.             *)
(***************************************************************************)
EXTENDS Mmu, FiniteSets

FirstLevel == [kind : {"section"}, to : {0, 2, 3}]
              \cup {[kind |-> "invalid", to |-> 0], [kind |-> "coarse", to |-> 7],
                    [kind |-> "fine", to |-> 8]}
OfKind(t, kind) == {s \in 0 .. 4 : t[s].kind = kind}
AllTables == {t \in [0 .. 4 -> FirstLevel] :
                \A kind \in {"coarse", "fine"} : Cardinality(OfKind(t, kind)) <= 1}

CoarseTable == {7}
FineTable == {8}
Pages ==
  [t \in CoarseTable \cup FineTable |->
    [k \in 0 .. 7 |->
      CASE k = 0 -> [kind |-> "small", to |-> <<1, 2>>]
        [] k = 1 -> [kind |-> "invalid", to |-> <<3, 2>>]
        [] k \in {2, 3} -> [kind |-> "large", to |-> <<2, 4>>]
        [] OTHER -> [kind |-> IF t \in FineTable THEN "tiny" ELSE "small", to |-> <<4, 3>>]]]
=============================================================================
