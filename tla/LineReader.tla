----------------------------- MODULE LineReader -----------------------------
(***************************************************************************)
(* What a console promises to the host at the other end of its cable: the  *)
(* lines sent are run whole, once each and in the order they were sent.    *)
(* A line may be cut when the console is opened a second time; from then   *)
(* on what is run may be the end of a line, but never parts of two lines.  *)
(***************************************************************************)
EXTENDS Naturals, Sequences, SequencesExt

VARIABLES
  sent,   \* the lines sent, in order
  done,   \* the lines run, in order
  cut     \* a line may have been cut

vars == <<sent, done, cut>>

Init == sent = <<>> /\ done = <<>> /\ cut = FALSE

Send ==
  /\ Len(sent') = Len(sent) + 1 /\ IsPrefix(sent, sent')
  /\ UNCHANGED <<done, cut>>

RunNext ==
  /\ ~ cut /\ Len(done) < Len(sent)
  /\ done' = Append(done, sent[Len(done) + 1])
  /\ UNCHANGED <<sent, cut>>

Cut ==
  /\ cut' = TRUE
  /\ UNCHANGED <<sent, done>>

RunRest ==
  /\ cut
  /\ \E n \in 1 .. Len(sent) : \E k \in 1 .. Len(sent[n]) :
       done' = Append(done, SubSeq(sent[n], k, Len(sent[n])))
  /\ UNCHANGED <<sent, cut>>

Next == Send \/ RunNext \/ Cut \/ RunRest
Spec == Init /\ [][Next]_vars
=============================================================================
