------------------------ MODULE MCRuntimeTransitions ------------------------
(***************************************************************************)
(* RuntimeTransitions on two components that may be anywhere; models that  *)
(* do not wait for their predecessors are about the first one only.        *)
(***************************************************************************)
EXTENDS RuntimeTransitions

CONSTANT Alone

MCModels == [Comps -> Runtimes \cup {"none"}]

RushedAlone ==
  rushed => \A c \in Comps \ {Alone} :
                 last.rt[c] = "none" /\ co.known[c] = Unknown /\ \A r \in Runtimes : c \notin runs[r]
=============================================================================
