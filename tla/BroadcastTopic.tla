--------------------------- MODULE BroadcastTopic ---------------------------
(***************************************************************************)
(* What a Broadcaster (pkg/utils/broadcaster) promises to its subscribers, *)
(* without its buffer, its select cases and its run loop.                  *)
(*                                                                         *)
(* The values are numbered in the order in which the owner sets them.  A   *)
(* subscriber starts with the value that is current when it joins, and     *)
(* every read gives the oldest value that it has not had, among the        *)
(* current one and the number of earlier ones that it asked to buffer.     *)
(***************************************************************************)
EXTENDS Integers

CONSTANTS Subs,   \* subscribers
          Limit   \* the largest number of buffered values

VARIABLES
  latest,  \* the number of the current value
  joined,  \* the subscribers at present
  len,     \* len[s]: how many earlier values s may still be given
  next     \* next[s]: the first value that s has not had

vars == <<latest, joined, len, next>>

Init == /\ latest = 0
        /\ joined = {}
        /\ len = [s \in Subs |-> 0]
        /\ next = [s \in Subs |-> 0]

Publish == latest' = latest + 1 /\ UNCHANGED <<joined, len, next>>

Join(s) == /\ s \notin joined
           /\ joined' = joined \cup {s}
           /\ \E n \in 0..Limit : len' = [len EXCEPT ![s] = n]
           /\ next' = [next EXCEPT ![s] = latest]
           /\ UNCHANGED latest

\* The value that a read of s gives.
Due(s) == IF next[s] < latest - len[s] THEN latest - len[s] ELSE next[s]

\* A reader may leave with its last value.
Read(s) == /\ s \in joined
           /\ Due(s) <= latest
           /\ next' = [next EXCEPT ![s] = Due(s) + 1]
           /\ joined' \in {joined, joined \ {s}}
           /\ UNCHANGED <<latest, len>>

Leave == joined' \subseteq joined /\ UNCHANGED <<latest, len, next>>

Next == Publish \/ Leave \/ \E s \in Subs : Join(s) \/ Read(s)

Spec == Init /\ [][Next]_vars
=============================================================================
