-------------------------- MODULE BroadcasterProofs --------------------------
(***************************************************************************)
(* The proof that the Broadcaster implements BroadcastTopic, for every set *)
(* of subscribers, every size of the ring and every number of values.      *)
(***************************************************************************)
EXTENDS Broadcaster, WellFoundedInduction, TLAPS

LEMMA Constants == MaxBuffer \in Nat /\ Size \in Nat \ {0} /\ Size = MaxBuffer + 1
  BY ConstantsOK DEF Size

-----------------------------------------------------------------------------
(* The ring and the smallest element of a set. *)

\* Min, which releaseUnreachable uses, is the smallest element.
LEMMA MinOK ==
  ASSUME NEW S \in SUBSET Nat, S # {}
  PROVE Min(S) \in S /\ \A y \in S : Min(S) <= y
<1>1. IsWellFoundedOn(OpToRel(<, Nat), Nat)
  BY NatLessThanWellFounded
<1>2. PICK x \in S : \A y \in S : ~ (<<y, x>> \in OpToRel(<, Nat))
  BY <1>1, WFMin
<1>3. \A y \in S : ~ (y < x)
  BY <1>2 DEF OpToRel
<1>4. \A y \in S : x <= y
  BY <1>3
<1> QED
  BY <1>4 DEF Min

LEMMA SlotRange == ASSUME NEW i \in Int PROVE Slot(i) \in 0..MaxBuffer
  BY Constants DEF Slot

\* Values that are in the ring at the same time have places of their own.
LEMMA SlotInjective ==
  ASSUME NEW i \in Int, NEW j \in Int, i < j, j - i <= MaxBuffer
  PROVE Slot(i) # Slot(j)
<1> DEFINE qi == i \div Size  qj == j \div Size
<1>1. /\ qi \in Int /\ qj \in Int
      /\ i = Size * qi + Slot(i) /\ j = Size * qj + Slot(j)
  BY Constants DEF Slot
<1> HIDE DEF qi, qj
<1> SUFFICES ASSUME Slot(i) = Slot(j) PROVE FALSE
  OBVIOUS
<1>2. j - i = Size * qj - Size * qi
  BY <1>1, SlotRange, Constants
<1>3. Size * qj - Size * qi = Size * (qj - qi)
  BY <1>1, Constants
<1>4. CASE qj - qi <= 0
  <2>1. Size * (qj - qi) <= 0
    BY <1>1, <1>4, Constants
  <2> QED
    BY <1>2, <1>3, <2>1
<1>5. CASE qj - qi >= 1
  <2>1. Size * (qj - qi) >= Size
    BY <1>1, <1>5, Constants
  <2> QED
    BY <1>2, <1>3, <2>1, Constants
<1> QED
  BY <1>1, <1>4, <1>5

\* From value lo on, the ring buf holds the last values up to ix.
Ring(lo, ix, buf) == \A i \in lo..ix : ix - i <= MaxBuffer => buf[Slot(i)] = i

\* A new value takes the place of one that has become too old.
LEMMA RingGrows ==
  ASSUME NEW lo \in Nat, NEW ix \in Nat, lo <= ix, buffer \in [0..MaxBuffer -> Int],
         Ring(lo, ix, buffer)
  PROVE handleNewInput(ix + 1) \in [0..MaxBuffer -> Int] /\ Ring(lo, ix + 1, handleNewInput(ix + 1))
<1>0. ix + 1 \in Int
  OBVIOUS
<1>1. Slot(ix + 1) \in 0..MaxBuffer
  BY <1>0, SlotRange
<1>2. handleNewInput(ix + 1) \in [0..MaxBuffer -> Int]
  BY <1>1 DEF handleNewInput
<1>3. ASSUME NEW i \in lo..(ix + 1), ix + 1 - i <= MaxBuffer
      PROVE handleNewInput(ix + 1)[Slot(i)] = i
  <2>1. CASE i = ix + 1
    BY <1>1, <2>1 DEF handleNewInput
  <2>2. CASE i \in lo..ix
    <3> DEFINE j == ix + 1
    <3>0. i \in Int /\ j \in Int /\ i < j /\ j - i <= MaxBuffer
      BY <1>3, <2>2
    <3> HIDE DEF j
    <3>i. Slot(i) # Slot(j)
      BY <3>0, SlotInjective
    <3>1. Slot(i) # Slot(ix + 1) /\ Slot(i) \in 0..MaxBuffer
      BY <3>0, <3>i, SlotRange DEF j
    <3>2. buffer[Slot(i)] = i
      BY <1>3, <2>2, Constants DEF Ring
    <3> QED
      BY <3>1, <3>2, <1>1 DEF handleNewInput
  <2> QED
    BY <2>1, <2>2
<1> QED
  BY <1>2, <1>3 DEF Ring

\* releaseUnreachable clears nothing that one of the records R can be given.
LEMMA Release ==
  ASSUME NEW R, NEW ix \in Nat, NEW buf \in [0..MaxBuffer -> Int],
         released \in Nat, released <= ix, Ring(released, ix, buf),
         \A r \in R : reach(r, ix) \in Nat /\ released <= reach(r, ix),
         releaseUnreachable(R, ix, buf)
  PROVE /\ buffer' \in [0..MaxBuffer -> Int]
        /\ released' \in Nat /\ released' <= ix /\ Ring(released', ix, buffer')
        /\ \A r \in R : released' <= reach(r, ix)
<1> DEFINE S == {ix} \cup {reach(r, ix) : r \in R}
           oldest == Min(S)
           cleared == {Slot(i) : i \in larger(released, ix - Size + 1)..(oldest - 1)}
<1>1. S \in SUBSET Nat /\ S # {}
  OBVIOUS
<1>2. oldest \in S /\ \A y \in S : oldest <= y
  BY <1>1, MinOK
<1>3. oldest \in Nat /\ oldest <= ix /\ \A r \in R : oldest <= reach(r, ix)
  BY <1>1, <1>2
<1>4. /\ buffer' = [k \in 0..MaxBuffer |-> IF k \in cleared THEN NoValue ELSE buf[k]]
      /\ released' = larger(released, oldest)
  BY DEF releaseUnreachable
<1> HIDE DEF S, oldest
<1>5. released' \in Nat /\ released' <= ix /\ \A r \in R : released' <= reach(r, ix)
  BY <1>3, <1>4 DEF larger
<1>6. ASSUME NEW i \in released'..ix, ix - i <= MaxBuffer PROVE buffer'[Slot(i)] = i
  <2>1. i \in Nat /\ released <= i /\ oldest <= i /\ i <= ix
    BY <1>3, <1>4, <1>5 DEF larger
  <2>2. Slot(i) \notin cleared
    <3> SUFFICES ASSUME NEW j \in larger(released, ix - Size + 1)..(oldest - 1)
                 PROVE Slot(i) # Slot(j)
      OBVIOUS
    <3>1. j \in Int /\ j < i /\ i - j <= MaxBuffer
      BY <1>3, <2>1, Constants DEF larger
    <3> QED
      BY <3>1, <2>1, SlotInjective
  <2>3. buf[Slot(i)] = i
    BY <1>6, <2>1 DEF Ring
  <2> QED
    BY <1>4, <2>1, <2>2, <2>3, SlotRange
<1>7. buffer' \in [0..MaxBuffer -> Int]
  BY <1>4 DEF NoValue
<1> QED
  BY <1>5, <1>6, <1>7 DEF Ring

-----------------------------------------------------------------------------
(* The inductive invariant. *)

Record == [index : Nat, len : 0..MaxBuffer, open : BOOLEAN, offer : Int]

Types ==
  /\ index \in Nat /\ queued \in Nat
  /\ released \in Nat /\ released <= index
  /\ buffer \in [0..MaxBuffer -> Int] /\ sub \in [Subs -> Record]
  /\ members \subseteq Subs /\ members \cap waiting = {}
  /\ next \in [Subs -> Nat]

\* The value that a subscriber is due.
DueTo(n, r, ix) == larger(n, ix - r.len)

\* The record r of a subscriber that has had the values before n.  It goes along with the
\* values that are set, except while drainInput takes several of them.
Current(n, r, ix) ==
  /\ r.index = DueTo(n, r, ix) /\ r.index <= ix + 1
  /\ r.open <=> r.index <= ix
  /\ r.open => r.offer = r.index

Behind(n, r, ix) == n <= r.index /\ r.index <= DueTo(n, r, ix) /\ r.index <= ix

ServedInv ==
  /\ Types
  /\ Ring(released, index, buffer)
  /\ \A s \in members : released <= reach(sub[s], index)
  /\ pc # "update" => \A s \in members : Current(next[s], sub[s], index)
  /\ pc = "update" => \A s \in members : Behind(next[s], sub[s], index)

\* updateListeners brings a record that is behind up to date.
LEMMA RefreshedOK ==
  ASSUME NEW n \in Nat, NEW r \in Record, NEW ix \in Nat, NEW buf \in [0..MaxBuffer -> Int],
         NEW lo \in Nat, lo <= reach(r, ix), Ring(lo, ix, buf), Behind(n, r, ix)
  PROVE /\ Refreshed(r, ix, buf) \in Record /\ Current(n, Refreshed(r, ix, buf), ix)
        /\ Refreshed(r, ix, buf).len = r.len
        /\ reach(Refreshed(r, ix, buf), ix) = reach(r, ix) /\ reach(r, ix) \in Nat
<1> DEFINE i == reach(r, ix)  q == Refreshed(r, ix, buf)
<1>0. r.index \in Nat /\ r.len \in Nat /\ r.len <= MaxBuffer /\ MaxBuffer \in Nat
  BY Constants DEF Record
<1>b. n <= r.index /\ r.index <= ix /\ (r.index <= n \/ r.index <= ix - r.len)
  BY <1>0 DEF Behind, DueTo, larger
<1>1. i \in Nat /\ i <= ix /\ ix - i <= MaxBuffer /\ i = DueTo(n, r, ix)
  <2>1. CASE r.index < ix - r.len
    <3>1. i = ix - r.len /\ DueTo(n, r, ix) = ix - r.len
      BY <1>0, <1>b, <2>1 DEF reach, larger, DueTo
    <3> QED
      BY <1>0, <2>1, <3>1
  <2>2. CASE ~ (r.index < ix - r.len)
    <3>1. i = r.index /\ r.index >= ix - r.len
      BY <1>0, <2>2 DEF reach, larger
    <3>2. DueTo(n, r, ix) = r.index
      BY <1>0, <1>b, <2>2, SMTT(40) DEF larger, DueTo
    <3> QED
      BY <1>0, <1>b, <3>1, <3>2
  <2> QED
    BY <2>1, <2>2
<1>2. Slot(i) \in 0..MaxBuffer /\ buf[Slot(i)] = i
  BY <1>1, SlotRange DEF Ring
<1> DEFINE opened(v) == [r EXCEPT !.index = i, !.open = v, !.offer = buf[Slot(i)]]
<1> HIDE DEF i
<1>3. \A v \in BOOLEAN : /\ opened(v) \in Record /\ opened(v).index = i
                         /\ opened(v).offer = buf[Slot(i)] /\ opened(v).len = r.len
                         /\ opened(v).open = v
  BY <1>1, <1>2 DEF Record
<1>4. q = opened(r.open \/ r.index <= ix)
  BY DEF Refreshed, i
<1> HIDE DEF q, opened
<1>5. (r.open \/ r.index <= ix) \in BOOLEAN
  OBVIOUS
<1>6. /\ q \in Record /\ q.index = i /\ q.offer = i /\ q.len = r.len
  BY <1>2, <1>3, <1>4, <1>5, Zenon
<1>7. q.open
  <2>1. q.open = (r.open \/ r.index <= ix)
    BY <1>3, <1>4, <1>5, Zenon
  <2> QED
    BY <2>1, <1>b, Zenon
<1>8. reach(q, ix) = i
  BY <1>6, <1>1, <1>0 DEF reach, larger, i
<1>9. Current(n, q, ix)
  <2>1. q.index = DueTo(n, q, ix) /\ q.index <= ix + 1 /\ q.index <= ix /\ q.offer = q.index
    BY <1>1, <1>6 DEF DueTo
  <2> QED
    BY <2>1, <1>7 DEF Current
<1> QED
  BY <1>1, <1>6, <1>8, <1>9, Zenon DEF i, q

\* A value more, and a record is behind.
LEMMA BehindOK ==
  ASSUME NEW n \in Nat, NEW r \in Record, NEW ix \in Nat,
         Current(n, r, ix) \/ Behind(n, r, ix)
  PROVE Behind(n, r, ix + 1) /\ reach(r, ix) <= reach(r, ix + 1) /\ reach(r, ix) \in Nat
<1>0. r.index \in Nat /\ r.len \in Nat
  BY Constants DEF Record
<1>1. n <= r.index /\ r.index <= DueTo(n, r, ix) /\ r.index <= ix + 1
  BY <1>0 DEF Current, Behind, DueTo, larger
<1>2. DueTo(n, r, ix) <= DueTo(n, r, ix + 1)
  BY <1>0 DEF DueTo, larger
<1>3. DueTo(n, r, ix) \in Int /\ DueTo(n, r, ix + 1) \in Int
  BY <1>0 DEF DueTo, larger
<1>4. reach(r, ix) <= reach(r, ix + 1) /\ reach(r, ix) \in Nat
  BY <1>0 DEF reach, larger
<1>5. r.index <= DueTo(n, r, ix + 1)
  BY <1>0, <1>1, <1>2, <1>3
<1> QED
  BY <1>1, <1>4, <1>5 DEF Behind

LEMMA ReachNat == ASSUME NEW r \in Record, NEW ix \in Nat PROVE reach(r, ix) \in Nat
<1>0. r.index \in Nat /\ r.len \in Nat
  BY Constants DEF Record
<1> QED
  BY <1>0 DEF reach, larger

\* The same for all subscribers, with the clearing that follows.
LEMMA UpdateOK ==
  ASSUME Types, NEW ix \in Nat, released <= ix, NEW buf \in [0..MaxBuffer -> Int],
         Ring(released, ix, buf),
         \A s \in members : released <= reach(sub[s], ix) /\ Behind(next[s], sub[s], ix),
         updateListeners(ix, buf)
  PROVE /\ sub' \in [Subs -> Record] /\ buffer' \in [0..MaxBuffer -> Int]
        /\ released' \in Nat /\ released' <= ix /\ Ring(released', ix, buffer')
        /\ \A s \in members : released' <= reach(sub'[s], ix) /\ Current(next[s], sub'[s], ix)
        /\ \A s \in Subs : sub'[s].len = sub[s].len
<1>1. sub' = [s \in Subs |-> IF s \in members THEN Refreshed(sub[s], ix, buf) ELSE sub[s]]
  BY DEF updateListeners
<1>2. ASSUME NEW s \in members
      PROVE /\ s \in Subs /\ sub'[s] \in Record /\ Current(next[s], sub'[s], ix)
            /\ sub'[s].len = sub[s].len
            /\ reach(sub'[s], ix) = reach(sub[s], ix) /\ reach(sub[s], ix) \in Nat
  <2>1. s \in Subs /\ sub[s] \in Record /\ next[s] \in Nat /\ released \in Nat
    BY DEF Types
  <2>2. sub'[s] = Refreshed(sub[s], ix, buf)
    BY <1>1, <2>1
  <2>3. released <= reach(sub[s], ix) /\ Behind(next[s], sub[s], ix)
    OBVIOUS
  <2>4. /\ Refreshed(sub[s], ix, buf) \in Record
        /\ Current(next[s], Refreshed(sub[s], ix, buf), ix)
        /\ Refreshed(sub[s], ix, buf).len = sub[s].len
        /\ reach(Refreshed(sub[s], ix, buf), ix) = reach(sub[s], ix)
        /\ reach(sub[s], ix) \in Nat
    BY <2>1, <2>3, RefreshedOK
  <2> QED
    BY <2>1, <2>2, <2>4
<1>3. ASSUME NEW s \in Subs PROVE sub'[s] \in Record /\ sub'[s].len = sub[s].len
  <2>1. CASE s \in members
    BY <2>1, <1>2
  <2>2. CASE s \notin members
    <3>1. sub'[s] = sub[s] /\ sub[s] \in Record
      BY <2>2, <1>1 DEF Types
    <3> QED
      BY <3>1
  <2> QED
    BY <2>1, <2>2
<1>4. sub' \in [Subs -> Record]
  BY <1>1, <1>3
<1>5. releaseUnreachable({sub'[s] : s \in members}, ix, buf)
  BY DEF updateListeners
<1>6. \A r \in {sub'[s] : s \in members} : reach(r, ix) \in Nat /\ released <= reach(r, ix)
  BY <1>2
<1>7. /\ buffer' \in [0..MaxBuffer -> Int]
      /\ released' \in Nat /\ released' <= ix /\ Ring(released', ix, buffer')
      /\ \A r \in {sub'[s] : s \in members} : released' <= reach(r, ix)
  BY <1>5, <1>6, Release DEF Types
<1> QED
  BY <1>2, <1>3, <1>4, <1>7

\* Every step keeps the invariant.
LEMMA ServedStep ==
  ASSUME ServedInv, [Next]_vars PROVE ServedInv'
<1>t. /\ \A s \in members : s \in Subs /\ sub[s] \in Record /\ next[s] \in Nat
      /\ index \in Nat /\ released \in Nat /\ released <= index
  BY DEF ServedInv, Types
<1>1. CASE /\ UNCHANGED <<index, released, buffer, sub, members, next, waiting>> /\ queued' \in Nat
           /\ pc' = pc \/ {pc, pc'} \cap {"update"} = {}
  <2>1. Types'
    BY <1>1 DEF ServedInv, Types
  <2>2. Ring(released, index, buffer)' /\ \A s \in members' : released' <= reach(sub[s], index)'
    BY <1>1 DEF ServedInv, Ring, reach
  <2>3. \A s \in members' : /\ Current(next[s], sub[s], index)' <=> Current(next[s], sub[s], index)
                            /\ Behind(next[s], sub[s], index)' <=> Behind(next[s], sub[s], index)
    BY <1>1 DEF Current, Behind, DueTo
  <2>4. (pc' = "update") <=> (pc = "update")
    BY <1>1
  <2> QED
    BY <1>1, <2>1, <2>2, <2>3, <2>4 DEF ServedInv
<1>2. CASE Drain
  <2>1. /\ index' = index + 1 /\ queued > 0 /\ queued' = queued - 1 /\ pc' = "update"
        /\ buffer' = handleNewInput(index + 1)
        /\ UNCHANGED <<released, sub, members, waiting, next>>
    BY <1>2 DEF Drain, env
  <2>2. buffer' \in [0..MaxBuffer -> Int] /\ Ring(released, index + 1, buffer')
    BY <2>1, RingGrows DEF ServedInv, Types
  <2>3. Types'
    BY <2>1, <2>2 DEF ServedInv, Types
  <2>4. ASSUME NEW s \in members
        PROVE Behind(next[s], sub[s], index + 1) /\ released <= reach(sub[s], index + 1)
    <3>1. Current(next[s], sub[s], index) \/ Behind(next[s], sub[s], index)
      BY DEF ServedInv
    <3>2. /\ Behind(next[s], sub[s], index + 1)
          /\ reach(sub[s], index) <= reach(sub[s], index + 1) /\ reach(sub[s], index) \in Nat
      BY <3>1, <1>t, BehindOK
    <3>3. released <= reach(sub[s], index) /\ reach(sub[s], index + 1) \in Nat
      BY <1>t, ReachNat DEF ServedInv
    <3> QED
      BY <3>2, <3>3, <1>t
  <2> QED
    BY <2>1, <2>2, <2>3, <2>4 DEF ServedInv
<1>3. ASSUME NEW ix \in Nat, NEW buf \in [0..MaxBuffer -> Int], released <= ix,
             Ring(released, ix, buf), updateListeners(ix, buf), index' = ix,
             \A s \in members : released <= reach(sub[s], ix) /\ Behind(next[s], sub[s], ix),
             UNCHANGED <<members, waiting, next>>, queued' \in Nat, pc' # "update"
      PROVE ServedInv'
  <2>1. /\ sub' \in [Subs -> Record] /\ buffer' \in [0..MaxBuffer -> Int]
        /\ released' \in Nat /\ released' <= ix /\ Ring(released', ix, buffer')
        /\ \A s \in members : released' <= reach(sub'[s], ix) /\ Current(next[s], sub'[s], ix)
    BY <1>3, UpdateOK DEF ServedInv
  <2>2. Types'
    BY <1>3, <2>1 DEF ServedInv, Types
  <2> QED
    BY <1>3, <2>1, <2>2 DEF ServedInv
<1>4. CASE DrainEnds
  <2>1. CASE pc = "drain"
    <3>1. /\ UNCHANGED <<index, released, buffer, sub, members, next, waiting>> /\ queued' \in Nat
          /\ pc' = "select"
      BY <1>4, <2>1 DEF DrainEnds, loop, env, ServedInv, Types
    <3> QED
      BY <1>1, <2>1, <3>1
  <2>2. CASE pc = "update"
    <3>1. /\ updateListeners(index, buffer) /\ UNCHANGED <<index, members, waiting, next>>
          /\ pc' = "select" /\ queued' = queued
      BY <1>4, <2>2 DEF DrainEnds, env
    <3> QED
      BY <1>3, <1>t, <2>2, <3>1 DEF ServedInv, Types
  <2> QED
    BY <1>4, <2>1, <2>2 DEF DrainEnds
<1>5. CASE NewInput
  <2>1. /\ updateListeners(index + 1, handleNewInput(index + 1)) /\ index' = index + 1
        /\ UNCHANGED <<members, waiting, next>> /\ queued > 0 /\ queued' = queued - 1
        /\ pc = "select" /\ pc' # "update"
    BY <1>5 DEF NewInput, Continue, env
  <2>2. handleNewInput(index + 1) \in [0..MaxBuffer -> Int]
        /\ Ring(released, index + 1, handleNewInput(index + 1))
    BY RingGrows DEF ServedInv, Types
  <2>3. ASSUME NEW s \in members
        PROVE Behind(next[s], sub[s], index + 1) /\ released <= reach(sub[s], index + 1)
    <3>1. Current(next[s], sub[s], index)
      BY <2>1 DEF ServedInv
    <3>2. /\ Behind(next[s], sub[s], index + 1)
          /\ reach(sub[s], index) <= reach(sub[s], index + 1) /\ reach(sub[s], index) \in Nat
      BY <3>1, <1>t, BehindOK
    <3>3. released <= reach(sub[s], index) /\ reach(sub[s], index + 1) \in Nat
      BY <1>t, ReachNat DEF ServedInv
    <3> QED
      BY <3>2, <3>3, <1>t
  <2>4. index + 1 \in Nat /\ released <= index + 1 /\ queued' \in Nat
    BY <1>t, <2>1 DEF ServedInv, Types
  <2> QED
    BY <1>3, <2>1, <2>2, <2>3, <2>4
<1>6. ASSUME NEW S, removeSubscriber(S), UNCHANGED <<index, sub, waiting, next, queued>>,
             pc = "select", pc' # "update"
      PROVE ServedInv'
  <2>1. members' = members \ S
    BY <1>6 DEF removeSubscriber
  <2>2. \A r \in {sub[s] : s \in members \ S} : reach(r, index) \in Nat /\ released <= reach(r, index)
    BY <1>t, ReachNat DEF ServedInv
  <2>3. releaseUnreachable({sub[s] : s \in members \ S}, index, buffer)
    BY <1>6 DEF removeSubscriber
  <2>4. buffer \in [0..MaxBuffer -> Int] /\ Ring(released, index, buffer)
    BY DEF ServedInv, Types
  <2>5. /\ buffer' \in [0..MaxBuffer -> Int]
        /\ released' \in Nat /\ released' <= index /\ Ring(released', index, buffer')
        /\ \A r \in {sub[s] : s \in members \ S} : released' <= reach(r, index)
    BY <2>2, <2>3, <2>4, <1>t, Release
  <2>6. Types'
    BY <1>6, <2>1, <2>5 DEF ServedInv, Types
  <2>7. \A s \in members' : Current(next[s], sub[s], index)
    BY <1>6, <2>1 DEF ServedInv
  <2> QED
    BY <1>6, <2>1, <2>5, <2>6, <2>7 DEF ServedInv
<1>7. CASE shutdown
  BY <1>6, <1>7 DEF shutdown, Continue, env
<1>8. ASSUME NEW s \in Subs, ContextEnds(s) PROVE ServedInv'
  BY <1>6, <1>8 DEF ContextEnds, Continue, env
<1>9. ASSUME NEW s \in Subs, NEW n \in Lens, handleNewSubscriber(s, n) PROVE ServedInv'
  <2> DEFINE r == [index |-> index, len |-> IF n > MaxBuffer THEN MaxBuffer ELSE n,
                   open |-> TRUE, offer |-> buffer[Slot(index)]]
  <2>1. /\ s \in waiting /\ pc' # "update" /\ pc = "select"
        /\ sub' = [sub EXCEPT ![s] = r] /\ members' = members \cup {s}
        /\ waiting' = waiting \ {s} /\ next' = [next EXCEPT ![s] = index]
        /\ UNCHANGED <<index, released, buffer, queued>>
    BY <1>9 DEF handleNewSubscriber, Continue
  <2>2. index \in released..index /\ index - index <= MaxBuffer
    BY <1>t, Constants
  <2>3. buffer[Slot(index)] = index
    BY <2>2 DEF ServedInv, Ring
  <2>4. r.len \in 0..MaxBuffer /\ r.index = index /\ r.open = TRUE /\ r.offer = index
    BY <2>3, Constants, ConstantsOK
  <2>5. r \in Record
    BY <2>3, <1>t, Constants, ConstantsOK DEF Record
  <2> HIDE DEF r
  <2>6. DueTo(index, r, index) = index /\ reach(r, index) = index
    BY <1>t, <2>4 DEF DueTo, reach, larger
  <2>7. Current(index, r, index)
    <3>1. index <= index /\ index <= index + 1
      BY <1>t
    <3> QED
      BY <2>4, <2>6, <3>1, Zenon DEF Current
  <2>8. \A x \in members : x # s
    BY <2>1 DEF ServedInv, Types
  <2>9. sub'[s] = r /\ next'[s] = index /\ \A x \in members : sub'[x] = sub[x] /\ next'[x] = next[x]
    BY <1>t, <2>1, <2>8 DEF ServedInv, Types
  <2>10. Types'
    BY <2>1, <2>5, <1>t DEF ServedInv, Types
  <2>11. \A x \in members' : released <= reach(sub'[x], index) /\ Current(next'[x], sub'[x], index)
    <3>1. \A x \in members : released <= reach(sub[x], index) /\ Current(next[x], sub[x], index)
      BY <2>1 DEF ServedInv
    <3>2. released <= reach(r, index)
      BY <2>6, <1>t
    <3> QED
      BY <3>1, <3>2, <2>1, <2>7, <2>9
  <2> QED
    BY <2>1, <2>10, <2>11 DEF ServedInv
<1>10. ASSUME NEW s \in Subs, advanceSubscriber(s) PROVE ServedInv'
  <2> DEFINE i == sub[s].index + 1
             offer == IF i <= index THEN buffer[Slot(i)] ELSE NoValue
             r == [sub[s] EXCEPT !.index = i, !.open = i <= index, !.offer = offer]
  <2>1. /\ s \in members /\ pc' # "update" /\ pc = "select" /\ sub[s].open
        /\ sub' = [sub EXCEPT ![s] = r] /\ members' \subseteq members
        /\ next' = [next EXCEPT ![s] = sub[s].offer + 1]
        /\ releaseUnreachable({sub'[x] : x \in members'}, index, buffer)
        /\ UNCHANGED <<index, queued, waiting>>
    BY <1>10 DEF advanceSubscriber, Continue, env
  <2>2. sub[s].index \in Nat /\ sub[s].len \in Nat /\ sub[s].len <= MaxBuffer /\ i \in Nat
    BY <2>1, <1>t, Constants DEF Record
  <2>3. Current(next[s], sub[s], index) /\ released <= reach(sub[s], index)
    BY <2>1 DEF ServedInv
  <2>4. sub[s].index = DueTo(next[s], sub[s], index) /\ sub[s].index <= index
        /\ sub[s].offer = sub[s].index
    BY <2>1, <2>3, Zenon DEF Current
  <2>5. sub[s].index >= index - sub[s].len /\ reach(sub[s], index) = sub[s].index
    BY <1>t, <2>1, <2>2, <2>4 DEF DueTo, reach, larger
  <2>6. released <= i /\ index - i <= MaxBuffer /\ i > index - sub[s].len /\ i <= index + 1
    BY <1>t, <2>2, <2>3, <2>4, <2>5, Constants
  <2> HIDE DEF i
  <2>7. i <= index => buffer[Slot(i)] = i
    BY <1>t, <2>2, <2>6 DEF ServedInv, Ring
  <2>8. offer \in Int /\ (i <= index => offer = i)
    BY <2>2, <2>7 DEF NoValue
  <2> HIDE DEF offer
  <2>9. (i <= index) \in BOOLEAN /\ sub[s] \in Record
    BY <1>t, <2>1, <2>2
  <2>10. /\ r \in Record /\ r.index = i /\ r.len = sub[s].len /\ (r.open <=> i <= index)
         /\ r.offer = offer
    <3> DEFINE opened(v) == [sub[s] EXCEPT !.index = i, !.open = v, !.offer = offer]
    <3>1. \A v \in BOOLEAN : /\ opened(v) \in Record /\ opened(v).index = i
                             /\ opened(v).len = sub[s].len /\ opened(v).open = v
                             /\ opened(v).offer = offer
      BY <2>2, <2>8, <2>9 DEF Record
    <3>2. r = opened(i <= index)
      OBVIOUS
    <3> HIDE DEF opened
    <3> QED
      BY <3>1, <3>2, <2>9, Zenon
  <2> HIDE DEF r
  <2>11. DueTo(i, r, index) = i /\ reach(r, index) = i
    BY <1>t, <2>2, <2>6, <2>10 DEF DueTo, reach, larger
  <2>12. Current(i, r, index)
    BY <2>6, <2>8, <2>10, <2>11, Zenon DEF Current
  <2>13. /\ sub' \in [Subs -> Record] /\ next' \in [Subs -> Nat]
         /\ sub'[s] = r /\ next'[s] = i
         /\ \A x \in members : x # s => sub'[x] = sub[x] /\ next'[x] = next[x]
    BY <1>t, <2>1, <2>2, <2>4, <2>10 DEF ServedInv, Types, i
  <2>14. ASSUME NEW x \in members
         PROVE /\ reach(sub'[x], index) \in Nat /\ released <= reach(sub'[x], index)
               /\ Current(next'[x], sub'[x], index)
    <3>1. CASE x = s
      BY <3>1, <2>2, <2>6, <2>11, <2>12, <2>13
    <3>2. CASE x # s
      BY <3>2, <1>t, <2>1, <2>13, ReachNat DEF ServedInv
    <3> QED
      BY <3>1, <3>2
  <2>15. \A q \in {sub'[x] : x \in members'} : reach(q, index) \in Nat /\ released <= reach(q, index)
    BY <2>1, <2>14
  <2>16. buffer \in [0..MaxBuffer -> Int] /\ Ring(released, index, buffer)
    BY DEF ServedInv, Types
  <2>17. /\ buffer' \in [0..MaxBuffer -> Int]
         /\ released' \in Nat /\ released' <= index /\ Ring(released', index, buffer')
         /\ \A q \in {sub'[x] : x \in members'} : released' <= reach(q, index)
    BY <1>t, <2>1, <2>15, <2>16, Release
  <2>18. Types'
    BY <2>1, <2>13, <2>17, <1>t DEF ServedInv, Types
  <2> QED
    BY <2>1, <2>14, <2>17, <2>18 DEF ServedInv
<1>11. CASE Write
  BY <1>1, <1>11 DEF Write, loop, env, ServedInv, Types
<1>12. CASE CloseInput \/ Close \/ (\E s \in Subs : Cancel(s)) \/ UNCHANGED vars
  BY <1>1, <1>12 DEF CloseInput, Close, Cancel, vars, loop, env, ServedInv, Types
<1>13. CASE InputClosed \/ Get
  BY <1>1, <1>13 DEF InputClosed, Get, Continue, loop, env, ServedInv, Types
<1> QED
  BY <1>2, <1>4, <1>5, <1>7, <1>8, <1>9, <1>10, <1>11, <1>12, <1>13, Zenon DEF Next

LEMMA ServedInit == Init => ServedInv
<1> SUFFICES ASSUME Init PROVE ServedInv
  OBVIOUS
<1>1. FALSE \in BOOLEAN /\ 0 \in 0..MaxBuffer
  BY Constants
<1>2. [index |-> 0, len |-> 0, open |-> FALSE, offer |-> NoValue] \in Record
  BY <1>1 DEF Record, NoValue
<1>3. Slot(0) = 0 /\ buffer[0] = 0
  BY Constants DEF Slot, Init
<1>4. Types
  BY <1>1, <1>2 DEF Types, Init, NoValue
<1>5. Ring(released, index, buffer)
  BY <1>3 DEF Ring, Init
<1> QED
  BY <1>4, <1>5 DEF ServedInv, Init

-----------------------------------------------------------------------------
(* The theorems. *)

LEMMA Served == Spec => []ServedInv
  BY ServedInit, ServedStep, PTL DEF Spec

\* Whenever the run loop waits, the channel of every subscriber holds the value that it is
\* due: broadcaster.go, drainInput to advanceSubscriber.
THEOREM OffersAreRight == Spec => []OfferIsRight
<1>1. ServedInv => OfferIsRight
  <2> SUFFICES ASSUME ServedInv, pc = "select", NEW s \in members
               PROVE LET due == larger(next[s], index - sub[s].len)
                     IN IF due <= index THEN sub[s].open /\ sub[s].offer = due
                        ELSE ~ sub[s].open
    BY DEF OfferIsRight
  <2>1. Current(next[s], sub[s], index)
    BY DEF ServedInv
  <2> QED
    BY <2>1, Zenon DEF Current, DueTo
<1> QED
  BY <1>1, Served, PTL

\* updateListeners changes no buffer length.
LEMMA LenKept ==
  ASSUME sub \in [Subs -> Record], NEW ix, NEW buf, updateListeners(ix, buf)
  PROVE \A s \in Subs : sub'[s].len = sub[s].len
<1>1. ASSUME NEW r \in Record PROVE Refreshed(r, ix, buf).len = r.len
  BY DEF Refreshed, Record
<1>2. sub' = [s \in Subs |-> IF s \in members THEN Refreshed(sub[s], ix, buf) ELSE sub[s]]
  BY DEF updateListeners
<1> QED
  BY <1>1, <1>2

\* Each step is one of the abstract specification, or changes none of its variables.
LEMMA TopicStep ==
  ASSUME ServedInv, [Next]_vars PROVE [Topic!Next]_(Topic!vars)
<1> DEFINE len == [s \in Subs |-> sub[s].len]
<1>t. /\ \A s \in members : s \in Subs /\ sub[s] \in Record /\ next[s] \in Nat
      /\ index \in Nat /\ sub \in [Subs -> Record] /\ next \in [Subs -> Nat]
  BY DEF ServedInv, Types
<1>1. ASSUME UNCHANGED <<index, next>>, members' \subseteq members,
             \A s \in Subs : sub'[s].len = sub[s].len
      PROVE Topic!Next
  BY <1>1 DEF Topic!Next, Topic!Leave
<1>2. ASSUME index' = index + 1, UNCHANGED <<members, next>>,
             \A s \in Subs : sub'[s].len = sub[s].len
      PROVE Topic!Next
  BY <1>2 DEF Topic!Next, Topic!Publish
<1>3. CASE Drain
  BY <1>2, <1>3 DEF Drain
<1>4. CASE NewInput
  BY <1>2, <1>4, <1>t, LenKept DEF NewInput
<1>5. CASE DrainEnds
  <2>1. CASE pc = "drain"
    BY <1>1, <1>5, <2>1 DEF DrainEnds, loop
  <2>2. CASE pc = "update"
    BY <1>1, <1>5, <2>2, <1>t, LenKept DEF DrainEnds
  <2> QED
    BY <1>5, <2>1, <2>2 DEF DrainEnds
<1>6. CASE shutdown \/ \E s \in Subs : ContextEnds(s)
  BY <1>1, <1>6 DEF shutdown, ContextEnds, removeSubscriber
<1>7. CASE \/ Write \/ CloseInput \/ Close \/ InputClosed \/ Get \/ UNCHANGED vars
           \/ \E s \in Subs : Cancel(s)
  BY <1>1, <1>7 DEF Write, CloseInput, Close, InputClosed, Get, Cancel, loop, vars
<1>8. ASSUME NEW s \in Subs, NEW n \in Lens, handleNewSubscriber(s, n) PROVE Topic!Next
  <2> DEFINE m == IF n > MaxBuffer THEN MaxBuffer ELSE n
  <2>1. /\ s \in waiting /\ members' = members \cup {s} /\ next' = [next EXCEPT ![s] = index]
        /\ index' = index
        /\ sub' = [sub EXCEPT ![s] = [index |-> index, len |-> m, open |-> TRUE,
                                      offer |-> buffer[Slot(index)]]]
    BY <1>8 DEF handleNewSubscriber
  <2>2. m \in 0..MaxBuffer
    BY ConstantsOK, Constants
  <2> HIDE DEF m
  <2>3. s \notin members
    BY <2>1 DEF ServedInv, Types
  <2>4. len' = [len EXCEPT ![s] = m]
    BY <2>1, <1>t
  <2>5. Topic!Join(s)
    BY <2>1, <2>2, <2>3, <2>4 DEF Topic!Join
  <2> QED
    BY <2>5 DEF Topic!Next
<1>9. ASSUME NEW s \in Subs, advanceSubscriber(s) PROVE Topic!Next
  <2>1. /\ s \in members /\ pc = "select" /\ sub[s].open
        /\ next' = [next EXCEPT ![s] = sub[s].offer + 1]
        /\ members' \in {members, members \ {s}} /\ index' = index
    BY <1>9 DEF advanceSubscriber
  <2>2. \A x \in Subs : sub'[x].len = sub[x].len
    BY <1>9, <1>t DEF advanceSubscriber, Record
  <2>3. Current(next[s], sub[s], index)
    BY <2>1 DEF ServedInv
  <2>4. /\ sub[s].index = DueTo(next[s], sub[s], index) /\ sub[s].index <= index
        /\ sub[s].offer = sub[s].index
    BY <2>1, <2>3, Zenon DEF Current
  <2>5. Topic!Due(s) = DueTo(next[s], sub[s], index)
    BY <1>t DEF Topic!Due, DueTo, larger
  <2>6. Topic!Read(s)
    BY <2>1, <2>2, <2>4, <2>5 DEF Topic!Read
  <2> QED
    BY <2>6 DEF Topic!Next
<1> QED
  BY <1>3, <1>4, <1>5, <1>6, <1>7, <1>8, <1>9, Zenon DEF Next

\* The broadcaster implements its abstract specification: to its subscribers, the ring, the
\* select cases and the run loop are the numbered values of BroadcastTopic.
THEOREM ImplementsTopic == Spec => TopicSpec
<1>1. Init => Topic!Init
  BY DEF Init, Topic!Init
<1> QED
  BY <1>1, Served, TopicStep, PTL DEF Spec, TopicSpec, Topic!Spec
=============================================================================
