--------------------------- MODULE PacketsProofs ---------------------------
(***************************************************************************)
(* Proofs about the packet numbers, the parsers and the requests for       *)
(* files, for any number of threads, any widths and any texts and files.   *)
(*                                                                         *)
(* The theorems on UniqueId alone come first; that Packets implements it   *)
(* then carries them over.  Next come the parsers: what FeiqCommu::pack    *)
(* writes is followed token by token through dumpRaw, the text, the list   *)
(* of files and splitAllowSeperator, which are functions on the places of  *)
(* a datagram, by induction from the least place where a claim fails.      *)
(* They end in ParsersReadBack, on which the invariants of the system rest.*)
(***************************************************************************)
EXTENDS Packets, SequenceTheorems, WellFoundedInduction, TLAPS

(* An increment that does not overflow is an increment; one that does gives 0. *)
LEMMA NoOverflow == \A n \in Nat : n < MaxId => (n + 1) % (MaxId + 1) = n + 1
BY UniqueIdAssumption, SMTT(30)

LEMMA ModRange == \A n \in Nat : (n + 1) % (MaxId + 1) \in 0..MaxId
BY UniqueIdAssumption, SMTT(30)

LEMMA TypeStep == TypeOK /\ [Next]_vars => TypeOK'
<1> SUFFICES ASSUME TypeOK, [Next]_vars PROVE TypeOK'
  OBVIOUS
<1> USE UniqueIdAssumption DEF TypeOK
<1>1. ASSUME NEW t \in Threads, Increment(t) PROVE TypeOK'
  <2>1. mId' \in 0..MaxId
    BY <1>1, ModRange DEF Increment, Incremented
  <2>2. QED BY <1>1, <2>1 DEF Increment
<1>2. ASSUME NEW t \in Threads, Wrap(t) PROVE TypeOK'
  <2>1. /\ mId' \in 0..MaxId
        /\ issued' \subseteq 0..MaxId
        /\ before' \in [Threads -> SUBSET (0..MaxId)]
    <3>1. CASE Full(id[t])
      BY <1>2, <3>1 DEF Wrap
    <3>2. CASE ~Full(id[t])
      BY <1>2, <3>2 DEF Wrap
    <3>3. QED BY <3>1, <3>2
  <2>2. QED BY <1>2, <2>1 DEF Wrap
<1>3. ASSUME NEW t \in Threads, Return(t) PROVE TypeOK'
  BY <1>3 DEF Return
<1>4. CASE UNCHANGED vars
  BY <1>4 DEF vars
<1>5. QED BY <1>1, <1>2, <1>3, <1>4 DEF Next

(* The variables of UniqueId keep their types. *)
THEOREM TypeCorrect == Spec => []TypeOK
<1>1. Init => TypeOK
  BY UniqueIdAssumption DEF Init, TypeOK
<1>2. QED BY <1>1, TypeStep, PTL DEF Spec
-----------------------------------------------------------------------------
(* While the counter has not wrapped it counts the calls; a call under way has
   incremented it past everything that was issued before the call. *)
Counting == /\ mId = calls
            /\ \A n \in issued : n <= mId
            /\ \A t \in Threads : pc[t] # "out" =>
                 id[t] <= mId /\ \A n \in before[t] : n < id[t]

LEMMA CountingStep == ASSUME MaxCalls < MaxId
                      PROVE  TypeOK /\ Counting /\ [Next]_vars => Counting'
<1> SUFFICES ASSUME TypeOK, Counting, [Next]_vars PROVE Counting'
  OBVIOUS
<1> USE UniqueIdAssumption DEF TypeOK, Counting
<1>1. ASSUME NEW t \in Threads, Increment(t) PROVE Counting'
  <2>1. mId' = mId + 1 /\ calls' = calls + 1
    BY <1>1, NoOverflow DEF Increment, Incremented
  <2>2. QED BY <1>1, <2>1 DEF Increment
<1>2. ASSUME NEW t \in Threads, Wrap(t) PROVE Counting'
  <2>1. id[t] <= MaxCalls
    BY <1>2 DEF Wrap
  <2>2. ~Full(id[t])
    BY <2>1 DEF Full
  <2>3. QED BY <1>2, <2>2 DEF Wrap
<1>3. ASSUME NEW t \in Threads, Return(t) PROVE Counting'
  BY <1>3 DEF Return
<1>4. CASE UNCHANGED vars
  BY <1>4 DEF vars
<1>5. QED BY <1>1, <1>2, <1>3, <1>4 DEF Next

(* Fewer calls than there are numbers: whatever the threads do, a call returns
   no number that was given out before it began. *)
THEOREM FreshNumbers == ASSUME MaxCalls < MaxId PROVE Spec => NeverReissued
<1>1. Init => TypeOK /\ Counting
  BY UniqueIdAssumption DEF Init, TypeOK, Counting
<1>2. TypeOK /\ Counting /\ [Next]_vars =>
        \A t \in Threads : pc[t] = "return" /\ pc'[t] = "out" => last'[t] \notin before[t]
  <2> SUFFICES ASSUME TypeOK, Counting, [Next]_vars,
                      NEW t \in Threads, pc[t] = "return", pc'[t] = "out"
               PROVE  last'[t] \notin before[t]
    OBVIOUS
  <2>1. PICK u \in Threads : Increment(u) \/ Wrap(u) \/ Return(u)
    BY DEF Next, vars
  <2>2. u = t /\ Return(t)
    BY <2>1 DEF Increment, Wrap, Return, TypeOK
  <2>3. QED BY <2>2, UniqueIdAssumption DEF Return, TypeOK, Counting
<1>3. QED BY <1>1, <1>2, TypeStep, CountingStep, PTL DEF Spec, NeverReissued
-----------------------------------------------------------------------------
(* One caller: where the counter stands at each point of its call. *)
Alone == /\ InRange
         /\ \A t \in Threads :
              /\ pc[t] = "out" => mId < MaxId
              /\ pc[t] = "wrap?" => id[t] = mId /\ mId > 0
              /\ pc[t] = "return" => 0 < mId /\ mId < MaxId

(* With a single caller every number is greater than 0 and less than the
   largest, across any number of wraps. *)
THEOREM AloneInRange == ASSUME \A t, u \in Threads : t = u PROVE Spec => []InRange
<1>1. Init => TypeOK /\ Alone
  BY UniqueIdAssumption DEF Init, TypeOK, Alone, InRange
<1>2. TypeOK /\ Alone /\ [Next]_vars => Alone'
  <2> SUFFICES ASSUME TypeOK, Alone, [Next]_vars PROVE Alone'
    OBVIOUS
  <2> USE UniqueIdAssumption DEF TypeOK, Alone, InRange
  <2>1. ASSUME NEW t \in Threads, Increment(t) PROVE Alone'
    <3>1. mId' = mId + 1
      BY <2>1, NoOverflow DEF Increment, Incremented
    <3>2. QED BY <2>1, <3>1 DEF Increment
  <2>2. ASSUME NEW t \in Threads, Wrap(t) PROVE Alone'
    <3>1. \A u \in Threads : pc'[u] = "return"
      BY <2>2 DEF Wrap
    <3>2. (0 < mId /\ mId < MaxId)' /\ InRange'
      <4>1. CASE Full(id[t])
        BY <2>2, <4>1 DEF Wrap
      <4>2. CASE ~Full(id[t])
        <5>1. mId' = mId /\ issued' = issued /\ id[t] = mId /\ mId > 0
          BY <2>2, <4>2 DEF Wrap
        <5>2. mId < MaxId
          BY <4>2, <5>1 DEF Full
        <5>3. QED BY <5>1, <5>2
      <4>3. QED BY <4>1, <4>2
    <3>3. QED BY <3>1, <3>2
  <2>3. ASSUME NEW t \in Threads, Return(t) PROVE Alone'
    BY <2>3 DEF Return
  <2>4. CASE UNCHANGED vars
    BY <2>4 DEF vars
  <2>5. QED BY <2>1, <2>2, <2>3, <2>4 DEF Next
<1>3. QED BY <1>1, <1>2, TypeStep, PTL DEF Spec, Alone
-----------------------------------------------------------------------------
(* Whatever is packed, sent and read, the numbers move by the steps of UniqueId. *)
LEMMA StepsOfUniqueId == [PNext]_all => [Next]_vars
<1> SUFFICES ASSUME [PNext]_all PROVE [Next]_vars
  OBVIOUS
<1>1. ASSUME NEW t \in Threads, Ask(t) \/ AskWrap(t) \/ Send(t) \/ SendFails(t) PROVE Next
  BY <1>1 DEF Ask, AskWrap, Send, SendFails, Next
<1>2. ASSUME \/ AddUploadTask
             \/ \E d \in wire : Deliver(d)
             \/ \E s \in shown : Request(s)
             \/ \E r \in requests : Serve(r)
      PROVE  UNCHANGED vars
  BY <1>2 DEF AddUploadTask, Deliver, Request, Serve, ids
<1>3. CASE UNCHANGED all
  BY <1>3 DEF all, ids
<1>4. QED BY <1>1, <1>2, <1>3 DEF PNext

(* The packets implement UniqueId. *)
THEOREM PacketsAreNumbered == PSpec => Spec
<1>1. PInit => Init
  BY DEF PInit
<1>2. QED BY <1>1, StepsOfUniqueId, PTL DEF PSpec, Spec

(* Fewer packets than there are numbers: none carries a number that was given out
   before its packing began, whoever packs and however the packets get lost. *)
THEOREM PacketsAreFresh == ASSUME MaxCalls < MaxId PROVE PSpec => NeverReissued
BY PacketsAreNumbered, FreshNumbers, PTL
-----------------------------------------------------------------------------
(* Induction: a set of numbers has a least one.  With it the functions by recursion that the
   operators are defined with exist, and what holds of them is shown step by step. *)
LEMMA LeastExists == ASSUME NEW I \in SUBSET Nat, I # {}
                     PROVE  \E x \in I : \A y \in I : x <= y
<1> DEFINE R == OpToRel(<, Nat)
<1>1. IsWellFoundedOn(R, Nat)
  BY NatLessThanWellFounded
<1>2. \A a, b \in Nat : a < b => <<a, b>> \in R
  BY DEF OpToRel
<1> HIDE DEF R
<1>3. PICK x \in I : \A y \in I : ~ (<<y, x>> \in R)
  BY <1>1, WFMin, Zenon
<1>4. \A y \in I : ~ (y < x)
  BY <1>2, <1>3, Zenon
<1>5. QED BY <1>4

(* Counting upwards: what holds of 0 and is handed on holds of all. *)
LEMMA Upwards == ASSUME NEW n \in Nat, NEW I \in SUBSET Nat, 0 \in I,
                        \A k \in Nat : k < n /\ k \in I => k + 1 \in I
                 PROVE  0..n \subseteq I
<1> DEFINE Bad == {k \in 0..n : k \notin I}
<1>1. SUFFICES ASSUME Bad # {} PROVE FALSE
  OBVIOUS
<1>2. PICK k \in Bad : \A y \in Bad : k <= y
  <2> HIDE DEF Bad
  <2>1. Bad \in SUBSET Nat
    BY DEF Bad
  <2>2. QED BY <1>1, <2>1, LeastExists
<1>3. k # 0 /\ k - 1 \in Nat /\ k - 1 < n /\ k - 1 \notin Bad
  BY <1>2
<1>4. k - 1 \in I
  BY <1>2, <1>3
<1>5. QED BY <1>2, <1>3, <1>4
-----------------------------------------------------------------------------
(* The recursive functions are what their definitions say. *)
Splits(s, n, g) == g = [k \in 0..n |-> IF k = 0 THEN Reading(<<>>, <<>>, "read") ELSE Taken(g[k - 1], s, k)]

\* Such a function exists, up to any place,
LEMMA SplitsExist == ASSUME NEW s, NEW n \in Nat PROVE \E g : Splits(s, n, g)
<1> DEFINE I == {m \in Nat : \E g : Splits(s, m, g)}
<1>1. 0 \in I
  <2>1. Splits(s, 0, [k \in 0..0 |-> Reading(<<>>, <<>>, "read")])
    BY DEF Splits
  <2>2. QED BY <2>1
<1>2. ASSUME NEW j \in Nat, j \in I PROVE j + 1 \in I
  <2>1. PICK g : Splits(s, j, g)
    BY <1>2
  <2> DEFINE h == [k \in 0..(j + 1) |-> IF k <= j THEN g[k] ELSE Taken(g[j], s, j + 1)]
  <2>2. ASSUME NEW k \in 0..(j + 1) PROVE h[k] = IF k = 0 THEN Reading(<<>>, <<>>, "read") ELSE Taken(h[k - 1], s, k)
    <3>1. CASE k = 0
      BY <2>1, <3>1 DEF Splits
    <3>2. CASE k # 0
      <4>1. h[k - 1] = g[k - 1]
        BY <3>2
      <4>2. CASE k <= j
        <5>1. g[k] = Taken(g[k - 1], s, k)
          BY <2>1, <3>2, <4>2 DEF Splits
        <5>2. QED BY <3>2, <4>1, <4>2, <5>1
      <4>3. CASE k = j + 1
        BY <3>2, <4>1, <4>3
      <4>4. QED BY <4>2, <4>3
    <3>3. QED BY <3>1, <3>2
  <2>3. h = [k \in 0..(j + 1) |-> h[k]]
    OBVIOUS
  <2>4. Splits(s, j + 1, h)
    <3> HIDE DEF h
    <3>1. QED BY <2>2, <2>3 DEF Splits
  <2>5. QED BY <2>4
<1>3. I \in SUBSET Nat
  OBVIOUS
<1>4. n \in I
  <2> HIDE DEF I
  <2>1. 0..n \subseteq I
    BY <1>1, <1>2, <1>3, Upwards
  <2>2. QED BY <2>1
<1>5. QED BY <1>4

\* so splitAllowSeperator takes one step at each place.
LEMMA SplittingIs ==
  ASSUME NEW s, Len(s) \in Nat
  PROVE  /\ Splitting(s)[0] = Reading(<<>>, <<>>, "read")
         /\ \A k \in 1..Len(s) : Splitting(s)[k] = Taken(Splitting(s)[k - 1], s, k)
<1>1. Splitting(s) = CHOOSE g : Splits(s, Len(s), g)
  BY DEF Splitting, Splits
<1>2. Splits(s, Len(s), Splitting(s))
  BY <1>1, SplitsExist
<1>3. QED BY <1>2 DEF Splits

Pair(x) == IF x = Sep THEN <<Sep, Sep>> ELSE <<x>>
Doubles(s, n, g) == g = [k \in 0..n |-> IF k = 0 THEN <<>> ELSE g[k - 1] \o Pair(s[k])]

\* The same for the doubling of separators.
LEMMA DoublesExist == ASSUME NEW s, NEW n \in Nat PROVE \E g : Doubles(s, n, g)
<1> DEFINE I == {m \in Nat : \E g : Doubles(s, m, g)}
<1>1. 0 \in I
  <2>1. Doubles(s, 0, [k \in 0..0 |-> <<>>])
    BY DEF Doubles
  <2>2. QED BY <2>1
<1>2. ASSUME NEW j \in Nat, j \in I PROVE j + 1 \in I
  <2>1. PICK g : Doubles(s, j, g)
    BY <1>2
  <2> DEFINE h == [k \in 0..(j + 1) |-> IF k <= j THEN g[k] ELSE g[j] \o Pair(s[j + 1])]
  <2>2. ASSUME NEW k \in 0..(j + 1) PROVE h[k] = IF k = 0 THEN <<>> ELSE h[k - 1] \o Pair(s[k])
    <3>1. CASE k = 0
      BY <2>1, <3>1 DEF Doubles
    <3>2. CASE k # 0
      <4>1. h[k - 1] = g[k - 1]
        BY <3>2
      <4>2. CASE k <= j
        <5>1. g[k] = g[k - 1] \o Pair(s[k])
          BY <2>1, <3>2, <4>2 DEF Doubles
        <5>2. QED BY <3>2, <4>1, <4>2, <5>1
      <4>3. CASE k = j + 1
        BY <3>2, <4>1, <4>3
      <4>4. QED BY <4>2, <4>3
    <3>3. QED BY <3>1, <3>2
  <2>3. h = [k \in 0..(j + 1) |-> h[k]]
    OBVIOUS
  <2>4. Doubles(s, j + 1, h)
    <3> HIDE DEF h
    <3>1. QED BY <2>2, <2>3 DEF Doubles
  <2>5. QED BY <2>4
<1>3. I \in SUBSET Nat
  OBVIOUS
<1>4. n \in I
  <2> HIDE DEF I
  <2>1. 0..n \subseteq I
    BY <1>1, <1>2, <1>3, Upwards
  <2>2. QED BY <2>1
<1>5. QED BY <1>4

\* The doubled text grows by one token or two at a time.
LEMMA DoublingIs ==
  ASSUME NEW s, Len(s) \in Nat
  PROVE  /\ Doubling(s)[0] = <<>>
         /\ \A k \in 1..Len(s) : Doubling(s)[k] = Doubling(s)[k - 1] \o Pair(s[k])
<1>1. Doubling(s) = CHOOSE g : Doubles(s, Len(s), g)
  BY DEF Doubling, Doubles, Pair
<1>2. Doubles(s, Len(s), Doubling(s))
  BY <1>1, DoublesExist
<1>3. QED BY <1>2 DEF Doubles
-----------------------------------------------------------------------------
(* std::find *)
LEMMA FirstIs ==
  ASSUME NEW s, NEW c, NEW from \in Nat, NEW k \in Nat, Len(s) \in Nat,
         from <= k, k <= Len(s), s[k] = c, \A j \in from..(k - 1) : s[j] # c
  PROVE  First(s, c, from) = k
<1> DEFINE at == {j \in from..Len(s) : s[j] = c}
<1>1. k \in at /\ \A j \in at : j \in Nat /\ k <= j
  OBVIOUS
<1>2. First(s, c, from) = Min(at)
  BY <1>1 DEF First
<1> HIDE DEF at
<1>3. Min(at) \in at /\ \A j \in at : Min(at) <= j
  BY <1>1 DEF Min
<1>4. Min(at) <= k /\ k <= Min(at) /\ Min(at) \in Nat
  BY <1>1, <1>3
<1>5. QED BY <1>2, <1>4

\* When std::find finds something, it is there.
LEMMA FirstFinds ==
  ASSUME NEW s, NEW c, NEW from \in Nat, Len(s) \in Nat, First(s, c, from) # 0
  PROVE  /\ First(s, c, from) \in from..Len(s)
         /\ s[First(s, c, from)] = c
<1> DEFINE at == {j \in from..Len(s) : s[j] = c}
<1>1. at # {} /\ First(s, c, from) = Min(at)
  BY DEF First
<1>2. at \in SUBSET Nat
  OBVIOUS
<1>3. Min(at) \in at
  <2> HIDE DEF at
  <2>1. QED BY <1>1, <1>2, LeastExists DEF Min
<1>4. QED BY <1>1, <1>3
-----------------------------------------------------------------------------
(* One step of splitAllowSeperator. *)
LEMMA Steps ==
  ASSUME NEW V, NEW B, NEW s, NEW k
  PROVE  /\ Taken(Reading(V, B, "pass"), s, k) = Reading(V, B, "read")
         /\ s[k] # Sep => Taken(Reading(V, B, "read"), s, k) = Reading(V, Append(B, s[k]), "read")
         /\ s[k] = Sep /\ k < Len(s) /\ s[k + 1] = Sep =>
              Taken(Reading(V, B, "read"), s, k) = Reading(V, Append(B, Sep), "pass")
         /\ s[k] = Sep /\ ~(k < Len(s) /\ s[k + 1] = Sep) =>
              Taken(Reading(V, B, "read"), s, k) = Reading(Append(V, B), <<>>, "read")
<1>1. ASSUME NEW b PROVE LET a == Reading(V, B, b) IN a.next = b /\ a.buf = B /\ a.values = V
  BY DEF Reading
<1>2. QED BY <1>1 DEF Taken
-----------------------------------------------------------------------------
(* Doubling token by token: where each token of the name comes to stand. *)
Stands(w, D, k) == /\ D[k] \in Seq(ToSet(w) \cup {Sep})
                   /\ \A i \in 1..k : /\ Len(D[i - 1]) \in Nat /\ Len(D[i]) \in Nat
                                      /\ Len(D[i]) = Len(D[i - 1]) + (IF w[i] = Sep THEN 2 ELSE 1)
                                      /\ Len(D[i]) <= Len(D[k])
                                      /\ D[k][Len(D[i])] = w[i]
                                      /\ w[i] = Sep => D[k][Len(D[i]) - 1] = Sep
                   /\ \A x \in 1..Len(D[k]) : D[k][x] # Sep => \E i \in 1..k : Len(D[i]) = x /\ D[k][x] = w[i]

\* A token or a doubled separator ends in what it stands for.
LEMMA PairIs ==
  ASSUME NEW T, NEW x \in T, Sep \in T
  PROVE  /\ Pair(x) \in Seq(T) /\ Len(Pair(x)) = (IF x = Sep THEN 2 ELSE 1)
         /\ Pair(x)[Len(Pair(x))] = x /\ Pair(x)[1] = x
<1>1. CASE x = Sep
  <2>1. Pair(x) = <<x, x>>
    BY <1>1 DEF Pair
  <2>2. QED BY <1>1, <2>1
<1>2. CASE x # Sep
  <2>1. Pair(x) = <<x>>
    BY <1>2 DEF Pair
  <2>2. QED BY <1>2, <2>1
<1>3. QED BY <1>1, <1>2

\* One token more leaves those before it where they were.
LEMMA StandsOn ==
  ASSUME NEW T, NEW w, NEW D, NEW j \in Nat, Sep \in T, w[j + 1] \in T,
         T = ToSet(w) \cup {Sep}, D[j + 1] = D[j] \o Pair(w[j + 1]), Stands(w, D, j)
  PROVE  Stands(w, D, j + 1)
<1> DEFINE x == w[j + 1]
           d == D[j]
           e == D[j + 1]
<1>1. d \in Seq(T)
  BY DEF Stands
<1>2. /\ e \in Seq(T) /\ Len(e) \in Nat /\ Len(d) \in Nat
      /\ Len(e) = Len(d) + (IF x = Sep THEN 2 ELSE 1)
      /\ \A i \in 1..Len(d) : e[i] = d[i]
      /\ e[Len(e)] = x
      /\ x = Sep => e[Len(e) - 1] = Sep
  <2>1. x \in T /\ e = d \o Pair(x) /\ Sep \in T
    OBVIOUS
  <2> HIDE DEF x, d, e
  <2>2. Pair(x) \in Seq(T) /\ Len(Pair(x)) = (IF x = Sep THEN 2 ELSE 1) /\ Pair(x)[Len(Pair(x))] = x /\ Pair(x)[1] = x
    BY <2>1, PairIs
  <2>3. /\ e \in Seq(T) /\ Len(e) = Len(d) + Len(Pair(x))
        /\ \A i \in 1..(Len(d) + Len(Pair(x))) : e[i] = IF i <= Len(d) THEN d[i] ELSE Pair(x)[i - Len(d)]
    BY <1>1, <2>1, <2>2, ConcatProperties
  <2>4. Len(d) \in Nat
    BY <1>1, LenProperties
  <2>5. Len(e) = Len(d) + (IF x = Sep THEN 2 ELSE 1) /\ Len(e) \in Nat
    BY <2>2, <2>3, <2>4
  <2>6. \A i \in 1..Len(d) : e[i] = d[i]
    BY <2>2, <2>3, <2>4
  <2>7. e[Len(e)] = x
    BY <2>2, <2>3, <2>4
  <2>8. x = Sep => e[Len(e) - 1] = Sep
    BY <2>2, <2>3, <2>4
  <2>9. QED BY <2>3, <2>4, <2>5, <2>6, <2>7, <2>8
<1>3. ASSUME NEW i \in 1..j
      PROVE  /\ Len(D[i - 1]) \in Nat /\ Len(D[i]) \in Nat
             /\ Len(D[i]) = Len(D[i - 1]) + (IF w[i] = Sep THEN 2 ELSE 1)
             /\ Len(D[i]) <= Len(d)
             /\ d[Len(D[i])] = w[i]
             /\ w[i] = Sep => d[Len(D[i]) - 1] = Sep
  BY DEF Stands
<1>4. \A y \in 1..Len(d) : d[y] # Sep => \E i \in 1..j : Len(D[i]) = y /\ d[y] = w[i]
  BY DEF Stands
<1>5. ASSUME NEW i \in 1..(j + 1)
      PROVE  /\ Len(D[i - 1]) \in Nat /\ Len(D[i]) \in Nat
             /\ Len(D[i]) = Len(D[i - 1]) + (IF w[i] = Sep THEN 2 ELSE 1)
             /\ Len(D[i]) <= Len(e)
             /\ e[Len(D[i])] = w[i]
             /\ w[i] = Sep => e[Len(D[i]) - 1] = Sep
  <2>1. CASE i = j + 1
    <3>1. i - 1 = j
      BY <2>1
    <3>2. D[i - 1] = d /\ D[i] = e /\ w[i] = x
      BY <2>1, <3>1
    <3> HIDE DEF d, e, x
    <3>3. Len(e) <= Len(e)
      BY <1>2
    <3>4. QED BY <1>2, <3>2, <3>3
  <2>2. CASE i # j + 1
    <3>1. i \in 1..j
      BY <2>2
    <3>2. /\ Len(D[i - 1]) \in Nat /\ Len(D[i]) \in Nat
          /\ Len(D[i]) = Len(D[i - 1]) + (IF w[i] = Sep THEN 2 ELSE 1)
          /\ Len(D[i]) <= Len(d)
          /\ d[Len(D[i])] = w[i]
          /\ w[i] = Sep => d[Len(D[i]) - 1] = Sep
      BY <1>3, <3>1
    <3> HIDE DEF d, e, x
    <3>3. Len(D[i]) <= Len(e) /\ e[Len(D[i])] = w[i] /\ (w[i] = Sep => e[Len(D[i]) - 1] = Sep)
      <4>1. ASSUME NEW l \in Nat, NEW h \in Nat, NEW m \in Nat, NEW n \in Nat,
                   l = h + (IF w[i] = Sep THEN 2 ELSE 1), l <= m, n = m + (IF x = Sep THEN 2 ELSE 1)
            PROVE  l \in 1..m /\ (w[i] = Sep => l - 1 \in 1..m) /\ l <= n
        BY <4>1
      <4>2. Len(D[i]) \in 1..Len(d) /\ (w[i] = Sep => Len(D[i]) - 1 \in 1..Len(d)) /\ Len(D[i]) <= Len(e)
        BY <1>2, <3>2, <4>1
      <4>3. QED BY <1>2, <3>2, <4>2
    <3>4. QED BY <3>2, <3>3
  <2>3. QED BY <2>1, <2>2
<1>6. ASSUME NEW y \in 1..Len(e), e[y] # Sep
      PROVE  \E i \in 1..(j + 1) : Len(D[i]) = y /\ e[y] = w[i]
  <2>1. CASE y \in 1..Len(d)
    <3>1. e[y] = d[y]
      BY <1>2, <2>1
    <3>2. \E i \in 1..j : Len(D[i]) = y /\ d[y] = w[i]
      BY <1>4, <1>6, <2>1, <3>1
    <3>3. QED BY <3>1, <3>2
  <2>2. CASE y \notin 1..Len(d)
    <3> HIDE DEF d, e, x
    <3>0. ASSUME NEW m \in Nat, NEW n \in Nat, n = m + (IF x = Sep THEN 2 ELSE 1), y \in 1..n, y \notin 1..m
          PROVE  y = n \/ (x = Sep /\ y = n - 1)
      BY <3>0
    <3>1. y = Len(e) \/ (x = Sep /\ y = Len(e) - 1)
      BY <1>2, <2>2, <3>0
    <3>2. y = Len(e) /\ e[y] = x
      BY <1>2, <1>6, <3>1
    <3>3. j + 1 \in 1..(j + 1)
      OBVIOUS
    <3>4. QED BY <3>2, <3>3 DEF e, x
  <2>3. QED BY <2>1, <2>2
<1>7. QED
  <2>1. e \in Seq(ToSet(w) \cup {Sep})
    BY <1>2
  <2>2. QED BY <1>5, <1>6, <2>1 DEF Stands

\* So all tokens of a name can be found in the doubled name.
LEMMA TokensStand ==
  ASSUME NEW w, IsString(w)
  PROVE  /\ Doubling(w)[0] = <<>> /\ Len(w) \in Nat
         /\ \A k \in 0..Len(w) : Stands(w, Doubling(w), k)
<1> DEFINE D == Doubling(w)
           T == ToSet(w) \cup {Sep}
<1>1. Len(w) \in Nat /\ \A k \in 1..Len(w) : w[k] \in T
  <2>1. w \in Seq(ToSet(w))
    BY DEF IsString
  <2>2. QED BY <2>1, ElementOfSeq
<1>2. D[0] = <<>> /\ \A k \in 1..Len(w) : D[k] = D[k - 1] \o Pair(w[k])
  BY <1>1, DoublingIs
<1> HIDE DEF D
<1> DEFINE I == {k \in Nat : k <= Len(w) => Stands(w, D, k)}
<1>3. 0 \in I
  <2>1. D[0] \in Seq(T) /\ Len(D[0]) = 0
    BY <1>2, EmptySeq
  <2>2. Stands(w, D, 0)
    BY <2>1 DEF Stands
  <2>3. QED BY <2>2
<1>4. ASSUME NEW j \in Nat, j < Len(w), j \in I PROVE j + 1 \in I
  <2>1. Stands(w, D, j)
    BY <1>1, <1>4
  <2>2. j + 1 \in 1..Len(w) /\ (j + 1) - 1 = j
    BY <1>1, <1>4
  <2>5. D[j + 1] = D[j] \o Pair(w[j + 1]) /\ w[j + 1] \in T
    BY <1>1, <1>2, <2>2
  <2>3. Stands(w, D, j + 1)
    BY <2>1, <2>5, StandsOn
  <2>4. QED BY <2>3
<1>5. I \in SUBSET Nat
  OBVIOUS
<1>6. 0..Len(w) \subseteq I
  <2> HIDE DEF I
  <2>1. QED BY <1>1, <1>3, <1>4, <1>5, Upwards
<1>7. \A k \in 0..Len(w) : Stands(w, D, k)
  BY <1>1, <1>6
<1>8. QED BY <1>1, <1>2, <1>7 DEF D
-----------------------------------------------------------------------------
(* splitAllowSeperator, from one place of its input to a later one. *)
(* A token of the name is read where it stands. *)
LEMMA TokenRead ==
  ASSUME NEW p, Len(p) \in Nat, NEW a \in Nat, NEW b \in Nat, NEW c,
         b = a + (IF c = Sep THEN 2 ELSE 1), b <= Len(p), p[b] = c, c = Sep => p[b - 1] = Sep,
         NEW V, NEW B, Splitting(p)[a] = Reading(V, B, "read")
  PROVE  Splitting(p)[b] = Reading(V, Append(B, c), "read")
<1>1. \A k \in 1..Len(p) : Splitting(p)[k] = Taken(Splitting(p)[k - 1], p, k)
  BY SplittingIs
<1>2. CASE c # Sep
  <2>1. b \in 1..Len(p) /\ b - 1 = a /\ p[b] # Sep
    BY <1>2
  <2>2. QED BY <1>1, <2>1, Steps
<1>3. CASE c = Sep
  <2>1. b \in 1..Len(p) /\ a + 1 \in 1..Len(p) /\ b - 1 = a + 1 /\ (a + 1) - 1 = a /\ (a + 1) + 1 = b /\ a + 1 < Len(p)
    BY <1>3
  <2>2. p[a + 1] = Sep /\ p[(a + 1) + 1] = Sep
    BY <1>3, <2>1
  <2>3. Splitting(p)[a + 1] = Reading(V, Append(B, Sep), "pass")
    BY <1>1, <2>1, <2>2, Steps
  <2>4. QED BY <1>1, <1>3, <2>1, <2>3, Steps
<1>4. QED BY <1>2, <1>3

(* After an odd separator the next is taken for the second of a pair, or ends the field. *)
LEMMA TokenSkewed ==
  ASSUME NEW p, Len(p) \in Nat, NEW a \in Nat, NEW b \in Nat, NEW c,
         b = a + (IF c = Sep THEN 2 ELSE 1), b <= Len(p), p[b] = c, c = Sep => p[b - 1] = Sep,
         NEW B, Splitting(p)[a] = Reading(<<>>, B, "pass"), p[a + 1] = Sep
  PROVE  \/ /\ Splitting(p)[b] = Reading(<<>>, Append(B, Sep), "pass")
            /\ b < Len(p) /\ p[b + 1] = Sep
         \/ Splitting(p)[b] = Reading(<<B>>, <<>>, "read")
<1>1. \A k \in 1..Len(p) : Splitting(p)[k] = Taken(Splitting(p)[k - 1], p, k)
  BY SplittingIs
<1>2. c = Sep
  OBVIOUS
<1>3. b \in 1..Len(p) /\ a + 1 \in 1..Len(p) /\ b - 1 = a + 1 /\ (a + 1) - 1 = a
  BY <1>2
<1>4. Splitting(p)[a + 1] = Reading(<<>>, B, "read")
  BY <1>1, <1>3, Steps
<1>5. p[b] = Sep
  BY <1>2
<1>6. CASE b < Len(p) /\ p[b + 1] = Sep
  BY <1>1, <1>3, <1>4, <1>5, <1>6, Steps
<1>7. CASE ~(b < Len(p) /\ p[b + 1] = Sep)
  <2>1. Splitting(p)[b] = Reading(Append(<<>>, B), <<>>, "read")
    <3>1. Taken(Reading(<<>>, B, "read"), p, b) = Reading(Append(<<>>, B), <<>>, "read")
      <4>1. Reading(<<>>, B, "read").next = "read" /\ Reading(<<>>, B, "read").buf = B
              /\ Reading(<<>>, B, "read").values = <<>>
        BY DEF Reading
      <4>2. QED BY <1>5, <1>7, <4>1 DEF Taken
    <3>2. Splitting(p)[b] = Taken(Splitting(p)[b - 1], p, b)
      BY <1>1, <1>3
    <3>3. QED BY <1>3, <1>4, <3>1, <3>2
  <2>2. Append(<<>>, B) = <<B>>
    OBVIOUS
  <2>3. QED BY <2>1, <2>2
<1>8. QED BY <1>6, <1>7

\* A stretch of a name in a piece of a listing: its tokens i + 1..j end at P.
Laid(p, w, P, i, j) ==
  /\ \A k \in i..j : P[k] \in Nat /\ P[k] <= Len(p)
  /\ \A k \in (i + 1)..j : /\ P[k] = P[k - 1] + (IF w[k] = Sep THEN 2 ELSE 1)
                           /\ p[P[k]] = w[k]
                           /\ w[k] = Sep => p[P[k] - 1] = Sep

\* A stretch and its next element.
LEMMA SubSeqGrows ==
  ASSUME NEW T, NEW w \in Seq(T), NEW a \in Nat, a # 0, NEW k \in Nat, a <= k, k <= Len(w)
  PROVE  Append(SubSeq(w, a, k - 1), w[k]) = SubSeq(w, a, k)
<1>1. a \in 1..Len(w) /\ k \in a..Len(w) /\ k - 1 \in Int /\ Len(w) \in Nat
  BY LenProperties
<1>2. \A x \in 1..Len(w) : w[x] \in T
  BY ElementOfSeq
<1>3. \A x \in a..(k - 1) : w[x] \in T
  BY <1>1, <1>2
<1>4. SubSeq(w, a, k - 1) \in Seq(T)
  BY <1>1, <1>3, SubSeqProperties
<1>5. Append(SubSeq(w, a, k - 1), w[k]) = SubSeq(w, a, k - 1) \o <<w[k]>>
  BY <1>1, <1>2, <1>4, AppendIsConcat
<1>6. QED BY <1>1, <1>5, SubSeqRecursiveSecond

\* A stretch that is read in step is read as it was before its separators were doubled.
LEMMA StretchRead ==
  ASSUME NEW p, Len(p) \in Nat, NEW T, NEW w \in Seq(T), NEW P, NEW i \in Nat, NEW j \in Nat, i <= j, j <= Len(w),
         Laid(p, w, P, i, j), NEW V, Splitting(p)[P[i]] = Reading(V, <<>>, "read")
  PROVE  Splitting(p)[P[j]] = Reading(V, SubSeq(w, i + 1, j), "read")
<1> DEFINE n == j - i
           I == {m \in Nat : m <= n => Splitting(p)[P[i + m]] = Reading(V, SubSeq(w, i + 1, i + m), "read")}
<1>1. n \in Nat /\ I \in SUBSET Nat
  OBVIOUS
<1>2. 0 \in I
  <2>1. SubSeq(w, i + 1, i + 0) = <<>> /\ i + 0 = i
    BY SubSeqEmpty
  <2>2. QED BY <2>1
<1>3. ASSUME NEW m \in Nat, m < n, m \in I PROVE m + 1 \in I
  <2>1. Splitting(p)[P[i + m]] = Reading(V, SubSeq(w, i + 1, i + m), "read")
    BY <1>1, <1>3
  <2> DEFINE k == i + m + 1
  <2>2. k \in (i + 1)..j /\ k - 1 = i + m /\ k - 1 \in i..j /\ k \in i..j /\ k \in 1..Len(w) /\ i + (m + 1) = k
    BY <1>3, LenProperties
  <2> HIDE DEF k
  <2>3. P[k - 1] \in Nat /\ P[k] \in Nat /\ P[k] <= Len(p)
    BY <2>2 DEF Laid
  <2>4. P[k] = P[k - 1] + (IF w[k] = Sep THEN 2 ELSE 1) /\ p[P[k]] = w[k] /\ (w[k] = Sep => p[P[k] - 1] = Sep)
    BY <2>2 DEF Laid
  <2>5. Splitting(p)[P[k - 1]] = Reading(V, SubSeq(w, i + 1, i + m), "read")
    BY <2>1, <2>2
  <2>6. Splitting(p)[P[k]] = Reading(V, Append(SubSeq(w, i + 1, i + m), w[k]), "read")
    BY <2>3, <2>4, <2>5, TokenRead
  <2>7. Append(SubSeq(w, i + 1, i + m), w[k]) = SubSeq(w, i + 1, k)
    <3>1. i + m = k - 1 /\ i + 1 <= k /\ k <= Len(w) /\ i + 1 \in Nat /\ i + 1 # 0 /\ k \in Nat
      BY <1>3, <2>2, LenProperties
    <3>2. Append(SubSeq(w, i + 1, k - 1), w[k]) = SubSeq(w, i + 1, k)
      BY <3>1, SubSeqGrows
    <3>3. SubSeq(w, i + 1, i + m) = SubSeq(w, i + 1, k - 1)
      BY <3>1, Zenon
    <3>4. QED BY <3>2, <3>3, Zenon
  <2>8. Splitting(p)[P[i + (m + 1)]] = Reading(V, SubSeq(w, i + 1, i + (m + 1)), "read")
    BY <2>2, <2>6, <2>7, Zenon
  <2>9. QED BY <2>8
<1>4. 0..n \subseteq I
  <2> HIDE DEF I, n
  <2>1. QED BY <1>1, <1>2, <1>3, Upwards
<1>5. n \in I
  BY <1>1, <1>4
<1>6. i + n = j
  OBVIOUS
<1>7. QED BY <1>5, <1>6

(* Inside a name that follows an id and a separator: either the separators are still
   read in the wrong pairs, or the first value has been read. *)
AfterId(p, T, x) ==
  \/ \E B \in Seq(T) : /\ B # <<>> /\ B[1] = p[1] /\ Splitting(p)[x] = Reading(<<>>, B, "pass")
                      /\ x < Len(p) /\ p[x + 1] = Sep
  \/ \E v, B \in Seq(T) : v[1] = p[1] /\ Splitting(p)[x] = Reading(<<v>>, B, "read")

\* This stays so over one token,
LEMMA AfterIdStep ==
  ASSUME NEW p, Len(p) \in Nat, NEW T, Sep \in T, NEW a \in Nat, NEW b \in Nat, NEW c \in T,
         b = a + (IF c = Sep THEN 2 ELSE 1), b <= Len(p), p[b] = c, c = Sep => p[b - 1] = Sep, AfterId(p, T, a)
  PROVE  AfterId(p, T, b)
<1>1. CASE \E B \in Seq(T) : /\ B # <<>> /\ B[1] = p[1] /\ Splitting(p)[a] = Reading(<<>>, B, "pass")
                            /\ a < Len(p) /\ p[a + 1] = Sep
  <2>1. PICK B \in Seq(T) : /\ B # <<>> /\ B[1] = p[1] /\ Splitting(p)[a] = Reading(<<>>, B, "pass")
                            /\ a < Len(p) /\ p[a + 1] = Sep
    BY <1>1
  <2>2. \/ Splitting(p)[b] = Reading(<<>>, Append(B, Sep), "pass") /\ b < Len(p) /\ p[b + 1] = Sep
        \/ Splitting(p)[b] = Reading(<<B>>, <<>>, "read")
    BY <2>1, TokenSkewed
  <2>3. Append(B, Sep) \in Seq(T) /\ Append(B, Sep) # <<>> /\ Append(B, Sep)[1] = p[1]
    <3>1. Len(B) \in Nat /\ Len(B) # 0
      BY <2>1, LenProperties, EmptySeq
    <3>2. 1 \in 1..Len(B)
      BY <3>1
    <3>3. QED BY <2>1, <3>2, AppendProperties
  <2>4. <<>> \in Seq(T)
    BY EmptySeq
  <2>5. CASE Splitting(p)[b] = Reading(<<>>, Append(B, Sep), "pass") /\ b < Len(p) /\ p[b + 1] = Sep
    BY <2>3, <2>5 DEF AfterId
  <2>6. CASE Splitting(p)[b] = Reading(<<B>>, <<>>, "read")
    BY <2>1, <2>4, <2>6 DEF AfterId
  <2>7. QED BY <2>2, <2>5, <2>6
<1>2. CASE \E v, B \in Seq(T) : v[1] = p[1] /\ Splitting(p)[a] = Reading(<<v>>, B, "read")
  <2>1. PICK v \in Seq(T), B \in Seq(T) : v[1] = p[1] /\ Splitting(p)[a] = Reading(<<v>>, B, "read")
    BY <1>2
  <2>2. Splitting(p)[b] = Reading(<<v>>, Append(B, c), "read")
    <3>1. ASSUME NEW V, Splitting(p)[a] = Reading(V, B, "read")
          PROVE  Splitting(p)[b] = Reading(V, Append(B, c), "read")
      BY <3>1, TokenRead
    <3>2. QED BY <2>1, <3>1
  <2>3. Append(B, c) \in Seq(T)
    BY AppendProperties
  <2>4. QED BY <2>1, <2>2, <2>3 DEF AfterId
<1>3. QED BY <1>1, <1>2 DEF AfterId

\* and over the whole name.
LEMMA StretchAfterId ==
  ASSUME NEW p, Len(p) \in Nat, NEW T, Sep \in T, NEW w \in Seq(T), NEW P, NEW j \in Nat, j <= Len(w),
         Laid(p, w, P, 0, j), AfterId(p, T, P[0])
  PROVE  AfterId(p, T, P[j])
<1> DEFINE I == {m \in Nat : m <= j => AfterId(p, T, P[m])}
<1>1. I \in SUBSET Nat /\ 0 \in I
  OBVIOUS
<1>2. ASSUME NEW m \in Nat, m < j, m \in I PROVE m + 1 \in I
  <2> DEFINE k == m + 1
  <2>1. k \in (0 + 1)..j /\ k - 1 = m /\ k - 1 \in 0..j /\ k \in 0..j /\ k \in 1..Len(w)
    BY <1>2, LenProperties
  <2>2. AfterId(p, T, P[k - 1])
    BY <1>2, <2>1
  <2> HIDE DEF k
  <2>3. P[k - 1] \in Nat /\ P[k] \in Nat /\ P[k] <= Len(p)
    BY <2>1 DEF Laid
  <2>4. P[k] = P[k - 1] + (IF w[k] = Sep THEN 2 ELSE 1) /\ p[P[k]] = w[k] /\ (w[k] = Sep => p[P[k] - 1] = Sep)
    BY <2>1 DEF Laid
  <2>5. w[k] \in T
    BY <2>1, ElementOfSeq
  <2>6. AfterId(p, T, P[k])
    BY <2>2, <2>3, <2>4, <2>5, AfterIdStep
  <2>7. QED BY <2>6 DEF k
<1>3. 0..j \subseteq I
  <2> HIDE DEF I
  <2>1. QED BY <1>1, <1>2, Upwards
<1>4. QED BY <1>3

(* Size, time and attribute, each between separators. *)
Closed(q, e, a, b, c) ==
  /\ e \in Nat /\ Len(q) = e + 7
  /\ q[e + 1] = Sep /\ q[e + 3] = Sep /\ q[e + 5] = Sep /\ q[e + 7] = Sep
  /\ q[e + 2] = a /\ q[e + 4] = b /\ q[e + 6] = c
  /\ Sep \notin {a, b, c}

\* Short sequences, element by element.
LEMMA Tuples ==
  ASSUME NEW x1, NEW x2, NEW x3, NEW x4, NEW x5
  PROVE  /\ Append(<<>>, x1) = <<x1>> /\ Append(<<x1>>, x2) = <<x1, x2>>
         /\ Append(<<x1, x2>>, x3) = <<x1, x2, x3>>
         /\ Append(<<x1, x2, x3>>, x4) = <<x1, x2, x3, x4>>
         /\ Append(<<x1, x2, x3, x4>>, x5) = <<x1, x2, x3, x4, x5>>
<1> DEFINE S == {x1, x2, x3, x4, x5}
<1>1. Append(<<>>, x1) = <<x1>>
  OBVIOUS
<1>2. Append(<<x1>>, x2) = <<x1, x2>>
  <2> DEFINE u == <<x1>>
             v == <<x1, x2>>
             w == Append(u, x2)
  <2>1. u \in Seq(S) /\ Len(u) = 1 /\ v \in Seq(S) /\ Len(v) = 2
    OBVIOUS
  <2>2. w \in Seq(S) /\ Len(w) = Len(u) + 1 /\ (\A i \in 1..Len(u) : w[i] = u[i]) /\ w[Len(u) + 1] = x2
    BY <2>1, AppendProperties
  <2> HIDE DEF w
  <2>3. \A i \in 1..2 : w[i] = v[i]
    BY <2>1, <2>2
  <2> HIDE DEF v
  <2>4. w = v
    BY <2>1, <2>2, <2>3, SeqEqual
  <2>5. QED BY <2>4 DEF w, v
<1>3. Append(<<x1, x2>>, x3) = <<x1, x2, x3>>
  <2> DEFINE u == <<x1, x2>>
             v == <<x1, x2, x3>>
             w == Append(u, x3)
  <2>1. u \in Seq(S) /\ Len(u) = 2 /\ v \in Seq(S) /\ Len(v) = 3
    OBVIOUS
  <2>2. w \in Seq(S) /\ Len(w) = Len(u) + 1 /\ (\A i \in 1..Len(u) : w[i] = u[i]) /\ w[Len(u) + 1] = x3
    BY <2>1, AppendProperties
  <2> HIDE DEF w
  <2>3. \A i \in 1..3 : w[i] = v[i]
    BY <2>1, <2>2
  <2> HIDE DEF v
  <2>4. w = v
    BY <2>1, <2>2, <2>3, SeqEqual
  <2>5. QED BY <2>4 DEF w, v
<1>4. Append(<<x1, x2, x3>>, x4) = <<x1, x2, x3, x4>>
  <2> DEFINE u == <<x1, x2, x3>>
             v == <<x1, x2, x3, x4>>
             w == Append(u, x4)
  <2>1. u \in Seq(S) /\ Len(u) = 3 /\ v \in Seq(S) /\ Len(v) = 4
    OBVIOUS
  <2>2. w \in Seq(S) /\ Len(w) = Len(u) + 1 /\ (\A i \in 1..Len(u) : w[i] = u[i]) /\ w[Len(u) + 1] = x4
    BY <2>1, AppendProperties
  <2> HIDE DEF w
  <2>3. \A i \in 1..4 : w[i] = v[i]
    BY <2>1, <2>2
  <2> HIDE DEF v
  <2>4. w = v
    BY <2>1, <2>2, <2>3, SeqEqual
  <2>5. QED BY <2>4 DEF w, v
<1>5. Append(<<x1, x2, x3, x4>>, x5) = <<x1, x2, x3, x4, x5>>
  <2> DEFINE u == <<x1, x2, x3, x4>>
             v == <<x1, x2, x3, x4, x5>>
             w == Append(u, x5)
  <2>1. u \in Seq(S) /\ Len(u) = 4 /\ v \in Seq(S) /\ Len(v) = 5
    OBVIOUS
  <2>2. w \in Seq(S) /\ Len(w) = Len(u) + 1 /\ (\A i \in 1..Len(u) : w[i] = u[i]) /\ w[Len(u) + 1] = x5
    BY <2>1, AppendProperties
  <2> HIDE DEF w
  <2>3. \A i \in 1..5 : w[i] = v[i]
    BY <2>1, <2>2
  <2> HIDE DEF v
  <2>4. w = v
    BY <2>1, <2>2, <2>3, SeqEqual
  <2>5. QED BY <2>4 DEF w, v
<1>6. QED BY <1>1, <1>2, <1>3, <1>4, <1>5

\* A field of one token is read as a value.
LEMMA FieldRead ==
  ASSUME NEW q, Len(q) \in Nat, NEW k \in Nat, k > 0, k + 1 <= Len(q), q[k] # Sep, q[k + 1] = Sep,
         k + 1 < Len(q) => q[k + 2] # Sep, NEW V, NEW B, Splitting(q)[k - 1] = Reading(V, B, "read")
  PROVE  Splitting(q)[k + 1] = Reading(Append(V, Append(B, q[k])), <<>>, "read")
<1>1. \A x \in 1..Len(q) : Splitting(q)[x] = Taken(Splitting(q)[x - 1], q, x)
  BY SplittingIs
<1>2. k \in 1..Len(q) /\ k + 1 \in 1..Len(q) /\ (k + 1) - 1 = k /\ (k + 1) + 1 = k + 2
  OBVIOUS
<1>3. Splitting(q)[k] = Reading(V, Append(B, q[k]), "read")
  BY <1>1, <1>2, Steps
<1>4. ~(k + 1 < Len(q) /\ q[(k + 1) + 1] = Sep)
  BY <1>2
<1>5. Taken(Reading(V, Append(B, q[k]), "read"), q, k + 1) = Reading(Append(V, Append(B, q[k])), <<>>, "read")
  BY <1>4, Steps
<1>6. QED BY <1>1, <1>2, <1>3, <1>5

Tailed(V, B, a, b, c) == Append(Append(Append(Append(V, B), <<a>>), <<b>>), <<c>>)

\* What is closed by size, time and attribute gives these as its last values.
LEMMA TailRead ==
  ASSUME NEW q, Len(q) \in Nat, NEW e, NEW a, NEW b, NEW c, Closed(q, e, a, b, c),
         NEW V, NEW B, Splitting(q)[e] = Reading(V, B, "read")
  PROVE  SplitAllowSeparator(q) = Tailed(V, B, a, b, c)
<1> USE DEF Closed
<1>1. Splitting(q)[e + 1] = Reading(Append(V, B), <<>>, "read")
  <2>1. e + 1 \in 1..Len(q) /\ (e + 1) - 1 = e /\ (e + 1) + 1 = e + 2
    OBVIOUS
  <2>2. Splitting(q)[e + 1] = Taken(Splitting(q)[e], q, e + 1)
    BY <2>1, SplittingIs
  <2>3. q[e + 1] = Sep /\ ~(e + 1 < Len(q) /\ q[(e + 1) + 1] = Sep)
    BY <2>1
  <2>4. QED BY <2>2, <2>3, Steps
<1>2. ASSUME NEW k \in {e + 2, e + 4, e + 6}, NEW W, Splitting(q)[k - 1] = Reading(W, <<>>, "read")
      PROVE  Splitting(q)[k + 1] = Reading(Append(W, <<q[k]>>), <<>>, "read")
  <2>1. /\ k \in Nat /\ k > 0 /\ k + 1 <= Len(q) /\ q[k] # Sep /\ q[k + 1] = Sep
        /\ k + 1 < Len(q) => q[k + 2] # Sep
    OBVIOUS
  <2>2. Append(<<>>, q[k]) = <<q[k]>>
    OBVIOUS
  <2>3. Splitting(q)[k + 1] = Reading(Append(W, Append(<<>>, q[k])), <<>>, "read")
    BY <1>2, <2>1, FieldRead
  <2>4. QED BY <2>2, <2>3
<1>3. Splitting(q)[e + 3] = Reading(Append(Append(V, B), <<a>>), <<>>, "read")
  <2>1. (e + 2) - 1 = e + 1 /\ (e + 2) + 1 = e + 3
    OBVIOUS
  <2>2. QED BY <1>1, <1>2, <2>1
<1>4. Splitting(q)[e + 5] = Reading(Append(Append(Append(V, B), <<a>>), <<b>>), <<>>, "read")
  <2>1. (e + 4) - 1 = e + 3 /\ (e + 4) + 1 = e + 5
    OBVIOUS
  <2>2. QED BY <1>2, <1>3, <2>1
<1>5. Splitting(q)[e + 7] = Reading(Append(Append(Append(Append(V, B), <<a>>), <<b>>), <<c>>), <<>>, "read")
  <2>1. (e + 6) - 1 = e + 5 /\ (e + 6) + 1 = e + 7
    OBVIOUS
  <2>2. QED BY <1>2, <1>4, <2>1
<1>6. QED BY <1>5 DEF SplitAllowSeparator, Reading, Tailed

\* Also when the reading is out of step: then the size belongs to the name.
LEMMA TailSkewed ==
  ASSUME NEW q, Len(q) \in Nat, NEW e, NEW a, NEW b, NEW c, Closed(q, e, a, b, c),
         NEW B, Splitting(q)[e] = Reading(<<>>, B, "pass")
  PROVE  SplitAllowSeparator(q) = <<Append(B, a), <<b>>, <<c>>>>
<1> USE DEF Closed
<1>1. Splitting(q)[e + 1] = Reading(<<>>, B, "read")
  <2>1. e + 1 \in 1..Len(q) /\ (e + 1) - 1 = e
    OBVIOUS
  <2>2. Splitting(q)[e + 1] = Taken(Splitting(q)[e], q, e + 1)
    BY <2>1, SplittingIs
  <2>3. QED BY <2>2, Steps
<1>2. ASSUME NEW k \in {e + 2, e + 4, e + 6}, NEW W, NEW C, Splitting(q)[k - 1] = Reading(W, C, "read")
      PROVE  Splitting(q)[k + 1] = Reading(Append(W, Append(C, q[k])), <<>>, "read")
  <2>1. /\ k \in Nat /\ k > 0 /\ k + 1 <= Len(q) /\ q[k] # Sep /\ q[k + 1] = Sep
        /\ k + 1 < Len(q) => q[k + 2] # Sep
    OBVIOUS
  <2>2. QED BY <1>2, <2>1, FieldRead
<1>3. Splitting(q)[e + 3] = Reading(Append(<<>>, Append(B, a)), <<>>, "read")
  <2>1. (e + 2) - 1 = e + 1 /\ (e + 2) + 1 = e + 3
    OBVIOUS
  <2>2. QED BY <1>1, <1>2, <2>1
<1>4. Splitting(q)[e + 5] = Reading(Append(Append(<<>>, Append(B, a)), Append(<<>>, b)), <<>>, "read")
  <2>1. (e + 4) - 1 = e + 3 /\ (e + 4) + 1 = e + 5
    OBVIOUS
  <2>2. QED BY <1>2, <1>3, <2>1
<1>5. Splitting(q)[e + 7] = Reading(Append(Append(Append(<<>>, Append(B, a)), Append(<<>>, b)), Append(<<>>, c)), <<>>, "read")
  <2>1. (e + 6) - 1 = e + 5 /\ (e + 6) + 1 = e + 7
    OBVIOUS
  <2>2. QED BY <1>2, <1>4, <2>1
<1>6. SplitAllowSeparator(q) = Append(Append(Append(<<>>, Append(B, a)), Append(<<>>, b)), Append(<<>>, c))
  BY <1>5 DEF SplitAllowSeparator, Reading
<1>7. Append(<<>>, Append(B, a)) = <<Append(B, a)>> /\ Append(<<>>, b) = <<b>> /\ Append(<<>>, c) = <<c>>
  OBVIOUS
<1>8. ASSUME NEW x, NEW y, NEW z PROVE Append(Append(<<x>>, y), z) = <<x, y, z>>
  <2>1. Append(<<x>>, y) = <<x, y>> /\ Append(<<x, y>>, z) = <<x, y, z>>
    BY Tuples
  <2>2. QED BY <2>1
<1>9. Append(Append(<<Append(B, a)>>, <<b>>), <<c>>) = <<Append(B, a), <<b>>, <<c>>>>
  BY <1>8
<1>10. QED BY <1>6, <1>7, <1>9, Zenon
-----------------------------------------------------------------------------
(* The list of a file, which its bells may cut inside the name. *)
(* Where the tokens of a name stand once its separators are doubled. *)
Place(w) == [k \in 0..Len(w) |-> Len(Doubling(w)[k])]

\* The ends of the tokens in the doubled name, in order.
LEMMA Places ==
  ASSUME NEW w, IsString(w)
  PROVE  /\ Len(w) \in Nat /\ Place(w)[0] = 0 /\ \A k \in 0..Len(w) : Place(w)[k] \in Nat
         /\ \A k \in 1..Len(w) : /\ Place(w)[k] = Place(w)[k - 1] + (IF w[k] = Sep THEN 2 ELSE 1)
                                 /\ Doubled(w)[Place(w)[k]] = w[k]
                                 /\ w[k] = Sep => Doubled(w)[Place(w)[k] - 1] = Sep
         /\ \A j, k \in 0..Len(w) : j <= k => Place(w)[j] <= Place(w)[k]
         /\ Doubled(w) \in Seq(ToSet(w) \cup {Sep}) /\ Len(Doubled(w)) = Place(w)[Len(w)]
         /\ \A x \in 1..Len(Doubled(w)) : Doubled(w)[x] # Sep =>
              \E k \in 1..Len(w) : Place(w)[k] = x /\ Doubled(w)[x] = w[k]
<1> DEFINE D == Doubling(w)
           n == Len(w)
<1>1. D[0] = <<>> /\ n \in Nat /\ \A k \in 0..n : Stands(w, D, k)
  BY TokensStand
<1>2. Doubled(w) = D[n] /\ \A k \in 0..n : Place(w)[k] = Len(D[k])
  BY DEF Doubled, Place
<1> HIDE DEF D, n
<1>3. Stands(w, D, n)
  BY <1>1
<1>4. Place(w)[0] = 0
  <2>1. Len(<<>>) = 0
    BY EmptySeq
  <2>2. 0 \in 0..n
    BY <1>1
  <2>3. QED BY <1>1, <1>2, <2>1, <2>2
<1>5. ASSUME NEW k \in 1..n
      PROVE  /\ Place(w)[k] \in Nat /\ Place(w)[k - 1] \in Nat
             /\ Place(w)[k] = Place(w)[k - 1] + (IF w[k] = Sep THEN 2 ELSE 1)
             /\ Doubled(w)[Place(w)[k]] = w[k]
             /\ w[k] = Sep => Doubled(w)[Place(w)[k] - 1] = Sep
  <2>1. k \in 0..n /\ k - 1 \in 0..n
    BY <1>1
  <2>2. Place(w)[k] = Len(D[k]) /\ Place(w)[k - 1] = Len(D[k - 1])
    BY <1>2, <2>1
  <2>3. /\ Len(D[k - 1]) \in Nat /\ Len(D[k]) \in Nat
        /\ Len(D[k]) = Len(D[k - 1]) + (IF w[k] = Sep THEN 2 ELSE 1)
        /\ D[n][Len(D[k])] = w[k]
        /\ w[k] = Sep => D[n][Len(D[k]) - 1] = Sep
    BY <1>3 DEF Stands
  <2>4. QED BY <1>2, <2>2, <2>3
<1>6. \A k \in 0..n : Place(w)[k] \in Nat
  <2>1. ASSUME NEW k \in 0..n PROVE k = 0 \/ k \in 1..n
    BY <1>1
  <2>2. QED BY <1>4, <1>5, <2>1
<1>7. ASSUME NEW j \in 0..n, NEW k \in 0..n, j <= k PROVE Place(w)[j] <= Place(w)[k]
  <2>1. CASE j = 0
    BY <1>4, <1>6, <2>1
  <2>2. CASE j # 0
    <3>1. j \in 1..k
      BY <1>1, <1>7, <2>2
    <3>2. Len(D[j]) <= Len(D[k])
      BY <1>1, <3>1 DEF Stands
    <3>3. QED BY <1>2, <3>2
  <2>3. QED BY <2>1, <2>2
<1>8. Doubled(w) \in Seq(ToSet(w) \cup {Sep}) /\ Len(Doubled(w)) = Place(w)[n]
  <2>1. n \in 0..n
    BY <1>1
  <2>2. QED BY <1>2, <1>3, <2>1 DEF Stands
<1>9. ASSUME NEW x \in 1..Len(Doubled(w)), Doubled(w)[x] # Sep
      PROVE  \E k \in 1..n : Place(w)[k] = x /\ Doubled(w)[x] = w[k]
  <2>1. \E k \in 1..n : Len(D[k]) = x /\ D[n][x] = w[k]
    BY <1>2, <1>3, <1>9 DEF Stands
  <2>2. \A k \in 1..n : k \in 0..n
    BY <1>1
  <2>3. QED BY <1>2, <2>1, <2>2
<1>10. QED BY <1>1, <1>4, <1>5, <1>6, <1>7, <1>8, <1>9 DEF n
-----------------------------------------------------------------------------
(* The list of a file: its id, its name, size, time and attribute, and the bell. *)
Names(t, w) == \A x \in 1..Len(Doubled(w)) : t[2 + x] = Doubled(w)[x]
ListingOf(t, w, i, z, y) ==
  LET n == Len(Doubled(w))
  IN  /\ Len(t) = n + 11
      /\ t[1] = i /\ t[2] = Sep
      /\ Names(t, w)
      /\ t[n + 3] = Sep /\ t[n + 4] = z /\ t[n + 5] = Sep /\ t[n + 6] = y /\ t[n + 7] = Sep
      /\ t[n + 8] = "regular" /\ t[n + 9] = Sep /\ t[n + 10] = Bell /\ t[n + 11] = Nul

\* A name after an id, and the numbers.
Fit(T, w, i, z, y) == /\ IsString(w) /\ w # <<>> /\ ToSet(w) \subseteq T /\ {Sep, Bell, Nul, "regular"} \subseteq T
                      /\ {i, z, y} \subseteq T /\ {i, z, y} \cap {Sep, Bell, Nul} = {}

\* The bells of a listing: those of the name and the one at the end.
LEMMA BellsOf ==
  ASSUME NEW T, NEW w, NEW i, NEW z, NEW y, Fit(T, w, i, z, y), NEW t \in Seq(T), ListingOf(t, w, i, z, y)
  PROVE  /\ Place(w)[Len(w)] + 10 \in Bells(t)
         /\ \A k \in Bells(t) : \/ k = Place(w)[Len(w)] + 10
                                \/ \E c \in 1..Len(w) : w[c] = Bell /\ k = 2 + Place(w)[c]
<1> DEFINE n == Len(Doubled(w))
<1>1. n \in Nat /\ n = Place(w)[Len(w)]
  BY Places, LenProperties DEF Fit
<1>2. DOMAIN t = 1..(n + 11)
  BY LenProperties DEF ListingOf
<1>3. n + 10 \in Bells(t)
  <2>1. t[n + 10] = Bell
    BY DEF ListingOf
  <2> HIDE DEF n
  <2>2. n + 10 \in 1..(n + 11)
    BY <1>1
  <2>3. QED BY <1>2, <2>1, <2>2 DEF Bells
<1>4. ASSUME NEW k \in Bells(t), k # n + 10
      PROVE  \E c \in 1..Len(w) : w[c] = Bell /\ k = 2 + Place(w)[c]
  <2>1. k \in 1..(n + 11) /\ t[k] = Bell
    BY <1>2 DEF Bells
  <2>2. \/ k = 1 \/ k = 2 \/ k - 2 \in 1..n \/ k = n + 3 \/ k = n + 4 \/ k = n + 5 \/ k = n + 6 \/ k = n + 7
        \/ k = n + 8 \/ k = n + 9 \/ k = n + 11
    <3> HIDE DEF n
    <3>1. ASSUME NEW m \in Nat, NEW l \in 1..(m + 11), l # m + 10
          PROVE  \/ l = 1 \/ l = 2 \/ l - 2 \in 1..m \/ l = m + 3 \/ l = m + 4 \/ l = m + 5 \/ l = m + 6 \/ l = m + 7
                 \/ l = m + 8 \/ l = m + 9 \/ l = m + 11
      BY <3>1
    <3>2. QED BY <1>1, <1>4, <2>1, <3>1
  <2>3. k - 2 \in 1..n
    <3>1. Bell \notin {Sep, Nul, "regular", i, z, y}
      BY DEF Fit, Bell, Sep, Nul
    <3> HIDE DEF n
    <3>2. QED BY <2>1, <2>2, <3>1 DEF ListingOf, n
  <2>4. Doubled(w)[k - 2] = Bell
    <3>1. t[2 + (k - 2)] = Doubled(w)[k - 2] /\ 2 + (k - 2) = k
      BY <2>1, <2>3 DEF ListingOf, Names
    <3>2. QED BY <2>1, <3>1
  <2>5. PICK c \in 1..Len(w) : Place(w)[c] = k - 2 /\ Doubled(w)[k - 2] = w[c]
    <3>1. Bell # Sep
      BY DEF Bell, Sep
    <3>2. QED BY <2>3, <2>4, <3>1, Places DEF Fit
  <2>6. k = 2 + Place(w)[c]
    BY <2>1, <2>5
  <2>7. QED BY <2>4, <2>5, <2>6
<1>5. QED BY <1>1, <1>3, <1>4

(* A piece of the list, and a stretch of the name within it. *)
PartOf(p, t, a) == \A x \in 1..Len(p) : p[x] = t[a + x]
Moved(w, a) == [k \in 0..Len(w) |-> (2 + Place(w)[k]) - a]

\* What stands between two places.
LEMMA PieceOf ==
  ASSUME NEW T, NEW t \in Seq(T), NEW a \in Nat, NEW b \in Nat, a < b, b <= Len(t)
  PROVE  LET p == SubSeq(t, a + 1, b - 1)
         IN  p \in Seq(T) /\ Len(p) = b - 1 - a /\ PartOf(p, t, a)
<1> DEFINE p == SubSeq(t, a + 1, b - 1)
<1>1. Len(t) \in Nat /\ a + 1 \in Int /\ b - 1 \in Int
  BY LenProperties
<1>2. \A x \in (a + 1)..(b - 1) : t[x] \in T
  BY <1>1, ElementOfSeq
<1>3. /\ p \in Seq(T) /\ Len(p) = (IF a + 1 <= b - 1 THEN (b - 1) - (a + 1) + 1 ELSE 0)
      /\ \A x \in 1..((b - 1) - (a + 1) + 1) : p[x] = t[(a + 1) + x - 1]
  BY <1>1, <1>2, SubSeqProperties
<1> HIDE DEF p
<1>4. Len(p) = b - 1 - a
  BY <1>3
<1>5. ASSUME NEW x \in 1..Len(p) PROVE p[x] = t[a + x]
  <2>1. x \in 1..((b - 1) - (a + 1) + 1) /\ (a + 1) + x - 1 = a + x
    BY <1>4
  <2>2. QED BY <1>3, <2>1
<1>6. QED BY <1>3, <1>4, <1>5 DEF p, PartOf

\* The tokens of the name in a piece of the listing.
LEMMA LaidInPiece ==
  ASSUME NEW T, NEW w, IsString(w), NEW t, NEW a \in Nat, NEW p, Len(p) \in Nat,
         PartOf(p, t, a), Names(t, w),
         NEW i \in 0..Len(w), NEW j \in 0..Len(w), i <= j,
         a <= 2 + Place(w)[i], (2 + Place(w)[j]) - a <= Len(p)
  PROVE  Laid(p, w, Moved(w, a), i, j)
<1> DEFINE P == Moved(w, a)
           H == Place(w)
           D == Doubled(w)
<1>1. /\ Len(w) \in Nat /\ H[0] = 0 /\ \A k \in 0..Len(w) : H[k] \in Nat
      /\ \A k \in 1..Len(w) : /\ H[k] = H[k - 1] + (IF w[k] = Sep THEN 2 ELSE 1)
                              /\ D[H[k]] = w[k]
                              /\ w[k] = Sep => D[H[k] - 1] = Sep
      /\ \A x, k \in 0..Len(w) : x <= k => H[x] <= H[k]
      /\ Len(D) = H[Len(w)]
  BY Places
<1> HIDE DEF H, D, P
<1>2. ASSUME NEW k \in i..j
      PROVE  P[k] \in Nat /\ P[k] <= Len(p) /\ k \in 0..Len(w) /\ P[k] = (2 + H[k]) - a
  <2>1. k \in 0..Len(w) /\ i <= k /\ k <= j
    BY <1>1
  <2>2. H[i] <= H[k] /\ H[k] <= H[j] /\ H[i] \in Nat /\ H[k] \in Nat /\ H[j] \in Nat
    BY <1>1, <2>1
  <2>3. P[k] = (2 + H[k]) - a
    BY <2>1 DEF H, P, Moved
  <2>4. a <= 2 + H[i] /\ (2 + H[j]) - a <= Len(p)
    BY DEF H
  <2>5. QED BY <2>1, <2>2, <2>3, <2>4
<1>3. ASSUME NEW k \in (i + 1)..j
      PROVE  P[k] = P[k - 1] + (IF w[k] = Sep THEN 2 ELSE 1) /\ p[P[k]] = w[k] /\ (w[k] = Sep => p[P[k] - 1] = Sep)
  <2>1. k \in i..j /\ k - 1 \in i..j /\ k \in 1..Len(w) /\ Len(w) \in 0..Len(w) /\ k <= Len(w)
    BY <1>1
  <2>2. /\ P[k] \in Nat /\ P[k] <= Len(p) /\ P[k] = (2 + H[k]) - a
        /\ P[k - 1] \in Nat /\ P[k - 1] = (2 + H[k - 1]) - a /\ k - 1 \in 0..Len(w) /\ k \in 0..Len(w)
    BY <1>2, <2>1
  <2>3. /\ H[k] \in Nat /\ H[k - 1] \in Nat /\ H[k] = H[k - 1] + (IF w[k] = Sep THEN 2 ELSE 1)
        /\ D[H[k]] = w[k] /\ (w[k] = Sep => D[H[k] - 1] = Sep) /\ H[k] <= Len(D) /\ Len(D) \in Nat
    BY <1>1, <2>1, <2>2
  <2> DEFINE d == IF w[k] = Sep THEN 2 ELSE 1
  <2>a. d \in {1, 2} /\ (w[k] = Sep => d = 2)
    OBVIOUS
  <2>b. H[k] = H[k - 1] + d
    BY <2>3
  <2> HIDE DEF d
  <2>c. /\ H[k] \in Nat /\ H[k - 1] \in Nat /\ P[k] \in Nat /\ P[k - 1] \in Nat
        /\ P[k] = (2 + H[k]) - a /\ P[k - 1] = (2 + H[k - 1]) - a
    BY <2>2, <2>3
  <2>e. H[k] \in Nat /\ H[k - 1] \in Nat
    BY <2>c
  <2>4. P[k] = P[k - 1] + d
    BY <2>a, <2>b, <2>c
  <2>5. P[k] \in 1..Len(p) /\ H[k] \in 1..Len(D) /\ a + P[k] = 2 + H[k]
    <3>a. ASSUME NEW x, x \in Nat, NEW c, c \in {1, 2}, NEW v, v = x + c PROVE v >= 1
      BY <3>a
    <3>b. d \in {1, 2} /\ P[k - 1] \in Nat
      BY <2>a, <2>c, Zenon
    <3>0. P[k] >= 1
      BY <2>4, <3>a, <3>b, Zenon
    <3>4. H[k] >= 1
      BY <2>a, <2>b, <2>e, <3>a, Zenon
    <3>1. P[k] >= 1 /\ H[k] >= 1
      BY <3>0, <3>4
    <3>2. a + P[k] = 2 + H[k]
      BY <2>2, <2>3
    <3>3. QED BY <2>2, <2>3, <3>1, <3>2
  <2>6. p[P[k]] = w[k]
    <3>1. p[P[k]] = t[2 + H[k]]
      BY <2>5 DEF PartOf
    <3>2. t[2 + H[k]] = D[H[k]]
      BY <2>5 DEF D, Names
    <3>3. QED BY <2>3, <3>1, <3>2
  <2>7. ASSUME w[k] = Sep PROVE p[P[k] - 1] = Sep
    <3>1. P[k] - 1 \in 1..Len(p) /\ H[k] - 1 \in 1..Len(D) /\ a + (P[k] - 1) = 2 + (H[k] - 1)
      <4>0. P[k] >= 2 /\ d = 2
        BY <2>4, <2>7, <2>a, <2>c
      <4>3. H[k] >= 2
        BY <2>b, <2>e, <4>0
      <4>1. P[k] >= 2 /\ H[k] >= 2
        BY <4>0, <4>3
      <4>4. P[k] - 1 \in 1..Len(p)
        BY <2>5, <4>0
      <4>5. H[k] - 1 \in 1..Len(D)
        BY <2>5, <4>3
      <4>7. P[k] \in Nat
        BY <2>c
      <4>8. a + P[k] = 2 + H[k]
        BY <2>5
      <4>6. a + (P[k] - 1) = 2 + (H[k] - 1)
        BY <2>e, <4>7, <4>8
      <4>2. QED BY <4>4, <4>5, <4>6
    <3>2. p[P[k] - 1] = t[2 + (H[k] - 1)]
      BY <3>1 DEF PartOf
    <3>3. t[2 + (H[k] - 1)] = D[H[k] - 1]
      BY <3>1 DEF D, Names
    <3>4. QED BY <2>3, <2>7, <3>2, <3>3
  <2>8. QED BY <2>4, <2>6, <2>7 DEF d
<1>4. Laid(p, w, P, i, j)
  BY <1>2, <1>3 DEF Laid
<1>5. QED BY <1>4 DEF P

\* How a name begins to be read after an id.
LEMMA StartAfterId ==
  ASSUME NEW T, NEW p \in Seq(T), Sep \in T, Len(p) >= 2, p[1] # Sep, p[2] = Sep
  PROVE  /\ AfterId(p, T, 2)
         /\ ~(2 < Len(p) /\ p[3] = Sep) => Splitting(p)[2] = Reading(<<<<p[1]>>>>, <<>>, "read")
<1>1. Len(p) \in Nat /\ 1 \in 1..Len(p) /\ 2 \in 1..Len(p)
  BY LenProperties
<1>2. p[1] \in T
  BY <1>1, ElementOfSeq
<1>3. Splitting(p)[0] = Reading(<<>>, <<>>, "read") /\ \A k \in 1..Len(p) : Splitting(p)[k] = Taken(Splitting(p)[k - 1], p, k)
  BY <1>1, SplittingIs
<1>4. Splitting(p)[1] = Reading(<<>>, <<p[1]>>, "read")
  <2>1. Splitting(p)[1] = Taken(Reading(<<>>, <<>>, "read"), p, 1)
    BY <1>1, <1>3
  <2>2. Taken(Reading(<<>>, <<>>, "read"), p, 1) = Reading(<<>>, Append(<<>>, p[1]), "read")
    <3>1. ASSUME NEW V, NEW C PROVE Taken(Reading(V, C, "read"), p, 1) = Reading(V, Append(C, p[1]), "read")
      BY Steps
    <3>2. QED BY <3>1
  <2>3. Append(<<>>, p[1]) = <<p[1]>>
    OBVIOUS
  <2>4. QED BY <2>1, <2>2, <2>3
<1> DEFINE B == <<p[1]>>
<1>5. B \in Seq(T) /\ Len(B) = 1 /\ B[1] = p[1] /\ B # <<>>
  BY <1>2
<1>6. Splitting(p)[2] = Taken(Reading(<<>>, B, "read"), p, 2)
  BY <1>1, <1>3, <1>4
<1> HIDE DEF B
<1>7. CASE 2 < Len(p) /\ p[3] = Sep
  <2>1. Splitting(p)[2] = Reading(<<>>, Append(B, Sep), "pass")
    BY <1>6, <1>7, Steps
  <2>2. Append(B, Sep) \in Seq(T) /\ Append(B, Sep) # <<>> /\ Append(B, Sep)[1] = p[1]
    <3>1. 1 \in 1..Len(B)
      BY <1>5
    <3>2. QED BY <1>5, <3>1, AppendProperties
  <2>3. 2 < Len(p) /\ p[2 + 1] = Sep
    BY <1>7
  <2>4. AfterId(p, T, 2)
    BY <2>1, <2>2, <2>3 DEF AfterId
  <2>5. QED BY <1>7, <2>4
<1>8. CASE ~(2 < Len(p) /\ p[3] = Sep)
  <2>1. Splitting(p)[2] = Reading(Append(<<>>, B), <<>>, "read")
    <3>1. ASSUME NEW V PROVE Taken(Reading(V, B, "read"), p, 2) = Reading(Append(V, B), <<>>, "read")
      BY <1>8, Steps
    <3>2. QED BY <1>6, <3>1
  <2>2. Append(<<>>, B) = <<B>>
    OBVIOUS
  <2>3. Splitting(p)[2] = Reading(<<B>>, <<>>, "read")
    BY <2>1, <2>2
  <2>4. <<>> \in Seq(T)
    BY EmptySeq
  <2>5. AfterId(p, T, 2)
    BY <1>5, <2>3, <2>4 DEF AfterId
  <2>6. QED BY <2>3, <2>5 DEF B
<1>9. QED BY <1>7, <1>8

\* A piece that ends at the bell token c of the name, from the beginning.
LEMMA PieceToBell ==
  ASSUME NEW T, NEW w, NEW i, NEW z, NEW y, Fit(T, w, i, z, y), NEW t \in Seq(T), ListingOf(t, w, i, z, y),
         NEW c \in 1..Len(w), w[c] = Bell
  PROVE  Len(SplitAllowSeparator(SubSeq(t, 0 + 1, (2 + Place(w)[c]) - 1))) = 1
<1> DEFINE H == Place(w)
           b == 2 + H[c]
           p == SubSeq(t, 0 + 1, b - 1)
<1>1. /\ Len(w) \in Nat /\ H[0] = 0 /\ c \in 0..Len(w) /\ c - 1 \in 0..Len(w) /\ 0 \in 0..Len(w) /\ Len(w) \in 0..Len(w)
      /\ H[c] \in Nat /\ H[c - 1] \in Nat /\ H[c] = H[c - 1] + 1 /\ H[c] <= H[Len(w)] /\ H[Len(w)] \in Nat
      /\ Len(Doubled(w)) = H[Len(w)]
  <2>1. Len(w) \in Nat
    BY Places DEF Fit
  <2>2. c \in 0..Len(w) /\ c - 1 \in 0..Len(w) /\ 0 \in 0..Len(w) /\ Len(w) \in 0..Len(w) /\ c <= Len(w)
    BY <2>1
  <2>3. w[c] # Sep
    BY DEF Bell, Sep
  <2> HIDE DEF H
  <2>4. QED BY <2>1, <2>2, <2>3, Places DEF Fit, H
<1> HIDE DEF H
<1>2. Len(t) = H[Len(w)] + 11 /\ t[1] = i /\ t[2] = Sep /\ Names(t, w) /\ i \in T /\ i # Sep /\ Sep \in T
  BY <1>1 DEF ListingOf, Fit
<1>3. b \in Nat /\ 0 < b /\ b <= Len(t)
  BY <1>1, <1>2
<1>4. p \in Seq(T) /\ Len(p) = b - 1 /\ PartOf(p, t, 0)
  <2> HIDE DEF b
  <2>1. QED BY <1>3, PieceOf
<1>5. Len(p) = H[c] + 1 /\ Len(p) >= 2 /\ Len(p) = 2 + H[c - 1] /\ Len(p) \in Nat
  <2> HIDE DEF p
  <2>1. QED BY <1>1, <1>4
<1> HIDE DEF p, b
<1>6. p[1] = i /\ p[2] = Sep
  <2>1. 1 \in 1..Len(p) /\ 2 \in 1..Len(p)
    BY <1>5
  <2>2. p[1] = t[0 + 1] /\ p[2] = t[0 + 2]
    BY <1>4, <2>1 DEF PartOf
  <2>3. QED BY <1>2, <2>2
<1>7. AfterId(p, T, 2)
  BY <1>2, <1>4, <1>5, <1>6, StartAfterId
<1> DEFINE P == Moved(w, 0)
<1>8. P[0] = 2 /\ P[c - 1] = Len(p)
  BY <1>1, <1>5 DEF Moved, H
<1>9. Laid(p, w, P, 0, c - 1)
  <2>1. IsString(w)
    BY DEF Fit
  <2>2. 0 <= c - 1 /\ 0 <= 2 + H[0] /\ (2 + H[c - 1]) - 0 <= Len(p)
    BY <1>1, <1>5
  <2>3. QED BY <1>1, <1>2, <1>4, <1>5, <2>1, <2>2, LaidInPiece DEF H
<1> HIDE DEF P
<1>10. AfterId(p, T, P[c - 1])
  <2>1. w \in Seq(T)
    BY SeqMonotonic DEF Fit, IsString
  <2>2. c - 1 \in Nat /\ c - 1 <= Len(w)
    BY <1>1
  <2>3. QED BY <1>2, <1>5, <1>7, <1>8, <1>9, <2>1, <2>2, StretchAfterId
<1>11. PICK v \in Seq(T), B \in Seq(T) : Splitting(p)[Len(p)] = Reading(<<v>>, B, "read")
  BY <1>5, <1>8, <1>10 DEF AfterId
<1>12. SplitAllowSeparator(p) = <<v>>
  BY <1>11 DEF SplitAllowSeparator, Reading
<1>13. Len(SplitAllowSeparator(p)) = 1
  BY <1>12
<1>14. QED BY <1>13 DEF p, b, H

\* Between two bells of the name.
LEMMA PieceBetweenBells ==
  ASSUME NEW T, NEW w, NEW i, NEW z, NEW y, Fit(T, w, i, z, y), NEW t \in Seq(T), ListingOf(t, w, i, z, y),
         NEW x \in 1..Len(w), NEW c \in 1..Len(w), w[c] = Bell, Place(w)[x] < Place(w)[c]
  PROVE  SplitAllowSeparator(SubSeq(t, 2 + Place(w)[x] + 1, (2 + Place(w)[c]) - 1)) = <<>>
<1> DEFINE H == Place(w)
           a == 2 + H[x]
           b == 2 + H[c]
           p == SubSeq(t, a + 1, b - 1)
<1>1. /\ Len(w) \in Nat /\ c - 1 \in 0..Len(w) /\ x \in 0..Len(w)
      /\ H[c] \in Nat /\ H[c - 1] \in Nat /\ H[c] = H[c - 1] + 1 /\ H[c] <= H[Len(w)] /\ H[Len(w)] \in Nat
      /\ Len(Doubled(w)) = H[Len(w)] /\ H[x] \in Nat /\ H[x] < H[c] /\ x <= c - 1
  <2>1. Len(w) \in Nat
    BY Places DEF Fit
  <2>2. c \in 0..Len(w) /\ c - 1 \in 0..Len(w) /\ x \in 0..Len(w) /\ Len(w) \in 0..Len(w) /\ c <= Len(w)
    BY <2>1
  <2>3. w[c] # Sep
    BY DEF Bell, Sep
  <2> HIDE DEF H
  <2>4. /\ H[c] \in Nat /\ H[c - 1] \in Nat /\ H[c] = H[c - 1] + 1 /\ H[c] <= H[Len(w)] /\ H[Len(w)] \in Nat
        /\ Len(Doubled(w)) = H[Len(w)] /\ H[x] \in Nat /\ (c <= x => H[c] <= H[x])
    BY <2>1, <2>2, <2>3, Places DEF Fit, H
  <2>5. H[x] < H[c]
    BY DEF H
  <2>6. ~(c <= x)
    BY <2>4, <2>5
  <2>7. x <= c - 1
    BY <2>1, <2>6
  <2>8. QED BY <2>1, <2>2, <2>4, <2>5, <2>7
<1> HIDE DEF H
<1>2. Len(t) = H[Len(w)] + 11 /\ Names(t, w)
  BY <1>1 DEF ListingOf
<1>3. a \in Nat /\ b \in Nat /\ a < b /\ b <= Len(t)
  <2>1. H[x] \in Nat /\ H[c] \in Nat /\ H[x] < H[c]
    BY <1>1
  <2>2. H[c] <= H[Len(w)] /\ H[Len(w)] \in Nat /\ Len(t) = H[Len(w)] + 11
    BY <1>1, <1>2
  <2>3. b <= Len(t)
    BY <2>1, <2>2
  <2>4. QED BY <2>1, <2>3
<1>4. p \in Seq(T) /\ Len(p) = b - 1 - a /\ PartOf(p, t, a)
  <2> HIDE DEF a, b
  <2>1. QED BY <1>3, PieceOf
<1>5. Len(p) = (2 + H[c - 1]) - a /\ Len(p) \in Nat
  <2> HIDE DEF p
  <2>1. H[c - 1] \in Nat /\ H[c] \in Nat /\ H[c] = H[c - 1] + 1 /\ H[x] \in Nat /\ H[x] < H[c]
    BY <1>1
  <2>2. Len(p) = (2 + H[c]) - 1 - (2 + H[x])
    BY <1>4
  <2>3. QED BY <2>1, <2>2
<1> HIDE DEF p
<1> DEFINE P == Moved(w, a)
<1>6. P[x] = 0 /\ P[c - 1] = Len(p)
  BY <1>1, <1>5 DEF Moved, H
<1>7. Laid(p, w, P, x, c - 1)
  <2>1. IsString(w)
    BY DEF Fit
  <2>2. a <= 2 + H[x] /\ (2 + H[c - 1]) - a <= Len(p)
    BY <1>1, <1>5
  <2> HIDE DEF a
  <2>3. QED BY <1>1, <1>2, <1>3, <1>4, <1>5, <2>1, <2>2, LaidInPiece DEF H
<1> HIDE DEF P, a, b
<1>8. Splitting(p)[Len(p)] = Reading(<<>>, SubSeq(w, x + 1, c - 1), "read")
  <2>1. w \in Seq(T)
    BY SeqMonotonic DEF Fit, IsString
  <2>2. x \in Nat /\ c - 1 \in Nat /\ c - 1 <= Len(w) /\ x <= c - 1
    BY <1>1
  <2>3. Splitting(p)[0] = Reading(<<>>, <<>>, "read")
    BY <1>5, SplittingIs
  <2>4. ASSUME NEW V, Splitting(p)[P[x]] = Reading(V, <<>>, "read")
        PROVE  Splitting(p)[P[c - 1]] = Reading(V, SubSeq(w, x + 1, c - 1), "read")
    BY <1>5, <1>7, <2>1, <2>2, <2>4, StretchRead
  <2>5. QED BY <1>6, <2>3, <2>4
<1>9. SplitAllowSeparator(p) = <<>>
  BY <1>8 DEF SplitAllowSeparator, Reading
<1>10. QED BY <1>9 DEF p, a, b, H

\* The numbers after the name.
LEMMA ClosedInPiece ==
  ASSUME NEW T, NEW w, NEW i, NEW z, NEW y, Fit(T, w, i, z, y), NEW t, ListingOf(t, w, i, z, y),
         NEW n \in Nat, n = Len(Doubled(w)), NEW a \in Nat, a <= 2 + n, NEW p, Len(p) = n + 9 - a, PartOf(p, t, a)
  PROVE  Closed(p, (2 + n) - a, z, y, "regular") /\ Len(p) \in Nat
<1> SUFFICES ASSUME NEW e \in Nat, e = (2 + n) - a PROVE Closed(p, e, z, y, "regular") /\ Len(p) \in Nat
  OBVIOUS
<1>1. Len(p) = e + 7 /\ a + e = n + 2
  OBVIOUS
<1>2. ASSUME NEW k \in 1..7 PROVE p[e + k] = t[n + (2 + k)]
  <2>1. e + k \in 1..Len(p) /\ a + (e + k) = n + (2 + k)
    BY <1>1
  <2>2. p[e + k] = t[a + (e + k)]
    BY <2>1 DEF PartOf
  <2>3. QED BY <2>1, <2>2
<1>3. /\ t[n + 3] = Sep /\ t[n + 4] = z /\ t[n + 5] = Sep /\ t[n + 6] = y /\ t[n + 7] = Sep
      /\ t[n + 8] = "regular" /\ t[n + 9] = Sep
  BY DEF ListingOf
<1>4. p[e + 1] = t[n + 3] /\ p[e + 2] = t[n + 4] /\ p[e + 3] = t[n + 5] /\ p[e + 4] = t[n + 6]
  BY <1>2
<1>5. p[e + 5] = t[n + 7] /\ p[e + 6] = t[n + 8] /\ p[e + 7] = t[n + 9]
  BY <1>2
<1>6. Sep \notin {z, y, "regular"}
  BY DEF Fit, Sep
<1>7. QED BY <1>1, <1>3, <1>4, <1>5, <1>6 DEF Closed

\* From a bell of the name to the end of the list.
LEMMA PieceFromBell ==
  ASSUME NEW T, NEW w, NEW i, NEW z, NEW y, Fit(T, w, i, z, y), NEW t \in Seq(T), ListingOf(t, w, i, z, y),
         NEW x \in 1..Len(w), NEW n, n = Place(w)[Len(w)]
  PROVE  Len(SplitAllowSeparator(SubSeq(t, (2 + Place(w)[x]) + 1, (n + 10) - 1))) = 4
<1> DEFINE H == Place(w)
           a == 2 + H[x]
           b == n + 10
           p == SubSeq(t, a + 1, b - 1)
           l == Len(w)
<1>1. /\ l \in Nat /\ l \in 0..l /\ x \in 0..l /\ x <= l
      /\ n \in Nat /\ n = H[l] /\ n = Len(Doubled(w)) /\ H[x] \in Nat /\ H[x] <= n
  <2>1. l \in Nat
    BY Places DEF Fit
  <2>2. l \in 0..l /\ x \in 0..l /\ x <= l
    BY <2>1
  <2> HIDE DEF H
  <2>3. QED BY <2>1, <2>2, Places DEF Fit, H
<1>2. Len(t) = n + 11 /\ Names(t, w)
  BY <1>1 DEF ListingOf
<1> HIDE DEF H, l
<1>3. a \in Nat /\ b \in Nat /\ a < b /\ b <= Len(t) /\ a <= 2 + n
  BY <1>1, <1>2
<1>4. p \in Seq(T) /\ Len(p) = b - 1 - a /\ PartOf(p, t, a)
  <2> HIDE DEF a, b
  <2>1. QED BY <1>3, PieceOf
<1>5. Len(p) = n + 9 - a
  <2> HIDE DEF p, a
  <2>1. QED BY <1>1, <1>3, <1>4
<1> HIDE DEF p
<1> DEFINE P == Moved(w, a)
           e == (2 + n) - a
<1>6. P[x] = 0 /\ P[l] = e
  <2>1. P[x] = (2 + H[x]) - a /\ P[l] = (2 + H[l]) - a
    BY <1>1 DEF Moved, H, l
  <2> HIDE DEF P
  <2>2. H[x] \in Nat /\ H[l] = n
    BY <1>1
  <2>3. QED BY <2>1, <2>2
<1> HIDE DEF P, a, b
<1>7. Closed(p, e, z, y, "regular") /\ Len(p) \in Nat
  BY <1>1, <1>3, <1>4, <1>5, ClosedInPiece
<1>8. Laid(p, w, P, x, l)
  <2>1. IsString(w) /\ e <= Len(p)
    BY <1>1, <1>3, <1>5 DEF Fit
  <2>2. a <= 2 + Place(w)[x] /\ (2 + Place(w)[l]) - a <= Len(p) /\ x \in 0..Len(w) /\ l \in 0..Len(w)
    BY <1>1, <2>1 DEF a, H, l
  <2>3. QED BY <1>1, <1>2, <1>3, <1>4, <1>7, <2>1, <2>2, LaidInPiece DEF P
<1> HIDE DEF e
<1>9. PICK B : Splitting(p)[e] = Reading(<<>>, B, "read")
  <2>1. w \in Seq(T)
    BY SeqMonotonic DEF Fit, IsString
  <2>2. x \in Nat /\ l \in Nat /\ l <= Len(w) /\ x <= l
    BY <1>1 DEF l
  <2>3. Splitting(p)[0] = Reading(<<>>, <<>>, "read")
    BY <1>7, SplittingIs
  <2>4. ASSUME NEW V, Splitting(p)[P[x]] = Reading(V, <<>>, "read")
        PROVE  Splitting(p)[P[l]] = Reading(V, SubSeq(w, x + 1, l), "read")
    BY <1>7, <1>8, <2>1, <2>2, <2>4, StretchRead
  <2>5. QED BY <1>6, <2>3, <2>4
<1>10. SplitAllowSeparator(p) = <<B, <<z>>, <<y>>, <<"regular">>>>
  <2>1. ASSUME NEW V, Splitting(p)[e] = Reading(V, B, "read")
        PROVE  SplitAllowSeparator(p) = Tailed(V, B, z, y, "regular")
    BY <1>7, <2>1, TailRead
  <2>2. SplitAllowSeparator(p) = Append(Append(Append(Append(<<>>, B), <<z>>), <<y>>), <<"regular">>)
    BY <1>9, <2>1 DEF Tailed
  <2>3. ASSUME NEW x1, NEW x2, NEW x3, NEW x4
        PROVE  Append(Append(Append(Append(<<>>, x1), x2), x3), x4) = <<x1, x2, x3, x4>>
    <3>1. Append(<<>>, x1) = <<x1>> /\ Append(<<x1>>, x2) = <<x1, x2>> /\ Append(<<x1, x2>>, x3) = <<x1, x2, x3>>
          /\ Append(<<x1, x2, x3>>, x4) = <<x1, x2, x3, x4>> /\ Append(<<x1, x2, x3, x4>>, x1) = <<x1, x2, x3, x4, x1>>
      BY Tuples
    <3>2. QED BY <3>1
  <2>4. QED BY <2>2, <2>3
<1>11. Len(SplitAllowSeparator(p)) = 4
  BY <1>10
<1>12. QED BY <1>11 DEF p, a, b, H

\* The whole of it: with five values the first begins with the id.
LEMMA WholePiece ==
  ASSUME NEW T, NEW w, NEW i, NEW z, NEW y, Fit(T, w, i, z, y), NEW t \in Seq(T), ListingOf(t, w, i, z, y),
         NEW n, n = Place(w)[Len(w)], NEW p \in Seq(T), Len(p) = n + 9, PartOf(p, t, 0)
  PROVE  /\ \/ Len(SplitAllowSeparator(p)) = 3
            \/ \E v, B : v[1] = i /\ SplitAllowSeparator(p) = <<v, B, <<z>>, <<y>>, <<"regular">>>>
         /\ w[1] # Sep => SplitAllowSeparator(p) = <<<<i>>, w, <<z>>, <<y>>, <<"regular">>>>
<1> DEFINE H == Place(w)
           l == Len(w)
<1>1. /\ l \in Nat /\ l # 0 /\ l \in 0..l /\ 0 \in 0..l /\ 1 \in 1..l
      /\ n \in Nat /\ n = H[l] /\ n = Len(Doubled(w)) /\ H[0] = 0
  <2>1. l \in Nat /\ l # 0
    <3>1. w \in Seq(ToSet(w)) /\ w # <<>>
      BY DEF Fit, IsString
    <3>2. QED BY <3>1, EmptySeq
  <2>2. l \in 0..l /\ 0 \in 0..l /\ 1 \in 1..l
    BY <2>1
  <2> HIDE DEF H
  <2>3. QED BY <2>1, <2>2, Places DEF Fit, H
<1>2. Len(t) = n + 11 /\ Names(t, w) /\ t[1] = i /\ t[2] = Sep /\ i \in T /\ i # Sep /\ Sep \in T
  BY <1>1 DEF ListingOf, Fit
<1> HIDE DEF H, l
<1>3. 0 \in Nat /\ 0 <= 2 + n /\ Len(p) = n + 9 - 0 /\ Len(p) \in Nat
  BY <1>1
<1>5. 1 \in 1..Len(p) /\ 2 \in 1..Len(p) /\ Len(p) >= 2
  BY <1>1
<1> DEFINE P == Moved(w, 0)
           e == (2 + n) - 0
<1>6. P[0] = 2 /\ P[l] = e
  <2>1. P[0] = (2 + H[0]) - 0 /\ P[l] = (2 + H[l]) - 0
    BY <1>1 DEF Moved, H, l
  <2> HIDE DEF P
  <2>2. H[0] = 0 /\ H[l] = n
    BY <1>1
  <2>3. QED BY <2>1, <2>2
<1> HIDE DEF P
<1>7. Closed(p, e, z, y, "regular") /\ Len(p) \in Nat
  BY <1>1, <1>3, ClosedInPiece
<1>8. Laid(p, w, P, 0, l)
  <2>1. IsString(w) /\ e <= Len(p)
    BY <1>1, <1>3 DEF Fit
  <2>2. 0 <= 2 + Place(w)[0] /\ (2 + Place(w)[l]) - 0 <= Len(p) /\ 0 \in 0..Len(w) /\ l \in 0..Len(w) /\ 0 <= l
    BY <1>1, <2>1 DEF H, l
  <2>3. QED BY <1>1, <1>2, <1>3, <1>7, <2>1, <2>2, LaidInPiece DEF P
<1> HIDE DEF e
<1>9. p[1] = i /\ p[2] = Sep
  <2>2. p[1] = t[0 + 1] /\ p[2] = t[0 + 2]
    BY <1>5 DEF PartOf
  <2>3. QED BY <1>2, <2>2
<1>10. w \in Seq(T)
  BY SeqMonotonic DEF Fit, IsString
<1>11. /\ AfterId(p, T, 2)
       /\ ~(2 < Len(p) /\ p[3] = Sep) => Splitting(p)[2] = Reading(<<<<i>>>>, <<>>, "read")
  <2>1. Len(p) >= 2 /\ p[1] # Sep
    BY <1>2, <1>5, <1>9
  <2>2. QED BY <1>2, <1>9, <2>1, StartAfterId
<1>12. AfterId(p, T, e)
  <2>1. l \in Nat /\ l <= Len(w) /\ AfterId(p, T, P[0])
    BY <1>1, <1>6, <1>11 DEF l
  <2>2. QED BY <1>2, <1>6, <1>7, <1>8, <1>10, <2>1, StretchAfterId
<1>12a. ASSUME NEW V, NEW B, Splitting(p)[e] = Reading(V, B, "read")
        PROVE  SplitAllowSeparator(p) = Tailed(V, B, z, y, "regular")
  BY <1>7, <1>12a, TailRead
<1>12b. ASSUME NEW x1, NEW x2, NEW x3, NEW x4, NEW x5
        PROVE  Append(Append(Append(Append(<<x1>>, x2), x3), x4), x5) = <<x1, x2, x3, x4, x5>>
  <2>1. Append(<<x1>>, x2) = <<x1, x2>> /\ Append(<<x1, x2>>, x3) = <<x1, x2, x3>>
        /\ Append(<<x1, x2, x3>>, x4) = <<x1, x2, x3, x4>> /\ Append(<<x1, x2, x3, x4>>, x5) = <<x1, x2, x3, x4, x5>>
    BY Tuples
  <2>2. QED BY <2>1
<1>13. ASSUME NEW v, NEW B, Splitting(p)[e] = Reading(<<v>>, B, "read")
       PROVE  SplitAllowSeparator(p) = <<v, B, <<z>>, <<y>>, <<"regular">>>>
  <2>2. SplitAllowSeparator(p) = Append(Append(Append(Append(<<v>>, B), <<z>>), <<y>>), <<"regular">>)
    BY <1>12a, <1>13 DEF Tailed
  <2>3. Append(Append(Append(Append(<<v>>, B), <<z>>), <<y>>), <<"regular">>) = <<v, B, <<z>>, <<y>>, <<"regular">>>>
    BY <1>12b
  <2>4. QED BY <2>2, <2>3, Zenon
<1>14. \/ Len(SplitAllowSeparator(p)) = 3
       \/ \E v, B : v[1] = i /\ SplitAllowSeparator(p) = <<v, B, <<z>>, <<y>>, <<"regular">>>>
  <2>1. CASE \E B \in Seq(T) : Splitting(p)[e] = Reading(<<>>, B, "pass")
    <3>1. PICK B \in Seq(T) : Splitting(p)[e] = Reading(<<>>, B, "pass")
      BY <2>1
    <3>2. SplitAllowSeparator(p) = <<Append(B, z), <<y>>, <<"regular">>>>
      BY <1>7, <3>1, TailSkewed
    <3>3. QED BY <3>2
  <2>2. CASE \E v, B \in Seq(T) : v[1] = p[1] /\ Splitting(p)[e] = Reading(<<v>>, B, "read")
    <3>1. PICK v \in Seq(T), B \in Seq(T) : v[1] = p[1] /\ Splitting(p)[e] = Reading(<<v>>, B, "read")
      BY <2>2
    <3>2. SplitAllowSeparator(p) = <<v, B, <<z>>, <<y>>, <<"regular">>>>
      BY <1>13, <3>1
    <3>3. QED BY <1>9, <3>1, <3>2
  <2>3. QED BY <1>12, <2>1, <2>2 DEF AfterId
<1>15. ASSUME w[1] # Sep PROVE SplitAllowSeparator(p) = <<<<i>>, w, <<z>>, <<y>>, <<"regular">>>>
  <2>1. P[1] = 3 /\ p[3] = w[1]
    <3>1. 1 \in (0 + 1)..l /\ 1 - 1 = 0
      BY <1>1
    <3>2. P[1] = P[1 - 1] + (IF w[1] = Sep THEN 2 ELSE 1) /\ p[P[1]] = w[1]
      BY <1>8, <3>1 DEF Laid
    <3>3. P[1] = 3
      BY <1>6, <1>15, <3>1, <3>2
    <3>4. QED BY <3>2, <3>3
  <2>2. Splitting(p)[P[0]] = Reading(<<<<i>>>>, <<>>, "read")
    BY <1>6, <1>11, <1>15, <2>1
  <2>3. Splitting(p)[P[l]] = Reading(<<<<i>>>>, SubSeq(w, 0 + 1, l), "read")
    <3>1. 0 \in Nat /\ l \in Nat /\ 0 <= l /\ l <= Len(w)
      BY <1>1 DEF l
    <3>2. ASSUME NEW V, Splitting(p)[P[0]] = Reading(V, <<>>, "read")
          PROVE  Splitting(p)[P[l]] = Reading(V, SubSeq(w, 0 + 1, l), "read")
      BY <1>7, <1>8, <1>10, <3>1, <3>2, StretchRead
    <3>3. QED BY <2>2, <3>2
  <2>4. SubSeq(w, 0 + 1, l) = w
    BY <1>10, SubSeqFull DEF l
  <2>5. Splitting(p)[e] = Reading(<<<<i>>>>, w, "read")
    BY <1>6, <2>3, <2>4
  <2>6. QED BY <1>13, <2>5
<1>16. QED BY <1>14, <1>15

(* Between whatever bells it is cut, a list gives no five values but those of its file,
   and those of a name with no bell that does not begin with a separator. *)
Values(t, s) == SplitAllowSeparator(SubSeq(t, s[1] + 1, s[2] - 1))

\* Of no span are there five values but of the whole list: a bell in the name leaves 0, 1 or 4.
LEMMA ValuesOf ==
  ASSUME NEW T, NEW w, NEW i, NEW z, NEW y, Fit(T, w, i, z, y), NEW t \in Seq(T), ListingOf(t, w, i, z, y),
         NEW s \in Spans(t), Len(Values(t, s)) >= 5
  PROVE  Values(t, s)[1][1] = i /\ Values(t, s)[3] = <<z>> /\ Values(t, s)[4] = <<y>>
<1> DEFINE H == Place(w)
           n == H[Len(w)]
<1>1. /\ s[1] \in {0} \cup Bells(t) /\ s[2] \in Bells(t) /\ s[1] < s[2]
      /\ \A k \in Bells(t) : k = n + 10 \/ \E c \in 1..Len(w) : w[c] = Bell /\ k = 2 + H[c]
  <2>1. s[1] \in {0} \cup Bells(t) /\ s[2] \in Bells(t) /\ s[1] < s[2]
    BY DEF Spans
  <2>2. QED BY <2>1, BellsOf
<1>2. n \in Nat /\ \A c \in 1..Len(w) : H[c] \in Nat /\ H[c] <= n
  <2>1. Len(w) \in Nat
    BY Places DEF Fit
  <2>2. Len(w) \in 0..Len(w) /\ \A c \in 1..Len(w) : c \in 0..Len(w) /\ c <= Len(w)
    BY <2>1
  <2>3. QED BY <2>2, Places DEF Fit
<1>3. ASSUME NEW c \in 1..Len(w), w[c] = Bell, s[2] = 2 + H[c] PROVE FALSE
  <2>1. CASE s[1] = 0
    <3>1. Len(SplitAllowSeparator(SubSeq(t, 0 + 1, (2 + H[c]) - 1))) = 1
      BY <1>3, PieceToBell
    <3>2. Len(Values(t, s)) = 1
      BY <1>3, <2>1, <3>1 DEF Values
    <3>3. QED BY <3>2
  <2>2. ASSUME NEW x \in 1..Len(w), s[1] = 2 + H[x] PROVE FALSE
    <3>1. H[x] < H[c]
      BY <1>1, <1>2, <1>3, <2>2
    <3>2. SplitAllowSeparator(SubSeq(t, (2 + H[x]) + 1, (2 + H[c]) - 1)) = <<>>
      BY <1>3, <3>1, PieceBetweenBells
    <3>3. Values(t, s) = <<>>
      BY <1>3, <2>2, <3>2 DEF Values
    <3>4. QED BY <3>3
  <2>3. s[1] # n + 10
    BY <1>1, <1>2, <1>3
  <2>4. QED BY <1>1, <2>1, <2>2, <2>3
<1>4. s[2] = n + 10
  BY <1>1, <1>3
<1>5. ASSUME NEW x \in 1..Len(w), s[1] = 2 + H[x] PROVE FALSE
  <2>1. Len(SplitAllowSeparator(SubSeq(t, (2 + H[x]) + 1, (n + 10) - 1))) = 4
    BY PieceFromBell
  <2>2. Len(Values(t, s)) = 4
    BY <1>4, <1>5, <2>1 DEF Values
  <2>3. QED BY <2>2
<1>6. s[1] = 0
  BY <1>1, <1>2, <1>4, <1>5
<1>7. PICK v, B : v[1] = i /\ Values(t, s) = <<v, B, <<z>>, <<y>>, <<"regular">>>>
  <2> DEFINE p == SubSeq(t, 0 + 1, (n + 10) - 1)
  <2>1. p \in Seq(T) /\ Len(p) = n + 9 /\ PartOf(p, t, 0)
    <3>1. Len(t) = n + 11
      BY Places DEF Fit, ListingOf
    <3>2. 0 \in Nat /\ n + 10 \in Nat /\ 0 < n + 10 /\ n + 10 <= Len(t) /\ ((n + 10) - 1) - 0 = n + 9
      BY <1>2, <3>1
    <3>3. p \in Seq(T) /\ Len(p) = ((n + 10) - 1) - 0 /\ PartOf(p, t, 0)
      BY <3>2, PieceOf
    <3>4. QED BY <3>2, <3>3
  <2>2. Values(t, s) = SplitAllowSeparator(p)
    BY <1>4, <1>6 DEF Values
  <2> HIDE DEF p
  <2>3. \/ Len(SplitAllowSeparator(p)) = 3
        \/ \E v, B : v[1] = i /\ SplitAllowSeparator(p) = <<v, B, <<z>>, <<y>>, <<"regular">>>>
    BY <2>1, WholePiece
  <2>4. Len(SplitAllowSeparator(p)) # 3
    <3>1. SUFFICES ASSUME NEW m, m = Len(Values(t, s)), m >= 5, m = 3 PROVE FALSE
      BY <2>2, Zenon
    <3>2. QED BY <3>1
  <2>5. QED BY <2>2, <2>3, <2>4, Zenon
<1>8. QED BY <1>7

\* With no bell inside and no separator first, the list is read as its file.
LEMMA ValuesOfWhole ==
  ASSUME NEW T, NEW w, NEW i, NEW z, NEW y, Fit(T, w, i, z, y), NEW t \in Seq(T), ListingOf(t, w, i, z, y),
         w[1] # Sep, Bell \notin ToSet(w)
  PROVE  \E s \in Spans(t) : Values(t, s) = <<<<i>>, w, <<z>>, <<y>>, <<"regular">>>>
<1> DEFINE n == Place(w)[Len(w)]
           s == <<0, n + 10>>
           p == SubSeq(t, 0 + 1, (n + 10) - 1)
<1>1. Bells(t) = {n + 10}
  <2>1. \A c \in 1..Len(w) : w[c] # Bell
    BY DEF ToSet, Fit, IsString
  <2>2. QED BY <2>1, BellsOf
<1>2. n \in Nat /\ Len(t) = n + 11
  <2>1. Len(w) \in Nat
    BY Places DEF Fit
  <2>2. Len(w) \in 0..Len(w)
    BY <2>1
  <2>3. QED BY <2>2, Places DEF Fit, ListingOf
<1>3. s \in Spans(t)
  <2> HIDE DEF n
  <2>1. s \in ({0} \cup Bells(t)) \X Bells(t) /\ s[1] < s[2] /\ ~\E k \in Bells(t) : s[1] < k /\ k < s[2]
    BY <1>1, <1>2
  <2>2. QED BY <2>1 DEF Spans
<1>4. p \in Seq(T) /\ Len(p) = n + 9 /\ PartOf(p, t, 0)
  <2>1. 0 \in Nat /\ n + 10 \in Nat /\ 0 < n + 10 /\ n + 10 <= Len(t) /\ ((n + 10) - 1) - 0 = n + 9
    BY <1>2
  <2>2. p \in Seq(T) /\ Len(p) = ((n + 10) - 1) - 0 /\ PartOf(p, t, 0)
    BY <2>1, PieceOf
  <2>3. QED BY <2>1, <2>2
<1>5. Values(t, s) = SplitAllowSeparator(p)
  BY DEF Values
<1> HIDE DEF p
<1>6. SplitAllowSeparator(p) = <<<<i>>, w, <<z>>, <<y>>, <<"regular">>>>
  BY <1>4, WholePiece
<1>7. QED BY <1>3, <1>5, <1>6
-----------------------------------------------------------------------------
(* pack and dumpRaw. *)
(* Concatenations, element by element. *)
Joins(c, u, v) == /\ Len(c) = Len(u) + Len(v)
                  /\ \A x \in 1..Len(u) : c[x] = u[x]
                  /\ \A x \in 1..Len(v) : c[Len(u) + x] = v[x]

\* A concatenation is one.
LEMMA Joined ==
  ASSUME NEW T, NEW u, u \in Seq(T), NEW v, v \in Seq(T), NEW c, c = u \o v
  PROVE  c \in Seq(T) /\ Joins(c, u, v)
<1>1. Len(u) \in Nat /\ Len(v) \in Nat
  BY LenProperties
<1>2. /\ c \in Seq(T) /\ Len(c) = Len(u) + Len(v)
      /\ \A x \in 1..(Len(u) + Len(v)) : c[x] = IF x <= Len(u) THEN u[x] ELSE v[x - Len(u)]
  BY ConcatProperties
<1>3. ASSUME NEW x \in 1..Len(u) PROVE c[x] = u[x]
  <2>1. x \in 1..(Len(u) + Len(v)) /\ x <= Len(u)
    BY <1>1
  <2>2. QED BY <1>2, <2>1
<1>4. ASSUME NEW x \in 1..Len(v) PROVE c[Len(u) + x] = v[x]
  <2>1. Len(u) + x \in 1..(Len(u) + Len(v)) /\ ~(Len(u) + x <= Len(u)) /\ (Len(u) + x) - Len(u) = x
    BY <1>1
  <2>2. c[Len(u) + x] = v[(Len(u) + x) - Len(u)]
    BY <1>2, <2>1
  <2>3. QED BY <2>1, <2>2
<1>5. QED BY <1>2, <1>3, <1>4 DEF Joins

(* A field of one token. *)
LEMMA Single ==
  ASSUME NEW T, NEW a \in T, Sep \in T
  PROVE  Field(<<a>>) \in Seq(T) /\ Len(Field(<<a>>)) = 2 /\ Field(<<a>>)[1] = a /\ Field(<<a>>)[2] = Sep
<1>1. <<a>> \in Seq(T) /\ <<Sep>> \in Seq(T) /\ Len(<<a>>) = 1 /\ Len(<<Sep>>) = 1 /\ <<a>>[1] = a /\ <<Sep>>[1] = Sep
  OBVIOUS
<1> DEFINE u == <<a>>
           v == <<Sep>>
<1>2. u \in Seq(T) /\ v \in Seq(T) /\ Len(u) = 1 /\ Len(v) = 1 /\ u[1] = a /\ v[1] = Sep
  BY <1>1
<1>3. Field(<<a>>) = u \o v
  BY DEF Field
<1> HIDE DEF u, v
<1>4. Field(<<a>>) \in Seq(T) /\ Joins(Field(<<a>>), u, v)
  BY <1>2, <1>3, Joined, Zenon
<1>5. Field(<<a>>)[1] = u[1] /\ Field(<<a>>)[1 + 1] = v[1]
  BY <1>2, <1>4 DEF Joins
<1>6. Len(Field(<<a>>)) = 2
  BY <1>2, <1>4 DEF Joins
<1>7. QED BY <1>2, <1>4, <1>5, <1>6

\* What is said of a datagram, place by place.
Packed(s, a, b, name, h, k, X) ==
  LET n == Len(name)
  IN  /\ Len(s) = n + 10 + Len(X)
      /\ s[1] = a /\ s[2] = Sep /\ s[3] = b /\ s[4] = Sep
      /\ \A x \in 1..n : s[4 + x] = name[x]
      /\ s[n + 5] = Sep /\ s[n + 6] = h /\ s[n + 7] = Sep /\ s[n + 8] = k /\ s[n + 9] = Sep
      /\ \A x \in 1..Len(X) : s[n + 9 + x] = X[x]
      /\ s[n + 10 + Len(X)] = Nul

Packet(a, b, name, h, k, X) ==
  Field(<<a>>) \o Field(<<b>>) \o Field(name) \o Field(<<h>>) \o Field(<<k>>) \o X \o <<Nul>>

\* pack writes the fields in their places.
LEMMA PackedIs ==
  ASSUME NEW T, NEW a \in T, NEW b \in T, NEW name \in Seq(T), NEW h \in T, NEW k \in T, NEW X \in Seq(T),
         Sep \in T, Nul \in T,
         NEW s, s = Packet(a, b, name, h, k, X)
  PROVE  s \in Seq(T) /\ Packed(s, a, b, name, h, k, X)
<1> DEFINE n == Len(name)
           l == Len(X)
<1>1. n \in Nat /\ l \in Nat
  BY LenProperties
<1>2. PICK c1 : c1 = Field(<<a>>) \o Field(<<b>>)
  OBVIOUS
<1>3. PICK c2 : c2 = c1 \o Field(name)
  OBVIOUS
<1>4. PICK c3 : c3 = c2 \o Field(<<h>>)
  OBVIOUS
<1>5. PICK c4 : c4 = c3 \o Field(<<k>>)
  OBVIOUS
<1>6. PICK c5 : c5 = c4 \o X
  OBVIOUS
<1>7. s = c5 \o <<Nul>>
  BY <1>2, <1>3, <1>4, <1>5, <1>6 DEF Packet
<1>11. c1 \in Seq(T) /\ Len(c1) = 4 /\ c1[1] = a /\ c1[2] = Sep /\ c1[3] = b /\ c1[4] = Sep
  <2>1. PICK u, v : u = Field(<<a>>) /\ v = Field(<<b>>)
    OBVIOUS
  <2>2. u \in Seq(T) /\ Len(u) = 2 /\ u[1] = a /\ u[2] = Sep /\ v \in Seq(T) /\ Len(v) = 2 /\ v[1] = b /\ v[2] = Sep
    BY <2>1, Single
  <2>3a. u \in Seq(T) /\ v \in Seq(T) /\ c1 = u \o v
    BY <1>2, <2>1, <2>2
  <2>3. c1 \in Seq(T) /\ Joins(c1, u, v)
    BY <2>3a, Joined, Zenon
  <2>4. c1[1] = u[1] /\ c1[2] = u[2] /\ c1[2 + 1] = v[1] /\ c1[2 + 2] = v[2] /\ Len(c1) = 4
    BY <2>2, <2>3 DEF Joins
  <2>5. QED BY <2>2, <2>3, <2>4
<1>12. PICK f : f = Field(name)
  OBVIOUS
<1>13. f \in Seq(T) /\ Len(f) = n + 1 /\ (\A x \in 1..n : f[x] = name[x]) /\ f[n + 1] = Sep
  <2>1. PICK v : v = <<Sep>>
    OBVIOUS
  <2>2. v \in Seq(T) /\ Len(v) = 1 /\ v[1] = Sep
    BY <2>1
  <2>3. f = name \o v
    BY <1>12, <2>1 DEF Field
  <2>4a. name \in Seq(T) /\ v \in Seq(T) /\ f = name \o v
    BY <2>2, <2>3
  <2>4. f \in Seq(T) /\ Joins(f, name, v)
    BY <2>4a, Joined, Zenon
  <2>5. /\ Len(f) = n + 1 /\ \A x \in 1..n : f[x] = name[x]
        /\ \A x \in 1..1 : f[n + x] = v[x]
    BY <2>2, <2>4 DEF Joins
  <2>6. f[n + 1] = v[1]
    BY <2>5
  <2>7. QED BY <2>2, <2>4, <2>5, <2>6
<1>14. /\ c2 \in Seq(T) /\ Len(c2) = n + 5 /\ c2[1] = a /\ c2[2] = Sep /\ c2[3] = b /\ c2[4] = Sep
       /\ \A x \in 1..n : c2[4 + x] = name[x]
       /\ c2[n + 5] = Sep
  <2>1a. c1 \in Seq(T) /\ f \in Seq(T) /\ c2 = c1 \o f
    BY <1>3, <1>11, <1>12, <1>13
  <2>1. c2 \in Seq(T) /\ Joins(c2, c1, f)
    BY <2>1a, Joined, Zenon
  <2>2. /\ Len(c2) = 4 + (n + 1) /\ \A x \in 1..4 : c2[x] = c1[x]
        /\ \A x \in 1..(n + 1) : c2[4 + x] = f[x]
    BY <1>11, <1>13, <2>1 DEF Joins
  <2>3. c2[1] = c1[1] /\ c2[2] = c1[2] /\ c2[3] = c1[3] /\ c2[4] = c1[4]
    BY <2>2
  <2>4. ASSUME NEW x \in 1..n PROVE c2[4 + x] = name[x]
    <3>1. x \in 1..(n + 1)
      BY <1>1
    <3>2. QED BY <1>13, <2>2, <3>1
  <2>5. c2[n + 5] = Sep
    <3>1. n + 1 \in 1..(n + 1) /\ 4 + (n + 1) = n + 5
      BY <1>1
    <3>2. c2[4 + (n + 1)] = f[n + 1]
      BY <2>2, <3>1
    <3>3. QED BY <1>13, <3>1, <3>2
  <2>6. Len(c2) = n + 5
    BY <1>1, <2>2
  <2>7. QED BY <1>11, <2>1, <2>3, <2>4, <2>5, <2>6
<1>15. /\ c3 \in Seq(T) /\ Len(c3) = n + 7
       /\ \A x \in 1..(n + 5) : c3[x] = c2[x]
       /\ c3[n + 6] = h /\ c3[n + 7] = Sep
  <2>1. PICK v : v = Field(<<h>>)
    OBVIOUS
  <2>2. v \in Seq(T) /\ Len(v) = 2 /\ v[1] = h /\ v[2] = Sep
    BY <2>1, Single
  <2>3a. c2 \in Seq(T) /\ v \in Seq(T) /\ c3 = c2 \o v
    BY <1>4, <1>14, <2>1, <2>2
  <2>3. c3 \in Seq(T) /\ Joins(c3, c2, v)
    BY <2>3a, Joined, Zenon
  <2>3b. /\ Len(c3) = (n + 5) + 2 /\ \A x \in 1..(n + 5) : c3[x] = c2[x]
         /\ \A x \in 1..2 : c3[(n + 5) + x] = v[x]
    BY <1>14, <2>2, <2>3 DEF Joins
  <2>4. c3[(n + 5) + 1] = h /\ c3[(n + 5) + 2] = Sep
    BY <2>2, <2>3b
  <2>5. (n + 5) + 1 = n + 6 /\ (n + 5) + 2 = n + 7
    BY <1>1
  <2>6. Len(c3) = n + 7
    BY <1>1, <2>3b
  <2>7. QED BY <2>3, <2>3b, <2>4, <2>5, <2>6
<1>16. /\ c4 \in Seq(T) /\ Len(c4) = n + 9
       /\ \A x \in 1..(n + 7) : c4[x] = c3[x]
       /\ c4[n + 8] = k /\ c4[n + 9] = Sep
  <2>1. PICK v : v = Field(<<k>>)
    OBVIOUS
  <2>2. v \in Seq(T) /\ Len(v) = 2 /\ v[1] = k /\ v[2] = Sep
    BY <2>1, Single
  <2>3a. c3 \in Seq(T) /\ v \in Seq(T) /\ c4 = c3 \o v
    BY <1>5, <1>15, <2>1, <2>2
  <2>3. c4 \in Seq(T) /\ Joins(c4, c3, v)
    BY <2>3a, Joined, Zenon
  <2>3b. /\ Len(c4) = (n + 7) + 2 /\ \A x \in 1..(n + 7) : c4[x] = c3[x]
         /\ \A x \in 1..2 : c4[(n + 7) + x] = v[x]
    BY <1>15, <2>2, <2>3 DEF Joins
  <2>4. c4[(n + 7) + 1] = k /\ c4[(n + 7) + 2] = Sep
    BY <2>2, <2>3b
  <2>5. (n + 7) + 1 = n + 8 /\ (n + 7) + 2 = n + 9
    BY <1>1
  <2>6. Len(c4) = n + 9
    BY <1>1, <2>3b
  <2>7. QED BY <2>3, <2>3b, <2>4, <2>5, <2>6
<1>17. /\ c5 \in Seq(T) /\ Len(c5) = n + 9 + l
       /\ \A x \in 1..(n + 9) : c5[x] = c4[x]
       /\ \A x \in 1..l : c5[n + 9 + x] = X[x]
  <2>1. c4 \in Seq(T) /\ X \in Seq(T) /\ c5 = c4 \o X
    BY <1>6, <1>16
  <2>2. c5 \in Seq(T) /\ Joins(c5, c4, X)
    BY <2>1, Joined, Zenon
  <2>3. QED BY <1>16, <2>2 DEF Joins
<1>18. /\ s \in Seq(T) /\ Len(s) = n + 10 + l
       /\ \A x \in 1..(n + 9 + l) : s[x] = c5[x]
       /\ s[n + 10 + l] = Nul
  <2>1. PICK v : v = <<Nul>>
    OBVIOUS
  <2>2. v \in Seq(T) /\ Len(v) = 1 /\ v[1] = Nul
    BY <2>1
  <2>3a. c5 \in Seq(T) /\ v \in Seq(T) /\ s = c5 \o v
    BY <1>7, <1>17, <2>1, <2>2
  <2>3. s \in Seq(T) /\ Joins(s, c5, v)
    BY <2>3a, Joined, Zenon
  <2>3b. /\ Len(s) = (n + 9 + l) + 1 /\ \A x \in 1..(n + 9 + l) : s[x] = c5[x]
         /\ \A x \in 1..1 : s[(n + 9 + l) + x] = v[x]
    BY <1>17, <2>2, <2>3 DEF Joins
  <2>3c. \A x \in 1..1 : s[(n + 9 + l) + x] = v[x]
    BY <2>3b
  <2>4. s[(n + 9 + l) + 1] = Nul
    BY <2>2, <2>3c
  <2>5. (n + 9 + l) + 1 = n + 10 + l
    BY <1>1
  <2>3d. Len(s) = (n + 9 + l) + 1
    BY <2>3b
  <2>6. Len(s) = n + 10 + l
    BY <1>1, <2>3d
  <2>7. QED BY <2>3, <2>3b, <2>4, <2>5, <2>6
<1>19. ASSUME NEW x \in 1..(n + 9) PROVE s[x] = c4[x]
  <2>1. x \in 1..(n + 9 + l)
    BY <1>1
  <2>2. QED BY <1>17, <1>18, <2>1
<1>20. ASSUME NEW x \in 1..l PROVE s[n + 9 + x] = X[x]
  <2>1. n + 9 + x \in 1..(n + 9 + l)
    BY <1>1
  <2>2. QED BY <1>17, <1>18, <2>1
<1>21. ASSUME NEW x \in 1..(n + 7) PROVE s[x] = c3[x]
  <2>1. x \in 1..(n + 9)
    BY <1>1
  <2>2. QED BY <1>16, <1>19, <2>1
<1>22. ASSUME NEW x \in 1..(n + 5) PROVE s[x] = c2[x]
  <2>1. x \in 1..(n + 7)
    BY <1>1
  <2>2. QED BY <1>15, <1>21, <2>1
<1>23. s[1] = a /\ s[2] = Sep /\ s[3] = b /\ s[4] = Sep /\ s[n + 5] = Sep
  <2>1. \A x \in {1, 2, 3, 4, n + 5} : x \in 1..(n + 5)
    BY <1>1
  <2>2. QED BY <1>14, <1>22, <2>1
<1>24. ASSUME NEW x \in 1..n PROVE s[4 + x] = name[x]
  <2>1. 4 + x \in 1..(n + 5)
    BY <1>1
  <2>2. QED BY <1>14, <1>22, <2>1
<1>25. s[n + 6] = h /\ s[n + 7] = Sep /\ s[n + 8] = k /\ s[n + 9] = Sep
  <2>1. n + 6 \in 1..(n + 7) /\ n + 7 \in 1..(n + 7) /\ n + 8 \in 1..(n + 9) /\ n + 9 \in 1..(n + 9)
    BY <1>1
  <2>2. QED BY <1>15, <1>16, <1>19, <1>21, <2>1
<1>26. QED BY <1>18, <1>20, <1>23, <1>24, <1>25 DEF Packed

(* dumpRaw finds the fields where pack put them. *)
LEMMA Cut ==
  ASSUME NEW T, NEW s \in Seq(T), NEW u \in Seq(T), NEW m \in Nat, m + Len(u) <= Len(s),
         \A x \in 1..Len(u) : s[m + x] = u[x]
  PROVE  SubSeq(s, m + 1, m + Len(u)) = u
<1> DEFINE n == Len(u)
           c == SubSeq(s, m + 1, m + n)
<1>1. n \in Nat /\ Len(s) \in Nat
  BY LenProperties
<1>2. \A x \in (m + 1)..(m + n) : s[x] \in T
  BY <1>1, ElementOfSeq
<1>3. /\ c \in Seq(T) /\ Len(c) = (IF m + 1 <= m + n THEN (m + n) - (m + 1) + 1 ELSE 0)
      /\ \A x \in 1..((m + n) - (m + 1) + 1) : c[x] = s[(m + 1) + x - 1]
  BY <1>1, <1>2, SubSeqProperties
<1> HIDE DEF c
<1>4. Len(c) = n
  BY <1>1, <1>3
<1>5. ASSUME NEW x \in 1..n PROVE c[x] = u[x]
  <2>1. x \in 1..((m + n) - (m + 1) + 1) /\ (m + 1) + x - 1 = m + x
    BY <1>1
  <2>2. QED BY <1>3, <2>1
<1>6. c = u
  BY <1>3, <1>4, <1>5, SeqEqual
<1>7. QED BY <1>6 DEF c

(* The five fields of a datagram stand before the l tokens that follow them. *)
Headed(s, a, b, name, h, k, l) ==
  LET n == Len(name)
  IN  /\ Len(s) = n + 9 + l
      /\ s[1] = a /\ s[2] = Sep /\ s[3] = b /\ s[4] = Sep
      /\ \A x \in 1..n : s[4 + x] = name[x]
      /\ s[n + 5] = Sep /\ s[n + 6] = h /\ s[n + 7] = Sep /\ s[n + 8] = k /\ s[n + 9] = Sep
Dumped(s, T, b, name, k, l) == /\ Header(s)[2] = <<b>> /\ Header(s)[3] = name /\ Header(s)[5] = <<k>>
                               /\ Rest(s) \in Seq(T) /\ Len(Rest(s)) = l
                               /\ \A x \in 1..l : Rest(s)[x] = s[Len(name) + 9 + x]
Free(name) == \A x \in 1..Len(name) : name[x] # Sep

\* Each find of dumpRaw stops where its field ends.
LEMMA HeaderIs ==
  ASSUME NEW T, NEW a, NEW b, NEW name, name \in Seq(T), NEW h, NEW k, NEW l \in Nat, l >= 1,
         a # Sep, b # Sep, h # Sep, k # Sep, Free(name),
         NEW s, s \in Seq(T), Headed(s, a, b, name, h, k, l)
  PROVE  Dumped(s, T, b, name, k, l)
<1> SUFFICES ASSUME NEW n \in Nat, n = Len(name)
             PROVE  /\ Header(s)[2] = <<b>> /\ Header(s)[3] = name /\ Header(s)[5] = <<k>>
                    /\ Rest(s) \in Seq(T) /\ Len(Rest(s)) = l
                    /\ \A x \in 1..l : Rest(s)[x] = s[n + 9 + x]
  BY LenProperties DEF Dumped
<1>0. \A x \in 1..n : name[x] # Sep
  BY DEF Free
<1>1. /\ Len(s) = n + 9 + l
      /\ s[1] = a /\ s[2] = Sep /\ s[3] = b /\ s[4] = Sep
      /\ s[n + 5] = Sep /\ s[n + 6] = h /\ s[n + 7] = Sep /\ s[n + 8] = k /\ s[n + 9] = Sep
  BY DEF Headed
<1>2. ASSUME NEW x \in 1..n PROVE s[4 + x] = name[x]
  BY DEF Headed
<1>4. ASSUME NEW from \in Nat, NEW to \in Nat, from <= to, to <= Len(s), s[to] = Sep,
             \A j \in from..(to - 1) : s[j] # Sep
      PROVE  First(s, Sep, from) = to
  <2>1. Len(s) \in Nat
    BY <1>1
  <2>2. QED BY <1>4, <2>1, FirstIs
<1>5. First(s, Sep, 1) = 2
  <2>1. 1 <= 2 /\ 2 <= Len(s) /\ 1..(2 - 1) = {1}
    BY <1>1
  <2>2. QED BY <1>1, <1>4, <2>1
<1>6. First(s, Sep, 2 + 1) = 4
  <2>1. 2 + 1 \in Nat /\ 2 + 1 <= 4 /\ 4 <= Len(s) /\ (2 + 1)..(4 - 1) = {3}
    BY <1>1
  <2>2. QED BY <1>1, <1>4, <2>1
<1>7. First(s, Sep, 4 + 1) = n + 5
  <2>1. 4 + 1 \in Nat /\ n + 5 \in Nat /\ 4 + 1 <= n + 5 /\ n + 5 <= Len(s)
    BY <1>1
  <2>2. ASSUME NEW j \in (4 + 1)..((n + 5) - 1) PROVE s[j] # Sep
    <3>1. j - 4 \in 1..n /\ 4 + (j - 4) = j
      OBVIOUS
    <3>2. s[4 + (j - 4)] = name[j - 4]
      BY <1>2, <3>1
    <3>3. QED BY <1>0, <3>1, <3>2
  <2>3. QED BY <1>1, <1>4, <2>1, <2>2
<1>8. First(s, Sep, (n + 5) + 1) = n + 7
  <2>1. (n + 5) + 1 \in Nat /\ n + 7 \in Nat /\ (n + 5) + 1 <= n + 7 /\ n + 7 <= Len(s)
        /\ ((n + 5) + 1)..((n + 7) - 1) = {n + 6}
    BY <1>1
  <2>2. QED BY <1>1, <1>4, <2>1
<1>9. First(s, Sep, (n + 7) + 1) = n + 9
  <2>1. (n + 7) + 1 \in Nat /\ n + 9 \in Nat /\ (n + 7) + 1 <= n + 9 /\ n + 9 <= Len(s)
        /\ ((n + 7) + 1)..((n + 9) - 1) = {n + 8}
    BY <1>1
  <2>2. QED BY <1>1, <1>4, <2>1
<1>10. Ends(s) = <<2, 4, n + 5, n + 7, n + 9>>
  BY <1>5, <1>6, <1>7, <1>8, <1>9, Zenon DEF Ends
<1>11. /\ Header(s)[2] = SubSeq(s, 2 + 1, 4 - 1)
       /\ Header(s)[3] = SubSeq(s, 4 + 1, (n + 5) - 1)
       /\ Header(s)[5] = SubSeq(s, (n + 7) + 1, (n + 9) - 1)
       /\ Rest(s) = SubSeq(s, (n + 9) + 1, n + 9 + l)
  <2> DEFINE e == Ends(s)
  <2>1. Header(s) = [j \in 1..5 |-> SubSeq(s, IF j = 1 THEN 1 ELSE e[j - 1] + 1, e[j] - 1)]
    BY DEF Header
  <2>2. Rest(s) = SubSeq(s, e[5] + 1, n + 9 + l)
    BY <1>1 DEF Rest, From
  <2>3. e[1] = 2 /\ e[2] = 4 /\ e[3] = n + 5 /\ e[4] = n + 7 /\ e[5] = n + 9
    BY <1>10
  <2> HIDE DEF e
  <2>3a. ASSUME NEW j \in 2..5 PROVE Header(s)[j] = SubSeq(s, e[j - 1] + 1, e[j] - 1)
    <3>1. j \in 1..5 /\ j # 1
      OBVIOUS
    <3>2. Header(s)[j] = SubSeq(s, IF j = 1 THEN 1 ELSE e[j - 1] + 1, e[j] - 1)
      BY <2>1, <3>1, Zenon
    <3>3. (IF j = 1 THEN 1 ELSE e[j - 1] + 1) = e[j - 1] + 1
      BY <3>1
    <3>4. QED BY <3>2, <3>3, Zenon
  <2>4. /\ Header(s)[2] = SubSeq(s, e[2 - 1] + 1, e[2] - 1)
        /\ Header(s)[3] = SubSeq(s, e[3 - 1] + 1, e[3] - 1)
        /\ Header(s)[5] = SubSeq(s, e[5 - 1] + 1, e[5] - 1)
    <3>1. 2 \in 2..5 /\ 3 \in 2..5 /\ 5 \in 2..5
      OBVIOUS
    <3>2. QED BY <2>3a, <3>1, Zenon
  <2>5. e[2 - 1] = 2 /\ e[3 - 1] = 4 /\ e[5 - 1] = n + 7
    BY <2>3
  <2>6. QED BY <2>2, <2>3, <2>4, <2>5, Zenon
<1>12. SubSeq(s, 2 + 1, 4 - 1) = <<b>>
  <2>1. PICK u : u = <<b>>
    OBVIOUS
  <2>2. b \in T
    <3>1. 3 \in 1..Len(s)
      BY <1>1
    <3>2. QED BY <1>1, <3>1, ElementOfSeq
  <2>3. u \in Seq(T) /\ Len(u) = 1 /\ u[1] = b
    BY <2>1, <2>2
  <2>4. 2 \in Nat /\ 2 + 1 = 2 + 1 /\ 4 - 1 = 2 + Len(u) /\ 2 + Len(u) <= Len(s)
    BY <1>1, <2>3
  <2>5. \A x \in 1..Len(u) : s[2 + x] = u[x]
    BY <1>1, <2>3
  <2>6. SubSeq(s, 2 + 1, 2 + Len(u)) = u
    BY <2>3, <2>4, <2>5, Cut
  <2>7. QED BY <2>1, <2>4, <2>6, Zenon
<1>13. SubSeq(s, (n + 7) + 1, (n + 9) - 1) = <<k>>
  <2>1. PICK u : u = <<k>>
    OBVIOUS
  <2>2. k \in T
    <3>1. n + 8 \in 1..Len(s)
      BY <1>1
    <3>2. QED BY <1>1, <3>1, ElementOfSeq
  <2>3. u \in Seq(T) /\ Len(u) = 1 /\ u[1] = k
    BY <2>1, <2>2
  <2>4. n + 7 \in Nat /\ (n + 9) - 1 = (n + 7) + Len(u) /\ (n + 7) + Len(u) <= Len(s)
    BY <1>1, <2>3
  <2>5. ASSUME NEW x \in 1..Len(u) PROVE s[(n + 7) + x] = u[x]
    <3>1. x = 1 /\ (n + 7) + x = n + 8
      BY <2>3
    <3>2. QED BY <1>1, <2>3, <3>1
  <2>6. SubSeq(s, (n + 7) + 1, (n + 7) + Len(u)) = u
    BY <2>3, <2>4, <2>5, Cut
  <2>7. QED BY <2>1, <2>4, <2>6, Zenon
<1>14. SubSeq(s, 4 + 1, (n + 5) - 1) = name
  <2>1. 4 \in Nat /\ (n + 5) - 1 = 4 + Len(name) /\ 4 + Len(name) <= Len(s)
    BY <1>1
  <2>2. \A x \in 1..Len(name) : s[4 + x] = name[x]
    BY <1>2
  <2>3. SubSeq(s, 4 + 1, 4 + Len(name)) = name
    BY <2>1, <2>2, Cut
  <2>4. QED BY <2>1, <2>3, Zenon
<1>15. /\ Rest(s) \in Seq(T) /\ Len(Rest(s)) = l
       /\ \A x \in 1..l : Rest(s)[x] = s[n + 9 + x]
  <2> DEFINE r == SubSeq(s, (n + 9) + 1, n + 9 + l)
  <2>1. \A x \in ((n + 9) + 1)..(n + 9 + l) : s[x] \in T
    BY <1>1, ElementOfSeq
  <2>2. (n + 9) + 1 \in Int /\ n + 9 + l \in Int /\ (n + 9) + 1 <= n + 9 + l
        /\ (n + 9 + l) - ((n + 9) + 1) + 1 = l
    OBVIOUS
  <2>3. /\ r \in Seq(T) /\ Len(r) = l
        /\ \A x \in 1..l : r[x] = s[((n + 9) + 1) + x - 1]
    BY <2>1, <2>2, SubSeqProperties
  <2>4. Rest(s) = r
    BY <1>11
  <2> HIDE DEF r
  <2>5. ASSUME NEW x \in 1..l PROVE r[x] = s[n + 9 + x]
    <3>1. ((n + 9) + 1) + x - 1 = n + 9 + x
      OBVIOUS
    <3>2. QED BY <2>3, <3>1
  <2>6. QED BY <2>3, <2>4, <2>5
<1>16. QED BY <1>11, <1>12, <1>13, <1>14, <1>15

\* d is c and a field of one token.
Grows(d, c, a, n) == /\ Len(d) = n + 2 /\ d[n + 1] = a /\ d[n + 2] = Sep
                     /\ \A x \in 1..n : d[x] = c[x]

\* Each field that is appended comes after those before it.
LEMMA ThenField ==
  ASSUME NEW T, Sep \in T, NEW c, c \in Seq(T), NEW a, a \in T, NEW d, d = c \o Field(<<a>>),
         NEW n, n \in Nat, Len(c) = n
  PROVE  d \in Seq(T) /\ Grows(d, c, a, n)
<1>1. PICK v : v = Field(<<a>>)
  OBVIOUS
<1>2. v \in Seq(T) /\ Len(v) = 2 /\ v[1] = a /\ v[2] = Sep
  BY <1>1, Single
<1>3. c \in Seq(T) /\ v \in Seq(T) /\ d = c \o v
  BY <1>1, <1>2
<1>4. d \in Seq(T) /\ Joins(d, c, v)
  BY <1>3, Joined, Zenon
<1>5. /\ Len(d) = n + 2 /\ \A x \in 1..n : d[x] = c[x]
      /\ \A x \in 1..2 : d[n + x] = v[x]
  BY <1>2, <1>4 DEF Joins
<1>6. d[n + 1] = v[1] /\ d[n + 2] = v[2]
  BY <1>5
<1>7. QED BY <1>2, <1>4, <1>5, <1>6 DEF Grows

\* What a file adds to a datagram, place by place.
FilePlaces(X, i, dbl, z, y) ==
  LET n == Len(dbl)
  IN  /\ Len(X) = n + 11 /\ X[1] = Nul
      /\ X[1 + 1] = i /\ X[1 + 2] = Sep
      /\ \A x \in 1..n : X[1 + (2 + x)] = dbl[x]
      /\ X[1 + (n + 3)] = Sep /\ X[1 + (n + 4)] = z /\ X[1 + (n + 5)] = Sep
      /\ X[1 + (n + 6)] = y /\ X[1 + (n + 7)] = Sep /\ X[1 + (n + 8)] = "regular"
      /\ X[1 + (n + 9)] = Sep /\ X[1 + (n + 10)] = Bell

Marks(T) == {Sep, Nul, Bell, "regular"} \subseteq T

\* SendFileContent writes the fields of a file in their places.
LEMMA FilePlacesIs ==
  ASSUME NEW T, Marks(T), NEW m,
         NEW i \in T, NEW z \in T, NEW y \in T, NEW dbl \in Seq(T), dbl = Converted(Doubled(m.name), EncOut),
         Digits(m.id) = <<i>>, Digits(AsInt(m.size)) = <<z>>, Digits(AsInt(m.time)) = <<y>>
  PROVE  FileExtra(m) \in Seq(T) /\ FilePlaces(FileExtra(m), i, dbl, z, y)
<1> DEFINE n == Len(dbl)
<1>1. n \in Nat /\ Sep \in T /\ Nul \in T /\ Bell \in T /\ "regular" \in T
  BY LenProperties DEF Marks
<1>2. PICK c0 : c0 = <<Nul>>
  OBVIOUS
<1>3. PICK c1 : c1 = c0 \o Field(<<i>>)
  OBVIOUS
<1>4. PICK f : f = Field(dbl)
  OBVIOUS
<1>5. PICK c2 : c2 = c1 \o f
  OBVIOUS
<1>6. PICK c3 : c3 = c2 \o Field(<<z>>)
  OBVIOUS
<1>7. PICK c4 : c4 = c3 \o Field(<<y>>)
  OBVIOUS
<1>8. PICK c5 : c5 = c4 \o Field(<<"regular">>)
  OBVIOUS
<1>9. PICK X : X = FileExtra(m)
  OBVIOUS
<1>10. X = c5 \o <<Bell>>
  BY <1>2, <1>3, <1>4, <1>5, <1>6, <1>7, <1>8, <1>9 DEF FileExtra
<1>11. c0 \in Seq(T) /\ Len(c0) = 1 /\ c0[1] = Nul
  BY <1>1, <1>2
<1>12. c1 \in Seq(T) /\ Len(c1) = 1 + 2 /\ c1[1 + 1] = i /\ c1[1 + 2] = Sep /\ \A x \in 1..1 : c1[x] = c0[x]
  <2>1. c1 \in Seq(T) /\ Grows(c1, c0, i, 1)
    <3>1. 1 \in Nat /\ i \in T
      OBVIOUS
    <3>2. QED BY <1>1, <1>3, <1>11, <3>1, ThenField, Zenon
  <2>2. QED BY <2>1 DEF Grows
<1>13. f \in Seq(T) /\ Len(f) = n + 1 /\ (\A x \in 1..n : f[x] = dbl[x]) /\ f[n + 1] = Sep
  <2>1. PICK v : v = <<Sep>>
    OBVIOUS
  <2>2. v \in Seq(T) /\ Len(v) = 1 /\ v[1] = Sep
    BY <1>1, <2>1
  <2>3. dbl \in Seq(T) /\ v \in Seq(T) /\ f = dbl \o v
    BY <1>4, <2>1, <2>2 DEF Field
  <2>4. f \in Seq(T) /\ Joins(f, dbl, v)
    BY <2>3, Joined, Zenon
  <2>5. /\ Len(f) = n + 1 /\ \A x \in 1..n : f[x] = dbl[x]
        /\ \A x \in 1..1 : f[n + x] = v[x]
    BY <2>2, <2>4 DEF Joins
  <2>6. f[n + 1] = v[1]
    BY <2>5
  <2>7. QED BY <2>2, <2>4, <2>5, <2>6
<1>14. /\ c2 \in Seq(T) /\ Len(c2) = n + 4
       /\ \A x \in 1..3 : c2[x] = c1[x]
       /\ \A x \in 1..(n + 1) : c2[3 + x] = f[x]
  <2>1. c1 \in Seq(T) /\ f \in Seq(T) /\ c2 = c1 \o f
    BY <1>5, <1>12, <1>13
  <2>2. c2 \in Seq(T) /\ Joins(c2, c1, f)
    BY <2>1, Joined, Zenon
  <2>3. Len(c1) = 3 /\ Len(f) = n + 1
    BY <1>12, <1>13
  <2>4. /\ Len(c2) = 3 + (n + 1) /\ \A x \in 1..3 : c2[x] = c1[x]
        /\ \A x \in 1..(n + 1) : c2[3 + x] = f[x]
    BY <2>2, <2>3 DEF Joins
  <2>5. Len(c2) = n + 4
    BY <1>1, <2>4
  <2>6. QED BY <2>2, <2>4, <2>5
<1>15. /\ c3 \in Seq(T) /\ Len(c3) = n + 6 /\ c3[n + 5] = z /\ c3[n + 6] = Sep
       /\ \A x \in 1..(n + 4) : c3[x] = c2[x]
  <2>1. n + 4 \in Nat /\ (n + 4) + 1 = n + 5 /\ (n + 4) + 2 = n + 6
    BY <1>1
  <2>2. /\ c3 \in Seq(T) /\ Len(c3) = (n + 4) + 2 /\ c3[(n + 4) + 1] = z /\ c3[(n + 4) + 2] = Sep
        /\ \A x \in 1..(n + 4) : c3[x] = c2[x]
    <3>1. ASSUME NEW k, k = n + 4, k \in Nat PROVE c3 \in Seq(T) /\ Grows(c3, c2, z, k)
      <4>1. c2 \in Seq(T) /\ Len(c2) = k
        BY <1>14, <3>1
      <4>2. Sep \in T /\ z \in T /\ c3 = c2 \o Field(<<z>>)
        BY <1>1, <1>6
      <4>3. QED BY <3>1, <4>1, <4>2, ThenField, Zenon
    <3>2. QED BY <2>1, <3>1 DEF Grows
  <2>3. QED BY <2>1, <2>2
<1>16. /\ c4 \in Seq(T) /\ Len(c4) = n + 8 /\ c4[n + 7] = y /\ c4[n + 8] = Sep
       /\ \A x \in 1..(n + 6) : c4[x] = c3[x]
  <2>1. n + 6 \in Nat /\ (n + 6) + 1 = n + 7 /\ (n + 6) + 2 = n + 8
    BY <1>1
  <2>2. /\ c4 \in Seq(T) /\ Len(c4) = (n + 6) + 2 /\ c4[(n + 6) + 1] = y /\ c4[(n + 6) + 2] = Sep
        /\ \A x \in 1..(n + 6) : c4[x] = c3[x]
    <3>1. ASSUME NEW k, k = n + 6, k \in Nat PROVE c4 \in Seq(T) /\ Grows(c4, c3, y, k)
      <4>1. c3 \in Seq(T) /\ Len(c3) = k
        BY <1>15, <3>1
      <4>2. Sep \in T /\ y \in T /\ c4 = c3 \o Field(<<y>>)
        BY <1>1, <1>7
      <4>3. QED BY <3>1, <4>1, <4>2, ThenField, Zenon
    <3>2. QED BY <2>1, <3>1 DEF Grows
  <2>3. QED BY <2>1, <2>2
<1>17. /\ c5 \in Seq(T) /\ Len(c5) = n + 10 /\ c5[n + 9] = "regular" /\ c5[n + 10] = Sep
       /\ \A x \in 1..(n + 8) : c5[x] = c4[x]
  <2>1. n + 8 \in Nat /\ (n + 8) + 1 = n + 9 /\ (n + 8) + 2 = n + 10
    BY <1>1
  <2>2. /\ c5 \in Seq(T) /\ Len(c5) = (n + 8) + 2 /\ c5[(n + 8) + 1] = "regular" /\ c5[(n + 8) + 2] = Sep
        /\ \A x \in 1..(n + 8) : c5[x] = c4[x]
    <3>1. ASSUME NEW g, g \in T, c5 = c4 \o Field(<<g>>), NEW k, k = n + 8, k \in Nat
          PROVE  c5 \in Seq(T) /\ Grows(c5, c4, g, k)
      <4>1. c4 \in Seq(T) /\ Len(c4) = k
        BY <1>16, <3>1
      <4>2. Sep \in T
        BY <1>1
      <4>3. QED BY <3>1, <4>1, <4>2, ThenField, Zenon
    <3>2. c5 \in Seq(T) /\ Grows(c5, c4, "regular", n + 8)
      BY <1>1, <1>8, <2>1, <3>1
    <3>3. QED BY <3>2 DEF Grows
  <2>3. QED BY <2>1, <2>2
<1>18. /\ X \in Seq(T) /\ Len(X) = n + 11 /\ X[n + 11] = Bell
       /\ \A x \in 1..(n + 10) : X[x] = c5[x]
  <2>1. PICK v : v = <<Bell>>
    OBVIOUS
  <2>2. v \in Seq(T) /\ Len(v) = 1 /\ v[1] = Bell
    BY <1>1, <2>1
  <2>3. c5 \in Seq(T) /\ v \in Seq(T) /\ X = c5 \o v
    BY <1>10, <1>17, <2>1, <2>2
  <2>4. X \in Seq(T) /\ Joins(X, c5, v)
    BY <2>3, Joined, Zenon
  <2>5. /\ Len(X) = (n + 10) + 1 /\ \A x \in 1..(n + 10) : X[x] = c5[x]
        /\ \A x \in 1..1 : X[(n + 10) + x] = v[x]
    BY <1>17, <2>2, <2>4 DEF Joins
  <2>6. X[(n + 10) + 1] = Bell /\ (n + 10) + 1 = n + 11
    BY <1>1, <2>2, <2>5
  <2>7. QED BY <2>4, <2>5, <2>6
<1>19. ASSUME NEW x \in 1..(n + 8) PROVE X[x] = c4[x]
  <2>1. x \in 1..(n + 10)
    BY <1>1
  <2>2. QED BY <1>17, <1>18, <2>1
<1>20. ASSUME NEW x \in 1..(n + 6) PROVE X[x] = c3[x]
  <2>1. x \in 1..(n + 8)
    BY <1>1
  <2>2. QED BY <1>16, <1>19, <2>1
<1>21. ASSUME NEW x \in 1..(n + 4) PROVE X[x] = c2[x]
  <2>1. x \in 1..(n + 6)
    BY <1>1
  <2>2. QED BY <1>15, <1>20, <2>1
<1>22. X[1] = Nul /\ X[1 + 1] = i /\ X[1 + 2] = Sep
  <2>1. 1 \in 1..(n + 4) /\ 2 \in 1..(n + 4) /\ 3 \in 1..(n + 4)
    BY <1>1
  <2>2. X[1] = c2[1] /\ X[2] = c2[2] /\ X[3] = c2[3]
    BY <1>21, <2>1
  <2>3. c2[1] = c1[1] /\ c2[2] = c1[2] /\ c2[3] = c1[3]
    BY <1>14
  <2>4. c1[1] = c0[1]
    BY <1>12
  <2>5. QED BY <1>11, <1>12, <2>2, <2>3, <2>4
<1>23. ASSUME NEW x \in 1..(n + 1) PROVE X[1 + (2 + x)] = f[x]
  <2>1. 1 + (2 + x) \in 1..(n + 4) /\ 1 + (2 + x) = 3 + x
    BY <1>1
  <2>2. QED BY <1>14, <1>21, <2>1
<1>24. ASSUME NEW x \in 1..n PROVE X[1 + (2 + x)] = dbl[x]
  <2>1. x \in 1..(n + 1)
    BY <1>1
  <2>2. QED BY <1>13, <1>23, <2>1
<1>25. X[1 + (n + 3)] = Sep
  <2>1. n + 1 \in 1..(n + 1) /\ 1 + (2 + (n + 1)) = 1 + (n + 3)
    BY <1>1
  <2>2. X[1 + (2 + (n + 1))] = f[n + 1]
    BY <1>23, <2>1
  <2>3. QED BY <1>13, <2>1, <2>2
<1>26. /\ X[n + 5] = z /\ X[n + 6] = Sep /\ X[n + 7] = y /\ X[n + 8] = Sep
       /\ X[n + 9] = "regular" /\ X[n + 10] = Sep
  <2>1. /\ n + 5 \in 1..(n + 6) /\ n + 6 \in 1..(n + 6) /\ n + 7 \in 1..(n + 8) /\ n + 8 \in 1..(n + 8)
        /\ n + 9 \in 1..(n + 10) /\ n + 10 \in 1..(n + 10)
    BY <1>1
  <2>2. QED BY <1>15, <1>16, <1>17, <1>18, <1>19, <1>20, <2>1
<1>27. /\ 1 + (n + 4) = n + 5 /\ 1 + (n + 5) = n + 6 /\ 1 + (n + 6) = n + 7 /\ 1 + (n + 7) = n + 8
       /\ 1 + (n + 8) = n + 9 /\ 1 + (n + 9) = n + 10 /\ 1 + (n + 10) = n + 11
  BY <1>1
<1>28. FilePlaces(X, i, dbl, z, y)
  BY <1>18, <1>22, <1>24, <1>25, <1>26, <1>27 DEF FilePlaces
<1>29. QED BY <1>9, <1>18, <1>28
-----------------------------------------------------------------------------
(* What is read of a datagram: its content and a NUL, or the beginning of them. *)
Follows(r, T, X) == /\ r \in Seq(T) /\ Len(r) = Len(X) + 1 /\ r[Len(X) + 1] = Nul
                    /\ \A x \in 1..Len(X) : r[x] = X[x]
Begins(r, T, X) == /\ r \in Seq(T) /\ Len(r) \in 1..(Len(X) + 1)
                   /\ \A x \in 1..Len(r) : r[x] = IF x <= Len(X) THEN X[x] ELSE Nul

(* Before the list of a file there is no text, and the list is laid as it was packed. *)
LEMMA ListingRead ==
  ASSUME NEW T, NEW w, NEW i, NEW z, NEW y, Fit(T, w, i, z, y), NEW X, FilePlaces(X, i, Doubled(w), z, y),
         NEW r, Follows(r, T, X)
  PROVE  TextsIn(r) = {} /\ Listing(r) \in Seq(T) /\ ListingOf(Listing(r), w, i, z, y)
<1> SUFFICES ASSUME NEW n \in Nat, n = Len(Doubled(w))
             PROVE  TextsIn(r) = {} /\ Listing(r) \in Seq(T) /\ ListingOf(Listing(r), w, i, z, y)
  BY Places, LenProperties DEF Fit
<1>1. Len(X) = n + 11
  BY DEF FilePlaces
<1>2. r \in Seq(T) /\ Len(r) = n + 12 /\ r[n + 12] = Nul
  <2>1. Len(r) = (n + 11) + 1 /\ r[(n + 11) + 1] = Nul /\ r \in Seq(T)
    BY <1>1 DEF Follows
  <2>2. (n + 11) + 1 = n + 12
    OBVIOUS
  <2>3. QED BY <2>1, <2>2
<1>3. ASSUME NEW x \in 1..(n + 11) PROVE r[x] = X[x]
  BY <1>1 DEF Follows
<1>4. First(r, Nul, 1) = 1
  <2>1. r[1] = Nul
    <3>1. 1 \in 1..(n + 11)
      OBVIOUS
    <3>2. QED BY <1>3, <3>1 DEF FilePlaces
  <2>2. Len(r) \in Nat /\ 1 \in Nat /\ 1 <= Len(r) /\ 1..(1 - 1) = {}
    BY <1>2
  <2>3. QED BY <2>1, <2>2, FirstIs
<1>5. TextsIn(r) = {}
  <2>0. 1 # 0
    OBVIOUS
  <2>1. BeforeNul(r) = SubSeq(r, 1, 1 - 1)
    BY <1>4, <2>0, Zenon DEF BeforeNul
  <2>2. SubSeq(r, 1, 1 - 1) = <<>>
    BY <1>2
  <2>3. QED BY <2>1, <2>2 DEF TextsIn
<1>6. PICK t : t = SubSeq(r, 1 + 1, n + 12)
  OBVIOUS
<1>7. Listing(r) = t
  BY <1>2, <1>4, <1>6 DEF Listing, From
<1>8. /\ t \in Seq(T) /\ Len(t) = n + 11
      /\ \A x \in 1..(n + 11) : t[x] = r[1 + x]
  <2>1. \A x \in (1 + 1)..(n + 12) : r[x] \in T
    BY <1>2, ElementOfSeq
  <2>2. 1 + 1 \in Int /\ n + 12 \in Int /\ 1 + 1 <= n + 12 /\ (n + 12) - (1 + 1) + 1 = n + 11
    OBVIOUS
  <2>3. /\ t \in Seq(T) /\ Len(t) = n + 11
        /\ \A x \in 1..(n + 11) : t[x] = r[(1 + 1) + x - 1]
    BY <1>6, <2>1, <2>2, SubSeqProperties
  <2>4. ASSUME NEW x \in 1..(n + 11) PROVE t[x] = r[1 + x]
    <3>1. (1 + 1) + x - 1 = 1 + x
      OBVIOUS
    <3>2. QED BY <2>3, <3>1
  <2>5. QED BY <2>3, <2>4
<1>9. ASSUME NEW x \in 1..(n + 10) PROVE t[x] = X[1 + x]
  <2>1. x \in 1..(n + 11) /\ 1 + x \in 1..(n + 11)
    OBVIOUS
  <2>2. t[x] = r[1 + x] /\ r[1 + x] = X[1 + x]
    BY <1>3, <1>8, <2>1
  <2>3. QED BY <2>2
<1>10. /\ X[1 + 1] = i /\ X[1 + 2] = Sep
       /\ \A x \in 1..n : X[1 + (2 + x)] = Doubled(w)[x]
       /\ X[1 + (n + 3)] = Sep /\ X[1 + (n + 4)] = z /\ X[1 + (n + 5)] = Sep
       /\ X[1 + (n + 6)] = y /\ X[1 + (n + 7)] = Sep /\ X[1 + (n + 8)] = "regular"
       /\ X[1 + (n + 9)] = Sep /\ X[1 + (n + 10)] = Bell
  BY DEF FilePlaces
<1>11. /\ t[1] = X[1 + 1] /\ t[2] = X[1 + 2]
       /\ t[n + 3] = X[1 + (n + 3)] /\ t[n + 4] = X[1 + (n + 4)] /\ t[n + 5] = X[1 + (n + 5)]
       /\ t[n + 6] = X[1 + (n + 6)] /\ t[n + 7] = X[1 + (n + 7)] /\ t[n + 8] = X[1 + (n + 8)]
       /\ t[n + 9] = X[1 + (n + 9)] /\ t[n + 10] = X[1 + (n + 10)]
  <2>1. \A x \in {1, 2, n + 3, n + 4, n + 5, n + 6, n + 7, n + 8, n + 9, n + 10} : x \in 1..(n + 10)
    OBVIOUS
  <2>2. QED BY <1>9, <2>1
<1>12. ASSUME NEW x \in 1..n PROVE t[2 + x] = Doubled(w)[x]
  <2>1. 2 + x \in 1..(n + 10)
    OBVIOUS
  <2>2. QED BY <1>9, <1>10, <2>1
<1>13. t[n + 11] = Nul
  <2>1. n + 11 \in 1..(n + 11) /\ 1 + (n + 11) = n + 12
    OBVIOUS
  <2>2. QED BY <1>2, <1>8, <2>1
<1>14. Names(t, w)
  BY <1>12 DEF Names
<1>15. ListingOf(t, w, i, z, y)
  BY <1>8, <1>10, <1>11, <1>13, <1>14 DEF ListingOf
<1>16. QED BY <1>5, <1>7, <1>8, <1>15

(* Numbers are read as they were written. *)
LEMMA NumberIs ==
  ASSUME NEW v, NEW n \in 0..Largest, v[1] = Numeral[n]
  PROVE  Number(v) = n
<1>1. \E k \in 0..Largest : Numeral[k] = v[1]
  OBVIOUS
<1>2. Number(v) \in 0..Largest /\ Numeral[Number(v)] = v[1]
  BY <1>1 DEF Number
<1>3. QED BY <1>2, PacketsAssumption

\* An int takes fewer values than there are numerals, and keeps what fits.
LEMMA Widths == /\ Width \in Nat /\ Largest \in Nat /\ Width <= Largest /\ IntMax < Width /\ MaxId <= Largest
                /\ \A n \in 0..(Width - 1) : AsInt(n) = n
                /\ \A n \in Nat : AsInt(n) \in 0..(Width - 1)
BY PacketsAssumption, UniqueIdAssumption, SMTT(30) DEF Width, Largest, AsInt

LEMMA FitsAnInt == ASSUME NEW n, n \in Nat, n <= IntMax PROVE AsInt(n) = n
<1>1. n \in 0..(Width - 1)
  BY Widths, PacketsAssumption
<1>2. QED BY <1>1, Widths

-----------------------------------------------------------------------------
(* What Encoding::convert leaves alone. *)
LEMMA WrittenAs == \A x \in DOMAIN EncOut : \A c \in {Sep, Bell, Nul} : EncOut[x] = c <=> x = c
BY EncodingAssumption

\* A string stays as long, with its separators where they were, and is read back.
LEMMA ConvertedIs ==
  ASSUME NEW s, IsString(s), NEW w, w = Converted(s, EncOut)
  PROVE  /\ Len(s) \in Nat /\ Len(w) = Len(s) /\ DOMAIN w = 1..Len(s) /\ DOMAIN s = 1..Len(s)
         /\ IsString(w)
         /\ \A k \in 1..Len(s) : \A c \in {Sep, Bell, Nul} : w[k] = c <=> s[k] = c
         /\ Encodable(s) => Converted(w, EncIn) = s
<1>1. PICK n : n = Len(s)
  OBVIOUS
<1>2. n \in Nat /\ DOMAIN s = 1..n /\ s \in Seq(ToSet(s)) /\ Nul \notin ToSet(s)
  BY <1>1, LenProperties DEF IsString
<1>3. ASSUME NEW k \in 1..n PROVE s[k] \in ToSet(s)
  BY <1>2 DEF ToSet
<1>4. CASE ~(ToSet(s) \subseteq DOMAIN EncOut)
  <2>1. w = s
    BY <1>4 DEF Converted
  <2>2. Encodable(s) => Converted(w, EncIn) = s
    BY <1>4, <2>1 DEF Converted, Encodable
  <2>3. QED BY <1>1, <1>2, <2>1, <2>2
<1>5. CASE ToSet(s) \subseteq DOMAIN EncOut
  <2>1. w = [k \in 1..n |-> EncOut[s[k]]]
    BY <1>2, <1>5 DEF Converted
  <2>2. \A k \in 1..n : s[k] \in DOMAIN EncOut /\ w[k] = EncOut[s[k]]
    BY <1>3, <1>5, <2>1
  <2>3. DOMAIN w = 1..n /\ Len(w) = n
    BY <1>2, <2>1
  <2>4. \A k \in 1..n : w[k] \in ToSet(w)
    BY <2>3 DEF ToSet
  <2>5. w \in Seq(ToSet(w))
    BY <1>2, <2>1, <2>4
  <2>6. ASSUME NEW k \in 1..n, NEW c \in {Sep, Bell, Nul} PROVE w[k] = c <=> s[k] = c
    BY <2>2, WrittenAs
  <2>7. Nul \notin ToSet(w)
    <3>1. \A k \in 1..n : w[k] # Nul
      BY <1>2, <1>3, <2>6
    <3>2. QED BY <2>3, <3>1 DEF ToSet
  <2>8. Converted(w, EncIn) = s
    <3>1. \A k \in 1..n : w[k] \in DOMAIN EncIn /\ EncIn[w[k]] = s[k]
      BY <2>2, EncodingAssumption
    <3>2. ToSet(w) \subseteq DOMAIN EncIn
      BY <2>3, <3>1 DEF ToSet
    <3>3. Converted(w, EncIn) = [k \in 1..n |-> EncIn[w[k]]]
      BY <2>3, <3>2 DEF Converted
    <3>4. [k \in 1..n |-> EncIn[w[k]]] = [k \in 1..n |-> s[k]]
      BY <3>1
    <3>5. s = [k \in 1..n |-> s[k]]
      BY <1>2
    <3>6. QED BY <3>3, <3>4, <3>5
  <2>9. QED BY <1>1, <1>2, <2>3, <2>5, <2>6, <2>7, <2>8 DEF IsString
<1>6. QED BY <1>4, <1>5

\* Token by token.
Through(f, u) == [k \in 1..Len(u) |-> f[u[k]]]
LEMMA ThroughJoins ==
  ASSUME NEW f, NEW T, NEW u \in Seq(T), NEW v \in Seq(T), T \subseteq DOMAIN f
  PROVE  Through(f, u \o v) = Through(f, u) \o Through(f, v)
<1> DEFINE R == {f[x] : x \in T}
           c == u \o v
           p == Through(f, u)
           q == Through(f, v)
<1>1. Len(u) \in Nat /\ Len(v) \in Nat /\ c \in Seq(T) /\ Len(c) = Len(u) + Len(v)
  BY ConcatProperties, LenProperties
<1>2. /\ \A k \in 1..Len(u) : c[k] = u[k] /\ f[u[k]] \in R
      /\ \A k \in 1..Len(v) : c[Len(u) + k] = v[k] /\ f[v[k]] \in R
  BY <1>1
<1>3. p \in Seq(R) /\ Len(p) = Len(u) /\ \A k \in 1..Len(u) : p[k] = f[u[k]]
  BY <1>1, <1>2 DEF Through
<1>4. q \in Seq(R) /\ Len(q) = Len(v) /\ \A k \in 1..Len(v) : q[k] = f[v[k]]
  BY <1>1, <1>2 DEF Through
<1>5. DOMAIN Through(f, c) = 1..Len(c) /\ \A k \in 1..Len(c) : Through(f, c)[k] = f[c[k]]
  BY DEF Through
<1> HIDE DEF R, c, p, q
<1>6. PICK e : e = p \o q
  OBVIOUS
<1>7. e \in Seq(R) /\ Joins(e, p, q)
  BY <1>3, <1>4, <1>6, Joined, Zenon
<1>8. ASSUME NEW k \in 1..Len(c) PROVE e[k] = f[c[k]]
  <2>1. CASE k <= Len(u)
    <3>1. k \in 1..Len(u)
      BY <1>1, <2>1
    <3>2. QED BY <1>2, <1>3, <1>7, <3>1 DEF Joins
  <2>2. CASE ~(k <= Len(u))
    <3>1. PICK j \in 1..Len(v) : k = Len(u) + j
      <4>1. k - Len(u) \in 1..Len(v) /\ k = Len(u) + (k - Len(u))
        BY <1>1, <2>2
      <4>2. QED BY <4>1
    <3>2. c[k] = v[j] /\ e[k] = q[j]
      BY <1>2, <1>3, <1>4, <1>7, <3>1 DEF Joins
    <3>3. QED BY <1>4, <3>2
  <2>3. QED BY <2>1, <2>2
<1>9. DOMAIN e = 1..Len(c)
  BY <1>1, <1>3, <1>4, <1>7, LenProperties DEF Joins
<1>10. Through(f, c) = [k \in 1..Len(c) |-> f[c[k]]]
  BY DEF Through
<1>11. e = [k \in 1..Len(c) |-> e[k]]
  BY <1>7, <1>9
<1>12. e = Through(f, c)
  BY <1>8, <1>10, <1>11
<1>13. QED BY <1>6, <1>12 DEF c, p, q

Alike(T, u, v) == u \in Seq(T) /\ v = Through(EncOut, u)

\* A name converts to the same whether its separators are doubled before or after.
LEMMA DoubledConverts ==
  ASSUME NEW s, IsString(s)
  PROVE  Converted(Doubled(s), EncOut) = Doubled(Converted(s, EncOut))
<1>1. PICK n, w : n = Len(s) /\ w = Converted(s, EncOut)
  OBVIOUS
<1>2. n \in Nat /\ Len(w) = n /\ DOMAIN s = 1..n /\ IsString(w) /\ \A k \in 1..n : w[k] = Sep <=> s[k] = Sep
  BY <1>1, ConvertedIs
<1>3. Doubled(s) \in Seq(ToSet(s) \cup {Sep})
  BY Places
<1>4. CASE ~(ToSet(s) \subseteq DOMAIN EncOut)
  <2>1. PICK k \in 1..n : s[k] \notin DOMAIN EncOut
    BY <1>2, <1>4 DEF ToSet
  <2>2. s[k] # Sep
    BY <2>1, EncodingAssumption
  <2>3. PICK x : x = Place(s)[k]
    OBVIOUS
  <2>4. x \in 1..Len(Doubled(s)) /\ Doubled(s)[x] = s[k]
    <3>1. /\ \A i \in 0..n : Place(s)[i] \in Nat
          /\ \A i, j \in 0..n : i <= j => Place(s)[i] <= Place(s)[j]
          /\ Len(Doubled(s)) = Place(s)[n]
      BY <1>1, Places
    <3>2. x = Place(s)[k - 1] + 1 /\ Doubled(s)[x] = s[k]
      BY <1>1, <2>2, <2>3, Places
    <3>3. k \in 0..n /\ n \in 0..n /\ k - 1 \in 0..n /\ k <= n
      BY <1>2
    <3>4. x \in Nat /\ Place(s)[k - 1] \in Nat /\ x <= Place(s)[n] /\ Place(s)[n] \in Nat
      BY <2>3, <3>1, <3>3
    <3>5. QED BY <3>1, <3>2, <3>4
  <2>5. s[k] \in ToSet(Doubled(s))
    <3>1. DOMAIN Doubled(s) = 1..Len(Doubled(s))
      BY <1>3, LenProperties
    <3>2. QED BY <2>4, <3>1 DEF ToSet
  <2>6. Converted(Doubled(s), EncOut) = Doubled(s) /\ Converted(s, EncOut) = s
    BY <1>4, <2>1, <2>5 DEF Converted
  <2>7. QED BY <2>6
<1>5. CASE ToSet(s) \subseteq DOMAIN EncOut
  <2>1. PICK T : T = ToSet(s) \cup {Sep}
    OBVIOUS
  <2>2. T \subseteq DOMAIN EncOut /\ Sep \in T
    BY <1>5, <2>1, EncodingAssumption
  <2>3. \A k \in 1..n : s[k] \in T /\ w[k] = EncOut[s[k]]
    BY <1>1, <1>2, <1>5, <2>1 DEF Converted, ToSet
  <2>4. ASSUME NEW k \in 1..n PROVE Through(EncOut, Pair(s[k])) = Pair(w[k])
    <3>1. CASE s[k] = Sep
      <4>1. w[k] = Sep /\ Pair(s[k]) = <<Sep, Sep>> /\ Pair(w[k]) = <<Sep, Sep>> /\ EncOut[Sep] = Sep
        BY <1>2, <3>1, EncodingAssumption DEF Pair
      <4>2. Through(EncOut, <<Sep, Sep>>) = <<EncOut[Sep], EncOut[Sep]>>
        BY DEF Through
      <4>3. QED BY <4>1, <4>2
    <3>2. CASE s[k] # Sep
      <4>1. Pair(s[k]) = <<s[k]>> /\ Pair(w[k]) = <<EncOut[s[k]]>>
        BY <1>2, <2>3, <3>2 DEF Pair
      <4>2. Through(EncOut, <<s[k]>>) = <<EncOut[s[k]]>>
        BY DEF Through
      <4>3. QED BY <4>1, <4>2
    <3>3. QED BY <3>1, <3>2
  <2>5. PICK I : I = {k \in 0..n : Alike(T, Doubling(s)[k], Doubling(w)[k])}
    OBVIOUS
  <2>6. 0 \in I
    <3>1. Doubling(s)[0] = <<>> /\ Doubling(w)[0] = <<>>
      BY <1>1, <1>2, DoublingIs
    <3>2. Through(EncOut, <<>>) = <<>> /\ <<>> \in Seq(T)
      BY DEF Through
    <3>3. Alike(T, Doubling(s)[0], Doubling(w)[0])
      BY <3>1, <3>2 DEF Alike
    <3>4. QED BY <1>2, <2>5, <3>3
  <2>7. ASSUME NEW k \in Nat, k < n, k \in I PROVE k + 1 \in I
    <3>1. PICK j \in 1..n : j = k + 1 /\ j - 1 = k
      BY <1>2, <2>7
    <3>2. Doubling(s)[j] = Doubling(s)[k] \o Pair(s[j]) /\ Doubling(w)[j] = Doubling(w)[k] \o Pair(w[j])
      BY <1>1, <1>2, <3>1, DoublingIs
    <3>3. Doubling(s)[k] \in Seq(T) /\ Doubling(w)[k] = Through(EncOut, Doubling(s)[k])
      BY <2>5, <2>7 DEF Alike
    <3>3a. Pair(s[j]) \in Seq(T)
      BY <2>2, <2>3, PairIs
    <3>4. Through(EncOut, Doubling(s)[j]) = Doubling(w)[k] \o Pair(w[j])
      <4>1. PICK u, q : u = Doubling(s)[k] /\ q = Pair(s[j])
        OBVIOUS
      <4>2. Through(EncOut, u \o q) = Through(EncOut, u) \o Through(EncOut, q)
        BY <2>2, <3>3, <3>3a, <4>1, ThroughJoins
      <4>3. Through(EncOut, q) = Pair(w[j])
        BY <2>4, <4>1
      <4>4. QED BY <3>2, <3>3, <4>1, <4>2, <4>3
    <3>5. Doubling(s)[j] \in Seq(T)
      BY <3>2, <3>3, <3>3a, ConcatProperties
    <3>6. Alike(T, Doubling(s)[j], Doubling(w)[j])
      BY <3>2, <3>4, <3>5 DEF Alike
    <3>7. j \in 0..n
      OBVIOUS
    <3>8. QED BY <2>5, <3>1, <3>6, <3>7
  <2>8. n \in I
    <3>1. I \in SUBSET Nat
      BY <2>5
    <3>2. 0..n \subseteq I
      BY <1>2, <2>6, <2>7, <3>1, Upwards
    <3>3. QED BY <1>2, <3>2
  <2>9. Through(EncOut, Doubled(s)) = Doubled(w)
    BY <1>1, <1>2, <2>5, <2>8 DEF Doubled, Alike
  <2>10. Converted(Doubled(s), EncOut) = Through(EncOut, Doubled(s))
    <3>1. DOMAIN Doubled(s) = 1..Len(Doubled(s))
      BY <1>3, LenProperties
    <3>2. \A k \in 1..Len(Doubled(s)) : Doubled(s)[k] \in T
      BY <1>3, <2>1, ElementOfSeq
    <3>3. ToSet(Doubled(s)) \subseteq DOMAIN EncOut
      BY <2>2, <3>1, <3>2 DEF ToSet
    <3>4. QED BY <3>1, <3>3 DEF Converted, Through
  <2>11. QED BY <1>1, <2>9, <2>10
<1>6. QED BY <1>4, <1>5

\* The tokens there are.
Words == {"version", "host", "text", "file", "knock", "regular"}
TextTokens == {ToSet(Converted(x, EncOut)) : x \in Texts}
NameTokens == {ToSet(Converted(x[1], EncOut)) : x \in Files}
Typeable == ToSet(PcName) \cup (UNION TextTokens) \cup (UNION NameTokens)
Numerals == {Numeral[n] : n \in 0..Largest}
Separators == {Sep, Dummy, Bell, Nul}
Tokens == Typeable \cup Numerals \cup Separators \cup Words

\* All that is written are tokens, and numbers and words are no separators.
LEMMA TokensAre ==
  /\ Marks(Tokens) /\ Sep \in Tokens /\ Dummy \in Tokens /\ Nul \in Tokens
  /\ Words \subseteq Tokens
  /\ \A n \in 0..Largest : Numeral[n] \in Tokens /\ Numeral[n] \notin {Sep, Bell, Nul}
  /\ ToSet(PcName) \subseteq Tokens
  /\ \A x \in Texts : ToSet(Converted(x, EncOut)) \subseteq Tokens
  /\ \A x \in Files : ToSet(Converted(x[1], EncOut)) \subseteq Tokens
<1>1. Typeable \subseteq Tokens /\ Numerals \subseteq Tokens /\ Separators \subseteq Tokens /\ Words \subseteq Tokens
  BY DEF Tokens
<1>2. Sep \in Tokens /\ Dummy \in Tokens /\ Bell \in Tokens /\ Nul \in Tokens
  BY <1>1 DEF Separators
<1>3. Marks(Tokens)
  <2>1. "regular" \in Words
    BY DEF Words
  <2>2. QED BY <1>1, <1>2, <2>1 DEF Marks
<1>4. \A n \in 0..Largest : Numeral[n] \in Tokens
  BY <1>1 DEF Numerals
<1>5. \A n \in 0..Largest : Numeral[n] \notin {Sep, Bell, Nul}
  BY PacketsAssumption
<1>6. ToSet(PcName) \subseteq Tokens
  BY <1>1 DEF Typeable
<1>7. ASSUME NEW x \in Texts PROVE ToSet(Converted(x, EncOut)) \subseteq Tokens
  <2>1. ToSet(Converted(x, EncOut)) \in TextTokens
    BY DEF TextTokens
  <2>2. QED BY <1>1, <2>1 DEF Typeable
<1>8. ASSUME NEW x \in Files PROVE ToSet(Converted(x[1], EncOut)) \subseteq Tokens
  <2>1. ToSet(Converted(x[1], EncOut)) \in NameTokens
    BY DEF NameTokens
  <2>2. QED BY <1>1, <2>1 DEF Typeable
<1>9. QED BY <1>1, <1>2, <1>3, <1>4, <1>5, <1>6, <1>7, <1>8

\* A string is a sequence over any set that holds its tokens.
LEMMA Typed == ASSUME NEW s, IsString(s), NEW T, ToSet(s) \subseteq T PROVE s \in Seq(T)
<1>1. s \in Seq(ToSet(s))
  BY DEF IsString
<1>2. QED BY <1>1

\* What a file is made of.
LEMMA FilesAre ==
  ASSUME NEW j \in 0..Largest, NEW x \in Files, NEW m, m = FileOf(j, x)
  PROVE  /\ m.kind = "file" /\ m.id = j /\ m.name = x[1] /\ m.size = x[2] /\ m.time = x[3]
         /\ m.size \in Nat /\ m.time \in Nat
         /\ Digits(m.id) = <<Numeral[j]>>
         /\ Digits(AsInt(m.size)) = <<Numeral[AsInt(m.size)]>>
         /\ Digits(AsInt(m.time)) = <<Numeral[AsInt(m.time)]>>
         /\ AsInt(m.size) \in 0..Largest /\ AsInt(m.time) \in 0..Largest
         /\ IsString(m.name)
         /\ Fit(Tokens, Converted(m.name, EncOut), Numeral[j], Numeral[AsInt(m.size)], Numeral[AsInt(m.time)])
<1>1. m.kind = "file" /\ m.id = j /\ m.name = x[1] /\ m.size = x[2] /\ m.time = x[3]
  BY DEF FileOf
<1>2. m.size \in Nat /\ m.time \in Nat /\ IsString(m.name) /\ m.name # <<>>
  BY <1>1, PacketsAssumption
<1>3. AsInt(m.size) \in 0..Largest /\ AsInt(m.time) \in 0..Largest
  <2>1. AsInt(m.size) \in 0..(Width - 1) /\ AsInt(m.time) \in 0..(Width - 1)
    BY <1>2, Widths
  <2>2. QED BY <2>1, Widths
<1>4. PICK w : w = Converted(m.name, EncOut)
  OBVIOUS
<1>5. ToSet(w) \subseteq Tokens
  BY <1>1, <1>4, TokensAre
<1>6. IsString(w) /\ w # <<>>
  <2>1. Len(w) = Len(m.name) /\ IsString(w) /\ m.name \in Seq(ToSet(m.name))
    BY <1>2, <1>4, ConvertedIs DEF IsString
  <2>2. Len(m.name) # 0
    BY <1>2, <2>1, EmptySeq
  <2>3. QED BY <2>1, <2>2
<1>7. {Sep, Bell, Nul, "regular"} \subseteq Tokens
  BY TokensAre DEF Marks
<1> HIDE DEF Tokens
<1>8. \A n \in {j, AsInt(m.size), AsInt(m.time)} : Numeral[n] \in Tokens /\ Numeral[n] \notin {Sep, Bell, Nul}
  BY <1>3, TokensAre
<1>9. Fit(Tokens, w, Numeral[j], Numeral[AsInt(m.size)], Numeral[AsInt(m.time)])
  BY <1>5, <1>6, <1>7, <1>8 DEF Fit
<1>10. QED BY <1>1, <1>2, <1>3, <1>4, <1>9 DEF Digits

\* The datagram of a file.
LEMMA FilePacked ==
  ASSUME NEW j \in 0..Largest, NEW x \in Files, NEW m, m = FileOf(j, x)
  PROVE  /\ Extra(m) \in Seq(Tokens)
         /\ FilePlaces(Extra(m), Numeral[j], Doubled(Converted(m.name, EncOut)),
                       Numeral[AsInt(m.size)], Numeral[AsInt(m.time)])
<1>1. PICK w : w = Converted(m.name, EncOut)
  OBVIOUS
<1>2. /\ m.kind = "file" /\ Digits(m.id) = <<Numeral[j]>>
      /\ Digits(AsInt(m.size)) = <<Numeral[AsInt(m.size)]>>
      /\ Digits(AsInt(m.time)) = <<Numeral[AsInt(m.time)]>>
      /\ IsString(m.name) /\ Fit(Tokens, w, Numeral[j], Numeral[AsInt(m.size)], Numeral[AsInt(m.time)])
  BY <1>1, FilesAre
<1>3. Extra(m) = FileExtra(m)
  BY <1>2, Zenon DEF Extra
<1>4. PICK i, z, y : i = Numeral[j] /\ z = Numeral[AsInt(m.size)] /\ y = Numeral[AsInt(m.time)]
  OBVIOUS
<1>5. i \in Tokens /\ z \in Tokens /\ y \in Tokens /\ IsString(w)
  BY <1>2, <1>4 DEF Fit
<1>6. PICK dbl : dbl = Doubled(w)
  OBVIOUS
<1>7. dbl = Converted(Doubled(m.name), EncOut)
  BY <1>1, <1>2, <1>6, DoubledConverts
<1>8. dbl \in Seq(Tokens)
  <2>1. dbl \in Seq(ToSet(w) \cup {Sep})
    BY <1>5, <1>6, Places
  <2>2. ToSet(w) \cup {Sep} \subseteq Tokens
    BY <1>2, TokensAre DEF Fit
  <2>3. QED BY <2>1, <2>2
<1>9. Marks(Tokens)
  BY TokensAre
<1>10. FileExtra(m) \in Seq(Tokens) /\ FilePlaces(FileExtra(m), i, dbl, z, y)
  BY <1>2, <1>4, <1>5, <1>7, <1>8, <1>9, FilePlacesIs
<1>11. QED BY <1>1, <1>3, <1>4, <1>6, <1>10

(* What is read of a file: its own id, and numbers that are its own. *)
LEMMA FileRead ==
  ASSUME NEW j \in 0..Largest, NEW x \in Files, NEW m, m = FileOf(j, x), NEW r, Follows(r, Tokens, Extra(m))
  PROVE  /\ TextsIn(r) = {}
         /\ \A v \in Complete(r) : /\ Number(v[1]) = j
                                   /\ Number(v[3]) = AsInt(m.size) /\ Number(v[4]) = AsInt(m.time)
         /\ Legible(m) => \E v \in Complete(r) : v[2] = Converted(m.name, EncOut)
<1>1. PICK w, i, z, y : /\ w = Converted(m.name, EncOut) /\ i = Numeral[j]
                        /\ z = Numeral[AsInt(m.size)] /\ y = Numeral[AsInt(m.time)]
  OBVIOUS
<1>2. Fit(Tokens, w, i, z, y) /\ FilePlaces(Extra(m), i, Doubled(w), z, y)
  BY <1>1, FilesAre, FilePacked
<1>3. PICK t : t = Listing(r)
  OBVIOUS
<1>4. TextsIn(r) = {} /\ t \in Seq(Tokens) /\ ListingOf(t, w, i, z, y)
  BY <1>2, <1>3, ListingRead
<1>5. Entries(r) = {Values(t, s) : s \in Spans(t)}
  BY <1>3 DEF Entries, Values
<1>6. ASSUME NEW v \in Complete(r)
      PROVE  /\ Number(v[1]) = j
             /\ Number(v[3]) = AsInt(m.size) /\ Number(v[4]) = AsInt(m.time)
  <2>1. PICK s \in Spans(t) : v = Values(t, s) /\ Len(Values(t, s)) >= 5
    BY <1>5 DEF Complete
  <2>2. v[1][1] = i /\ v[3] = <<z>> /\ v[4] = <<y>>
    BY <1>2, <1>4, <2>1, ValuesOf
  <2>3. v[1][1] = Numeral[j] /\ v[3][1] = Numeral[AsInt(m.size)] /\ v[4][1] = Numeral[AsInt(m.time)]
    BY <1>1, <2>2
  <2>4. AsInt(m.size) \in 0..Largest /\ AsInt(m.time) \in 0..Largest
    BY FilesAre
  <2>5. QED BY <2>3, <2>4, NumberIs
<1>7. ASSUME Legible(m) PROVE \E v \in Complete(r) : v[2] = w
  <2>1. w[1] # Sep /\ Bell \notin ToSet(w)
    <3>1. m.kind = "file" /\ IsString(m.name)
      BY FilesAre
    <3>2. m.name[1] # Sep /\ Bell \notin ToSet(m.name)
      BY <1>7, <3>1 DEF Legible
    <3>3. PICK n : n = Len(m.name)
      OBVIOUS
    <3>4. /\ DOMAIN w = 1..n /\ DOMAIN m.name = 1..n /\ n \in Nat /\ n = Len(w) /\ w # <<>> /\ IsString(w)
          /\ \A k \in 1..n : \A c \in {Sep, Bell, Nul} : w[k] = c <=> m.name[k] = c
      <4>1. PICK s : s = m.name
        OBVIOUS
      <4>2. w = Converted(s, EncOut) /\ IsString(s) /\ n = Len(s)
        BY <1>1, <3>1, <3>3, <4>1
      <4>3. /\ Len(w) = Len(s) /\ DOMAIN w = 1..Len(s) /\ DOMAIN s = 1..Len(s) /\ Len(s) \in Nat
            /\ \A k \in 1..Len(s) : \A c \in {Sep, Bell, Nul} : w[k] = c <=> s[k] = c
        BY <4>2, ConvertedIs
      <4>4. w # <<>> /\ IsString(w)
        BY <1>2 DEF Fit
      <4>5. QED BY <4>1, <4>2, <4>3, <4>4
    <3>5. n # 0
      <4>1. w \in Seq(ToSet(w))
        BY <3>4 DEF IsString
      <4>2. QED BY <3>4, <4>1, EmptySeq
    <3>6. 1 \in 1..n
      BY <3>4, <3>5
    <3>7. w[1] # Sep
      BY <3>2, <3>4, <3>6
    <3>8. \A k \in 1..n : w[k] # Bell
      BY <3>2, <3>4 DEF ToSet
    <3>9. QED BY <3>4, <3>7, <3>8 DEF ToSet
  <2>2. PICK s \in Spans(t) : Values(t, s) = <<<<i>>, w, <<z>>, <<y>>, <<"regular">>>>
    BY <1>2, <1>4, <2>1, ValuesOfWhole
  <2>3. PICK v : v = Values(t, s)
    OBVIOUS
  <2>4. Len(v) = 5 /\ v[2] = w
    BY <2>2, <2>3
  <2>5. v \in Complete(r)
    <3>1. v \in Entries(r)
      BY <1>5, <2>3
    <3>2. Len(v) >= 5
      BY <2>4
    <3>3. QED BY <3>1, <3>2 DEF Complete
  <2>6. QED BY <1>1, <2>4, <2>5
<1>8. QED BY <1>1, <1>4, <1>6, <1>7

(* The user's name has no separator in a datagram, and is what it was after it. *)
LEMMA NameEscaped ==
  /\ Escaped(PcName) \in Seq(Tokens) /\ \A x \in 1..Len(Escaped(PcName)) : Escaped(PcName)[x] # Sep
  /\ Unescaped(Escaped(PcName)) = Unescaped(PcName)
  /\ Len(Escaped(PcName)) = Len(MyName)
<1>0. IsString(PcName) /\ Len(PcName) = Len(MyName)
  BY PacketsAssumption, ConvertedIs DEF PcName
<1>1. PICK n : n = Len(PcName)
  OBVIOUS
<1>2. n \in Nat /\ DOMAIN PcName = 1..n /\ \A x \in 1..n : PcName[x] \in Tokens
  <2>1. PcName \in Seq(Tokens)
    BY <1>0, TokensAre, Typed
  <2>2. QED BY <1>1, <2>1
<1>3. PICK e : e = Escaped(PcName)
  OBVIOUS
<1>4. e = [k \in 1..n |-> IF PcName[k] = Sep THEN Dummy ELSE PcName[k]]
  BY <1>2, <1>3 DEF Escaped, Replaced
<1>5. Dummy \in Tokens /\ Dummy # Sep
  BY TokensAre DEF Dummy, Sep
<1>6. \A k \in 1..n : e[k] = IF PcName[k] = Sep THEN Dummy ELSE PcName[k]
  BY <1>4
<1>7. \A k \in 1..n : e[k] \in Tokens /\ e[k] # Sep
  BY <1>2, <1>5, <1>6
<1>8. DOMAIN e = 1..n
  BY <1>4
<1>9. e \in [1..n -> Tokens]
  BY <1>4, <1>7
<1>10. e \in Seq(Tokens) /\ Len(e) = n
  BY <1>2, <1>9
<1>11. Unescaped(e) = Unescaped(PcName)
  <2>1. Unescaped(e) = [k \in 1..n |-> IF e[k] = Dummy THEN Sep ELSE e[k]]
    BY <1>8 DEF Unescaped, Replaced
  <2>2. Unescaped(PcName) = [k \in 1..n |-> IF PcName[k] = Dummy THEN Sep ELSE PcName[k]]
    BY <1>2 DEF Unescaped, Replaced
  <2>3. ASSUME NEW k \in 1..n
        PROVE  (IF e[k] = Dummy THEN Sep ELSE e[k]) = (IF PcName[k] = Dummy THEN Sep ELSE PcName[k])
    BY <1>5, <1>6
  <2>4. QED BY <2>1, <2>2, <2>3
<1>12. QED BY <1>0, <1>1, <1>3, <1>7, <1>10, <1>11

\* What is read of a sequence.
LEMMA ReceivedIs ==
  ASSUME NEW T, NEW s \in Seq(T), NEW c, c = Received(s)
  PROVE  /\ c \in Seq(T) /\ Len(c) = (IF Len(s) <= RcvSize THEN Len(s) ELSE RcvSize)
         /\ \A x \in 1..Len(c) : c[x] = s[x]
<1>1. Len(s) \in Nat /\ RcvSize \in Nat
  BY LenProperties, HeaderFits
<1>2. CASE Len(s) <= RcvSize
  BY <1>2 DEF Received
<1>3. CASE ~(Len(s) <= RcvSize)
  <2>1. c = SubSeq(s, 1, RcvSize)
    BY <1>3 DEF Received
  <2>2. 1 \in Int /\ RcvSize \in Int /\ \A x \in 1..RcvSize : s[x] \in T
    BY <1>1, <1>3, ElementOfSeq
  <2>3. RcvSize >= 1
    <3>1. Len(MyName) \in Nat
      <4>1. MyName \in Seq(ToSet(MyName))
        BY PacketsAssumption DEF IsString
      <4>2. QED BY <4>1, LenProperties
    <3>2. QED BY <1>1, <3>1, HeaderFits
  <2>4. /\ c \in Seq(T) /\ Len(c) = (IF 1 <= RcvSize THEN RcvSize - 1 + 1 ELSE 0)
        /\ \A x \in 1..(RcvSize - 1 + 1) : c[x] = s[1 + x - 1]
    BY <2>1, <2>2, SubSeqProperties
  <2>5. Len(c) = RcvSize
    BY <1>1, <2>3, <2>4
  <2>6. ASSUME NEW x \in 1..Len(c) PROVE c[x] = s[x]
    <3>1. x \in 1..(RcvSize - 1 + 1) /\ 1 + x - 1 = x
      BY <1>1, <2>5
    <3>2. QED BY <2>4, <3>1
  <2>7. QED BY <1>3, <2>4, <2>5, <2>6
<1>4. QED BY <1>2, <1>3

(* Whatever the content, the number, the name and the kind are found where they were put, also
   in a datagram that is cut; and the content, or what is left of it. *)
LEMMA PackRead ==
  ASSUME NEW n \in 0..Largest, NEW m, m.kind \in {"text", "file", "knock"}, NEW X, X = Extra(m), X \in Seq(Tokens),
         NEW s, s = Pack(n, m), NEW c, c = Received(s)
  PROVE  /\ Header(c)[2] = <<Numeral[n]>> /\ Header(c)[3] = Escaped(PcName) /\ Header(c)[5] = <<m.kind>>
         /\ Begins(Rest(c), Tokens, X)
         /\ Len(s) <= RcvSize => Follows(Rest(c), Tokens, X)
<1>1. PICK a, b, name, h, k : a = "version" /\ b = Numeral[n] /\ name = Escaped(PcName) /\ h = "host" /\ k = m.kind
  OBVIOUS
<1>2. s = Packet(a, b, name, h, k, X)
  BY <1>1 DEF Pack, Packet, Digits
<1>3. a \in Tokens /\ b \in Tokens /\ h \in Tokens /\ k \in Tokens /\ Sep \in Tokens /\ Nul \in Tokens
  <2>1. a \in Words /\ h \in Words /\ k \in Words
    BY <1>1 DEF Words
  <2>2. QED BY <1>1, <2>1, TokensAre
<1>4. a # Sep /\ b # Sep /\ h # Sep /\ k # Sep
  <2>1. a # Sep /\ h # Sep /\ k # Sep
    BY <1>1 DEF Sep
  <2>2. QED BY <1>1, <2>1, TokensAre
<1>5. name \in Seq(Tokens) /\ Free(name) /\ Len(name) = Len(MyName)
  BY <1>1, NameEscaped DEF Free
<1>6. s \in Seq(Tokens) /\ Packed(s, a, b, name, h, k, X)
  BY <1>2, <1>3, <1>5, PackedIs
<1> HIDE DEF Tokens
<1>7. PICK l, t, q, u : l = Len(name) /\ t = Len(X) /\ q = Len(c) - l - 9 /\ u = Len(s)
  OBVIOUS
<1>8. /\ l \in Nat /\ t \in Nat /\ u = l + 10 + t /\ RcvSize \in Nat /\ RcvSize > l + 9
      /\ c \in Seq(Tokens) /\ Len(c) = (IF u <= RcvSize THEN u ELSE RcvSize)
      /\ \A x \in 1..Len(c) : c[x] = s[x]
  <2>1. l \in Nat /\ t \in Nat
    BY <1>5, <1>7, LenProperties
  <2>2. u = l + 10 + t
    BY <1>6, <1>7 DEF Packed
  <2>3. RcvSize \in Nat /\ RcvSize > l + 9
    BY <1>5, <1>7, HeaderFits
  <2>4. QED BY <1>6, <1>7, <2>1, <2>2, <2>3, ReceivedIs
<1>9. q \in 1..(t + 1) /\ Len(c) = l + 9 + q /\ (u <= RcvSize => q = t + 1)
  <2>1. PICK w : w = Len(c)
    OBVIOUS
  <2>2. q = w - l - 9 /\ w = (IF u <= RcvSize THEN u ELSE RcvSize)
    BY <1>7, <1>8, <2>1
  <2>3. CASE u <= RcvSize
    BY <1>8, <2>1, <2>2, <2>3
  <2>4. CASE ~(u <= RcvSize)
    BY <1>8, <2>1, <2>2, <2>4
  <2>5. QED BY <2>3, <2>4
<1>10. Headed(c, a, b, name, h, k, q)
  <2>1. \A x \in 1..(l + 9) : c[x] = s[x]
    BY <1>8, <1>9
  <2>2. /\ s[1] = a /\ s[2] = Sep /\ s[3] = b /\ s[4] = Sep
        /\ \A x \in 1..l : s[4 + x] = name[x]
        /\ s[l + 5] = Sep /\ s[l + 6] = h /\ s[l + 7] = Sep /\ s[l + 8] = k /\ s[l + 9] = Sep
    BY <1>6, <1>7 DEF Packed
  <2>3. \A x \in {1, 2, 3, 4, l + 5, l + 6, l + 7, l + 8, l + 9} : x \in 1..(l + 9)
    BY <1>8
  <2>4. \A x \in 1..l : 4 + x \in 1..(l + 9)
    BY <1>8
  <2>5. /\ c[1] = a /\ c[2] = Sep /\ c[3] = b /\ c[4] = Sep
        /\ c[l + 5] = Sep /\ c[l + 6] = h /\ c[l + 7] = Sep /\ c[l + 8] = k /\ c[l + 9] = Sep
    BY <2>1, <2>2, <2>3
  <2>6. \A x \in 1..l : c[4 + x] = name[x]
    BY <2>1, <2>2, <2>4
  <2>7. QED BY <1>7, <1>9, <2>5, <2>6 DEF Headed
<1>11. Dumped(c, Tokens, b, name, k, q)
  <2>1. q \in Nat /\ q >= 1
    BY <1>8, <1>9
  <2>2. QED BY <1>4, <1>5, <1>8, <1>10, <2>1, HeaderIs, Zenon
<1>12. PICK r : r = Rest(c)
  OBVIOUS
<1>13. r \in Seq(Tokens) /\ Len(r) = q /\ \A x \in 1..q : r[x] = c[l + 9 + x]
  BY <1>7, <1>11, <1>12 DEF Dumped
<1>14. ASSUME NEW x \in 1..q PROVE r[x] = IF x <= t THEN X[x] ELSE Nul
  <2>1. l + 9 + x \in 1..Len(c)
    BY <1>8, <1>9
  <2>2. r[x] = s[l + 9 + x]
    BY <1>8, <1>13, <2>1
  <2>3. CASE x <= t
    <3>1. x \in 1..t
      BY <1>8, <1>9, <2>3
    <3>2. s[l + 9 + x] = X[x]
      BY <1>6, <1>7, <3>1 DEF Packed
    <3>3. QED BY <2>2, <2>3, <3>2
  <2>4. CASE ~(x <= t)
    <3>1. l + 9 + x = l + 10 + t
      BY <1>8, <1>9, <2>4
    <3>2. s[l + 10 + t] = Nul
      BY <1>6, <1>7 DEF Packed
    <3>3. QED BY <2>2, <2>4, <3>1, <3>2
  <2>5. QED BY <2>3, <2>4
<1>15. Begins(r, Tokens, X)
  BY <1>7, <1>9, <1>13, <1>14 DEF Begins
<1>16. ASSUME u <= RcvSize PROVE Follows(r, Tokens, X)
  <2>1. q = t + 1 /\ t + 1 \in 1..q /\ ~(t + 1 <= t) /\ 1..t \subseteq 1..q
    BY <1>8, <1>9, <1>16
  <2>2. r[t + 1] = Nul
    BY <1>14, <2>1
  <2>3. ASSUME NEW x \in 1..t PROVE r[x] = X[x]
    <3>1. x \in 1..q /\ x <= t
      BY <2>1
    <3>2. QED BY <1>14, <3>1
  <2>4. QED BY <1>7, <1>13, <2>1, <2>2, <2>3 DEF Follows
<1>17. QED BY <1>1, <1>7, <1>11, <1>12, <1>15, <1>16 DEF Dumped

\* What is shown of a datagram, by its kind.
LEMMA ShownIs ==
  ASSUME NEW n \in 0..Largest, NEW m, m.kind \in {"text", "file", "knock"}, Extra(m) \in Seq(Tokens),
         NEW s, s = Received(Pack(n, m))
  PROVE  /\ Begins(Rest(s), Tokens, Extra(m))
         /\ Whole(Datagram(n, m)) => Follows(Rest(s), Tokens, Extra(m))
         /\ Shown(s) = {[number |-> n, from |-> Unescaped(PcName), content |-> c]
                          : c \in {x \in ContentsOf(m.kind, Rest(s)) : ~Rejected(x)}}
<1>1. PICK h : h = Header(s)
  OBVIOUS
<1>2. /\ h[2] = <<Numeral[n]>> /\ h[3] = Escaped(PcName) /\ h[5] = <<m.kind>>
      /\ Begins(Rest(s), Tokens, Extra(m))
      /\ Len(Pack(n, m)) <= RcvSize => Follows(Rest(s), Tokens, Extra(m))
  BY <1>1, PackRead
<1>3. Number(h[2]) = n
  <2>1. h[2][1] = Numeral[n]
    BY <1>2
  <2>2. QED BY <2>1, NumberIs
<1>4. Unescaped(h[3]) = Unescaped(PcName) /\ h[5][1] = m.kind
  BY <1>2, NameEscaped
<1>5. Shown(s) = {[number |-> Number(h[2]), from |-> Unescaped(h[3]), content |-> c] :
                   c \in {x \in ContentsOf(h[5][1], Rest(s)) : ~Rejected(x)}}
  BY <1>1 DEF Shown
<1>6. Whole(Datagram(n, m)) => Len(Pack(n, m)) <= RcvSize
  BY DEF Whole, Datagram
<1>7. QED BY <1>2, <1>3, <1>4, <1>5, <1>6

\* What stands before the last of some bells is the same in what goes on after them.
LEMMA SpansOfCut ==
  ASSUME NEW T, NEW t \in Seq(T), NEW z \in Seq(T), Len(t) <= Len(z), \A x \in 1..Len(t) : t[x] = z[x],
         NEW p \in Spans(t)
  PROVE  p \in Spans(z) /\ SubSeq(t, p[1] + 1, p[2] - 1) = SubSeq(z, p[1] + 1, p[2] - 1)
<1>1. PICK l, n : l = Len(t) /\ n = Len(z)
  OBVIOUS
<1>2. l \in Nat /\ n \in Nat /\ l <= n /\ DOMAIN t = 1..l /\ DOMAIN z = 1..n
  BY <1>1, LenProperties
<1>3. \A k \in 1..l : k \in Bells(t) <=> k \in Bells(z)
  BY <1>1, <1>2 DEF Bells
<1>4. Bells(t) \subseteq 1..l /\ Bells(z) \subseteq 1..n /\ Bells(t) \subseteq Bells(z)
  BY <1>2, <1>3 DEF Bells
<1>5. /\ p \in ({0} \cup Bells(t)) \X Bells(t) /\ p[1] < p[2]
      /\ ~\E k \in Bells(t) : p[1] < k /\ k < p[2]
  BY DEF Spans
<1>6. PICK a, b : p = <<a, b>> /\ a \in {0} \cup Bells(t) /\ b \in Bells(t)
  BY <1>5
<1>7. p[1] = a /\ p[2] = b
  BY <1>6
<1>8. a \in Nat /\ b \in Nat /\ a < b /\ b <= l /\ b <= n
  BY <1>2, <1>4, <1>5, <1>6, <1>7
<1>9. p \in Spans(z)
  <2>1. p \in ({0} \cup Bells(z)) \X Bells(z)
    BY <1>4, <1>6
  <2>2. ASSUME NEW k \in Bells(z), a < k, k < b PROVE FALSE
    <3>1. k \in 1..l
      BY <1>2, <1>4, <1>8, <2>2
    <3>2. k \in Bells(t)
      BY <1>3, <3>1
    <3>3. QED BY <1>5, <1>7, <2>2, <3>2
  <2>3. QED BY <1>5, <1>7, <2>1, <2>2 DEF Spans
<1>10. PICK u, v : u = SubSeq(t, a + 1, b - 1) /\ v = SubSeq(z, a + 1, b - 1)
  OBVIOUS
<1>11. u \in Seq(T) /\ Len(u) = b - 1 - a /\ PartOf(u, t, a)
  BY <1>1, <1>8, <1>10, PieceOf
<1>12. v \in Seq(T) /\ Len(v) = b - 1 - a /\ PartOf(v, z, a)
  BY <1>1, <1>8, <1>10, PieceOf
<1>13. ASSUME NEW x \in 1..Len(u) PROVE u[x] = v[x]
  <2>1. a + x \in 1..l
    BY <1>2, <1>8, <1>11
  <2>2. u[x] = t[a + x] /\ v[x] = z[a + x]
    BY <1>11, <1>12 DEF PartOf
  <2>3. QED BY <1>1, <2>1, <2>2
<1>14. u = v
  BY <1>11, <1>12, <1>13, SeqEqual
<1>15. QED BY <1>7, <1>9, <1>10, <1>14

(* What is read of a list that is cut is read of the whole list too. *)
LEMMA ListingCut ==
  ASSUME NEW T, Nul \in T, NEW X \in Seq(T), Len(X) >= 1, X[1] = Nul, NEW r, Begins(r, T, X),
         NEW w, w = X \o <<Nul>>
  PROVE  Follows(w, T, X) /\ TextsIn(r) = {} /\ Complete(r) \subseteq Complete(w)
<1>1. PICK l, m, q : l = Len(X) /\ m = Len(r) /\ q = <<Nul>>
  OBVIOUS
<1>2. l \in Nat /\ l >= 1 /\ m \in 1..(l + 1) /\ r \in Seq(T) /\ q \in Seq(T) /\ Len(q) = 1 /\ q[1] = Nul
  BY <1>1, LenProperties DEF Begins
<1>3. w \in Seq(T) /\ Joins(w, X, q)
  BY <1>1, <1>2, Joined
<1>4. Len(w) = l + 1 /\ (\A x \in 1..l : w[x] = X[x]) /\ w[l + 1] = Nul
  BY <1>1, <1>2, <1>3 DEF Joins
<1>5. Follows(w, T, X)
  BY <1>1, <1>3, <1>4 DEF Follows
<1>6. ASSUME NEW x \in 1..m PROVE r[x] = w[x]
  <2>1. CASE x <= l
    <3>1. x \in 1..l
      BY <1>2, <2>1
    <3>2. QED BY <1>1, <1>4, <2>1, <3>1 DEF Begins
  <2>2. CASE ~(x <= l)
    <3>1. x = l + 1
      BY <1>2, <2>2
    <3>2. QED BY <1>1, <1>4, <2>2, <3>1 DEF Begins
  <2>3. QED BY <2>1, <2>2
<1>7. w[1] = Nul /\ r[1] = Nul
  <2>1. 1 \in 1..l /\ 1 \in 1..m
    BY <1>2
  <2>2. QED BY <1>4, <1>6, <2>1
<1>8. First(w, Nul, 1) = 1 /\ First(r, Nul, 1) = 1
  <2>1. 1..(1 - 1) = {} /\ 1 <= Len(w) /\ 1 <= Len(r) /\ Len(w) \in Nat /\ Len(r) \in Nat
    BY <1>1, <1>2, <1>4
  <2>2. ASSUME NEW y, Len(y) \in Nat, 1 <= Len(y), y[1] = Nul PROVE First(y, Nul, 1) = 1
    BY <2>1, <2>2, FirstIs
  <2>3. QED BY <1>7, <2>1, <2>2
<1>9. TextsIn(r) = {}
  <2>1. 1 # 0
    OBVIOUS
  <2>2. BeforeNul(r) = SubSeq(r, 1, 1 - 1)
    BY <1>8, <2>1, Zenon DEF BeforeNul
  <2>3. SubSeq(r, 1, 1 - 1) = <<>>
    BY <1>2
  <2>4. QED BY <2>2, <2>3 DEF TextsIn
<1>10. PICK t, z : t = Listing(r) /\ z = Listing(w)
  OBVIOUS
<1>11. t = SubSeq(r, 1 + 1, m) /\ z = SubSeq(w, 1 + 1, l + 1)
  BY <1>1, <1>4, <1>8, <1>10 DEF Listing, From
<1>12. ASSUME NEW y \in Seq(T), NEW n \in Nat, n >= 1, Len(y) = n, NEW g, g = SubSeq(y, 1 + 1, n)
       PROVE  g \in Seq(T) /\ Len(g) = n - 1 /\ \A x \in 1..(n - 1) : g[x] = y[1 + x]
  <2>1. \A x \in (1 + 1)..n : y[x] \in T
    BY <1>12, ElementOfSeq
  <2>2. /\ g \in Seq(T) /\ Len(g) = (IF 1 + 1 <= n THEN n - (1 + 1) + 1 ELSE 0)
        /\ \A x \in 1..(n - (1 + 1) + 1) : g[x] = y[(1 + 1) + x - 1]
    BY <1>12, <2>1, SubSeqProperties
  <2>3. Len(g) = n - 1
    BY <1>12, <2>2
  <2>4. ASSUME NEW x \in 1..(n - 1) PROVE g[x] = y[1 + x]
    <3>1. x \in 1..(n - (1 + 1) + 1) /\ (1 + 1) + x - 1 = 1 + x
      BY <1>12
    <3>2. QED BY <2>2, <3>1
  <2>5. QED BY <2>2, <2>3, <2>4
<1>13. t \in Seq(T) /\ Len(t) = m - 1 /\ \A x \in 1..(m - 1) : t[x] = r[1 + x]
  BY <1>1, <1>2, <1>11, <1>12
<1>14. z \in Seq(T) /\ Len(z) = l /\ \A x \in 1..l : z[x] = w[1 + x]
  <2>1. PICK n : n = l + 1
    OBVIOUS
  <2>2. n - 1 = l /\ n \in Nat /\ n >= 1 /\ Len(w) = n /\ z = SubSeq(w, 1 + 1, n)
    BY <1>2, <1>4, <1>11, <2>1
  <2>3. z \in Seq(T) /\ Len(z) = n - 1 /\ \A x \in 1..(n - 1) : z[x] = w[1 + x]
    BY <1>3, <1>12, <2>2
  <2>4. QED BY <2>2, <2>3
<1>15. Len(t) <= Len(z) /\ \A x \in 1..Len(t) : t[x] = z[x]
  <2>1. m - 1 <= l /\ \A x \in 1..(m - 1) : x \in 1..l /\ 1 + x \in 1..m
    BY <1>2
  <2>2. ASSUME NEW x \in 1..(m - 1) PROVE t[x] = z[x]
    <3>1. x \in 1..l /\ 1 + x \in 1..m
      BY <2>1
    <3>2. t[x] = r[1 + x] /\ z[x] = w[1 + x]
      BY <1>13, <1>14, <3>1
    <3>3. QED BY <1>6, <3>1, <3>2
  <2>3. QED BY <1>13, <1>14, <2>1, <2>2
<1>16. ASSUME NEW v \in Complete(r) PROVE v \in Complete(w)
  <2>1. PICK p \in Spans(t) : v = SplitAllowSeparator(SubSeq(t, p[1] + 1, p[2] - 1))
    BY <1>10 DEF Complete, Entries
  <2>2. p \in Spans(z) /\ SubSeq(t, p[1] + 1, p[2] - 1) = SubSeq(z, p[1] + 1, p[2] - 1)
    BY <1>13, <1>14, <1>15, SpansOfCut
  <2>3. v \in Entries(w)
    BY <1>10, <2>1, <2>2 DEF Entries
  <2>4. QED BY <2>3 DEF Complete
<1>17. QED BY <1>5, <1>9, <1>16

(* A text without a { and a } after it is read as it is. *)
LEMMA TextRead ==
  ASSUME NEW v \in Texts, v # <<>>, ~Braces(v), Encodable(v), NEW x, x = Converted(v, EncOut),
         NEW r, Follows(r, Tokens, x)
  PROVE  TextsIn(r) = {[kind |-> "text", text |-> v, format |-> <<>>]}
<1>0. IsString(v) /\ IsString(x) /\ Len(x) = Len(v) /\ Converted(x, EncIn) = v
  BY PacketsAssumption, ConvertedIs
<1>1. x \in Seq(Tokens) /\ IsString(x)
  BY <1>0, TokensAre, Typed
<1>2. PICK n : n = Len(x)
  OBVIOUS
<1>3. /\ n \in Nat /\ r \in Seq(Tokens) /\ Len(r) = n + 1 /\ r[n + 1] = Nul
      /\ (\A k \in 1..n : r[k] = x[k]) /\ DOMAIN x = 1..n
  BY <1>1, <1>2 DEF Follows
<1>4. First(r, Nul, 1) = n + 1
  <2>1. ASSUME NEW k \in 1..((n + 1) - 1) PROVE r[k] # Nul
    <3>1. k \in 1..n
      BY <1>3
    <3>2. x[k] \in ToSet(x)
      BY <1>3, <3>1 DEF ToSet
    <3>3. QED BY <1>1, <1>3, <3>1, <3>2 DEF IsString
  <2>2. 1 \in Nat /\ n + 1 \in Nat /\ Len(r) \in Nat /\ 1 <= n + 1 /\ n + 1 <= Len(r)
    BY <1>3
  <2>3. QED BY <1>3, <2>1, <2>2, FirstIs
<1>5. BeforeNul(r) = x
  <2>1. 0 \in Nat /\ 0 + Len(x) <= Len(r) /\ 0 + 1 = 1 /\ 0 + Len(x) = (n + 1) - 1
    BY <1>2, <1>3
  <2>2. ASSUME NEW k \in 1..Len(x) PROVE r[0 + k] = x[k]
    <3>1. 0 + k = k /\ k \in 1..n
      BY <1>2, <1>3
    <3>2. QED BY <1>3, <3>1
  <2>3. SubSeq(r, 0 + 1, 0 + Len(x)) = x
    BY <1>1, <1>3, <2>1, <2>2, Cut
  <2>4. BeforeNul(r) = SubSeq(r, 1, (n + 1) - 1)
    <3>1. n + 1 # 0
      BY <1>3
    <3>2. QED BY <1>4, <3>1, Zenon DEF BeforeNul
  <2>5. QED BY <2>1, <2>3, <2>4, Zenon
<1>6. TextOf(v) = [kind |-> "text", text |-> v, format |-> <<>>]
  <2>1. PICK open : open = First(v, "{", 1)
    BY Zenon
  <2>2. PICK close : close = First(v, "}", open + 1)
    BY Zenon
  <2>3. ASSUME open # 0, close # 0 PROVE FALSE
    <3>0. Len(v) \in Nat /\ 1 \in Nat /\ DOMAIN v = 1..Len(v) /\ Len(v) = n
      BY <1>0, <1>2, <1>3, LenProperties DEF IsString
    <3>1. ASSUME NEW c, NEW from \in Nat, First(v, c, from) # 0
          PROVE  First(v, c, from) \in from..Len(v) /\ v[First(v, c, from)] = c
      BY <3>0, <3>1, FirstFinds, Zenon
    <3>2. open \in 1..Len(v) /\ v[open] = "{"
      BY <2>1, <2>3, <3>0, <3>1, Zenon
    <3>3. open \in 1..n
      BY <3>0, <3>2, Zenon
    <3>4. open \in Nat /\ open + 1 \in Nat
      BY <1>3, <3>3
    <3>5. close \in (open + 1)..Len(v) /\ v[close] = "}"
      BY <2>2, <2>3, <3>1, <3>4, Zenon
    <3>6. close \in (open + 1)..n
      BY <3>0, <3>5, Zenon
    <3>7. close \in 1..n /\ open < close
      BY <1>3, <3>4, <3>6
    <3>8. open \in DOMAIN v /\ close \in DOMAIN v
      BY <1>3, <3>0, <3>3, <3>7
    <3>9. QED BY <3>2, <3>5, <3>7, <3>8, Zenon DEF Braces
  <2>4. QED BY <2>1, <2>2, <2>3, Zenon DEF TextOf
<1>7. x # <<>>
  <2>1. v \in Seq(ToSet(v))
    BY <1>0 DEF IsString
  <2>2. Len(v) # 0
    BY <2>1, EmptySeq
  <2>3. QED BY <1>0, <2>2
<1>8. QED BY <1>0, <1>5, <1>6, <1>7 DEF TextsIn

\* Nothing but texts comes before the list.
LEMMA TextsAreTexts == ASSUME NEW r, NEW c \in TextsIn(r) PROVE c.kind = "text"
<1>1. c = TextOf(Converted(BeforeNul(r), EncIn))
  BY DEF TextsIn
<1>2. QED BY <1>1, Zenon DEF TextOf

(* A request for a file is read as it was written. *)
LEMMA RequestRead ==
  ASSUME NEW i \in 0..(Width - 1), NEW j \in 0..(Width - 1)
  PROVE  SplitAllowSeparator(RequestExtra(i, j)) = <<Digits(i), Digits(j), Digits(0)>>
<1>1. PICK a, b, c : a = Numeral[i] /\ b = Numeral[j] /\ c = Numeral[0]
  OBVIOUS
<1>2. Digits(i) = <<a>> /\ Digits(j) = <<b>> /\ Digits(0) = <<c>>
  BY <1>1 DEF Digits
<1>3. a # Sep /\ b # Sep /\ c # Sep
  <2>1. i \in 0..Largest /\ j \in 0..Largest /\ 0 \in 0..Largest
    BY Widths
  <2>2. QED BY <1>1, <2>1, PacketsAssumption
<1>4. PICK q : q = RequestExtra(i, j)
  OBVIOUS
<1>5. PICK u, v, w : u = Field(<<a>>) /\ v = Field(<<b>>) /\ w = Field(<<c>>)
  OBVIOUS
<1>6. Len(q) = 6 /\ q[1] = a /\ q[2] = Sep /\ q[3] = b /\ q[4] = Sep /\ q[5] = c /\ q[6] = Sep
  <2>1. PICK T : T = {a, b, c, Sep}
    OBVIOUS
  <2>2. /\ u \in Seq(T) /\ Len(u) = 2 /\ u[1] = a /\ u[2] = Sep
        /\ v \in Seq(T) /\ Len(v) = 2 /\ v[1] = b /\ v[2] = Sep
        /\ w \in Seq(T) /\ Len(w) = 2 /\ w[1] = c /\ w[2] = Sep
    <3>1. a \in T /\ b \in T /\ c \in T /\ Sep \in T
      BY <2>1
    <3>2. QED BY <1>5, <3>1, Single
  <2>3. PICK g : g = u \o v
    OBVIOUS
  <2>4. q = g \o w
    <3>1. AsInt(i) = i /\ AsInt(j) = j
      BY Widths
    <3>2. q = Field(<<a>>) \o Field(<<b>>) \o Field(<<c>>)
      BY <1>2, <1>4, <3>1 DEF RequestExtra
    <3>3. QED BY <1>5, <2>3, <3>2
  <2>5. g \in Seq(T) /\ Joins(g, u, v)
    BY <2>2, <2>3, Joined, Zenon
  <2>6. q \in Seq(T) /\ Joins(q, g, w)
    BY <2>2, <2>4, <2>5, Joined, Zenon
  <2>7. Len(g) = 4 /\ g[1] = u[1] /\ g[2] = u[2] /\ g[2 + 1] = v[1] /\ g[2 + 2] = v[2]
    BY <2>2, <2>5 DEF Joins
  <2>8. /\ Len(q) = 6 /\ q[1] = g[1] /\ q[2] = g[2] /\ q[3] = g[3] /\ q[4] = g[4]
        /\ q[4 + 1] = w[1] /\ q[4 + 2] = w[2]
    BY <2>2, <2>6, <2>7 DEF Joins
  <2>9. QED BY <2>2, <2>7, <2>8
<1>7. ASSUME NEW k \in {1, 3, 5}, NEW V, Splitting(q)[k - 1] = Reading(V, <<>>, "read")
      PROVE  Splitting(q)[k + 1] = Reading(Append(V, <<q[k]>>), <<>>, "read")
  <2>1. q[k] # Sep /\ q[k + 1] = Sep /\ (k + 1 < Len(q) => q[k + 2] # Sep)
    BY <1>3, <1>6, <1>7
  <2>2. k \in Nat /\ k > 0 /\ k + 1 <= Len(q) /\ Len(q) \in Nat
    BY <1>6, <1>7
  <2>3. ASSUME NEW B, Splitting(q)[k - 1] = Reading(V, B, "read")
        PROVE  Splitting(q)[k + 1] = Reading(Append(V, Append(B, q[k])), <<>>, "read")
    BY <2>1, <2>2, <2>3, FieldRead
  <2>4. Append(<<>>, q[k]) = <<q[k]>>
    BY Tuples
  <2>5. QED BY <1>7, <2>3, <2>4, Zenon
<1>8. Splitting(q)[0] = Reading(<<>>, <<>>, "read")
  BY <1>6, SplittingIs
<1>9. Splitting(q)[2] = Reading(Append(<<>>, <<a>>), <<>>, "read")
  <2>1. 1 - 1 = 0 /\ 1 + 1 = 2 /\ 1 \in {1, 3, 5}
    OBVIOUS
  <2>2. QED BY <1>6, <1>7, <1>8, <2>1
<1>10. Splitting(q)[4] = Reading(Append(Append(<<>>, <<a>>), <<b>>), <<>>, "read")
  <2>1. 3 - 1 = 2 /\ 3 + 1 = 4 /\ 3 \in {1, 3, 5}
    OBVIOUS
  <2>2. QED BY <1>6, <1>7, <1>9, <2>1
<1>11. Splitting(q)[6] = Reading(Append(Append(Append(<<>>, <<a>>), <<b>>), <<c>>), <<>>, "read")
  <2>1. 5 - 1 = 4 /\ 5 + 1 = 6 /\ 5 \in {1, 3, 5}
    OBVIOUS
  <2>2. QED BY <1>6, <1>7, <1>10, <2>1
<1>12. SplitAllowSeparator(q) = Append(Append(Append(<<>>, <<a>>), <<b>>), <<c>>)
  <2>1. SUFFICES ASSUME NEW V, Splitting(q)[6] = Reading(V, <<>>, "read") PROVE SplitAllowSeparator(q) = V
    BY <1>11
  <2>2. Splitting(q)[6].values = V
    BY <2>1 DEF Reading
  <2>3. QED BY <1>6, <2>2 DEF SplitAllowSeparator
<1>13. Append(Append(Append(<<>>, <<a>>), <<b>>), <<c>>) = <<<<a>>, <<b>>, <<c>>>>
  <2>1. ASSUME NEW x1, NEW x2, NEW x3 PROVE Append(Append(Append(<<>>, x1), x2), x3) = <<x1, x2, x3>>
    <3>1. Append(<<>>, x1) = <<x1>> /\ Append(<<x1>>, x2) = <<x1, x2>> /\ Append(<<x1, x2>>, x3) = <<x1, x2, x3>>
      BY Tuples
    <3>2. QED BY <3>1, Zenon
  <2>2. QED BY <2>1
<1>14. QED BY <1>2, <1>4, <1>12, <1>13
-----------------------------------------------------------------------------
\* What a datagram of each kind holds.
LEMMA TextPacked == ASSUME NEW x \in Texts, NEW m, m = [kind |-> "text", text |-> x, format |-> <<>>]
                    PROVE  Extra(m) = Converted(x, EncOut) /\ Converted(x, EncOut) \in Seq(Tokens)
<1>1. PICK w : w = Converted(x, EncOut)
  OBVIOUS
<1>2. w \in Seq(Tokens)
  <2>1. IsString(w)
    BY <1>1, PacketsAssumption, ConvertedIs
  <2>2. QED BY <1>1, <2>1, TokensAre, Typed
<1>3. m.kind = "text" /\ m.text = x /\ m.format = <<>>
  OBVIOUS
<1>4. FormatExtra(m.format) = <<>>
  BY <1>3, Zenon DEF FormatExtra
<1>5. Extra(m) = w \o <<>>
  BY <1>1, <1>3, <1>4, Zenon DEF Extra
<1>6. QED BY <1>1, <1>2, <1>5

(* What is shown of a text. *)
LEMMA TextShown ==
  ASSUME NEW n \in 0..Largest, NEW m \in NewText, NEW s, s = Received(Pack(n, m))
  PROVE  /\ \A o \in Shown(s) : o.content.kind = "text"
         /\ Legible(m) /\ Whole(Datagram(n, m)) => AsShown(Datagram(n, m)) \in Shown(s)
         /\ ~Throwing(m.kind, Rest(s))
<1>1. PICK x \in Texts : m = [kind |-> "text", text |-> x, format |-> <<>>]
  BY DEF NewText
<1>2. m.kind = "text" /\ m.text = x
  BY <1>1
<1>3. PICK w : w = Converted(x, EncOut)
  OBVIOUS
<1>4. Extra(m) = w /\ w \in Seq(Tokens)
  BY <1>1, <1>3, TextPacked
<1>5. PICK r : r = Rest(s)
  OBVIOUS
<1>6. /\ Whole(Datagram(n, m)) => Follows(r, Tokens, w)
      /\ Shown(s) = {[number |-> n, from |-> Unescaped(PcName), content |-> c]
                       : c \in {y \in TextsIn(r) : ~Rejected(y)}}
  <2>1. m.kind \in {"text", "file", "knock"} /\ Extra(m) \in Seq(Tokens)
    BY <1>2, <1>4
  <2>2. ContentsOf(m.kind, r) = TextsIn(r)
    BY <1>2 DEF ContentsOf
  <2>3. QED BY <1>4, <1>5, <2>1, <2>2, ShownIs
<1>7. ASSUME NEW o \in Shown(s) PROVE o.content.kind = "text"
  BY <1>6, TextsAreTexts
<1>8. ASSUME Legible(m), Whole(Datagram(n, m)) PROVE AsShown(Datagram(n, m)) \in Shown(s)
  <2>1. x # <<>> /\ ~Braces(x) /\ Encodable(x) /\ ~Rejected(m)
    BY <1>2, <1>8 DEF Legible
  <2>2. m \in TextsIn(r)
    BY <1>1, <1>3, <1>6, <1>8, <2>1, TextRead
  <2>3. AsShown(Datagram(n, m)) = [number |-> n, from |-> Unescaped(PcName), content |-> m]
    BY DEF AsShown, Datagram
  <2>4. QED BY <1>6, <2>1, <2>2, <2>3
<1>9. ~Throwing(m.kind, Rest(s))
  BY <1>2 DEF Throwing
<1>10. QED BY <1>7, <1>8, <1>9

\* What is shown of a knock.
LEMMA KnockShown ==
  ASSUME NEW n \in 0..Largest, NEW m, m = [kind |-> "knock"], NEW s, s = Received(Pack(n, m))
  PROVE  /\ \A o \in Shown(s) : o.content.kind = "knock"
         /\ AsShown(Datagram(n, m)) \in Shown(s)
         /\ ~Throwing(m.kind, Rest(s))
<1>1. m.kind = "knock"
  OBVIOUS
<1>2. Extra(m) \in Seq(Tokens)
  <2>1. Extra(m) = <<>>
    BY <1>1, Zenon DEF Extra
  <2>2. QED BY <2>1
<1>3. Shown(s) = {[number |-> n, from |-> Unescaped(PcName), content |-> c]
                    : c \in {y \in {m} : ~Rejected(y)}}
  <2>1. ContentsOf(m.kind, Rest(s)) = {m}
    BY <1>1 DEF ContentsOf
  <2>2. QED BY <1>1, <1>2, <2>1, ShownIs
<1>4. ~Rejected(m)
  BY <1>1 DEF Rejected
<1>5. AsShown(Datagram(n, m)) = [number |-> n, from |-> Unescaped(PcName), content |-> m]
  BY DEF AsShown, Datagram
<1>6. ~Throwing(m.kind, Rest(s))
  BY <1>1 DEF Throwing
<1>7. QED BY <1>1, <1>3, <1>4, <1>5, <1>6

(* What is shown of a file, cut or not, is a file of its own id; what throws is a number that is
   too large. *)
LEMMA FileShown ==
  ASSUME NEW n \in 0..Largest, NEW j \in 0..Largest, NEW x \in Files, NEW m, m = FileOf(j, x),
         NEW s, s = Received(Pack(n, m))
  PROVE  /\ \A o \in Shown(s) : o.number = n /\ o.content.id = j
         /\ Legible(m) /\ Whole(Datagram(n, m)) => AsShown(Datagram(n, m)) \in Shown(s)
         /\ Throwing(m.kind, Rest(s)) => TooLarge(m)
<1>1. /\ m.kind = "file" /\ m.id = j /\ m.name = x[1] /\ m.size = x[2] /\ m.time = x[3]
      /\ m.size \in Nat /\ m.time \in Nat /\ IsString(m.name)
  BY FilesAre
<1>2. PICK r, X : r = Rest(s) /\ X = Extra(m)
  OBVIOUS
<1>3. /\ Begins(r, Tokens, X)
      /\ Whole(Datagram(n, m)) => Follows(r, Tokens, X)
      /\ Shown(s) = {[number |-> n, from |-> Unescaped(PcName), content |-> c]
                       : c \in {y \in TextsIn(r) \cup FilesIn(r) : ~Rejected(y)}}
  <2>1. m.kind \in {"text", "file", "knock"} /\ Extra(m) \in Seq(Tokens)
    BY <1>1, FilePacked
  <2>2. ContentsOf(m.kind, r) = TextsIn(r) \cup FilesIn(r)
    BY <1>1 DEF ContentsOf
  <2>3. QED BY <1>2, <2>1, <2>2, ShownIs
<1>4. PICK w : w = X \o <<Nul>>
  OBVIOUS
<1>5. Follows(w, Tokens, X) /\ TextsIn(r) = {} /\ Complete(r) \subseteq Complete(w)
  <2>1. PICK i, z, y, e : /\ i = Numeral[j] /\ z = Numeral[AsInt(m.size)] /\ y = Numeral[AsInt(m.time)]
                          /\ e = Converted(m.name, EncOut)
    OBVIOUS
  <2>2. X \in Seq(Tokens) /\ FilePlaces(X, i, Doubled(e), z, y) /\ Fit(Tokens, e, i, z, y)
    BY <1>2, <2>1, FilePacked, FilesAre
  <2>3. Len(Doubled(e)) \in Nat
    BY <2>2, Places, LenProperties DEF Fit
  <2>4. Len(X) >= 1 /\ X[1] = Nul /\ Nul \in Tokens
    BY <2>2, <2>3, TokensAre DEF FilePlaces
  <2> HIDE DEF Tokens
  <2>5. QED BY <1>3, <1>4, <2>2, <2>4, ListingCut
<1>6. \A v \in Complete(r) : Number(v[1]) = j /\ Number(v[3]) = AsInt(m.size) /\ Number(v[4]) = AsInt(m.time)
  <2>1. \A v \in Complete(w) : Number(v[1]) = j /\ Number(v[3]) = AsInt(m.size) /\ Number(v[4]) = AsInt(m.time)
    BY <1>2, <1>5, FileRead
  <2>2. QED BY <1>5, <2>1
<1>7. ASSUME NEW o \in Shown(s) PROVE o.number = n /\ o.content.id = j
  <2>1. PICK c \in FilesIn(r) : o = [number |-> n, from |-> Unescaped(PcName), content |-> c]
    BY <1>3, <1>5
  <2>2. c.id = j
    BY <1>6 DEF FilesIn
  <2>3. QED BY <2>1, <2>2
<1>8. ASSUME Legible(m), Whole(Datagram(n, m)) PROVE AsShown(Datagram(n, m)) \in Shown(s)
  <2>1. m.size <= IntMax /\ m.time <= IntMax /\ Encodable(m.name)
    BY <1>1, <1>8 DEF Legible
  <2>2. AsInt(m.size) = m.size /\ AsInt(m.time) = m.time
    BY <1>1, <2>1, FitsAnInt, Zenon
  <2>3. PICK v \in Complete(r) : v[2] = Converted(m.name, EncOut)
    BY <1>2, <1>3, <1>8, FileRead
  <2>4. Converted(v[2], EncIn) = m.name
    BY <1>1, <2>1, <2>3, ConvertedIs
  <2>5. m = [kind |-> "file", id |-> Number(v[1]), name |-> Converted(v[2], EncIn),
             size |-> Number(v[3]), time |-> Number(v[4])]
    <3>1. m = [kind |-> "file", id |-> j, name |-> m.name, size |-> m.size, time |-> m.time]
      BY <1>1 DEF FileOf
    <3>2. QED BY <1>6, <2>2, <2>4, <3>1
  <2>6. m \in FilesIn(r)
    BY <2>5 DEF FilesIn
  <2>7. ~Rejected(m)
    BY <1>1 DEF Rejected
  <2>8. AsShown(Datagram(n, m)) = [number |-> n, from |-> Unescaped(PcName), content |-> m]
    BY DEF AsShown, Datagram
  <2>9. QED BY <1>3, <2>6, <2>7, <2>8
<1>9. ASSUME Throwing(m.kind, Rest(s)) PROVE TooLarge(m)
  <2>1. PICK v \in Complete(r), k \in {1, 3, 4} : Number(v[k]) > IntMax
    BY <1>2, <1>9 DEF Throwing, Throws
  <2>2. Number(v[k]) \in {j, AsInt(m.size), AsInt(m.time)}
    BY <1>6, <2>1
  <2>3. j > IntMax \/ AsInt(m.size) > IntMax \/ AsInt(m.time) > IntMax
    BY <2>1, <2>2
  <2>4. QED BY <1>1, <2>3 DEF TooLarge
<1>10. QED BY <1>7, <1>8, <1>9

(* Whatever is packed, the parsers read back: what is shown as a file was packed as one, with
   its number and id, wherever the datagram was cut; what was not cut and can be told from its
   separators is shown as it was; what throws is a number that is too large; and a request is
   read as it was written. *)
THEOREM ParsersReadBack == ASSUME MaxCalls <= Largest PROVE ReadsBack
<1>1. ASSUME NEW n \in 0..MaxId, NEW m \in Sendable, NEW s, s = Received(Pack(n, m))
      PROVE  /\ \A o \in Shown(s) : o.content.kind = "file" => m.kind = "file" /\ o.number = n /\ o.content.id = m.id
             /\ Legible(m) /\ Whole(Datagram(n, m)) => AsShown(Datagram(n, m)) \in Shown(s)
             /\ Throwing(m.kind, Rest(s)) => TooLarge(m)
  <2>1. n \in 0..Largest
    BY Widths, UniqueIdAssumption
  <2>2. CASE m \in NewText
    BY <1>1, <2>1, <2>2, TextShown
  <2>3. CASE m \in Offers
    <3>1. PICK j \in 1..MaxCalls, x \in Files : m = FileOf(j, x)
      BY <2>3 DEF Offers
    <3>2. j \in 0..Largest
      BY <3>1, Widths, UniqueIdAssumption
    <3>3. m.kind = "file" /\ m.id = j
      BY <3>1, <3>2, FilesAre
    <3>4. QED BY <1>1, <2>1, <3>1, <3>2, <3>3, FileShown
  <2>4. CASE m = [kind |-> "knock"]
    BY <1>1, <2>1, <2>4, KnockShown
  <2>5. QED BY <2>2, <2>3, <2>4 DEF Sendable
<1>2. QED BY <1>1, RequestRead DEF ReadsBack
-----------------------------------------------------------------------------
(* What is being packed: a file carries an id that no file in the tasks has. *)
Packing == /\ mFileId \in Nat /\ mFileId <= calls
           /\ packing \in [Threads -> Sendable \cup {NoMessage}]
           /\ \A t \in Threads : packing[t].kind = "file" => packing[t].id <= mFileId /\ t = Ui
           /\ \A u \in uploads : packing[Ui].kind = "file" => u.file.id # packing[Ui].id
           /\ \A u \in uploads : u.file.id \in Nat /\ u.file.id <= mFileId
           /\ unlisted # NoFile => pc[Ui] = "out" /\ packing[Ui].kind = "file" /\ unlisted = packing[Ui].id
           /\ pc[Ui] # "out" => packing[Ui] \in Sendable

(* No two uploads share an id. *)
Unique == \A u, v \in uploads : u.file.id = v.file.id => u = v

(* Every file that was sent is among the tasks with the number of its packet, but for
   the one that is about to be listed. *)
ListedAs(number, file) == \E u \in uploads : u.number = number /\ u.file.id = file
Listed == \A d \in wire : d.message.kind = "file" =>
            \/ ListedAs(d.number, d.message.id)
            \/ /\ unlisted = d.message.id /\ last[Ui] = d.number /\ packing[Ui] = d.message

\* A datagram holds what was packed.
OnWire == \A d \in wire : /\ d.message \in Sendable /\ d.number \in 0..MaxId /\ d.number <= mId
                          /\ d.bytes = Pack(d.number, d.message)
                          /\ d.message.kind = "file" => d.message.id \in Nat /\ d.message.id <= mFileId

\* An offer stems from a datagram, a request from an offer.
Offer(number, file) == \E d \in wire : d.message.kind = "file" /\ d.number = number /\ d.message.id = file
Peers == /\ delivered \subseteq wire
         /\ \A s \in shown : s.content.kind = "file" => Offer(s.number, s.content.id)
         /\ \A r \in requests : /\ Offer(r.offer.number, r.offer.content.id)
                                /\ r.extra = RequestExtra(r.offer.number, r.offer.content.id)

ServingInv == /\ TypeOK /\ Counting
              /\ Packing /\ Unique /\ Listed /\ OnWire /\ Peers /\ ServesWhatWasOffered

LEMMA Kinds == /\ \A m \in NewText : m.kind = "text"
               /\ \A m \in Offers : m.kind = "file" /\ m.id \in Nat \ {0}
               /\ \A m \in {[kind |-> "knock"]} : m.kind = "knock"
               /\ NoMessage.kind = "entry"
BY UniqueIdAssumption DEF NewText, Offers, FileOf, NoMessage

LEMMA FilesHaveIds == \A m \in Sendable \cup {NoMessage} : m.kind = "file" => m \in Sendable /\ m.id \in Nat \ {0}
BY Kinds DEF Sendable

LEMMA AskStep == ASSUME ServingInv, Counting', NEW t \in Threads, Ask(t)
                 PROVE  Packing' /\ Unique' /\ Listed' /\ OnWire' /\ Peers'
<1>0. Ui \in Threads
  BY PacketsAssumption
<1> USE <1>0, UniqueIdAssumption DEF ServingInv, TypeOK
<1>1. /\ calls' = calls + 1 /\ calls < MaxCalls /\ mId' = mId + 1 /\ pc[t] = "out"
      /\ pc' = [pc EXCEPT ![t] = "wrap?"] /\ last' = last
      /\ UNCHANGED <<unlisted, uploads, wire, delivered, shown, requests>>
      /\ t = Ui => unlisted = NoFile
  BY DEF Ask, Increment, Counting, peering
<1>2. PICK m \in Messages(t) : /\ packing' = [packing EXCEPT ![t] = m]
                              /\ mFileId' = IF m.kind = "file" THEN mFileId + 1 ELSE mFileId
  BY DEF Ask
<1>3. /\ m \in Sendable \cup {NoMessage}
      /\ m.kind = "file" => t = Ui /\ m.id = mFileId + 1
      /\ t = Ui => m \in Sendable
  <2>1. ASSUME t = Ui, m \in NewFile PROVE m \in Offers /\ m.id = mFileId + 1
    <3>1. mFileId + 1 \in 1..MaxCalls
      BY <1>1 DEF Packing
    <3>2. PICK x \in Files : m = FileOf(mFileId + 1, x)
      BY <2>1 DEF NewFile
    <3>3. m.id = mFileId + 1
      BY <3>2 DEF FileOf
    <3>4. m \in Offers
      BY <3>1, <3>2 DEF Offers
    <3>5. QED BY <3>3, <3>4
  <2>2. QED BY <2>1, Kinds DEF Messages, Sendable
<1>4. mFileId' \in Nat /\ mFileId <= mFileId' /\ mFileId' <= calls' /\ (m.kind = "file" => m.id = mFileId')
  BY <1>1, <1>2, <1>3 DEF Packing
<1>5. Packing'
  <2>1. packing' \in [Threads -> Sendable \cup {NoMessage}]
    BY <1>2, <1>3 DEF Packing
  <2>2. ASSUME NEW u \in Threads, packing'[u].kind = "file" PROVE packing'[u].id <= mFileId' /\ u = Ui
    <3>1. CASE u = t
      BY <1>2, <1>3, <1>4, <2>2, <3>1 DEF Packing
    <3>2. CASE u # t
      <4>1. packing'[u] = packing[u] /\ packing[u] \in Sendable \cup {NoMessage}
        BY <1>2, <3>2 DEF Packing
      <4>2. packing[u].id \in Nat
        BY <4>1, <2>2, FilesHaveIds
      <4>3. QED BY <4>1, <4>2, <1>4, <2>2 DEF Packing
    <3>3. QED BY <3>1, <3>2
  <2>3. ASSUME NEW u \in uploads, packing'[Ui].kind = "file" PROVE u.file.id # packing'[Ui].id
    <3>1. CASE Ui = t
      <4>1. packing'[Ui] = m
        BY <1>2, <3>1 DEF Packing
      <4>2. packing'[Ui].id = mFileId + 1
        BY <1>3, <2>3, <4>1
      <4>3. QED BY <4>2 DEF Packing
    <3>2. CASE Ui # t
      BY <1>2, <2>3, <3>2 DEF Packing
    <3>3. QED BY <3>1, <3>2
  <2>4. \A u \in uploads : u.file.id \in Nat /\ u.file.id <= mFileId'
    BY <1>4 DEF Packing
  <2>5. unlisted # NoFile => pc'[Ui] = "out" /\ packing'[Ui].kind = "file" /\ unlisted = packing'[Ui].id
    BY <1>1, <1>2 DEF Packing
  <2>6. pc'[Ui] # "out" => packing'[Ui] \in Sendable
    BY <1>1, <1>2, <1>3 DEF Packing
  <2>7. QED BY <1>1, <1>4, <2>1, <2>2, <2>3, <2>4, <2>5, <2>6 DEF Packing
<1>6. Unique'
  BY <1>1 DEF Unique
<1>7. Listed'
  <2>1. ASSUME NEW d \in wire, d.message.kind = "file", unlisted = d.message.id, packing[Ui] = d.message
        PROVE  packing'[Ui] = d.message
    <3>1. d.message \in Sendable
      BY DEF OnWire
    <3>2. unlisted # NoFile
      BY <2>1, <3>1, FilesHaveIds DEF NoFile
    <3>3. QED BY <1>1, <1>2, <2>1, <3>2 DEF Packing
  <2>2. QED BY <1>1, <2>1 DEF Listed, ListedAs
<1>8. OnWire'
  BY <1>1, <1>4 DEF OnWire, Packing
<1>9. Peers'
  BY <1>1 DEF Peers, Offer
<1>10. QED BY <1>5, <1>6, <1>7, <1>8, <1>9

\* The number changes and the rest stays, or nothing does.
LEMMA WrapStep == ASSUME ServingInv, Counting', NEW t \in Threads, AskWrap(t)
                  PROVE  Packing' /\ Unique' /\ Listed' /\ OnWire' /\ Peers'
<1>0. Ui \in Threads
  BY PacketsAssumption
<1> USE <1>0, UniqueIdAssumption DEF ServingInv, TypeOK
<1>1. /\ UNCHANGED <<calls, last, mFileId, packing, unlisted, uploads, wire, delivered, shown, requests>>
      /\ pc[t] = "wrap?" /\ pc' = [pc EXCEPT ![t] = "return"]
  BY DEF AskWrap, Wrap, sending, peering
<1>2. mId' = mId
  BY <1>1 DEF Counting
<1>3. Packing'
  BY <1>1 DEF Packing
<1>4. Listed' /\ Unique'
  BY <1>1 DEF Listed, ListedAs, Unique
<1>5. OnWire'
  BY <1>1, <1>2 DEF OnWire
<1>6. Peers'
  BY <1>1 DEF Peers, Offer
<1>7. QED BY <1>3, <1>4, <1>5, <1>6

LEMMA SendStep == ASSUME ServingInv, Counting', NEW t \in Threads, Send(t)
                  PROVE  Packing' /\ Unique' /\ Listed' /\ OnWire' /\ Peers'
<1>0. Ui \in Threads
  BY PacketsAssumption
<1> USE <1>0, UniqueIdAssumption DEF ServingInv, TypeOK
<1>1. /\ UNCHANGED <<calls, mId, mFileId, uploads, delivered, shown, requests>>
      /\ pc[t] = "return" /\ pc' = [pc EXCEPT ![t] = "out"] /\ last' = [last EXCEPT ![t] = mId]
  BY DEF Send, Return, peering
<1>2. mId \in 0..MaxId
  OBVIOUS
<1> DEFINE d0 == Datagram(mId, packing[Ui])
<1>3. wire' = IF t = Ui THEN wire \cup {d0} ELSE wire
  BY <1>1 DEF Send
<1>4. \/ /\ t = Ui /\ packing[Ui].kind = "file"
         /\ unlisted' = packing[Ui].id /\ packing' = packing
      \/ /\ packing[t].kind # "file"
         /\ unlisted' = unlisted /\ packing' = [packing EXCEPT ![t] = NoMessage]
  BY DEF Send, Packing
<1>5. t = Ui => unlisted = NoFile
  BY <1>1 DEF Packing
<1>6. /\ d0.number = mId /\ d0.message = packing[Ui] /\ d0.bytes = Pack(d0.number, d0.message)
  BY DEF Datagram
<1> HIDE DEF d0
<1>7. Packing'
  <2>1. packing' \in [Threads -> Sendable \cup {NoMessage}]
    BY <1>4 DEF Packing
  <2>2. \A u \in Threads : packing'[u] = packing[u] \/ packing'[u] = NoMessage
    BY <1>4 DEF Packing
  <2>3. unlisted' # NoFile => pc'[Ui] = "out" /\ packing'[Ui].kind = "file" /\ unlisted' = packing'[Ui].id
    BY <1>1, <1>4, <1>5 DEF Packing
  <2>4. pc'[Ui] # "out" => packing'[Ui] \in Sendable
    BY <1>1, <1>4 DEF Packing
  <2>5. QED BY <1>1, <2>1, <2>2, <2>3, <2>4, Kinds DEF Packing
<1>8. Unique'
  BY <1>1 DEF Unique
<1>9. Listed'
  <2>1. ASSUME NEW d \in wire, d.message.kind = "file"
        PROVE  \/ ListedAs(d.number, d.message.id)
               \/ unlisted' = d.message.id /\ last'[Ui] = d.number /\ packing'[Ui] = d.message
    <3>1. SUFFICES ASSUME unlisted = d.message.id, last[Ui] = d.number, packing[Ui] = d.message
                   PROVE  unlisted' = d.message.id /\ last'[Ui] = d.number /\ packing'[Ui] = d.message
      BY <2>1 DEF Listed
    <3>2. d.message \in Sendable
      BY DEF OnWire
    <3>3. unlisted # NoFile
      BY <2>1, <3>1, <3>2, FilesHaveIds DEF NoFile
    <3>4. t # Ui
      BY <3>3, <1>5
    <3>5. QED BY <3>1, <3>4, <1>1, <1>4 DEF Packing
  <2>2. ASSUME t = Ui, d0.message.kind = "file"
        PROVE  unlisted' = d0.message.id /\ last'[Ui] = d0.number /\ packing'[Ui] = d0.message
    BY <1>1, <1>4, <1>6, <2>2
  <2>3. SUFFICES ASSUME NEW d \in wire', d.message.kind = "file"
                 PROVE  \/ ListedAs(d.number, d.message.id)'
                        \/ unlisted' = d.message.id /\ last'[Ui] = d.number /\ packing'[Ui] = d.message
    BY DEF Listed
  <2>4. ListedAs(d.number, d.message.id)' <=> ListedAs(d.number, d.message.id)
    BY <1>1 DEF ListedAs
  <2>5. CASE d \in wire
    BY <2>1, <2>3, <2>4, <2>5
  <2>6. CASE d \notin wire
    BY <2>2, <2>3, <2>6, <1>3
  <2>7. QED BY <2>5, <2>6
<1>10. OnWire'
  <2>1. ASSUME t = Ui PROVE packing[Ui] \in Sendable
    BY <1>1, <2>1 DEF Packing
  <2>2. QED BY <1>1, <1>3, <1>6, <2>1, FilesHaveIds DEF OnWire, Packing
<1>11. Peers'
  BY <1>1, <1>3 DEF Peers, Offer
<1>12. QED BY <1>7, <1>8, <1>9, <1>10, <1>11

LEMMA SendFailsStep == ASSUME ServingInv, Counting', NEW t \in Threads, SendFails(t)
                       PROVE  Packing' /\ Unique' /\ Listed' /\ OnWire' /\ Peers'
<1>0. Ui \in Threads
  BY PacketsAssumption
<1> USE <1>0, UniqueIdAssumption DEF ServingInv, TypeOK
<1>1. /\ UNCHANGED <<calls, mId, mFileId, unlisted, uploads, wire, delivered, shown, requests>>
      /\ pc[t] = "return" /\ pc' = [pc EXCEPT ![t] = "out"] /\ last' = [last EXCEPT ![t] = mId]
      /\ packing' = [packing EXCEPT ![t] = NoMessage]
  BY DEF SendFails, Return, peering
<1>2. t = Ui => unlisted = NoFile
  BY <1>1 DEF Packing
<1>3. Packing'
  <2>1. /\ packing' \in [Threads -> Sendable \cup {NoMessage}]
        /\ \A u \in Threads : packing'[u] = packing[u] \/ packing'[u] = NoMessage
    BY <1>1 DEF Packing
  <2>2. /\ unlisted' # NoFile => pc'[Ui] = "out" /\ packing'[Ui].kind = "file" /\ unlisted' = packing'[Ui].id
        /\ pc'[Ui] # "out" => packing'[Ui] \in Sendable
    BY <1>1, <1>2 DEF Packing
  <2>3. QED BY <1>1, <2>1, <2>2, Kinds DEF Packing
<1>4. Unique'
  BY <1>1 DEF Unique
<1>5. Listed'
  <2>1. ASSUME NEW d \in wire, d.message.kind = "file", unlisted = d.message.id
        PROVE  t # Ui
    <3>1. d.message \in Sendable
      BY DEF OnWire
    <3>2. QED BY <1>2, <2>1, <3>1, FilesHaveIds DEF NoFile
  <2>2. QED BY <1>1, <2>1 DEF Listed, ListedAs, Packing
<1>6. OnWire' /\ Peers'
  BY <1>1 DEF OnWire, Peers, Offer
<1>7. QED BY <1>3, <1>4, <1>5, <1>6

LEMMA ListStep == ASSUME ServingInv, AddUploadTask
                  PROVE  Packing' /\ Unique' /\ Listed' /\ OnWire' /\ Peers'
<1>0. Ui \in Threads
  BY PacketsAssumption
<1> USE <1>0, UniqueIdAssumption DEF ServingInv, TypeOK
<1> DEFINE u0 == [number |-> last[Ui], file |-> packing[Ui]]
<1>1. /\ UNCHANGED <<calls, mId, pc, last, mFileId, wire, delivered, shown, requests>>
      /\ unlisted # NoFile /\ unlisted' = NoFile
      /\ uploads' = uploads \cup {u0}
      /\ packing' = [packing EXCEPT ![Ui] = NoMessage]
  BY DEF AddUploadTask, ids, vars, peering
<1>2. u0.number = last[Ui] /\ u0.file = packing[Ui]
  OBVIOUS
<1> HIDE DEF u0
<1>3. packing[Ui].kind = "file" /\ unlisted = packing[Ui].id /\ pc[Ui] = "out"
  BY <1>1 DEF Packing
<1>4. packing[Ui].id \in Nat /\ packing[Ui].id <= mFileId
  BY <1>3, FilesHaveIds DEF Packing
<1>5. Packing'
  <2>1. /\ packing' \in [Threads -> Sendable \cup {NoMessage}]
        /\ packing'[Ui] = NoMessage
        /\ \A t \in Threads : packing'[t] = packing[t] \/ packing'[t] = NoMessage
    BY <1>1 DEF Packing
  <2>2. \A u \in uploads' : u.file.id \in Nat /\ u.file.id <= mFileId
    BY <1>1, <1>2, <1>4 DEF Packing
  <2>3. QED BY <1>1, <1>3, <2>1, <2>2, Kinds DEF Packing
<1>6. Unique'
  <2>1. \A u \in uploads : u.file.id # u0.file.id
    BY <1>2, <1>3 DEF Packing
  <2>2. QED BY <1>1, <2>1 DEF Unique
<1>7. Listed'
  <2>1. SUFFICES ASSUME NEW d \in wire, d.message.kind = "file" PROVE ListedAs(d.number, d.message.id)'
    BY <1>1 DEF Listed
  <2>2. CASE ListedAs(d.number, d.message.id)
    BY <1>1, <2>2 DEF ListedAs
  <2>3. CASE ~ListedAs(d.number, d.message.id)
    <3>1. u0.number = d.number /\ u0.file.id = d.message.id
      BY <1>2, <2>1, <2>3 DEF Listed
    <3>2. QED BY <1>1, <3>1 DEF ListedAs
  <2>4. QED BY <2>2, <2>3
<1>8. OnWire' /\ Peers'
  BY <1>1 DEF OnWire, Peers, Offer
<1>9. QED BY <1>5, <1>6, <1>7, <1>8

\* The peer's steps leave the sender alone.
Aside == UNCHANGED <<calls, mId, pc, last, mFileId, packing, unlisted, uploads, wire>>
LEMMA AsideStep == ServingInv /\ Aside => Packing' /\ Unique' /\ Listed' /\ OnWire'
BY DEF Aside, ServingInv, Packing, Unique, Listed, ListedAs, OnWire

LEMMA DeliverStep == ASSUME MaxCalls <= Largest, ServingInv, NEW d \in wire, Deliver(d) PROVE Aside /\ Peers'
<1> USE DEF ServingInv
<1>1. Aside
  BY DEF Deliver, Aside, ids, vars, sending
<1>2. /\ delivered' = delivered \cup {d} /\ requests' = requests
      /\ shown' = shown \/ shown' = shown \cup Shown(Received(d.bytes))
  BY DEF Deliver
<1>3. d.message \in Sendable /\ d.number \in 0..MaxId /\ d.bytes = Pack(d.number, d.message)
  BY DEF OnWire
<1>4. \A s \in Shown(Received(d.bytes)) : s.content.kind = "file" =>
        d.message.kind = "file" /\ s.number = d.number /\ s.content.id = d.message.id
  BY <1>3, ParsersReadBack DEF ReadsBack
<1>5. \A s \in shown' : s.content.kind = "file" => Offer(s.number, s.content.id)
  BY <1>2, <1>4 DEF Peers, Offer
<1>6. QED BY <1>1, <1>2, <1>5 DEF Peers, Offer, Aside

LEMMA RequestStep == ASSUME ServingInv, NEW s \in shown, Request(s) PROVE Aside /\ Peers'
<1> USE DEF ServingInv
<1>1. Aside
  BY DEF Request, Aside, ids, vars, sending
<1> DEFINE r0 == [offer |-> s, extra |-> RequestExtra(s.number, s.content.id)]
<1>2. requests' = requests \cup {r0} /\ UNCHANGED <<delivered, shown>> /\ s.content.kind = "file"
  BY DEF Request
<1>3. r0.offer = s /\ r0.extra = RequestExtra(s.number, s.content.id)
  OBVIOUS
<1> HIDE DEF r0
<1>4. QED BY <1>1, <1>2, <1>3 DEF Peers, Offer, Aside

LEMMA ServeStep ==
  ASSUME MaxCalls < Width, ServingInv, NEW r \in requests, Serve(r)
  PROVE  Aside /\ Peers' /\ ServesWhatWasOffered'
<1> USE DEF ServingInv
<1>1. Aside
  BY DEF Serve, Aside, ids, vars, sending
<1>2. requests' = requests \ {r} /\ UNCHANGED <<delivered, shown>>
  BY DEF Serve
<1>3. Peers'
  BY <1>1, <1>2 DEF Peers, Offer, Aside
<1>4. PICK d \in wire : /\ d.message.kind = "file" /\ d.number = r.offer.number
                        /\ d.message.id = r.offer.content.id
  BY DEF Peers, Offer
<1> DEFINE n == r.offer.number
           i == r.offer.content.id
           v == <<Digits(n), Digits(i), Digits(0)>>
<1>5. /\ n \in 0..(Width - 1) /\ n <= mId
      /\ i \in 0..(Width - 1) /\ i <= mId /\ i # NoFile
  <2>1. /\ n \in 0..MaxId /\ n <= mId /\ i \in Nat /\ i <= mFileId /\ d.message \in Sendable
    BY <1>4 DEF OnWire
  <2>2. i # NoFile
    BY <1>4, <2>1, FilesHaveIds DEF NoFile
  <2>3. mFileId <= mId /\ mId <= MaxCalls /\ mFileId \in Nat /\ mId \in Nat
    BY UniqueIdAssumption DEF TypeOK, Counting, Packing
  <2>4. QED BY <2>1, <2>2, <2>3, Widths, UniqueIdAssumption
<1>6. r.extra = RequestExtra(n, i)
  BY DEF Peers
<1> HIDE DEF n, i
<1>7. SplitAllowSeparator(r.extra) = v
  BY <1>5, <1>6, RequestRead
<1>8. /\ Number(v[1]) = n /\ Number(v[2]) = i /\ Number(v[3]) = 0
  <2>1. n \in 0..Largest /\ i \in 0..Largest /\ 0 \in 0..Largest
    BY <1>5, Widths
  <2>2. v[1] = Digits(n) /\ v[2] = Digits(i) /\ v[3] = Digits(0)
    OBVIOUS
  <2>3. QED BY <2>1, <2>2, NumberIs DEF Digits
<1> HIDE DEF v
<1>9. CASE \E k \in 1..3 : Throws(v[k])
  <2>1. served' = served /\ mId' = mId
    BY <1>1, <1>7, <1>9 DEF Serve, Aside
  <2>2. n > IntMax \/ i > IntMax \/ 0 > IntMax
    BY <1>8, <1>9 DEF Throws
  <2>3. mId > IntMax
    BY <1>5, <2>2, PacketsAssumption, Widths DEF TypeOK
  <2>4. ServesWhatWasOffered'
    BY <2>1, <2>3 DEF ServesWhatWasOffered
  <2>5. QED BY <1>1, <1>3, <2>4
<1>10. CASE ~\E k \in 1..3 : Throws(v[k])
  <2> DEFINE s0 == [offer |-> r.offer, found |-> Found(v), unlisted |-> unlisted]
  <2>1. served' = served \cup {s0} /\ died' = died /\ mId' = mId
    BY <1>1, <1>7, <1>10 DEF Serve, Aside
  <2>2. s0.offer.content.id = i /\ s0.found = Found(v) /\ s0.unlisted = unlisted
    BY DEF i
  <2> HIDE DEF s0
  <2>3. Found(v) = {u \in uploads : u.number = n /\ u.file.id = i}
    BY <1>8 DEF Found, Asked
  <2>4. CASE ListedAs(n, i)
    <3>1. PICK u \in uploads : u.number = n /\ u.file.id = i
      BY <2>4 DEF ListedAs
    <3>2. Found(v) = {u}
      BY <2>3, <3>1 DEF Unique
    <3>3. QED BY <1>1, <1>3, <2>1, <2>2, <3>1, <3>2 DEF ServesWhatWasOffered
  <2>5. CASE ~ListedAs(n, i)
    <3>1. unlisted = i
      BY <1>4, <2>5 DEF Listed, n, i
    <3>2. Found(v) = {}
      BY <2>3, <2>5 DEF ListedAs
    <3>3. QED BY <1>1, <1>3, <2>1, <2>2, <3>1, <3>2 DEF ServesWhatWasOffered
  <2>6. QED BY <2>4, <2>5
<1>11. QED BY <1>9, <1>10

LEMMA ServingStep ==
  ASSUME MaxCalls < MaxId, MaxCalls < Width
  PROVE  ServingInv /\ [PNext]_all => ServingInv'
<1> SUFFICES ASSUME ServingInv, [PNext]_all PROVE ServingInv'
  OBVIOUS
<1>0. MaxCalls <= Largest
  BY Widths, UniqueIdAssumption
<1>1. TypeOK' /\ Counting'
  BY StepsOfUniqueId, TypeStep, CountingStep DEF ServingInv
<1>2. ASSUME served' = served, died' # "own" PROVE ServesWhatWasOffered'
  BY <1>2 DEF ServingInv, ServesWhatWasOffered
<1>3. ASSUME PNext PROVE died = "nobody"
  BY <1>3 DEF PNext
<1>4. ASSUME NEW t \in Threads, PNext, Ask(t) \/ AskWrap(t) \/ Send(t) \/ SendFails(t) PROVE ServingInv'
  <2>1. Packing' /\ Unique' /\ Listed' /\ OnWire' /\ Peers'
    BY <1>1, <1>4, AskStep, WrapStep, SendStep, SendFailsStep
  <2>2. served' = served /\ died' = died
    BY <1>4 DEF Ask, AskWrap, Send, SendFails
  <2>3. QED BY <1>1, <1>2, <1>3, <1>4, <2>1, <2>2 DEF ServingInv
<1>5. ASSUME PNext, AddUploadTask PROVE ServingInv'
  <2>1. served' = served /\ died' = died
    BY <1>5 DEF AddUploadTask
  <2>2. QED BY <1>1, <1>2, <1>3, <1>5, <2>1, ListStep DEF ServingInv
<1>6. ASSUME PNext, NEW d \in wire, Deliver(d) PROVE ServingInv'
  <2>1. served' = served /\ (died' = died \/ died' = "peer")
    BY <1>6 DEF Deliver
  <2>2. QED BY <1>0, <1>1, <1>2, <1>3, <1>6, <2>1, DeliverStep, AsideStep DEF ServingInv
<1>7. ASSUME PNext, NEW s \in shown, Request(s) PROVE ServingInv'
  <2>1. served' = served /\ died' = died
    BY <1>7 DEF Request
  <2>2. QED BY <1>1, <1>2, <1>3, <1>7, <2>1, RequestStep, AsideStep DEF ServingInv
<1>8. ASSUME NEW r \in requests, Serve(r) PROVE ServingInv'
  BY <1>1, <1>8, ServeStep, AsideStep DEF ServingInv
<1>9. CASE UNCHANGED all
  <2>1. Aside /\ UNCHANGED <<delivered, shown, requests, served, died>>
    BY <1>9 DEF all, Aside, ids, vars, sending, peering
  <2>2. Peers' /\ ServesWhatWasOffered'
    BY <2>1 DEF ServingInv, Peers, Offer, Aside, ServesWhatWasOffered
  <2>3. QED BY <1>1, <2>1, <2>2, AsideStep DEF ServingInv
<1>10. QED BY <1>4, <1>5, <1>6, <1>7, <1>8, <1>9 DEF PNext

(* Before the numbers outgrow the int they are asked for with, the file that is found for
   a request is the one that was offered, and there is one, unless it is just being listed:
   whatever the other threads pack with the same numbers meanwhile, whichever packets
   are lost and however late the request comes. *)
THEOREM OffersAreServed ==
  ASSUME MaxCalls < MaxId, MaxCalls < Width
  PROVE  PSpec => []ServesWhatWasOffered
<1>1. PInit => ServingInv
  <2> SUFFICES ASSUME PInit PROVE ServingInv
    OBVIOUS
  <2>1. TypeOK /\ Counting
    BY UniqueIdAssumption DEF PInit, Init, TypeOK, Counting
  <2>2. Packing
    BY PacketsAssumption, Kinds DEF PInit, Init, Packing
  <2>3. Unique /\ Listed /\ OnWire /\ Peers /\ ServesWhatWasOffered
    BY DEF PInit, Unique, Listed, OnWire, Peers, ServesWhatWasOffered
  <2>4. QED BY <2>1, <2>2, <2>3 DEF ServingInv
<1>2. ServingInv /\ [PNext]_all => ServingInv'
  BY ServingStep
<1>3. ServingInv => ServesWhatWasOffered
  BY DEF ServingInv
<1>4. QED BY <1>1, <1>2, <1>3, PTL DEF PSpec
-----------------------------------------------------------------------------
(* What the messages on their way are made of, also once the numbers start again. *)
Writing == /\ mFileId \in Nat /\ mFileId <= calls
           /\ packing \in [Threads -> Sendable \cup {NoMessage}]
           /\ pc[Ui] # "out" => packing[Ui] \in Sendable
           /\ \A t \in Threads : packing[t].kind = "file" => t = Ui
           /\ unlisted # NoFile => pc[Ui] = "out"
Written == \A d \in wire : /\ d.message \in Sendable /\ d.number \in 0..MaxId
                           /\ d.bytes = Pack(d.number, d.message)
ArrivingInv == TypeOK /\ Writing /\ Written /\ delivered \subseteq wire /\ ArrivesAsSent

LEMMA WritingStep ==
  ASSUME TypeOK, TypeOK', Writing, Written, NEW t \in Threads, Ask(t) \/ AskWrap(t) \/ Send(t) \/ SendFails(t)
  PROVE  Writing' /\ Written'
<1>0. Ui \in Threads
  BY PacketsAssumption
<1> USE <1>0, UniqueIdAssumption DEF TypeOK
<1>1. CASE Ask(t)
  <2>1. /\ calls' = calls + 1 /\ calls < MaxCalls /\ pc' = [pc EXCEPT ![t] = "wrap?"]
        /\ UNCHANGED <<unlisted, wire>> /\ (t = Ui => unlisted = NoFile)
    BY <1>1 DEF Ask, Increment
  <2>2. PICK m \in Messages(t) : /\ packing' = [packing EXCEPT ![t] = m]
                                /\ mFileId' = IF m.kind = "file" THEN mFileId + 1 ELSE mFileId
    BY <1>1 DEF Ask
  <2>3. m \in Sendable \cup {NoMessage} /\ (m.kind = "file" => t = Ui) /\ (t = Ui => m \in Sendable)
    <3>1. NewFile \subseteq Offers
      <4>1. mFileId + 1 \in 1..MaxCalls
        BY <2>1 DEF Writing
      <4>2. QED BY <4>1 DEF NewFile, Offers
    <3>2. QED BY <3>1, Kinds DEF Messages, Sendable
  <2>4. mFileId' \in Nat /\ mFileId' <= calls'
    BY <2>1, <2>2 DEF Writing
  <2>5. packing' \in [Threads -> Sendable \cup {NoMessage}]
    BY <2>2, <2>3 DEF Writing
  <2>6. pc'[Ui] # "out" => packing'[Ui] \in Sendable
    BY <2>1, <2>2, <2>3 DEF Writing
  <2>7. \A u \in Threads : packing'[u].kind = "file" => u = Ui
    BY <2>2, <2>3 DEF Writing
  <2>8. unlisted' # NoFile => pc'[Ui] = "out"
    BY <2>1 DEF Writing
  <2>9. Written'
    BY <2>1 DEF Written
  <2>10. QED BY <2>4, <2>5, <2>6, <2>7, <2>8, <2>9 DEF Writing
<1>2. CASE AskWrap(t)
  <2>1. /\ UNCHANGED <<calls, mFileId, packing, unlisted, wire>>
        /\ pc[t] = "wrap?" /\ pc' = [pc EXCEPT ![t] = "return"]
    BY <1>2 DEF AskWrap, Wrap, sending
  <2>2. QED BY <2>1 DEF Writing, Written
<1>3. CASE Send(t)
  <2>1. /\ UNCHANGED <<calls, mFileId, mId>> /\ pc[t] = "return" /\ pc' = [pc EXCEPT ![t] = "out"]
        /\ last' = [last EXCEPT ![t] = mId]
    BY <1>3 DEF Send, Return
  <2>2. \/ t = Ui /\ packing' = packing
        \/ unlisted' = unlisted /\ packing' = [packing EXCEPT ![t] = NoMessage]
    BY <1>3 DEF Send, Writing
  <2>3. wire' = IF t = Ui THEN wire \cup {Datagram(mId, packing[Ui])} ELSE wire
    BY <1>3, <2>1 DEF Send
  <2>4. Writing'
    <3>1. packing' \in [Threads -> Sendable \cup {NoMessage}]
      BY <2>2 DEF Writing
    <3>2. \A u \in Threads : packing'[u] = packing[u] \/ packing'[u] = NoMessage
      BY <2>2 DEF Writing
    <3>3. pc'[Ui] # "out" => packing'[Ui] \in Sendable
      BY <2>1, <2>2 DEF Writing
    <3>4. unlisted' # NoFile => pc'[Ui] = "out"
      BY <2>1, <2>2 DEF Writing
    <3>5. QED BY <2>1, <3>1, <3>2, <3>3, <3>4, Kinds DEF Writing
  <2>5. Written'
    <3>1. CASE t = Ui
      <4>1. packing[Ui] \in Sendable /\ mId \in 0..MaxId
        BY <2>1, <3>1 DEF Writing
      <4>2. PICK d0 : d0 = Datagram(mId, packing[Ui])
        OBVIOUS
      <4>3. d0.message = packing[Ui] /\ d0.number = mId /\ d0.bytes = Pack(d0.number, d0.message)
        BY <4>2 DEF Datagram
      <4>4. wire' = wire \cup {d0}
        BY <2>3, <3>1, <4>2
      <4>5. QED BY <4>1, <4>3, <4>4 DEF Written
    <3>2. CASE t # Ui
      BY <2>3, <3>2 DEF Written
    <3>3. QED BY <3>1, <3>2
  <2>6. QED BY <2>4, <2>5
<1>4. CASE SendFails(t)
  <2>1. /\ UNCHANGED <<calls, mFileId, unlisted, wire>> /\ pc[t] = "return" /\ pc' = [pc EXCEPT ![t] = "out"]
        /\ packing' = [packing EXCEPT ![t] = NoMessage]
    BY <1>4 DEF SendFails, Return
  <2>2. packing' \in [Threads -> Sendable \cup {NoMessage}]
    BY <2>1 DEF Writing
  <2>3. \A u \in Threads : packing'[u] = packing[u] \/ packing'[u] = NoMessage
    BY <2>1 DEF Writing
  <2>4. pc'[Ui] # "out" => packing'[Ui] \in Sendable
    BY <2>1 DEF Writing
  <2>5. Writing'
    BY <2>1, <2>2, <2>3, <2>4, Kinds DEF Writing
  <2>6. QED BY <2>1, <2>5 DEF Written
<1>5. QED BY <1>1, <1>2, <1>3, <1>4

LEMMA ArrivalStep == ASSUME MaxCalls <= Largest, ArrivingInv, NEW d \in wire, Deliver(d) PROVE ArrivesAsSent'
<1> USE DEF ArrivingInv
<1>1. d.message \in Sendable /\ d.number \in 0..MaxId /\ d.bytes = Pack(d.number, d.message)
  BY DEF Written
<1>2. delivered' = delivered \cup {d}
  BY DEF Deliver
<1>3. PICK s : s = Received(d.bytes)
  OBVIOUS
<1>4. /\ Legible(d.message) /\ Whole(d) => AsShown(d) \in Shown(s)
      /\ Throwing(d.message.kind, Rest(s)) => TooLarge(d.message)
  <2>1. PICK n \in 0..MaxId, m \in Sendable : n = d.number /\ m = d.message
    BY <1>1
  <2>2. s = Received(Pack(n, m))
    BY <1>1, <1>3, <2>1
  <2>3. /\ Legible(m) /\ Whole(Datagram(n, m)) => AsShown(Datagram(n, m)) \in Shown(s)
        /\ Throwing(m.kind, Rest(s)) => TooLarge(m)
    BY <2>2, ParsersReadBack DEF ReadsBack
  <2>4. AsShown(Datagram(n, m)) = AsShown(d)
    BY <2>1 DEF AsShown, Datagram
  <2>5. Whole(Datagram(n, m)) <=> Whole(d)
    BY <1>1, <2>1 DEF Whole, Datagram
  <2>6. QED BY <2>1, <2>3, <2>4, <2>5
<1>5. CASE Throwing(d.message.kind, Rest(s))
  <2>1. died' = "peer" /\ shown' = shown /\ TooLarge(d.message)
    BY <1>3, <1>4, <1>5 DEF Deliver
  <2>2. ~Legible(d.message)
    <3>1. d.message.kind = "file"
      BY <2>1 DEF TooLarge
    <3>2. d.message \in Offers
      BY <1>1, <3>1, Kinds DEF Sendable
    <3>3. PICK j \in 1..MaxCalls, x \in Files : d.message = FileOf(j, x)
      BY <3>2 DEF Offers
    <3>4. j \in 0..Largest
      BY <3>3, Widths, UniqueIdAssumption
    <3>5. d.message.size \in Nat /\ d.message.time \in Nat /\ d.message.id \in Nat
      BY <3>3, <3>4, FilesAre
    <3>6. SUFFICES ASSUME d.message.id <= IntMax, d.message.size <= IntMax, d.message.time <= IntMax PROVE FALSE
      BY <3>1 DEF Legible
    <3>7. AsInt(d.message.size) = d.message.size /\ AsInt(d.message.time) = d.message.time
      BY <3>5, <3>6, FitsAnInt, Zenon
    <3>8. ~(d.message.id > IntMax)
      BY <3>5, <3>6, PacketsAssumption
    <3>9. ~(d.message.size > IntMax) /\ ~(d.message.time > IntMax)
      BY <3>5, <3>6, PacketsAssumption
    <3>10. QED BY <2>1, <3>7, <3>8, <3>9, Zenon DEF TooLarge
  <2>3. QED BY <1>2, <2>1, <2>2 DEF ArrivesAsSent
<1>6. CASE ~Throwing(d.message.kind, Rest(s))
  <2>1. died' = died /\ shown' = shown \cup Shown(s)
    BY <1>3, <1>6 DEF Deliver
  <2>2. QED BY <1>2, <1>4, <2>1 DEF ArrivesAsSent
<1>7. QED BY <1>5, <1>6

LEMMA ArrivingStep ==
  ASSUME MaxCalls <= Largest
  PROVE  ArrivingInv /\ [PNext]_all => ArrivingInv'
<1> SUFFICES ASSUME ArrivingInv, [PNext]_all PROVE ArrivingInv'
  OBVIOUS
<1>1. TypeOK'
  BY StepsOfUniqueId, TypeStep DEF ArrivingInv
<1>2. ASSUME shown' = shown, delivered' = delivered, died' # "peer" \/ died' = died PROVE ArrivesAsSent'
  BY <1>2 DEF ArrivingInv, ArrivesAsSent
<1>3. ASSUME NEW t \in Threads, Ask(t) \/ AskWrap(t) \/ Send(t) \/ SendFails(t) PROVE ArrivingInv'
  <2>1. Writing' /\ Written'
    BY <1>1, <1>3, WritingStep DEF ArrivingInv
  <2>2. shown' = shown /\ delivered' = delivered /\ died' = died /\ wire \subseteq wire'
    BY <1>3 DEF Ask, AskWrap, Send, SendFails, peering, sending
  <2>3. QED BY <1>1, <1>2, <2>1, <2>2 DEF ArrivingInv
<1>4. CASE AddUploadTask
  <2>1. /\ UNCHANGED <<calls, pc, mFileId, wire, delivered, shown, died>>
        /\ unlisted # NoFile /\ unlisted' = NoFile
        /\ packing' = [packing EXCEPT ![Ui] = NoMessage]
    BY <1>4 DEF AddUploadTask, ids, vars, peering
  <2>2. pc[Ui] = "out"
    BY <2>1 DEF ArrivingInv, Writing
  <2>3. packing' \in [Threads -> Sendable \cup {NoMessage}]
    BY <2>1 DEF ArrivingInv, Writing
  <2>4. \A u \in Threads : packing'[u] = packing[u] \/ packing'[u] = NoMessage
    BY <2>1 DEF ArrivingInv, Writing
  <2>5. Writing'
    BY <2>1, <2>2, <2>3, <2>4, Kinds DEF ArrivingInv, Writing
  <2>6. Written'
    BY <2>1 DEF ArrivingInv, Written
  <2>7. QED BY <1>1, <1>2, <2>1, <2>5, <2>6 DEF ArrivingInv
<1>5. ASSUME UNCHANGED <<calls, pc, mFileId, packing, unlisted, wire>> PROVE Writing' /\ Written'
  BY <1>5 DEF ArrivingInv, Writing, Written
<1>6. ASSUME NEW d \in wire, Deliver(d) PROVE ArrivingInv'
  <2>1. ArrivesAsSent'
    BY <1>6, ArrivalStep
  <2>2. UNCHANGED <<calls, pc, mFileId, packing, unlisted, wire>> /\ delivered' = delivered \cup {d}
    BY <1>6 DEF Deliver, ids, vars, sending
  <2>3. QED BY <1>1, <1>5, <2>1, <2>2 DEF ArrivingInv
<1>7. ASSUME NEW s \in shown, Request(s) PROVE ArrivingInv'
  <2>1. UNCHANGED <<calls, pc, mFileId, packing, unlisted, wire, delivered, shown, died>>
    BY <1>7 DEF Request, ids, vars, sending
  <2>2. QED BY <1>1, <1>2, <1>5, <2>1 DEF ArrivingInv
<1>8. ASSUME NEW r \in requests, Serve(r) PROVE ArrivingInv'
  <2>1. UNCHANGED <<calls, pc, mFileId, packing, unlisted, wire, delivered, shown>>
    BY <1>8 DEF Serve, ids, vars, sending
  <2>2. died' = died \/ died' # "peer"
    BY <1>8 DEF Serve
  <2>3. QED BY <1>1, <1>2, <1>5, <2>1, <2>2 DEF ArrivingInv
<1>9. CASE UNCHANGED all
  <2>1. UNCHANGED <<calls, pc, mFileId, packing, unlisted, wire, delivered, shown, died>>
    BY <1>9 DEF all, ids, vars, sending, peering
  <2>2. QED BY <1>1, <1>2, <1>5, <2>1 DEF ArrivingInv
<1>10. QED BY <1>3, <1>4, <1>6, <1>7, <1>8, <1>9 DEF PNext

(* A message that is read whole, can be told from its separators and is not taken for what it
   is not by the conversion of its words is shown as it was sent, with its number and the name
   of its sender, whichever texts and names there are, whatever GBK has words for, and however
   often the numbers have started again; and only a file with a number an int does not hold can end
   the program of the peer. *)
THEOREM MessagesArriveAsSent == ASSUME MaxCalls <= Largest PROVE PSpec => []ArrivesAsSent
<1>1. PInit => ArrivingInv
  <2> SUFFICES ASSUME PInit PROVE ArrivingInv
    OBVIOUS
  <2>1. TypeOK
    BY UniqueIdAssumption DEF PInit, Init, TypeOK
  <2>2. Writing
    BY PacketsAssumption, Kinds DEF PInit, Init, Writing
  <2>3. Written /\ delivered \subseteq wire /\ ArrivesAsSent
    BY DEF PInit, Written, ArrivesAsSent
  <2>4. QED BY <2>1, <2>2, <2>3 DEF ArrivingInv
<1>2. ArrivingInv /\ [PNext]_all => ArrivingInv'
  BY ArrivingStep
<1>3. ArrivingInv => ArrivesAsSent
  BY DEF ArrivingInv
<1>4. QED BY <1>1, <1>2, <1>3, PTL DEF PSpec
=============================================================================
