--------------------------- MODULE SendPathPages ----------------------------
(***************************************************************************)
(* Lemmas about SendPath: what the list and queue operations do to a       *)
(* sequence and to the number of its elements of a kind; queues and lists  *)
(* whose elements are held once; the kinds of pages and requests; where a  *)
(* step may take a page (Path); what it may do to each queue, the list and *)
(* the loop; that it keeps the types, what the queued messages and the     *)
(* listed pages are (QueueKinds), every page held once (OneHolder) and     *)
(* counters and sends in step (SendCounter); and what it does to the       *)
(* numbers of listed pages, queued results and acknowledgements.           *)
(***************************************************************************)
EXTENDS SendPath, TLAPS

-----------------------------------------------------------------------------
(* Queues and lists by their index. *)

\* Taking the first message of a queue.
LEMMA TailFact ==
    ASSUME NEW S, NEW s \in Seq(S), s # <<>>
    PROVE  /\ Tail(s) \in Seq(S)
           /\ Len(Tail(s)) = Len(s) - 1
           /\ Len(s) \in Nat \ {0}
           /\ Head(s) = s[1] /\ Head(s) \in S
           /\ \A j \in 1 .. Len(s) - 1 : Tail(s)[j] = s[j + 1]
    OBVIOUS

\* Appending a message to a queue, or a node to a list.
LEMMA AppendFact ==
    ASSUME NEW S, NEW s \in Seq(S), NEW x \in S
    PROVE  /\ Append(s, x) \in Seq(S)
           /\ Len(Append(s, x)) = Len(s) + 1
           /\ \A j \in 1 .. Len(s) : Append(s, x)[j] = s[j]
           /\ Append(s, x)[Len(s) + 1] = x
    OBVIOUS

\* The elements of a sequence.
LEMMA RangeFact == ASSUME NEW S, NEW s \in Seq(S) PROVE Range(s) \subseteq S
    BY DEF Range

\* One list after another.
LEMMA ConcatFact ==
    ASSUME NEW S, NEW f \in Seq(S), NEW g \in Seq(S)
    PROVE  /\ f \o g \in Seq(S)
           /\ Len(f \o g) = Len(f) + Len(g)
           /\ \A j \in 1 .. Len(f) + Len(g) :
                 (f \o g)[j] = IF j <= Len(f) THEN f[j] ELSE g[j - Len(f)]
    OBVIOUS

\* A search finds an element of the set it looks for.
LEMMA FoundFact ==
    ASSUME NEW S, NEW s \in Seq(S), NEW L, NEW i \in query_head_list(s, L)
    PROVE  i \in 1 .. Len(s) /\ s[i] \in S /\ s[i] \in L
  BY DEF query_head_list

\* Unlinking the node at position i.
LEMMA UnlinkFact ==
    ASSUME NEW S, NEW s \in Seq(S), NEW i \in 1 .. Len(s)
    PROVE  /\ Unlink(s, i) \in Seq(S)
           /\ Len(Unlink(s, i)) = Len(s) - 1
           /\ \A j \in 1 .. Len(s) - 1 :
                 Unlink(s, i)[j] = IF j < i THEN s[j] ELSE s[j + 1]
<1> DEFINE f == SubSeq(s, 1, i - 1)
           g == SubSeq(s, i + 1, Len(s))
<1>1. /\ f \in Seq(S) /\ Len(f) = i - 1
      /\ \A j \in 1 .. i - 1 : f[j] = s[j]
  OBVIOUS
<1>2. /\ g \in Seq(S) /\ Len(g) = Len(s) - i
      /\ \A j \in 1 .. Len(s) - i : g[j] = s[j + i]
  OBVIOUS
<1>3. Unlink(s, i) = f \o g
  BY Zenon DEF Unlink
<1> HIDE DEF f, g
<1>3a. Len(s) \in Nat /\ i \in Nat
  OBVIOUS
<1>4. /\ f \o g \in Seq(S)
      /\ Len(f \o g) = Len(f) + Len(g)
      /\ \A j \in 1 .. Len(f) + Len(g) :
            (f \o g)[j] = IF j <= Len(f) THEN f[j] ELSE g[j - Len(f)]
  BY Zenon, <1>1, <1>2, ConcatFact
<1>5. ASSUME NEW j \in 1 .. Len(s) - 1
      PROVE  (f \o g)[j] = IF j < i THEN s[j] ELSE s[j + 1]
  <2>1. j \in 1 .. Len(f) + Len(g)
    BY <1>1, <1>2, <1>3a
  <2>2. CASE j < i
    BY <1>1, <1>3a, <1>4, <2>1, <2>2
  <2>3. CASE ~(j < i)
    <3>1. /\ j - (i - 1) \in 1 .. Len(s) - i
          /\ (j - (i - 1)) + i = j + 1
          /\ ~(j <= Len(f))
      BY <1>1, <1>3a, <2>3
    <3>2. (f \o g)[j] = g[j - (i - 1)]
      BY Zenon, <1>1, <1>4, <2>1, <3>1
    <3>3. QED
      BY Zenon, <1>2, <2>3, <3>1, <3>2
  <2>4. QED
    BY Zenon, <2>2, <2>3
<1>6. QED
  BY <1>1, <1>2, <1>3, <1>3a, <1>4, <1>5

\* Unlinking the node at position i and inserting it at the head.
LEMMA MoveToHeadFact ==
    ASSUME NEW S, NEW s \in Seq(S), NEW i \in 1 .. Len(s)
    PROVE  LET t == <<s[i]>> \o Unlink(s, i)
           IN  /\ t \in Seq(S)
               /\ Len(t) = Len(s)
               /\ t[1] = s[i]
               /\ \A j \in 2 .. Len(s) :
                     t[j] = IF j <= i THEN s[j - 1] ELSE s[j]
<1> DEFINE f == <<s[i]>>
           g == Unlink(s, i)
<1>1. /\ f \in Seq(S) /\ Len(f) = 1 /\ f[1] = s[i]
      /\ Len(s) \in Nat /\ i \in Nat
  OBVIOUS
<1>2. /\ g \in Seq(S) /\ Len(g) = Len(s) - 1
      /\ \A j \in 1 .. Len(s) - 1 : g[j] = IF j < i THEN s[j] ELSE s[j + 1]
  BY Zenon, UnlinkFact
<1> HIDE DEF f, g
<1>3. /\ f \o g \in Seq(S)
      /\ Len(f \o g) = Len(f) + Len(g)
      /\ \A j \in 1 .. Len(f) + Len(g) :
            (f \o g)[j] = IF j <= Len(f) THEN f[j] ELSE g[j - Len(f)]
  BY Zenon, <1>1, <1>2, ConcatFact
<1>4. ASSUME NEW j \in 2 .. Len(s)
      PROVE  (f \o g)[j] = IF j <= i THEN s[j - 1] ELSE s[j]
  <2>1. /\ j \in 1 .. Len(f) + Len(g) /\ ~(j <= Len(f))
        /\ j - 1 \in 1 .. Len(s) - 1 /\ (j - 1) + 1 = j
        /\ (j - 1 < i <=> j <= i)
    BY <1>1, <1>2
  <2>2. (f \o g)[j] = g[j - 1]
    BY Zenon, <1>1, <1>3, <2>1
  <2>3. QED
    BY Zenon, <1>2, <2>1, <2>2
<1>5. /\ f \o g \in Seq(S) /\ Len(f \o g) = Len(s) /\ (f \o g)[1] = s[i]
  BY <1>1, <1>2, <1>3
<1>6. QED
  BY Zenon, <1>4, <1>5 DEF f, g

\* Neither brings in a new element.
LEMMA RelinkFact ==
    ASSUME NEW S, NEW s \in Seq(S), NEW i \in 1 .. Len(s)
    PROVE  /\ Range(Unlink(s, i)) \subseteq Range(s)
           /\ Range(<<s[i]>> \o Unlink(s, i)) \subseteq Range(s)
<1> DEFINE f == Unlink(s, i)
           g == <<s[i]>> \o Unlink(s, i)
<1>1. /\ Len(s) \in Nat /\ i \in DOMAIN s /\ DOMAIN s = 1 .. Len(s)
      /\ f \in Seq(S) /\ Len(f) = Len(s) - 1
      /\ \A j \in 1 .. Len(s) - 1 : f[j] = IF j < i THEN s[j] ELSE s[j + 1]
      /\ g \in Seq(S) /\ Len(g) = Len(s) /\ g[1] = s[i]
      /\ \A j \in 2 .. Len(s) : g[j] = IF j <= i THEN s[j - 1] ELSE s[j]
  BY UnlinkFact, MoveToHeadFact
<1> HIDE DEF f, g
<1>2. ASSUME NEW j \in DOMAIN f PROVE \E k \in DOMAIN s : f[j] = s[k]
  <2>1. j \in 1 .. Len(s) - 1 /\ j \in DOMAIN s /\ j + 1 \in DOMAIN s
    BY <1>1
  <2>2. QED
    BY Zenon, <1>1, <2>1
<1>3. ASSUME NEW j \in DOMAIN g PROVE \E k \in DOMAIN s : g[j] = s[k]
  <2>1. j \in 1 .. Len(s)
    BY <1>1
  <2>2. CASE j = 1
    BY Zenon, <1>1, <2>2
  <2>3. CASE j # 1
    <3>1. j \in 2 .. Len(s) /\ j - 1 \in DOMAIN s /\ j \in DOMAIN s
      BY <1>1, <2>1, <2>3
    <3>2. QED
      BY Zenon, <1>1, <3>1
  <2>4. QED
    BY Zenon, <2>2, <2>3
<1>4. Range(f) \subseteq Range(s) /\ Range(g) \subseteq Range(s)
  BY <1>2, <1>3 DEF Range
<1>5. QED
  BY Zenon, <1>4 DEF f, g

\* Nor does taking the head, and appending brings in one.
LEMMA QueueRangeFact ==
    ASSUME NEW S, NEW s \in Seq(S)
    PROVE  /\ s # <<>> => Range(Tail(s)) \subseteq Range(s) /\ Head(s) \in Range(s)
           /\ \A x \in S : Range(Append(s, x)) = Range(s) \cup {x}
<1>1. s # <<>> => Range(Tail(s)) \subseteq Range(s) /\ Head(s) \in Range(s)
  <2> SUFFICES ASSUME s # <<>>
               PROVE  Range(Tail(s)) \subseteq Range(s) /\ Head(s) \in Range(s)
    BY Zenon
  <2>1. /\ DOMAIN s = 1 .. Len(s) /\ Len(s) \in Nat \ {0}
        /\ DOMAIN Tail(s) = 1 .. Len(s) - 1 /\ Head(s) = s[1]
        /\ \A j \in 1 .. Len(s) - 1 : Tail(s)[j] = s[j + 1]
    BY TailFact
  <2>2. QED
    BY <2>1 DEF Range
<1>2. ASSUME NEW x \in S PROVE Range(Append(s, x)) = Range(s) \cup {x}
  <2>1. /\ Len(s) \in Nat /\ DOMAIN s = 1 .. Len(s)
        /\ DOMAIN Append(s, x) = 1 .. Len(s) + 1
        /\ \A j \in 1 .. Len(s) : Append(s, x)[j] = s[j]
        /\ Append(s, x)[Len(s) + 1] = x
    BY AppendFact
  <2>2. QED
    BY <2>1 DEF Range
<1>3. QED
  BY Zenon, <1>1, <1>2

-----------------------------------------------------------------------------
(* Counting by enumeration. *)

\* S has n elements.
HasSize(S, n) ==
    \E f \in [1 .. n -> S] : /\ \A s \in S : \E i \in 1 .. n : f[i] = s
                             /\ \A i, j \in 1 .. n : f[i] = f[j] => i = j

\* S has at most n elements.
AtMost(S, n) == \E f \in [S -> 1 .. n] : \A s, t \in S : f[s] = f[t] => s = t

\* Where the elements of E are in a queue or list.
Positions(s, E) == {j \in DOMAIN s : s[j] \in E}

\* An element less, and one more.
LEMMA OneLess ==
    ASSUME NEW S, NEW n \in Nat, HasSize(S, n), NEW p \in S
    PROVE  n - 1 \in Nat /\ HasSize(S \ {p}, n - 1)
<1>1. PICK f \in [1 .. n -> S] :
         /\ \A s \in S : \E i \in 1 .. n : f[i] = s
         /\ \A i, j \in 1 .. n : f[i] = f[j] => i = j
  BY Zenon DEF HasSize
<1>2. PICK k \in 1 .. n : f[k] = p
  BY Zenon, <1>1
<1> DEFINE g == [i \in 1 .. n - 1 |-> IF i = k THEN f[n] ELSE f[i]]
<1>3. n - 1 \in Nat /\ g \in [1 .. n - 1 -> S \ {p}]
  BY <1>1, <1>2
<1>4. \A i, j \in 1 .. n - 1 : g[i] = g[j] => i = j
  BY <1>1, <1>2
<1>5. ASSUME NEW s \in S \ {p} PROVE \E i \in 1 .. n - 1 : g[i] = s
  <2>1. PICK m \in 1 .. n : f[m] = s
    BY Zenon, <1>1
  <2>2. CASE m = n
    BY <1>2, <2>1, <2>2
  <2>3. CASE m # n
    BY <1>2, <2>1, <2>3
  <2>4. QED
    BY Zenon, <2>2, <2>3
<1>6. QED
  BY Zenon, <1>3, <1>4, <1>5 DEF HasSize

\* Only the empty set has no element.
LEMMA SizeZero == ASSUME NEW S, NEW n \in Nat, HasSize(S, n) PROVE n = 0 <=> S = {}
  BY DEF HasSize

\* A set with one element more.
LEMMA OneMore ==
    ASSUME NEW S, NEW n \in Nat, HasSize(S, n), NEW x, x \notin S
    PROVE  n + 1 \in Nat /\ HasSize(S \cup {x}, n + 1)
<1>1. PICK f \in [1 .. n -> S] :
         /\ \A s \in S : \E i \in 1 .. n : f[i] = s
         /\ \A i, j \in 1 .. n : f[i] = f[j] => i = j
  BY Zenon DEF HasSize
<1> DEFINE g == [i \in 1 .. n + 1 |-> IF i = n + 1 THEN x ELSE f[i]]
<1>2. g \in [1 .. n + 1 -> S \cup {x}]
  BY <1>1
<1>3. \A i, j \in 1 .. n + 1 : g[i] = g[j] => i = j
  BY <1>1
<1>4. \A s \in S \cup {x} : \E i \in 1 .. n + 1 : g[i] = s
  <2>1. g[n + 1] = x /\ n + 1 \in 1 .. n + 1
    OBVIOUS
  <2>2. \A i \in 1 .. n : i \in 1 .. n + 1 /\ g[i] = f[i]
    OBVIOUS
  <2>3. QED
    BY Zenon, <1>1, <2>1, <2>2
<1>5. HasSize(S \cup {x}, n + 1)
  BY Zenon, <1>2, <1>3, <1>4 DEF HasSize
<1>6. QED
  BY <1>5

\* A renaming leaves the number of elements as it is.
LEMMA Renamed ==
    ASSUME NEW S, NEW T, NEW n \in Nat, HasSize(S, n), NEW h \in [S -> T],
           \A s, t \in S : h[s] = h[t] => s = t, \A t \in T : \E s \in S : h[s] = t
    PROVE  HasSize(T, n)
<1>1. PICK f \in [1 .. n -> S] :
         /\ \A s \in S : \E i \in 1 .. n : f[i] = s
         /\ \A i, j \in 1 .. n : f[i] = f[j] => i = j
  BY Zenon DEF HasSize
<1> DEFINE g == [i \in 1 .. n |-> h[f[i]]]
<1>2. g \in [1 .. n -> T] /\ \A i, j \in 1 .. n : g[i] = g[j] => i = j
  BY Zenon, <1>1
<1>3. \A t \in T : \E i \in 1 .. n : g[i] = t
  BY <1>1
<1>4. QED
  BY Zenon, <1>2, <1>3 DEF HasSize

\* A subset has no more elements, and a larger bound is a bound.
LEMMA Fewer ==
    ASSUME NEW S, NEW T \in SUBSET S, NEW n \in Nat, NEW m \in Nat, n <= m, AtMost(S, n)
    PROVE  AtMost(T, m)
<1>1. PICK f \in [S -> 1 .. n] : \A s, t \in S : f[s] = f[t] => s = t
  BY Zenon DEF AtMost
<1>2. [t \in T |-> f[t]] \in [T -> 1 .. m]
  BY <1>1
<1>3. QED
  BY Zenon, <1>1, <1>2 DEF AtMost

\* One element more needs a bound of one more.
LEMMA AtMostOneMore ==
    ASSUME NEW S, NEW x, NEW n \in Nat, AtMost(S, n)
    PROVE  AtMost(S \cup {x}, n + 1)
<1>1. PICK f \in [S -> 1 .. n] : \A s, t \in S : f[s] = f[t] => s = t
  BY Zenon DEF AtMost
<1> DEFINE g == [s \in S \cup {x} |-> IF s \in S THEN f[s] ELSE n + 1]
<1>2. g \in [S \cup {x} -> 1 .. n + 1]
  BY <1>1
<1>3. \A s, t \in S \cup {x} : g[s] = g[t] => s = t
  BY <1>1
<1>4. QED
  BY Zenon, <1>2, <1>3 DEF AtMost

\* The first message of a queue is taken.
LEMMA TailCount ==
    ASSUME NEW S, NEW s \in Seq(S), s # <<>>, NEW E, NEW n \in Nat,
           HasSize(Positions(s, E), n)
    PROVE  /\ Head(s) \in E => n - 1 \in Nat /\ HasSize(Positions(Tail(s), E), n - 1)
           /\ Head(s) \notin E => HasSize(Positions(Tail(s), E), n)
<1> DEFINE P == Positions(s, E)
           T == Positions(Tail(s), E)
           h == [j \in P \ {1} |-> j - 1]
<1>1. /\ DOMAIN s = 1 .. Len(s) /\ Len(s) \in Nat \ {0} /\ Head(s) = s[1]
      /\ DOMAIN Tail(s) = 1 .. Len(s) - 1
      /\ \A j \in 1 .. Len(s) - 1 : Tail(s)[j] = s[j + 1]
  BY TailFact
<1>2. 1 \in P <=> Head(s) \in E
  BY <1>1 DEF Positions
<1>3. /\ \A j \in P \ {1} : j \in Nat /\ j - 1 \in T
      /\ \A j \in T : j \in Nat /\ j + 1 \in P \ {1}
  BY <1>1 DEF Positions
<1> HIDE DEF P, T
<1>4. /\ h \in [P \ {1} -> T]
      /\ \A i, j \in P \ {1} : h[i] = h[j] => i = j
      /\ \A t \in T : \E j \in P \ {1} : h[j] = t
  BY <1>3
<1> HIDE DEF h
<1>5. CASE Head(s) \in E
  <2>1. n - 1 \in Nat /\ HasSize(P \ {1}, n - 1)
    BY Zenon, <1>2, <1>5, OneLess DEF P
  <2>2. HasSize(T, n - 1)
    BY <1>4, <2>1, Renamed
  <2>3. QED
    BY Zenon, <1>5, <2>1, <2>2 DEF T
<1>6. CASE Head(s) \notin E
  <2>1. P \ {1} = P /\ HasSize(P, n)
    BY Zenon, <1>2, <1>6 DEF P
  <2>2. HasSize(P \ {1}, n)
    BY Zenon, <2>1
  <2>3. HasSize(T, n)
    BY <1>4, <2>2, Renamed
  <2>4. QED
    BY Zenon, <1>6, <2>3 DEF T
<1>7. QED
  BY Zenon, <1>5, <1>6

\* A message is put into a queue, or a page into the list.
LEMMA AppendCount ==
    ASSUME NEW S, NEW s \in Seq(S), NEW x \in S, NEW E, NEW n \in Nat,
           HasSize(Positions(s, E), n)
    PROVE  /\ x \in E => HasSize(Positions(Append(s, x), E), n + 1)
           /\ x \notin E => HasSize(Positions(Append(s, x), E), n)
<1>1. /\ DOMAIN s = 1 .. Len(s) /\ Len(s) \in Nat
      /\ DOMAIN Append(s, x) = 1 .. Len(s) + 1
      /\ \A j \in 1 .. Len(s) : Append(s, x)[j] = s[j]
      /\ Append(s, x)[Len(s) + 1] = x
  BY AppendFact
<1>2. Len(s) + 1 \notin Positions(s, E)
  BY <1>1 DEF Positions
<1>3. x \in E => Positions(Append(s, x), E) = Positions(s, E) \cup {Len(s) + 1}
  BY <1>1 DEF Positions
<1>4. x \notin E => Positions(Append(s, x), E) = Positions(s, E)
  BY <1>1 DEF Positions
<1>5. QED
  BY <1>2, <1>3, <1>4, OneMore

\* The page of a node is unlinked, or moved to the head of the list.
LEMMA UnlinkCount ==
    ASSUME NEW S, NEW s \in Seq(S), NEW i \in 1 .. Len(s), NEW E, NEW n \in Nat,
           HasSize(Positions(s, E), n)
    PROVE  /\ s[i] \in E =>
                 n - 1 \in Nat /\ HasSize(Positions(Unlink(s, i), E), n - 1)
           /\ s[i] \notin E => HasSize(Positions(Unlink(s, i), E), n)
<1> DEFINE P == Positions(s, E)
           T == Positions(Unlink(s, i), E)
           h == [j \in P \ {i} |-> IF j < i THEN j ELSE j - 1]
<1>1. /\ DOMAIN s = 1 .. Len(s) /\ Len(s) \in Nat \ {0} /\ i \in 1 .. Len(s)
      /\ DOMAIN Unlink(s, i) = 1 .. Len(s) - 1
      /\ \A j \in 1 .. Len(s) - 1 : Unlink(s, i)[j] = IF j < i THEN s[j] ELSE s[j + 1]
  BY UnlinkFact
<1>2. i \in P <=> s[i] \in E
  BY Zenon, <1>1 DEF Positions
<1>3. /\ \A j \in P \ {i} : j \in Nat /\ (IF j < i THEN j ELSE j - 1) \in T
      /\ \A j \in T : j \in Nat /\ (IF j < i THEN j ELSE j + 1) \in P \ {i}
  BY <1>1 DEF Positions
<1> HIDE DEF P, T
<1>4. /\ h \in [P \ {i} -> T]
      /\ \A k, j \in P \ {i} : h[k] = h[j] => k = j
      /\ \A t \in T : \E j \in P \ {i} : h[j] = t
  BY <1>3
<1> HIDE DEF h
<1>5. CASE s[i] \in E
  <2>1. n - 1 \in Nat /\ HasSize(P \ {i}, n - 1)
    BY Zenon, <1>2, <1>5, OneLess DEF P
  <2>2. HasSize(T, n - 1)
    BY <1>4, <2>1, Renamed
  <2>3. QED
    BY Zenon, <1>5, <2>1, <2>2 DEF T
<1>6. CASE s[i] \notin E
  <2>1. P \ {i} = P /\ HasSize(P, n)
    BY Zenon, <1>2, <1>6 DEF P
  <2>2. HasSize(P \ {i}, n)
    BY Zenon, <2>1
  <2>3. HasSize(T, n)
    BY <1>4, <2>2, Renamed
  <2>4. QED
    BY Zenon, <1>6, <2>3 DEF T
<1>7. QED
  BY Zenon, <1>5, <1>6

\* Moving a node to the head of the list changes no number.
LEMMA ToHeadCount ==
    ASSUME NEW S, NEW s \in Seq(S), NEW i \in 1 .. Len(s), NEW E, NEW n \in Nat,
           HasSize(Positions(s, E), n)
    PROVE  HasSize(Positions(<<s[i]>> \o Unlink(s, i), E), n)
<1> DEFINE t == <<s[i]>> \o Unlink(s, i)
           P == Positions(s, E)
           T == Positions(t, E)
           h == [j \in P |-> IF j = i THEN 1 ELSE IF j < i THEN j + 1 ELSE j]
<1>1. /\ DOMAIN s = 1 .. Len(s) /\ Len(s) \in Nat \ {0} /\ i \in 1 .. Len(s)
      /\ DOMAIN t = 1 .. Len(s) /\ t[1] = s[i]
      /\ \A j \in 2 .. Len(s) : t[j] = IF j <= i THEN s[j - 1] ELSE s[j]
  BY MoveToHeadFact
<1> HIDE DEF t
<1>2. h \in [P -> T]
  BY <1>1 DEF Positions
<1>3. \A k, j \in P : h[k] = h[j] => k = j
  BY <1>1 DEF Positions
<1>4. ASSUME NEW k \in T PROVE \E j \in P : h[j] = k
  <2>1. /\ k \in 1 .. Len(s)
        /\ (IF k = 1 THEN i ELSE IF k <= i THEN k - 1 ELSE k) \in P
    BY <1>1 DEF Positions
  <2>2. QED
    BY <1>1, <2>1
<1> HIDE DEF P, T, h
<1>5. QED
  BY <1>2, <1>3, <1>4, Renamed DEF P, T, t

\* The listed pages in L are as many as the results in E that are queued and
\* those that are still to come.
Balanced(q, s, E, L, air) ==
    \E n \in Nat : HasSize(Positions(q, E), n) /\ HasSize(Positions(s, L), n + air)

\* What a change of the queue does to the balance.
LEMMA QueueBalance ==
    ASSUME NEW M, NEW q \in Seq(M), NEW s, NEW E, NEW L, NEW air \in Nat,
           Balanced(q, s, E, L, air)
    PROVE  /\ \A e \in M : e \notin E => Balanced(Append(q, e), s, E, L, air)
           /\ \A e \in M : e \in E /\ air # 0 => Balanced(Append(q, e), s, E, L, air - 1)
           /\ q # <<>> /\ Head(q) \notin E => Balanced(Tail(q), s, E, L, air)
           /\ q # <<>> /\ Head(q) \in E => /\ Balanced(Tail(q), s, E, L, air + 1)
                                           /\ \E j \in DOMAIN s : s[j] \in L
<1>1. PICK n \in Nat : HasSize(Positions(q, E), n) /\ HasSize(Positions(s, L), n + air)
  BY Zenon DEF Balanced
<1>2. ASSUME NEW e \in M
      PROVE  /\ e \notin E => Balanced(Append(q, e), s, E, L, air)
             /\ e \in E /\ air # 0 => Balanced(Append(q, e), s, E, L, air - 1)
  <2>1. n + 1 \in Nat /\ n + 1 + (air - 1) = n + air
    OBVIOUS
  <2>2. HasSize(Positions(s, L), n + 1 + (air - 1))
    BY Zenon, <1>1, <2>1
  <2>3. e \notin E => HasSize(Positions(Append(q, e), E), n)
    BY Zenon, <1>1, AppendCount
  <2>4. e \in E => HasSize(Positions(Append(q, e), E), n + 1)
    BY Zenon, <1>1, AppendCount
  <2>5. QED
    BY Zenon, <1>1, <2>1, <2>2, <2>3, <2>4 DEF Balanced
<1>3. ASSUME q # <<>>, Head(q) \notin E PROVE Balanced(Tail(q), s, E, L, air)
  <2>1. HasSize(Positions(Tail(q), E), n)
    BY Zenon, <1>1, <1>3, TailCount
  <2>2. QED
    BY Zenon, <1>1, <2>1 DEF Balanced
<1>4. ASSUME q # <<>>, Head(q) \in E
      PROVE  Balanced(Tail(q), s, E, L, air + 1) /\ \E j \in DOMAIN s : s[j] \in L
  <2>1. n - 1 \in Nat /\ HasSize(Positions(Tail(q), E), n - 1)
    BY Zenon, <1>1, <1>4, TailCount
  <2>2. n - 1 + (air + 1) = n + air /\ n + air \in Nat /\ n + air # 0
    BY <2>1
  <2>3. HasSize(Positions(s, L), n - 1 + (air + 1))
    BY Zenon, <1>1, <2>2
  <2>4. Balanced(Tail(q), s, E, L, air + 1)
    BY Zenon, <2>1, <2>3 DEF Balanced
  <2>5. Positions(s, L) # {}
    BY Zenon, <1>1, <2>2, SizeZero
  <2>6. QED
    BY Zenon, <2>4, <2>5 DEF Positions
<1>5. QED
  BY Zenon, <1>2, <1>3, <1>4

\* What a change of the list does to it.
LEMMA ListBalance ==
    ASSUME NEW M, NEW s \in Seq(M), NEW q, NEW E, NEW L, NEW air \in Nat,
           Balanced(q, s, E, L, air)
    PROVE  /\ \A p \in M : /\ p \in L => Balanced(q, Append(s, p), E, L, air + 1)
                           /\ p \notin L => Balanced(q, Append(s, p), E, L, air)
           /\ \A i \in 1 .. Len(s) :
                 /\ s[i] \in L /\ air # 0 => Balanced(q, Unlink(s, i), E, L, air - 1)
                 /\ s[i] \notin L => Balanced(q, Unlink(s, i), E, L, air)
                 /\ Balanced(q, <<s[i]>> \o Unlink(s, i), E, L, air)
<1>1. PICK n \in Nat : HasSize(Positions(q, E), n) /\ HasSize(Positions(s, L), n + air)
  BY Zenon DEF Balanced
<1>2. /\ n + air \in Nat /\ n + (air + 1) = n + air + 1
      /\ n + (air - 1) = n + air - 1
  OBVIOUS
<1>3. ASSUME NEW p \in M
      PROVE  /\ p \in L => Balanced(q, Append(s, p), E, L, air + 1)
             /\ p \notin L => Balanced(q, Append(s, p), E, L, air)
  <2>1. /\ p \in L => HasSize(Positions(Append(s, p), L), n + air + 1)
        /\ p \notin L => HasSize(Positions(Append(s, p), L), n + air)
    BY Zenon, <1>1, <1>2, AppendCount
  <2>2. p \in L => HasSize(Positions(Append(s, p), L), n + (air + 1))
    BY Zenon, <1>2, <2>1
  <2>3. QED
    BY Zenon, <1>1, <2>1, <2>2 DEF Balanced
<1>4. ASSUME NEW i \in 1 .. Len(s)
      PROVE  /\ s[i] \in L /\ air # 0 => Balanced(q, Unlink(s, i), E, L, air - 1)
             /\ s[i] \notin L => Balanced(q, Unlink(s, i), E, L, air)
             /\ Balanced(q, <<s[i]>> \o Unlink(s, i), E, L, air)
  <2>1. /\ s[i] \in L => HasSize(Positions(Unlink(s, i), L), n + air - 1)
        /\ s[i] \notin L => HasSize(Positions(Unlink(s, i), L), n + air)
    BY <1>1, <1>2, UnlinkCount
  <2>2. s[i] \in L => HasSize(Positions(Unlink(s, i), L), n + (air - 1))
    BY Zenon, <1>2, <2>1
  <2>3. HasSize(Positions(<<s[i]>> \o Unlink(s, i), L), n + air)
    BY Zenon, <1>1, <1>2, ToHeadCount
  <2>4. QED
    BY Zenon, <1>1, <2>1, <2>2, <2>3 DEF Balanced
<1>5. QED
  BY Zenon, <1>3, <1>4

\* The results in E that are queued and the pages in C are together covered by
\* a acknowledgements.
Covered(q, C, E, a) ==
    \E n \in Nat : n <= a /\ HasSize(Positions(q, E), n) /\ AtMost(C, a - n)

\* What it takes to be covered.
LEMMA CoverIntro ==
    ASSUME NEW q, NEW C, NEW E, NEW a, NEW n \in Nat, n <= a,
           HasSize(Positions(q, E), n), AtMost(C, a - n)
    PROVE  Covered(q, C, E, a)
  BY Zenon DEF Covered

\* What posting or taking a result, or crediting a page, does to it.
LEMMA CoverFact ==
    ASSUME NEW M, NEW q \in Seq(M), NEW C, NEW D \in SUBSET C, NEW E, NEW a \in Nat,
           Covered(q, C, E, a)
    PROVE  /\ Covered(q, D, E, a) /\ Covered(q, D, E, a + 1)
           /\ \A e \in M : /\ e \notin E => Covered(Append(q, e), D, E, a)
                           /\ Covered(Append(q, e), D, E, a + 1)
           /\ q # <<>> => Covered(Tail(q), D, E, a)
           /\ q # <<>> /\ Head(q) \in E => \A p : Covered(Tail(q), C \cup {p}, E, a)
<1>1. PICK n \in Nat : n <= a /\ HasSize(Positions(q, E), n) /\ AtMost(C, a - n)
  BY Zenon DEF Covered
<1>2. PICK b \in Nat, k \in Nat :
         /\ b = a + 1 /\ k = n + 1 /\ n <= b /\ k <= b /\ a - n \in Nat /\ b - n \in Nat
         /\ b - k = a - n /\ a - n <= b - n
  BY <1>1
<1>3. AtMost(D, a - n) /\ AtMost(D, b - n)
  BY <1>1, <1>2, Fewer
<1>4. AtMost(D, b - k)
  BY Zenon, <1>2, <1>3
<1>5. Covered(q, D, E, a) /\ Covered(q, D, E, b)
  BY Zenon, <1>1, <1>2, <1>3, CoverIntro
<1>6. ASSUME NEW e \in M
      PROVE  (e \notin E => Covered(Append(q, e), D, E, a)) /\ Covered(Append(q, e), D, E, b)
  <2>1. /\ e \in E => HasSize(Positions(Append(q, e), E), k)
        /\ e \notin E => HasSize(Positions(Append(q, e), E), n)
    BY Zenon, <1>1, <1>2, AppendCount
  <2>2. CASE e \in E
    BY Zenon, <1>2, <1>4, <2>1, <2>2, CoverIntro
  <2>3. CASE e \notin E
    BY Zenon, <1>1, <1>2, <1>3, <2>1, <2>3, CoverIntro
  <2>4. QED
    BY Zenon, <2>2, <2>3
<1>7. ASSUME q # <<>>, Head(q) \notin E PROVE Covered(Tail(q), D, E, a)
  <2>1. HasSize(Positions(Tail(q), E), n)
    BY Zenon, <1>1, <1>7, TailCount
  <2>2. QED
    BY Zenon, <1>1, <1>3, <2>1, CoverIntro
<1>8. ASSUME q # <<>>, Head(q) \in E
      PROVE  Covered(Tail(q), D, E, a) /\ \A p : Covered(Tail(q), C \cup {p}, E, a)
  <2>1. n - 1 \in Nat /\ HasSize(Positions(Tail(q), E), n - 1)
    BY Zenon, <1>1, <1>8, TailCount
  <2>2. n - 1 <= a /\ a - (n - 1) = a - n + 1 /\ a - n <= a - (n - 1) /\ a - (n - 1) \in Nat
    BY <1>1, <2>1
  <2>3. AtMost(D, a - (n - 1))
    BY Zenon, <1>1, <1>2, <2>2, Fewer
  <2>4. ASSUME NEW p PROVE AtMost(C \cup {p}, a - (n - 1))
    BY Zenon, <1>1, <1>2, <2>2, AtMostOneMore
  <2>5. QED
    BY Zenon, <2>1, <2>2, <2>3, <2>4, CoverIntro
<1>9. QED
  BY Zenon, <1>2, <1>5, <1>6, <1>7, <1>8

-----------------------------------------------------------------------------
(* Queues and lists whose elements are held once. *)

\* Taking the head of a queue keeps the rest held once, if only the page that
\* the head pointed to has moved.
LEMMA EntriesTail ==
    ASSUME NEW E, NEW s \in Seq(E), s # <<>>, NEW h, NEW g, NEW place,
           EntriesOnce(s, h, place),
           \A i \in DOMAIN s : s[i].page \notin {None, Head(s).page} =>
                                   g[s[i].page] = h[s[i].page]
    PROVE  EntriesOnce(Tail(s), g, place)
<1>1. /\ Len(s) \in Nat \ {0} /\ Len(Tail(s)) = Len(s) - 1
      /\ Head(s) = s[1] /\ DOMAIN s = 1 .. Len(s)
      /\ DOMAIN Tail(s) = 1 .. Len(s) - 1
      /\ \A j \in 1 .. Len(s) - 1 : Tail(s)[j] = s[j + 1]
  BY TailFact
<1>2. QED
  BY <1>1 DEF EntriesOnce

\* Appending an entry whose page, if it has one, was held elsewhere.
LEMMA EntriesAppend ==
    ASSUME NEW E, NEW s \in Seq(E), NEW e \in E, NEW h, NEW g, NEW place,
           EntriesOnce(s, h, place),
           e.page # None => h[e.page] # place /\ g[e.page] = place,
           \A i \in DOMAIN s : s[i].page \notin {None, e.page} =>
                                   g[s[i].page] = h[s[i].page]
    PROVE  EntriesOnce(Append(s, e), g, place)
<1>1. /\ Len(s) \in Nat /\ Len(Append(s, e)) = Len(s) + 1
      /\ DOMAIN s = 1 .. Len(s)
      /\ DOMAIN Append(s, e) = 1 .. Len(s) + 1
      /\ \A j \in 1 .. Len(s) : Append(s, e)[j] = s[j]
      /\ Append(s, e)[Len(s) + 1] = e
  BY AppendFact
<1>2. QED
  BY <1>1 DEF EntriesOnce

\* A queue is not disturbed by a page that moves elsewhere.
LEMMA EntriesKeep ==
    ASSUME NEW s, NEW h, NEW g, NEW place, EntriesOnce(s, h, place),
           \A i \in DOMAIN s : s[i].page # None /\ h[s[i].page] = place
                                   => g[s[i].page] = place
    PROVE  EntriesOnce(s, g, place)
  BY Zenon DEF EntriesOnce

\* The first node of a list is held by the list.
LEMMA HeadHeld ==
    ASSUME NEW S, NEW s \in Seq(S), s # <<>>, NEW h, NEW place, NodesOnce(s, h, place)
    PROVE  Head(s) \in S /\ h[Head(s)] = place
<1>1. 1 \in DOMAIN s /\ Head(s) = s[1] /\ Head(s) \in S
  BY TailFact
<1>2. QED
  BY Zenon, <1>1 DEF NodesOnce

\* A list holds the pages it is recorded to hold after its head is taken.
LEMMA NodesTail ==
    ASSUME NEW S, NEW s \in Seq(S), s # <<>>, NEW h, NEW g, NEW place,
           NodesOnce(s, h, place),
           \A i \in DOMAIN s : s[i] # Head(s) => g[s[i]] = h[s[i]]
    PROVE  NodesOnce(Tail(s), g, place)
<1>1. /\ Len(s) \in Nat \ {0} /\ Len(Tail(s)) = Len(s) - 1
      /\ Head(s) = s[1] /\ DOMAIN s = 1 .. Len(s)
      /\ DOMAIN Tail(s) = 1 .. Len(s) - 1
      /\ \A j \in 1 .. Len(s) - 1 : Tail(s)[j] = s[j + 1]
  BY TailFact
<1>2. QED
  BY <1>1 DEF NodesOnce

\* So it does after a page is appended.
LEMMA NodesAppend ==
    ASSUME NEW S, NEW s \in Seq(S), NEW p \in S, NEW h, NEW g, NEW place,
           NodesOnce(s, h, place),
           h[p] # place, g[p] = place,
           \A i \in DOMAIN s : s[i] # p => g[s[i]] = h[s[i]]
    PROVE  NodesOnce(Append(s, p), g, place)
<1>1. /\ Len(s) \in Nat /\ Len(Append(s, p)) = Len(s) + 1
      /\ DOMAIN s = 1 .. Len(s)
      /\ DOMAIN Append(s, p) = 1 .. Len(s) + 1
      /\ \A j \in 1 .. Len(s) : Append(s, p)[j] = s[j]
      /\ Append(s, p)[Len(s) + 1] = p
  BY AppendFact
<1>2. QED
  BY <1>1 DEF NodesOnce

\* So it does after the node at i is removed.
LEMMA NodesRemove ==
    ASSUME NEW S, NEW s \in Seq(S), NEW i \in DOMAIN s, NEW h, NEW g,
           NEW place, NodesOnce(s, h, place),
           \A j \in DOMAIN s : s[j] # s[i] => g[s[j]] = h[s[j]]
    PROVE  NodesOnce(Unlink(s, i), g, place)
<1>1. /\ Len(s) \in Nat /\ DOMAIN s = 1 .. Len(s) /\ i \in 1 .. Len(s)
      /\ DOMAIN Unlink(s, i) = 1 .. Len(s) - 1
      /\ \A j \in 1 .. Len(s) - 1 :
            Unlink(s, i)[j] = IF j < i THEN s[j] ELSE s[j + 1]
  BY UnlinkFact
<1>2. QED
  BY <1>1 DEF NodesOnce

\* So it does after the node at i is moved to the head.
LEMMA NodesToHead ==
    ASSUME NEW S, NEW s \in Seq(S), NEW i \in DOMAIN s, NEW h, NEW place,
           NodesOnce(s, h, place)
    PROVE  NodesOnce(<<s[i]>> \o Unlink(s, i), h, place)
<1> DEFINE t == <<s[i]>> \o Unlink(s, i)
<1>1. /\ Len(s) \in Nat /\ DOMAIN s = 1 .. Len(s) /\ i \in 1 .. Len(s)
      /\ DOMAIN t = 1 .. Len(s)
      /\ t[1] = s[i]
      /\ \A j \in 2 .. Len(s) : t[j] = IF j <= i THEN s[j - 1] ELSE s[j]
  BY MoveToHeadFact
<1> HIDE DEF t
<1>2. NodesOnce(t, h, place)
  BY <1>1 DEF NodesOnce
<1>3. QED
  BY Zenon, <1>2 DEF t

\* So it does while pages move between other places.
LEMMA NodesKeep ==
    ASSUME NEW s, NEW h, NEW g, NEW place, NodesOnce(s, h, place),
           \A i \in DOMAIN s : h[s[i]] = place => g[s[i]] = place
    PROVE  NodesOnce(s, g, place)
  BY Zenon DEF NodesOnce

-----------------------------------------------------------------------------
(* The constants. *)

\* The three kinds of page are disjoint.
LEMMA PageKinds ==
    /\ \A r \in Request : /\ PagesOf(r) \subseteq Page
                          /\ PagesOf(r) \subseteq ServerPage
                          /\ DOMAIN Segments[r] = 1 .. Len(Segments[r])
    /\ ServerPage \subseteq Page
    /\ \A p \in ServerPage : requestOf(p) \in Request /\ p \in PagesOf(requestOf(p))
    /\ \A p \in Page : p \in Forward => p \notin Ota /\ ~IsRadio(p)
    /\ \A p \in Ota : ~IsRadio(p) /\ p \notin Unicast
    /\ \A p \in Page : p \notin Ota /\ ~IsRadio(p) <=> p \in Unicast
<1>1. \A r \in Request : /\ PagesOf(r) \subseteq Page
                         /\ PagesOf(r) \subseteq ServerPage
                         /\ DOMAIN Segments[r] = 1 .. Len(Segments[r])
  <2> SUFFICES ASSUME NEW r \in Request
               PROVE  /\ PagesOf(r) \subseteq Page
                      /\ PagesOf(r) \subseteq ServerPage
                      /\ DOMAIN Segments[r] = 1 .. Len(Segments[r])
    BY Zenon
  <2>1. Segments[r] \in Seq(Page)
    BY Zenon, PageAssumption
  <2>2. PagesOf(r) \subseteq Page
    BY <2>1 DEF PagesOf, Range
  <2>3. QED
    BY <2>1, <2>2 DEF ServerPage
<1>2. ServerPage \subseteq Page
  BY Zenon, <1>1 DEF ServerPage
<1>3. ASSUME NEW p \in ServerPage
      PROVE  requestOf(p) \in Request /\ p \in PagesOf(requestOf(p))
  <2>1. PICK r \in Request : p \in PagesOf(r)
    BY Zenon DEF ServerPage
  <2>2. QED
    BY Zenon, <2>1 DEF requestOf
<1>4. \A p \in Page : p \in Forward => p \notin Ota /\ ~IsRadio(p)
  BY Zenon, PageAssumption DEF IsRadio
<1>5. \A p \in Ota : ~IsRadio(p) /\ p \notin Unicast
  BY Zenon, PageAssumption DEF IsRadio, Unicast
<1>6. \A p \in Page : p \notin Ota /\ ~IsRadio(p) <=> p \in Unicast
  BY Zenon DEF Unicast
<1>7. QED
  BY Zenon, <1>1, <1>2, <1>3, <1>4, <1>5, <1>6

\* The requests of different packets, and the pages of different requests,
\* are disjoint.
LEMMA RequestKinds ==
    /\ \A r, q \in Request : r # q => PagesOf(r) \cap PagesOf(q) = {}
    /\ \A k \in Packet : /\ Range(Destinations[k]) \subseteq Request
                         /\ Destinations[k] \in Seq(Request)
                         /\ IsInjective(Destinations[k])
    /\ \A k, l \in Packet :
          k # l => Range(Destinations[k]) \cap Range(Destinations[l]) = {}
<1>1. \A k \in Packet : Range(Destinations[k]) \subseteq Request
  <2> SUFFICES ASSUME NEW k \in Packet
               PROVE  Range(Destinations[k]) \subseteq Request
    BY Zenon
  <2>1. Destinations[k] \in Seq(Request)
    BY Zenon, PageAssumption
  <2>2. QED
    BY <2>1 DEF Range
<1>2. \A r, q \in Request : r # q => PagesOf(r) \cap PagesOf(q) = {}
  BY Zenon, PageAssumption
<1>3. \A k \in Packet : Destinations[k] \in Seq(Request) /\ IsInjective(Destinations[k])
  BY Zenon, PageAssumption
<1>4. \A k, l \in Packet :
          k # l => Range(Destinations[k]) \cap Range(Destinations[l]) = {}
  BY Zenon, PageAssumption
<1>5. QED
  BY Zenon, <1>1, <1>2, <1>3, <1>4

-----------------------------------------------------------------------------
(* Types. *)

\* The firmware starts with empty queues and counters at zero.
LEMMA TypeInit == Init => TypeOK
<1> SUFFICES ASSUME Init PROVE TypeOK
  BY Zenon
<1>1. networkQueue \in Seq(Response) /\ Len(networkQueue) = 1
  BY DEF Init, NetworkEntry, Response
<1>2. /\ headState \in [Page -> 0 .. MANAGER_MAX_SEND_NUM]
      /\ reported \in [Page -> State]
  BY BoundAssumption DEF Init, State, MANAGER_SEND_DEFAULT
<1>3. /\ holder \in [Page -> Place]
      /\ phase \in {"scanning", "running", "leaving"}
      /\ lossy \in BOOLEAN /\ unsaid \in BOOLEAN /\ heard \in BOOLEAN
  BY Zenon DEF Init, Place
<1>4. /\ operationQueue \in Seq(OperationMessage) /\ Len(operationQueue) = 0
      /\ logicQueue \in Seq(LogicMessage) /\ Len(logicQueue) = 0
      /\ sendList \in Seq(Page) /\ toSend \in Seq(Page)
      /\ toServe \in Seq(Request) /\ answers \in [Request -> Seq(State)]
  BY DEF Init
<1>5. QED
  BY <1>1, <1>2, <1>3, <1>4, BoundAssumption DEF Init, TypeOK

\* to_network_data never overfills the queue of the network task.
LEMMA PostNetworkType ==
    ASSUME TypeOK, NEW e \in Response, to_network_data(e)
    PROVE  /\ networkQueue' \in Seq(Response)
           /\ Len(networkQueue') <= NetworkCap
           /\ unsaid' \in BOOLEAN
<1>1. /\ Append(networkQueue, e) \in Seq(Response)
      /\ Len(Append(networkQueue, e)) = Len(networkQueue) + 1
      /\ Len(networkQueue) \in Nat
      /\ networkQueue \in Seq(Response) /\ Len(networkQueue) <= NetworkCap
      /\ NetworkCap \in Nat
  BY AppendFact, BoundAssumption DEF TypeOK
<1>2. unsaid' \in BOOLEAN
  BY Zenon DEF TypeOK, to_network_data
<1>3. /\ networkQueue' \in Seq(Response)
      /\ Len(networkQueue') <= NetworkCap
  BY <1>1 DEF to_network_data, NetworkRoom
<1>4. QED
  BY Zenon, <1>2, <1>3

\* What a task knows of the message it takes.
LEMMA LogicTaken ==
    ASSUME TypeOK, QueueKinds, NEW cmd, LogicReady(cmd)
    PROVE  LET e == Head(logicQueue) IN
           /\ logicQueue' \in Seq(LogicMessage)
           /\ Len(logicQueue') <= LogicCap
           /\ logicQueue # <<>> /\ 1 \in DOMAIN logicQueue
           /\ e = logicQueue[1] /\ e.cmd = cmd
           /\ e.page \in Page \cup {None} /\ e.packet \in Packet \cup {None}
           /\ cmd = "SEND_RESULT" =>
                /\ e.page \in Page /\ ~IsRadio(e.page)
                /\ headState[e.page] \in State
                /\ e.page \in Unicast => headState[e.page] \in Verdict
           /\ cmd = "RECV_WIOTA_DATA" =>
                /\ e.page \in Forward \cup {None}
                /\ e.page # None => tries[e.page] = 0 /\ headState[e.page] = 0
           /\ cmd \in {"WIOTA_START", "FROM_NETWORK", "FROM_HTTP"} =>
                e.page = None
           /\ cmd = "FROM_NETWORK" => e.packet \in Packet
<1>1. /\ logicQueue # <<>> /\ logicQueue' = Tail(logicQueue)
      /\ Head(logicQueue).cmd = cmd
  BY Zenon DEF LogicReady
<1>2. /\ logicQueue \in Seq(LogicMessage) /\ Len(logicQueue) <= LogicCap
      /\ LogicCap \in Nat
  BY Zenon, BoundAssumption DEF TypeOK
<1>3. /\ logicQueue' \in Seq(LogicMessage) /\ Len(logicQueue') <= LogicCap
      /\ Head(logicQueue) = logicQueue[1] /\ Head(logicQueue) \in LogicMessage
      /\ 1 \in DOMAIN logicQueue
  BY <1>1, <1>2, TailFact
<1>4. /\ Head(logicQueue).page \in Page \cup {None}
      /\ Head(logicQueue).packet \in Packet \cup {None}
  BY Zenon, <1>3 DEF LogicMessage
<1>5. QED
  BY Zenon, <1>1, <1>3, <1>4 DEF QueueKinds, LogicKind

\* The message manager_operation takes has the shape its command promises.
LEMMA OperationTaken ==
    ASSUME TypeOK, QueueKinds, NEW cmd, OperationReady(cmd)
    PROVE  LET e == Head(operationQueue) IN
           /\ operationQueue' \in Seq(OperationMessage)
           /\ Len(operationQueue') <= OperationCap
           /\ operationQueue # <<>> /\ 1 \in DOMAIN operationQueue
           /\ e = operationQueue[1] /\ e.cmd = cmd /\ e \in OperationMessage
           /\ cmd \in {"MSG", "RADIO", "OTA_RADIO"} =>
                e.page \in Page /\ cmd = Command(e.page)
           /\ cmd \in {"MSG_RESULT", "OTA_RADIO_RESULT", "EXIT"} =>
                e.page = None
           /\ cmd = "MSG_RESULT" => e.id \in Iote
<1>1. /\ operationQueue # <<>> /\ operationQueue' = Tail(operationQueue)
      /\ Head(operationQueue).cmd = cmd
  BY Zenon DEF OperationReady
<1>2. /\ operationQueue \in Seq(OperationMessage)
      /\ Len(operationQueue) <= OperationCap /\ OperationCap \in Nat
  BY Zenon, BoundAssumption DEF TypeOK
<1>3. /\ operationQueue' \in Seq(OperationMessage)
      /\ Len(operationQueue') <= OperationCap
      /\ Head(operationQueue) = operationQueue[1]
      /\ Head(operationQueue) \in OperationMessage
      /\ 1 \in DOMAIN operationQueue
  BY <1>1, <1>2, TailFact
<1>4. QED
  BY Zenon, <1>1, <1>3 DEF QueueKinds, OperationKind

\* Two facts the logic task's steps share.
LEMMA OnePage == \A p \in Page : <<p>> \in Seq(Page)
  OBVIOUS

\* manager_response_message_result records a state of the answered request.
LEMMA AnswerType ==
    ASSUME TypeOK, NEW r \in Request, NEW v \in State,
           manager_response_message_result(r, v)
    PROVE  /\ answers' \in [Request -> Seq(State)]
           /\ networkQueue' \in Seq(Response)
           /\ Len(networkQueue') <= NetworkCap
           /\ unsaid' \in BOOLEAN
<1>1. NetworkEntry(r, v) \in Response
  BY Zenon DEF NetworkEntry, Response
<1>2. /\ networkQueue' \in Seq(Response) /\ Len(networkQueue') <= NetworkCap
      /\ unsaid' \in BOOLEAN
  BY Zenon, <1>1, PostNetworkType DEF manager_response_message_result
<1>3. answers' \in [Request -> Seq(State)]
  <2>1. answers \in [Request -> Seq(State)]
    BY Zenon DEF TypeOK
  <2>2. Append(answers[r], v) \in Seq(State)
    BY Zenon, <2>1, AppendFact
  <2>3. QED
    BY Zenon, <2>1, <2>2 DEF manager_response_message_result
<1>4. QED
  BY Zenon, <1>2, <1>3

\* What the operation task does with the page i of the list that takes a result
\* of the radio.
TakesResult(i) ==
    /\ sendList \in Seq(Page) /\ sendList[i] \in Page /\ sendList[i] \in Unicast
    /\ \/ Finish(i, MANAGER_SEND_SUCCESS)
       \/ Finish(i, MANAGER_SEND_FAIL)
       \/ Resend(i) /\ ~SentOften(sendList[i])
TakesOtaResult(i) ==
    /\ sendList \in Seq(Page) /\ sendList[i] \in Page /\ sendList[i] \in Ota
    /\ sendList' = remove_manager_node(sendList, i)
    /\ to_queue_logic_data(LogicEntry("SEND_RESULT", sendList[i], None))

\* A result finds no page and changes nothing, or finds one for its device.
LEMMA ResultCases ==
    ASSUME TypeOK, manager_operate_result
    PROVE  \/ UNCHANGED <<operationVars, radioVars, logicQueue, holder, lossy, faults>>
           \/ \E i \in 1 .. Len(sendList) : TakesResult(i)
<1>1. sendList \in Seq(Page) /\ DOMAIN sendList = 1 .. Len(sendList)
  BY DEF TypeOK
<1>2. ASSUME NEW i \in query_head_list(sendList, To(Head(operationQueue).id))
      PROVE  /\ i \in 1 .. Len(sendList)
             /\ sendList[i] \in Page /\ sendList[i] \in Unicast
  BY Zenon, <1>1, FoundFact DEF To
<1>3. QED
  BY Zenon, <1>1, <1>2 DEF manager_operate_result, TakesResult

\* So does the result of a broadcast.
LEMMA OtaResultCases ==
    ASSUME TypeOK, manager_ota_result_msg
    PROVE  \/ UNCHANGED <<sendList, logicQueue, holder, lossy>>
           \/ \E i \in 1 .. Len(sendList) : TakesOtaResult(i)
<1>1. sendList \in Seq(Page) /\ DOMAIN sendList = 1 .. Len(sendList)
  BY DEF TypeOK
<1>2. ASSUME NEW i \in query_head_list(sendList, Ota)
      PROVE  /\ i \in 1 .. Len(sendList)
             /\ sendList[i] \in Page /\ sendList[i] \in Ota
  BY Zenon, <1>1, FoundFact
<1>3. QED
  BY Zenon, <1>1, <1>2 DEF manager_ota_result_msg, TakesOtaResult

-----------------------------------------------------------------------------
(* What a message or a node points to is held there. *)

\* Where the pages are that the operation task handles.
LEMMA ListedFact ==
    ASSUME TypeOK, OneHolder, NEW i \in 1 .. Len(sendList)
    PROVE  sendList[i] \in Page /\ holder[sendList[i]] = "sendList"
<1>1. sendList \in Seq(Page) /\ i \in DOMAIN sendList
  BY DEF TypeOK
<1>2. QED
  BY <1>1 DEF OneHolder, NodesOnce

\* The page at the head of the operation queue is held by that queue.
LEMMA QueuedFact ==
    ASSUME TypeOK, OneHolder, operationQueue # <<>>,
           Head(operationQueue).page \in Page
    PROVE  holder[Head(operationQueue).page] = "operationQueue"
<1>1. operationQueue \in Seq(OperationMessage) /\ None \notin Page
  BY Zenon, PageAssumption DEF TypeOK
<1>2. 1 \in DOMAIN operationQueue /\ Head(operationQueue) = operationQueue[1]
  BY <1>1, TailFact
<1>3. QED
  BY Zenon, <1>1, <1>2 DEF OneHolder, EntriesOnce

\* A page in the logic queue is held by that queue.
LEMMA LogicQueuedFact ==
    ASSUME TypeOK, OneHolder, NEW i \in DOMAIN logicQueue,
           logicQueue[i].page # None
    PROVE  logicQueue[i].page \in Page /\ holder[logicQueue[i].page] = "logicQueue"
<1>1. logicQueue[i] \in LogicMessage
  BY DEF TypeOK
<1>2. logicQueue[i].page \in Page
  BY Zenon, <1>1 DEF LogicMessage
<1>3. QED
  BY Zenon, <1>2 DEF OneHolder, EntriesOnce

\* The places of the entries' pages.
LEMMA EntryPages ==
    ASSUME TypeOK
    PROVE  /\ \A i \in DOMAIN operationQueue :
                 operationQueue[i].page # None => operationQueue[i].page \in Page
           /\ \A i \in DOMAIN logicQueue :
                 logicQueue[i].page # None => logicQueue[i].page \in Page
           /\ \A i \in DOMAIN sendList : sendList[i] \in Page
           /\ \A i \in DOMAIN toSend : toSend[i] \in Page
<1>1. /\ operationQueue \in Seq(OperationMessage) /\ logicQueue \in Seq(LogicMessage)
      /\ sendList \in Seq(Page) /\ toSend \in Seq(Page)
  BY Zenon DEF TypeOK
<1>2. /\ \A e \in OperationMessage : e.page # None => e.page \in Page
      /\ \A e \in LogicMessage : e.page # None => e.page \in Page
  BY Zenon DEF OperationMessage, LogicMessage
<1>3. \A i \in DOMAIN operationQueue :
         operationQueue[i].page # None => operationQueue[i].page \in Page
  BY <1>1, <1>2
<1>4. \A i \in DOMAIN logicQueue : logicQueue[i].page # None => logicQueue[i].page \in Page
  BY <1>1, <1>2
<1>5. QED
  BY <1>1, <1>3, <1>4

-----------------------------------------------------------------------------
(* Where a page may go. *)

\* A step leaves page p and its counters alone.
Rests(p) ==
    holder'[p] = holder[p] /\ headState'[p] = headState[p] /\ tries'[p] = tries[p]

\* A message of the operation queue points to the page.
InQueue(p) == \E i \in DOMAIN operationQueue : operationQueue[i].page = p

\* The page is taken from a queue, or from the loop of manager_send_packet.
TakenFromOperation(p) ==
    /\ operationQueue # <<>> /\ p = Head(operationQueue).page
    /\ operationQueue' = Tail(operationQueue)
TakenFromLogic(p) ==
    logicQueue # <<>> /\ p = Head(logicQueue).page /\ logicQueue' = Tail(logicQueue)
TakenToSend(p) ==
    toSend # <<>> /\ p = Head(toSend) /\ toSend' = Tail(toSend)

\* The pointer to the page is passed on, or the page is freed; it is not sent.
Passes(p) ==
    /\ headState'[p] = headState[p] /\ tries'[p] = tries[p]
    /\ \/ /\ holder[p] = "fresh" /\ holder'[p] = "toSend" /\ p \in Range(toSend')
          /\ p \in ServerPage => manager_send_msg_to_wiota /\ p \in PagesOf(Head(toServe))
       \/ p \in Forward /\ holder[p] = "fresh" /\ holder'[p] \in {"logicQueue", "lost"}
       \/ /\ p \in Forward /\ tries[p] = 0 /\ headState[p] = 0
          /\ holder[p] = "logicQueue" /\ TakenFromLogic(p)
          /\ holder'[p] = "toSend" /\ p \in Range(toSend')
       \/ /\ holder[p] = "toSend" /\ TakenToSend(p)
          /\ \/ holder'[p] = "lost"
             \/ holder'[p] = "operationQueue" /\ InQueue(p)'
       \/ /\ IsRadio(p) /\ holder[p] = "operationQueue" /\ TakenFromOperation(p)
          /\ holder'[p] = "freed"
       \/ holder[p] = "logicQueue" /\ TakenFromLogic(p) /\ holder'[p] = "freed"
       \/ holder[p] = "sendList" /\ sendList' # sendList /\ holder'[p] = "freed"

\* The page is sent for the first time, sent again, or done.
Sent(p) ==
    /\ holder[p] = "operationQueue" /\ TakenFromOperation(p)
    /\ holder'[p] = "sendList"
    /\ headState'[p] = headState[p] /\ tries'[p] = tries[p] + 1
Resent(p) ==
    /\ p \in Unicast /\ ~SentOften(p) /\ holder[p] = "sendList"
    /\ holder'[p] = "sendList" \/ (holder'[p] = "lost" /\ sendList' # sendList)
    /\ headState'[p] = headState[p] + 1 /\ tries'[p] = tries[p] + 1
Done(p) ==
    /\ holder[p] = "sendList" /\ sendList' # sendList
    /\ holder'[p] \in {"logicQueue", "lost"} /\ tries'[p] = tries[p]
    /\ p \in Ota \/ manager_operate_result

Path(p) == Rests(p) \/ Passes(p) \/ Sent(p) \/ Resent(p) \/ Done(p)

\* A step that touches one page.
LEMMA OnePath ==
    ASSUME TypeOK, NEW m \in Page, NEW place, Move(m, place) \/ holder' = holder,
           \A q \in Page \ {m} : headState'[q] = headState[q] /\ tries'[q] = tries[q],
           Path(m)
    PROVE  \A p \in Page : Path(p)
<1>1. \A p \in Page \ {m} : holder'[p] = holder[p]
  BY Zenon DEF Move, TypeOK
<1>2. QED
  BY Zenon, <1>1 DEF Path, Rests

\* A step that touches none.
LEMMA NoPath ==
    ASSUME UNCHANGED <<holder, headState, tries>> PROVE \A p \in Page : Path(p)
  BY Zenon DEF Path, Rests

\* manager_wiota_task: the page of the message in hand, the pages of the request
\* in hand, the next OTA page.
LEMMA LogicPath ==
    ASSUME TypeOK, QueueKinds, OneHolder, RequestsOnce, Logic
    PROVE  \A p \in Page : Path(p)
<1>0. /\ UNCHANGED <<headState, tries>> /\ None \notin Page
      /\ holder \in [Page -> Place]
  BY Zenon, PageAssumption
     DEF Logic, LogicStart, LogicRecv, LogicNetwork, LogicHttp, LogicResult, TypeOK,
         manager_send_msg_to_wiota, manager_send_packet, operationVars, operationSide
<1>1. CASE LogicStart \/ LogicRecv \/ LogicNetwork \/ LogicHttp \/ LogicResult
  <2>1. PICK m : m = Head(logicQueue).page
    BY Zenon
  <2>2. m \in Page => holder[m] = "logicQueue" /\ TakenFromLogic(m)
    <3>1. PICK cmd : LogicReady(cmd)
      BY Zenon, <1>1 DEF LogicStart, LogicRecv, LogicNetwork, LogicHttp, LogicResult
    <3>2. 1 \in DOMAIN logicQueue /\ m = logicQueue[1].page
      BY Zenon, <2>1, <3>1, LogicTaken
    <3>3. QED
      BY Zenon, <1>0, <2>1, <3>1, <3>2, LogicQueuedFact DEF LogicReady, TakenFromLogic
  <2>3. \A q \in Ota \cap Fresh : q \in Page /\ holder[q] = "fresh" /\ q \notin ServerPage
    BY Zenon, PageAssumption DEF Fresh
  <2>4. CASE holder' = holder
    BY Zenon, <1>0, <2>4, NoPath
  <2>5. CASE m \in Page /\ Move(m, "freed")
    <3>1. Path(m)
      BY Zenon, <1>0, <2>2, <2>5 DEF Path, Passes, Move
    <3>2. QED
      BY Zenon, <1>0, <2>5, <3>1, OnePath
  <2>6. CASE LogicRecv /\ m # None /\ toSend' = <<m>> /\ Move(m, "toSend")
    <3>1. m \in Page /\ m \in Forward /\ tries[m] = 0 /\ headState[m] = 0
      BY Zenon, <2>1, <2>6, LogicTaken DEF LogicRecv
    <3>2. Path(m)
      BY <1>0, <2>2, <2>6, <3>1 DEF Path, Passes, Move, Range
    <3>3. QED
      BY Zenon, <1>0, <2>6, <3>1, <3>2, OnePath
  <2>7. CASE StartOta
    <3>1. PICK q \in Ota \cap Fresh : toSend' = <<q>> /\ Move(q, "toSend")
      BY Zenon, <2>7 DEF StartOta
    <3>2. q \in Page /\ Path(q)
      BY <1>0, <2>3, <3>1 DEF Path, Passes, Move, Range
    <3>3. QED
      BY Zenon, <1>0, <3>1, <3>2, OnePath
  <2>8. CASE m \in Page /\ \E q \in Ota \cap Fresh :
                /\ toSend' = <<q>>
                /\ holder' = [holder EXCEPT ![m] = "freed", ![q] = "toSend"]
    BY <1>0, <2>2, <2>3, <2>8 DEF Path, Rests, Passes, Range
  <2>9. LogicResult => m \in Page
    BY Zenon, <2>1, LogicTaken DEF LogicResult
  <2>10. QED
    BY Zenon, <1>1, <2>1, <2>4, <2>5, <2>6, <2>7, <2>8, <2>9
       DEF LogicStart, LogicRecv, LogicNetwork, LogicHttp, LogicResult
<1>2. CASE manager_send_msg_to_wiota
  <2>1. /\ toServe # <<>> /\ Range(toSend') = PagesOf(Head(toServe))
        /\ holder' = [p \in Page |-> IF p \in PagesOf(Head(toServe))
                                     THEN "toSend" ELSE holder[p]]
    BY Zenon, <1>2 DEF manager_send_msg_to_wiota, PagesOf
  <2>2. Head(toServe) \in Range(toServe)
    BY Zenon, <2>1, QueueRangeFact DEF TypeOK
  <2>3. \A p \in PagesOf(Head(toServe)) : holder[p] = "fresh"
    BY Zenon, <2>2 DEF RequestsOnce, Unserved
  <2>4. QED
    BY Zenon, <1>0, <1>2, <2>1, <2>3 DEF Path, Rests, Passes
<1>3. CASE manager_send_packet
  <2>1. PICK m : m = Head(toSend) /\ TakenToSend(m)
    BY Zenon, <1>3 DEF manager_send_packet, TakenToSend
  <2>2. \/ Move(m, "lost")
        \/ /\ Move(m, "operationQueue")
           /\ operationQueue' = Append(operationQueue,
                                       OperationEntry(Command(m), m, None, FALSE))
    BY Zenon, <1>3, <2>1 DEF manager_send_packet, to_operation_wiota_data, OperationEntry
  <2>3. m \in Page /\ holder[m] = "toSend"
    BY <2>1, TailFact DEF TypeOK, OneHolder, NodesOnce, TakenToSend
  <2>4. holder'[m] = "operationQueue" => InQueue(m)'
    <3>1. operationQueue \in Seq(OperationMessage)
      BY Zenon DEF TypeOK
    <3>2. CASE operationQueue' = Append(operationQueue,
                                        OperationEntry(Command(m), m, None, FALSE))
      BY <3>1, <3>2 DEF InQueue, OperationEntry
    <3>3. QED
      BY Zenon, <1>0, <2>2, <2>3, <3>2 DEF Move
  <2>5. Path(m)
    BY Zenon, <1>0, <2>1, <2>2, <2>3, <2>4 DEF Path, Passes, Move
  <2>6. QED
    BY Zenon, <1>0, <2>2, <2>3, <2>5, OnePath
<1>4. QED
  BY Zenon, <1>1, <1>2, <1>3 DEF Logic

\* Unlinking changes the list.
LEMMA UnlinkedFact ==
    ASSUME TypeOK, NEW i \in 1 .. Len(sendList),
           sendList' = remove_manager_node(sendList, i)
    PROVE  sendList' # sendList
<1>1. sendList \in Seq(Page) /\ Len(sendList) \in Nat
  BY DEF TypeOK
<1>2. Len(Unlink(sendList, i)) = Len(sendList) - 1
  BY Zenon, <1>1, UnlinkFact
<1>3. QED
  BY <1>1, <1>2 DEF remove_manager_node

\* A listed page leaves the list with its result.
LEMMA DonePath ==
    ASSUME TypeOK, OneHolder, NEW i \in 1 .. Len(sendList),
           sendList' = remove_manager_node(sendList, i),
           to_queue_logic_data(LogicEntry("SEND_RESULT", sendList[i], None)),
           sendList[i] \in Ota \/ manager_operate_result,
           \A q \in Page \ {sendList[i]} : headState'[q] = headState[q],
           tries' = tries
    PROVE  \A p \in Page : Path(p)
<1>1. PICK m \in Page : m = sendList[i] /\ holder[m] = "sendList"
  BY Zenon, ListedFact
<1>2. Move(m, "logicQueue") \/ Move(m, "lost")
  BY Zenon, <1>1 DEF to_queue_logic_data, LogicEntry
<1>3. Path(m)
  BY Zenon, <1>1, <1>2, UnlinkedFact, PageAssumption DEF Path, Done, Move, TypeOK
<1>4. QED
  BY Zenon, <1>1, <1>2, <1>3, OnePath

\* manager_operation: pages of its queue and of its list.
LEMMA OperationPath ==
    ASSUME TypeOK, QueueKinds, OneHolder, Operation
    PROVE  \A p \in Page : Path(p)
<1>0. /\ None \notin Page /\ holder \in [Page -> Place]
      /\ headState \in [Page -> 0 .. MANAGER_MAX_SEND_NUM] /\ tries \in [Page -> Nat]
  BY Zenon, PageAssumption DEF TypeOK
<1>1. CASE OperationMsg \/ OperationOtaRadio \/ OperationRadio
  <2>1. PICK m : m = Head(operationQueue).page
    BY Zenon
  <2>2. m \in Page /\ TakenFromOperation(m) /\ (OperationRadio => Command(m) = "RADIO")
    BY Zenon, <1>1, <2>1, OperationTaken
       DEF OperationMsg, OperationOtaRadio, OperationRadio, OperationReady, TakenFromOperation
  <2>3. holder[m] = "operationQueue"
    BY Zenon, <2>1, <2>2, QueuedFact DEF TakenFromOperation
  <2>4. CASE OperationRadio
    <3>1. Move(m, "freed") /\ UNCHANGED <<headState, tries>> /\ IsRadio(m)
      BY Zenon, <2>1, <2>2, <2>4 DEF OperationRadio, Command, operationSide, operationVars
    <3>2. Path(m)
      BY Zenon, <1>0, <2>2, <2>3, <3>1 DEF Path, Passes, Move
    <3>3. QED
      BY Zenon, <2>2, <3>1, <3>2, OnePath
  <2>5. CASE OperationMsg \/ OperationOtaRadio
    <3>1. /\ Move(m, "sendList") /\ headState' = headState
          /\ tries' = [tries EXCEPT ![m] = @ + 1]
      BY Zenon, <2>1, <2>5 DEF OperationMsg, OperationOtaRadio, uc_wiota_send_data
    <3>2. Path(m)
      BY Zenon, <1>0, <2>1, <2>2, <2>3, <3>1 DEF Path, Sent, Move
    <3>3. QED
      BY Zenon, <1>0, <2>2, <3>1, <3>2, OnePath
  <2>6. QED
    BY Zenon, <1>1, <2>4, <2>5
<1>2. CASE manager_operate_result
  <2>1. CASE UNCHANGED <<operationVars, holder>>
    BY Zenon, <2>1, NoPath DEF operationVars
  <2>2. ASSUME NEW i \in 1 .. Len(sendList), TakesResult(i)
        PROVE  \A p \in Page : Path(p)
    <3>1. PICK m \in Page : m = sendList[i] /\ holder[m] = "sendList"
      BY Zenon, ListedFact
    <3>2. CASE Finish(i, MANAGER_SEND_SUCCESS) \/ Finish(i, MANAGER_SEND_FAIL)
      <4>1. \A q \in Page \ {m} : headState'[q] = headState[q]
        BY Zenon, <1>0, <3>1, <3>2 DEF Finish
      <4>2. QED
        BY Zenon, <1>2, <3>1, <3>2, <4>1, DonePath DEF Finish
    <3>3. CASE Resend(i) /\ ~SentOften(m)
      <4>1. /\ headState' = [headState EXCEPT ![m] = @ + 1]
            /\ tries' = [tries EXCEPT ![m] = @ + 1]
            /\ holder' = holder \/ (Move(m, "lost") /\ sendList' # sendList)
        BY Zenon, <3>1, <3>3, UnlinkedFact DEF Resend, uc_wiota_send_data
      <4>2. Resent(m)
        BY Zenon, <1>0, <2>2, <3>1, <3>3, <4>1 DEF Resent, Move, TakesResult
      <4>3. QED
        BY Zenon, <1>0, <4>1, <4>2, OnePath DEF Path
    <3>4. QED
      BY Zenon, <2>2, <3>1, <3>2, <3>3 DEF TakesResult
  <2>3. QED
    BY Zenon, <1>2, <2>1, <2>2, ResultCases
<1>3. CASE manager_ota_result_msg
  <2>1. UNCHANGED <<headState, tries>>
    BY Zenon, <1>3 DEF manager_ota_result_msg
  <2>2. ASSUME NEW i \in 1 .. Len(sendList), TakesOtaResult(i)
        PROVE  \A p \in Page : Path(p)
    BY Zenon, <2>1, <2>2, DonePath DEF TakesOtaResult
  <2>3. QED
    BY Zenon, <1>3, <2>1, <2>2, NoPath, OtaResultCases
<1>4. CASE OperationExit
  <2>1. /\ UNCHANGED <<headState, tries>> /\ sendList' = <<>>
        /\ holder' = [p \in Page |-> IF p \in Range(sendList) THEN "freed" ELSE holder[p]]
    BY Zenon, <1>4 DEF OperationExit
  <2>2. \A p \in Range(sendList) : holder[p] = "sendList" /\ sendList # <<>>
    BY DEF OneHolder, NodesOnce, Range
  <2>3. QED
    BY Zenon, <2>1, <2>2 DEF Path, Rests, Passes
<1>5. CASE manager_wiota_exit \/ OperationStart
  <2>1. UNCHANGED <<holder, headState, tries>>
    BY Zenon, <1>5 DEF manager_wiota_exit, OperationStart, to_queue_logic_data, LogicEntry, Move,
                operationVars
  <2>2. QED
    BY Zenon, <2>1, NoPath
<1>6. QED
  BY Zenon, <1>1, <1>2, <1>3, <1>4, <1>5 DEF Operation

\* The callbacks and the timer move no page, an uplink message may bring one.
LEMMA OutsidePath ==
    ASSUME TypeOK, Callbacks \/ Inputs \/ manager_recv_timer_func \/ NetworkTake
    PROVE  \A p \in Page : Path(p)
<1>0. UNCHANGED <<headState, tries>>
  BY Zenon DEF Callbacks, Inputs, manager_recv_timer_func, NetworkTake,
         manager_send_result, uc_send_radio_ota_callback, NetworkMessage,
         manager_recv_data, HttpMessage, operationVars, operationSide
<1>1. CASE \E m \in Forward \cap Fresh : manager_recv_data(m)
  <2>1. PICK m \in Forward \cap Fresh : manager_recv_data(m)
    BY Zenon, <1>1
  <2>2. Move(m, "logicQueue") \/ Move(m, "lost")
    BY Zenon, <2>1 DEF manager_recv_data, to_queue_logic_data, LogicEntry
  <2>3. m \in Page /\ Path(m)
    BY Zenon, <1>0, <2>2, PageAssumption DEF Path, Passes, Fresh, Move, TypeOK
  <2>4. QED
    BY Zenon, <1>0, <2>2, <2>3, OnePath
<1>2. CASE ~ \E m \in Forward \cap Fresh : manager_recv_data(m)
  <2>1. holder' = holder
    BY Zenon, <1>2 DEF Callbacks, Inputs, manager_send_result, uc_send_radio_ota_callback,
         manager_recv_data, manager_recv_timer_func, NetworkTake, NetworkMessage,
         HttpMessage, to_operation_wiota_data, to_queue_logic_data, OperationEntry,
         LogicEntry, Move
  <2>2. QED
    BY Zenon, <1>0, <2>1, NoPath
<1>3. QED
  BY Zenon, <1>1, <1>2

\* So it is in every step.
LEMMA PagePath ==
    ASSUME TypeOK, QueueKinds, OneHolder, RequestsOnce, [Next]_vars
    PROVE  \A p \in Page : Path(p)
<1>1. CASE UNCHANGED vars \/ Waiting
  BY Zenon, <1>1, NoPath DEF Waiting, vars, operationVars
<1>2. QED
  BY Zenon, <1>1, LogicPath, OperationPath, OutsidePath DEF Next

-----------------------------------------------------------------------------
(* What a step may do to the queues, the list and the loop. *)

\* The loop of manager_send_packet is filled when it is empty, with the pages
\* of a request or with one other page, and gives away its pages in order.
LEMMA ToSendStep ==
    ASSUME TypeOK, QueueKinds, [Next]_vars
    PROVE  \/ toSend' = toSend
           \/ /\ toSend # <<>> /\ toSend' = Tail(toSend)
              /\ holder'[Head(toSend)] # "toSend"
           \/ /\ toSend = <<>>
              /\ \E m \in Page \ ServerPage : toSend' = <<m>> /\ holder'[m] = "toSend"
           \/ /\ toSend = <<>>
              /\ \E r \in Request : /\ toSend' = Segments[r]
                                    /\ \A p \in PagesOf(r) : holder'[p] = "toSend"
<1> USE DEF logicVars, logicSide
<1>0. holder \in [Page -> Place] /\ None \notin Page
  BY Zenon, PageAssumption DEF TypeOK
<1>1. CASE manager_send_packet
  <2>1. /\ toSend # <<>> /\ toSend' = Tail(toSend)
        /\ Move(Head(toSend), "operationQueue") \/ Move(Head(toSend), "lost")
    BY Zenon, <1>1 DEF manager_send_packet, to_operation_wiota_data, OperationEntry
  <2>2. Head(toSend) \in Page
    BY Zenon, <2>1, TailFact DEF TypeOK
  <2>3. QED
    BY Zenon, <1>0, <2>1, <2>2 DEF Move
<1>2. CASE manager_send_msg_to_wiota
  <2>1. /\ toSend = <<>> /\ toServe # <<>> /\ toSend' = Segments[Head(toServe)]
        /\ holder' = [p \in Page |-> IF p \in PagesOf(Head(toServe))
                                     THEN "toSend" ELSE holder[p]]
    BY Zenon, <1>2 DEF manager_send_msg_to_wiota
  <2>2. Head(toServe) \in Request
    BY Zenon, <2>1, TailFact DEF TypeOK
  <2>3. QED
    BY Zenon, <2>1, <2>2, PageKinds
<1>3. CASE LogicRecv \/ LogicHttp \/ LogicResult
  <2>1. \A m \in Ota \cup Forward : m \in Page \ ServerPage
    BY Zenon, PageAssumption
  <2>2. ASSUME NEW m \in Ota \cup Forward,
               \/ Move(m, "toSend")
               \/ holder' = [holder EXCEPT ![Head(logicQueue).page] = "freed",
                                           ![m] = "toSend"]
        PROVE  holder'[m] = "toSend"
    BY Zenon, <1>0, <2>1, <2>2 DEF Move
  <2>3. LogicRecv => Head(logicQueue).page \in Forward \cup {None}
    BY Zenon, LogicTaken DEF LogicRecv
  <2>4. toSend = <<>>
    BY Zenon, <1>3 DEF LogicRecv, LogicHttp, LogicResult, LogicReady
  <2>5. toSend' = toSend \/ \E m \in Ota \cup Forward : /\ toSend' = <<m>>
                                                         /\ holder'[m] = "toSend"
    BY Zenon, <1>3, <2>2, <2>3 DEF LogicRecv, LogicHttp, LogicResult, StartOta
  <2>6. QED
    BY Zenon, <2>1, <2>4, <2>5
<1>4. CASE Operation
  BY Zenon, <1>4 DEF Operation, OperationMsg, manager_operate_result, OperationRadio,
     OperationOtaRadio, manager_ota_result_msg, OperationExit, manager_wiota_exit,
     OperationStart
<1>5. CASE Callbacks \/ Inputs \/ manager_recv_timer_func \/ NetworkTake
  BY Zenon, <1>5 DEF Callbacks, Inputs, manager_recv_timer_func, NetworkTake,
     manager_send_result, uc_send_radio_ota_callback, NetworkMessage, manager_recv_data,
     HttpMessage
<1>6. CASE LogicStart \/ LogicNetwork \/ Waiting \/ UNCHANGED vars
  BY Zenon, <1>6 DEF LogicStart, LogicNetwork, Waiting, vars
<1>7. QED
  BY Zenon, <1>1, <1>2, <1>3, <1>4, <1>5, <1>6 DEF Next, Logic

\* The operation queue grows by a result, an exit, or the next page of the
\* loop, and a page taken from it goes elsewhere.
LEMMA OperationQueueStep ==
    ASSUME TypeOK, QueueKinds, [Next]_vars
    PROVE  \/ operationQueue' = operationQueue
           \/ /\ operationQueue # <<>> /\ operationQueue' = Tail(operationQueue)
              /\ \A p \in Page : p = Head(operationQueue).page =>
                                     holder'[p] # "operationQueue"
           \/ \E e \in OperationMessage :
                 /\ operationQueue' = Append(operationQueue, e) /\ OperationKind(e)
                 /\ Len(operationQueue) < OperationCap
                 /\ \/ e.page = None
                    \/ /\ toSend # <<>> /\ e.page = Head(toSend)
                       /\ holder'[e.page] = "operationQueue"
<1>0. holder \in [Page -> Place] /\ None \notin Page
  BY Zenon, PageAssumption DEF TypeOK
<1>1. ASSUME NEW e \in OperationMessage, to_operation_wiota_data(e), OperationKind(e),
             e.page = None \/ (toSend # <<>> /\ e.page = Head(toSend) /\ e.page \in Page)
      PROVE  \/ operationQueue' = operationQueue
             \/ \E x \in OperationMessage :
                 /\ operationQueue' = Append(operationQueue, x) /\ OperationKind(x)
                 /\ Len(operationQueue) < OperationCap
                 /\ \/ x.page = None
                    \/ /\ toSend # <<>> /\ x.page = Head(toSend)
                       /\ holder'[x.page] = "operationQueue"
  <2>1. CASE /\ operationQueue' = Append(operationQueue, e) /\ OperationRoom
             /\ Move(e.page, "operationQueue")
    <3>1. e.page \in Page => holder'[e.page] = "operationQueue"
      BY Zenon, <1>0, <2>1 DEF Move
    <3>2. QED
      BY Zenon, <1>1, <2>1, <3>1 DEF OperationRoom
  <2>2. QED
    BY Zenon, <1>1, <2>1 DEF to_operation_wiota_data, OperationRoom
<1>2. CASE manager_send_packet
  <2>1. PICK m : m = Head(toSend) /\ toSend # <<>>
    BY Zenon, <1>2 DEF manager_send_packet
  <2>2. m \in Page
    BY Zenon, <2>1, TailFact DEF TypeOK
  <2>3. PICK e : e = OperationEntry(Command(m), m, None, FALSE)
    BY Zenon
  <2>4. e \in OperationMessage /\ OperationKind(e) /\ e.page = m
    BY Zenon, <2>2, <2>3 DEF OperationMessage, OperationEntry, OperationKind, Command
  <2>5. to_operation_wiota_data(e) \/ operationQueue' = operationQueue
    BY Zenon, <1>2, <2>1, <2>3 DEF manager_send_packet
  <2>6. QED
    BY Zenon, <1>1, <2>1, <2>2, <2>4, <2>5
<1>3. CASE Callbacks \/ manager_recv_timer_func
  <2>1. ASSUME NEW cmd \in {"MSG_RESULT", "OTA_RADIO_RESULT", "EXIT"},
               NEW i \in Iote \cup {None}, NEW ok \in BOOLEAN, cmd = "MSG_RESULT" => i # None,
               to_operation_wiota_data(OperationEntry(cmd, None, i, ok))
        PROVE  \/ operationQueue' = operationQueue
               \/ \E x \in OperationMessage :
                     /\ operationQueue' = Append(operationQueue, x) /\ OperationKind(x)
                     /\ Len(operationQueue) < OperationCap
                 /\ Len(operationQueue) < OperationCap
                     /\ \/ x.page = None
                        \/ /\ toSend # <<>> /\ x.page = Head(toSend)
                           /\ holder'[x.page] = "operationQueue"
    <3>1. PICK e : e = OperationEntry(cmd, None, i, ok)
      BY Zenon
    <3>2. e \in OperationMessage /\ OperationKind(e) /\ e.page = None
      BY Zenon, <2>1, <3>1 DEF OperationMessage, OperationEntry, OperationKind
    <3>3. QED
      BY Zenon, <1>1, <2>1, <3>1, <3>2
  <2>2. \A i \in Iote : i # None
    BY Zenon, PageAssumption
  <2>3. QED
    BY Zenon, <1>3, <2>1, <2>2
       DEF Callbacks, manager_send_result, uc_send_radio_ota_callback, manager_recv_timer_func
<1>4. CASE OperationMsg \/ OperationOtaRadio \/ OperationRadio
  <2>1. PICK m : m = Head(operationQueue).page
    BY Zenon
  <2>2. m \in Page /\ operationQueue # <<>> /\ operationQueue' = Tail(operationQueue)
    BY Zenon, <1>4, <2>1, OperationTaken
       DEF OperationMsg, OperationOtaRadio, OperationRadio, OperationReady
  <2>3. Move(m, "sendList") \/ Move(m, "freed")
    BY Zenon, <1>4, <2>1 DEF OperationMsg, OperationOtaRadio, OperationRadio
  <2>4. holder'[m] # "operationQueue"
    BY Zenon, <1>0, <2>2, <2>3 DEF Move
  <2>5. QED
    BY Zenon, <2>1, <2>2, <2>4
<1>5. CASE manager_operate_result \/ manager_ota_result_msg \/ OperationExit
  <2>1. PICK cmd \in {"MSG_RESULT", "OTA_RADIO_RESULT", "EXIT"} : OperationReady(cmd)
    BY Zenon, <1>5 DEF manager_operate_result, manager_ota_result_msg, OperationExit
  <2>2. /\ operationQueue # <<>> /\ operationQueue' = Tail(operationQueue)
        /\ Head(operationQueue).page = None
    BY Zenon, <2>1, OperationTaken DEF OperationReady
  <2>3. QED
    BY Zenon, <1>0, <2>2
<1>6. CASE \/ LogicStart \/ LogicRecv \/ LogicNetwork \/ LogicHttp \/ LogicResult
           \/ manager_send_msg_to_wiota \/ manager_wiota_exit \/ OperationStart
           \/ Inputs \/ NetworkTake \/ Waiting \/ UNCHANGED vars
  <2>1. operationQueue' = operationQueue
    BY Zenon, <1>6
       DEF LogicStart, LogicRecv, LogicNetwork, LogicHttp, LogicResult,
           manager_send_msg_to_wiota, manager_wiota_exit, OperationStart, Inputs,
           NetworkMessage, manager_recv_data, HttpMessage, NetworkTake, Waiting, vars
  <2>2. QED
    BY Zenon, <2>1
<1>7. QED
  BY Zenon, <1>2, <1>3, <1>4, <1>5, <1>6 DEF Next, Logic, Operation

\* The queue of the logic task grows by what the other tasks post: a message
\* without a page, an uplink message with the page it needs, or a listed page
\* with its result.
LEMMA LogicQueueStep ==
    ASSUME TypeOK, QueueKinds, OneHolder, SendCounter, [Next]_vars
    PROVE  \/ logicQueue' = logicQueue
           \/ logicQueue # <<>> /\ logicQueue' = Tail(logicQueue)
           \/ \E e \in LogicMessage :
                 /\ logicQueue' = Append(logicQueue, e) /\ LogicKind(e)'
                 /\ Len(logicQueue) < LogicCap
                 /\ e.page # None => /\ e.page \in Page
                                     /\ holder[e.page] # "logicQueue"
                                     /\ holder'[e.page] = "logicQueue"
<1>0. /\ None \notin Page /\ None \notin Packet /\ holder \in [Page -> Place]
      /\ headState \in [Page -> 0 .. MANAGER_MAX_SEND_NUM] /\ tries \in [Page -> Nat]
  BY Zenon, PageAssumption DEF TypeOK
<1>1. ASSUME NEW e \in LogicMessage, to_queue_logic_data(e), LogicKind(e)',
             e.page # None => e.page \in Page /\ holder[e.page] # "logicQueue"
      PROVE  \/ logicQueue' = logicQueue
             \/ \E x \in LogicMessage :
                   /\ logicQueue' = Append(logicQueue, x) /\ LogicKind(x)'
                   /\ Len(logicQueue) < LogicCap
                   /\ x.page # None => /\ x.page \in Page
                                       /\ holder[x.page] # "logicQueue"
                                       /\ holder'[x.page] = "logicQueue"
  <2>1. Move(e.page, "logicQueue") /\ e.page # None => holder'[e.page] = "logicQueue"
    BY Zenon, <1>0, <1>1 DEF Move
  <2>2. QED
    BY Zenon, <1>1, <2>1 DEF to_queue_logic_data, LogicRoom
<1>2. CASE Inputs
  <2>1. UNCHANGED <<headState, tries>>
    BY Zenon, <1>2
       DEF Inputs, NetworkMessage, manager_recv_data, HttpMessage, operationSide, operationVars
  <2>2. ASSUME NEW k \in Packet PROVE /\ LogicEntry("FROM_NETWORK", None, k) \in LogicMessage
                                      /\ LogicKind(LogicEntry("FROM_NETWORK", None, k))'
                                      /\ LogicEntry("FROM_NETWORK", None, k).page = None
    BY Zenon DEF LogicEntry, LogicMessage, LogicKind
  <2>3. /\ LogicEntry("FROM_HTTP", None, None) \in LogicMessage
        /\ LogicKind(LogicEntry("FROM_HTTP", None, None))'
        /\ LogicEntry("FROM_HTTP", None, None).page = None
    BY Zenon DEF LogicEntry, LogicMessage, LogicKind
  <2>4. ASSUME NEW p \in (Forward \cap Fresh) \cup {None}
        PROVE  /\ LogicEntry("RECV_WIOTA_DATA", p, None) \in LogicMessage
               /\ LogicKind(LogicEntry("RECV_WIOTA_DATA", p, None))'
               /\ LogicEntry("RECV_WIOTA_DATA", p, None).page = p
               /\ p # None => p \in Page /\ holder[p] # "logicQueue"
    <3>1. p # None => p \in Page /\ holder[p] = "fresh"
      BY Zenon DEF Fresh
    <3>2. p # None => tries'[p] = 0 /\ headState'[p] = 0
      BY Zenon, <2>1, <3>1 DEF SendCounter, Counter
    <3>3. QED
      BY Zenon, <3>1, <3>2 DEF LogicEntry, LogicMessage, LogicKind
  <2>5. PICK e \in LogicMessage : /\ to_queue_logic_data(e) /\ LogicKind(e)'
                                  /\ e.page # None => e.page \in Page
                                                      /\ holder[e.page] # "logicQueue"
    BY Zenon, <1>2, <2>2, <2>3, <2>4
       DEF Inputs, NetworkMessage, manager_recv_data, HttpMessage
  <2>6. QED
    BY Zenon, <1>1, <2>5
<1>3. CASE OperationStart
  <2>1. PICK e : e = LogicEntry("WIOTA_START", None, None)
    BY Zenon
  <2>2. e \in LogicMessage /\ LogicKind(e)' /\ e.page = None
    BY Zenon, <2>1 DEF LogicEntry, LogicMessage, LogicKind
  <2>3. QED
    BY Zenon, <1>1, <1>3, <2>1, <2>2 DEF OperationStart
<1>4. ASSUME NEW i \in 1 .. Len(sendList),
             to_queue_logic_data(LogicEntry("SEND_RESULT", sendList[i], None)),
             ~IsRadio(sendList[i]),
             headState'[sendList[i]] \in State,
             sendList[i] \in Unicast => headState'[sendList[i]] \in Verdict
      PROVE  \/ logicQueue' = logicQueue
             \/ \E x \in LogicMessage :
                   /\ logicQueue' = Append(logicQueue, x) /\ LogicKind(x)'
                   /\ Len(logicQueue) < LogicCap
                   /\ x.page # None => /\ x.page \in Page
                                       /\ holder[x.page] # "logicQueue"
                                       /\ holder'[x.page] = "logicQueue"
  <2>1. PICK m \in Page : m = sendList[i] /\ holder[m] = "sendList"
    BY Zenon, ListedFact
  <2>2. PICK e : e = LogicEntry("SEND_RESULT", m, None)
    BY Zenon
  <2>3. e \in LogicMessage /\ LogicKind(e)' /\ e.page = m
    BY Zenon, <1>4, <2>1, <2>2 DEF LogicEntry, LogicMessage, LogicKind
  <2>4. QED
    BY Zenon, <1>1, <1>4, <2>1, <2>2, <2>3
<1>5. CASE manager_operate_result
  <2>1. ASSUME NEW i \in 1 .. Len(sendList), NEW v \in Verdict, Finish(i, v),
               sendList[i] \in Unicast
        PROVE  \/ logicQueue' = logicQueue
               \/ \E x \in LogicMessage :
                     /\ logicQueue' = Append(logicQueue, x) /\ LogicKind(x)'
                     /\ Len(logicQueue) < LogicCap
                     /\ x.page # None => /\ x.page \in Page
                                         /\ holder[x.page] # "logicQueue"
                                         /\ holder'[x.page] = "logicQueue"
    <3>1. headState'[sendList[i]] = v /\ v \in State
      BY Zenon, <1>0, <2>1 DEF Finish, State, Unicast
    <3>2. QED
      BY Zenon, <1>4, <2>1, <3>1 DEF Finish, Unicast
  <2>2. MANAGER_SEND_SUCCESS \in Verdict /\ MANAGER_SEND_FAIL \in Verdict
    BY Zenon DEF Verdict
  <2>3. CASE \E i \in 1 .. Len(sendList) : TakesResult(i)
    BY Zenon, <2>1, <2>2, <2>3 DEF TakesResult, Resend
  <2>4. QED
    BY Zenon, <1>5, <2>3, ResultCases
<1>6. CASE manager_ota_result_msg
  <2>1. ASSUME NEW i \in 1 .. Len(sendList), TakesOtaResult(i)
        PROVE  /\ ~IsRadio(sendList[i]) /\ headState'[sendList[i]] \in State
               /\ sendList[i] \notin Unicast
    <3>1. PICK m \in Ota : m = sendList[i]
      BY Zenon, <2>1 DEF TakesOtaResult
    <3>2. m \in Page /\ holder[m] = "sendList" /\ ~IsRadio(m) /\ m \notin Unicast
      BY Zenon, <2>1, <3>1, ListedFact, PageKinds
    <3>3. headState'[m] = 0
      BY Zenon, <1>6, <3>2 DEF manager_ota_result_msg, SendCounter, Counter
    <3>4. QED
      BY Zenon, <3>1, <3>2, <3>3 DEF State, MANAGER_SEND_DEFAULT
  <2>2. QED
    BY Zenon, <1>4, <1>6, <2>1, OtaResultCases DEF TakesOtaResult
<1>7. CASE LogicStart \/ LogicRecv \/ LogicNetwork \/ LogicHttp \/ LogicResult
  BY Zenon, <1>7
     DEF LogicStart, LogicRecv, LogicNetwork, LogicHttp, LogicResult, LogicReady
<1>8. CASE \/ manager_send_msg_to_wiota \/ manager_send_packet \/ OperationMsg
           \/ OperationRadio \/ OperationOtaRadio \/ OperationExit \/ manager_wiota_exit
           \/ Callbacks \/ manager_recv_timer_func \/ NetworkTake \/ Waiting \/ UNCHANGED vars
  BY Zenon, <1>8
     DEF manager_send_msg_to_wiota, manager_send_packet, OperationMsg, OperationRadio,
         OperationOtaRadio, OperationExit, manager_wiota_exit, Callbacks,
         manager_send_result, uc_send_radio_ota_callback, manager_recv_timer_func,
         NetworkTake, Waiting, vars
<1>9. QED
  BY Zenon, <1>2, <1>3, <1>5, <1>6, <1>7, <1>8 DEF Next, Logic, Operation

\* The list of the operation task takes the page it sends, gives up the page a
\* result is for, moves a page it sends again to its head, or is emptied.
LEMMA SendListStep ==
    ASSUME TypeOK, QueueKinds, OneHolder, [Next]_vars
    PROVE  \/ sendList' = sendList
           \/ sendList' = <<>>
           \/ \E p \in Page :
                 /\ sendList' = Append(sendList, p) /\ ~IsRadio(p)
                 /\ holder[p] # "sendList" /\ holder'[p] = "sendList"
                 /\ \A q \in Page \ {p} : holder'[q] = holder[q]
           \/ \E i \in 1 .. Len(sendList) :
                 /\ sendList' = Unlink(sendList, i)
                 /\ \A q \in Page \ {sendList[i]} : holder'[q] = holder[q]
           \/ \E i \in 1 .. Len(sendList) :
                 sendList' = <<sendList[i]>> \o Unlink(sendList, i) /\ holder' = holder
<1>0. /\ None \notin Page /\ holder \in [Page -> Place]
  BY Zenon, PageAssumption DEF TypeOK
<1>1. ASSUME NEW m \in Page, NEW place, Move(m, place)
      PROVE  /\ \A q \in Page \ {m} : holder'[q] = holder[q]
             /\ holder'[m] = place
  BY Zenon, <1>0, <1>1 DEF Move
<1>2. CASE OperationMsg \/ OperationOtaRadio
  <2>1. PICK m : m = Head(operationQueue).page
    BY Zenon
  <2>2. m \in Page /\ operationQueue # <<>> /\ Command(m) # "RADIO"
    <3>1. PICK cmd \in {"MSG", "OTA_RADIO"} : OperationReady(cmd)
      BY Zenon, <1>2 DEF OperationMsg, OperationOtaRadio
    <3>2. QED
      BY Zenon, <2>1, <3>1, OperationTaken
  <2>3. ~IsRadio(m) /\ holder[m] = "operationQueue"
    BY Zenon, <2>1, <2>2, QueuedFact, PageKinds DEF Command
  <2>4. sendList' = Append(sendList, m) /\ Move(m, "sendList")
    BY Zenon, <1>2, <2>1 DEF OperationMsg, OperationOtaRadio, insert_tail_manager_list
  <2>5. QED
    BY Zenon, <1>1, <2>2, <2>3, <2>4
<1>3. ASSUME NEW i \in 1 .. Len(sendList), sendList' = remove_manager_node(sendList, i),
             NEW place, Move(sendList[i], place)
      PROVE  /\ sendList' = Unlink(sendList, i)
             /\ \A q \in Page \ {sendList[i]} : holder'[q] = holder[q]
  BY Zenon, <1>1, <1>3, ListedFact DEF remove_manager_node
<1>4. ASSUME NEW i \in 1 .. Len(sendList), sendList' = remove_manager_node(sendList, i),
             to_queue_logic_data(LogicEntry("SEND_RESULT", sendList[i], None))
      PROVE  /\ sendList' = Unlink(sendList, i)
             /\ \A q \in Page \ {sendList[i]} : holder'[q] = holder[q]
  <2>1. Move(sendList[i], "logicQueue") \/ Move(sendList[i], "lost")
    BY Zenon, <1>4 DEF to_queue_logic_data, LogicEntry
  <2>2. QED
    BY Zenon, <1>3, <1>4, <2>1
<1>5. CASE manager_operate_result
  <2>1. ASSUME NEW i \in 1 .. Len(sendList), TakesResult(i)
        PROVE  \/ /\ sendList' = Unlink(sendList, i)
                  /\ \A q \in Page \ {sendList[i]} : holder'[q] = holder[q]
               \/ sendList' = <<sendList[i]>> \o Unlink(sendList, i) /\ holder' = holder
    BY Zenon, <1>3, <1>4, <2>1 DEF TakesResult, Finish, Resend, remove_head_manager_node
  <2>2. QED
    BY Zenon, <1>5, <2>1, ResultCases DEF operationVars
<1>6. CASE manager_ota_result_msg
  BY Zenon, <1>4, <1>6, OtaResultCases DEF TakesOtaResult
<1>7. CASE OperationExit \/ OperationStart
  BY Zenon, <1>7 DEF OperationExit, OperationStart
<1>8. CASE \/ Logic \/ OperationRadio \/ manager_wiota_exit \/ Callbacks \/ Inputs
           \/ manager_recv_timer_func \/ NetworkTake \/ Waiting \/ UNCHANGED vars
  BY Zenon, <1>8
     DEF Logic, LogicStart, LogicRecv, LogicNetwork, LogicHttp, LogicResult,
         manager_send_msg_to_wiota, manager_send_packet, OperationRadio,
         manager_wiota_exit, Callbacks, manager_send_result, uc_send_radio_ota_callback,
         Inputs, NetworkMessage, manager_recv_data, HttpMessage,
         manager_recv_timer_func, NetworkTake, Waiting, vars, operationSide, operationVars
<1>9. QED
  BY Zenon, <1>2, <1>5, <1>6, <1>7, <1>8 DEF Next, Operation

-----------------------------------------------------------------------------
(* Types. *)

\* The queues, the list and the loop.
LEMMA QueueTypes ==
    ASSUME TypeOK, QueueKinds, OneHolder, SendCounter, [Next]_vars
    PROVE  /\ operationQueue' \in Seq(OperationMessage)
           /\ Len(operationQueue') <= OperationCap
           /\ logicQueue' \in Seq(LogicMessage) /\ Len(logicQueue') <= LogicCap
           /\ sendList' \in Seq(Page) /\ toSend' \in Seq(Page)
<1>0. /\ operationQueue \in Seq(OperationMessage) /\ Len(operationQueue) <= OperationCap
      /\ logicQueue \in Seq(LogicMessage) /\ Len(logicQueue) <= LogicCap
      /\ sendList \in Seq(Page) /\ toSend \in Seq(Page)
      /\ OperationCap \in Nat /\ LogicCap \in Nat
  BY Zenon, BoundAssumption DEF TypeOK
<1>1. ASSUME NEW S, NEW s \in Seq(S), NEW t, NEW cap \in Nat, Len(s) <= cap,
             \/ t = s
             \/ s # <<>> /\ t = Tail(s)
             \/ Len(s) < cap /\ \E e \in S : t = Append(s, e)
      PROVE  t \in Seq(S) /\ Len(t) <= cap
  BY <1>1, TailFact, AppendFact
<1>2. operationQueue' \in Seq(OperationMessage) /\ Len(operationQueue') <= OperationCap
  BY Zenon, <1>0, <1>1, OperationQueueStep
<1>3. logicQueue' \in Seq(LogicMessage) /\ Len(logicQueue') <= LogicCap
  BY Zenon, <1>0, <1>1, LogicQueueStep
<1>4. sendList' \in Seq(Page)
  <2>1. <<>> \in Seq(Page) /\ \A p \in Page : Append(sendList, p) \in Seq(Page)
    BY <1>0, AppendFact
  <2>2. \A i \in 1 .. Len(sendList) : /\ Unlink(sendList, i) \in Seq(Page)
                                      /\ <<sendList[i]>> \o Unlink(sendList, i) \in Seq(Page)
    BY Zenon, <1>0, UnlinkFact, MoveToHeadFact
  <2>3. QED
    BY Zenon, <1>0, <2>1, <2>2, SendListStep
<1>5. toSend' \in Seq(Page)
  <2>1. \A r \in Request : Segments[r] \in Seq(Page)
    BY Zenon, PageAssumption
  <2>2. toSend # <<>> => Tail(toSend) \in Seq(Page)
    BY Zenon, <1>0, TailFact
  <2>3. QED
    BY Zenon, <1>0, <2>1, <2>2, OnePage, ToSendStep
<1>6. QED
  BY Zenon, <1>2, <1>3, <1>4, <1>5

\* What every task may change: who holds a page, and the faults.
LEMMA SharedTypes ==
    ASSUME TypeOK, [Next]_vars
    PROVE  /\ holder' \in [Page -> Place]
           /\ faults' \in 0 .. MaxFault
           /\ lossy' \in BOOLEAN
<1> USE DEF to_operation_wiota_data, to_queue_logic_data, uc_wiota_send_data, vars,
            operationVars
<1>0. /\ holder \in [Page -> Place] /\ faults \in 0 .. MaxFault /\ MaxFault \in Nat
      /\ {"toSend", "operationQueue", "sendList", "logicQueue", "freed", "lost"}
            \subseteq Place
  BY Zenon, BoundAssumption DEF TypeOK, Place
<1>1. ASSUME NEW p, NEW place \in Place, Move(p, place) PROVE holder' \in [Page -> Place]
  BY Zenon, <1>0, <1>1 DEF Move
<1>2. ASSUME faults < MaxFault, faults' = faults + 1 PROVE faults' \in 0 .. MaxFault
  BY <1>0, <1>2
<1>3. CASE Logic
  <2>1. LogicResult \/ manager_send_msg_to_wiota => holder' \in [Page -> Place]
    BY Zenon, <1>0, <1>1 DEF LogicResult, manager_send_msg_to_wiota
  <2>2. holder' \in [Page -> Place]
    BY Zenon, <1>0, <1>1, <1>3, <2>1
       DEF Logic, LogicStart, LogicRecv, LogicNetwork, LogicHttp, StartOta,
           manager_send_packet
  <2>3. faults' \in 0 .. MaxFault /\ lossy' \in BOOLEAN
    BY Zenon, <1>0, <1>2, <1>3
       DEF Logic, LogicStart, LogicRecv, LogicNetwork, LogicHttp, LogicResult,
           manager_send_msg_to_wiota, manager_send_packet, TypeOK
  <2>4. QED
    BY Zenon, <2>2, <2>3
<1>4. CASE Operation
  <2>1. OperationExit => holder' \in [Page -> Place]
    BY Zenon, <1>0 DEF OperationExit
  <2>2. holder' \in [Page -> Place]
    BY Zenon, <1>0, <1>1, <1>4, <2>1
       DEF Operation, OperationMsg, manager_operate_result, Finish, Resend, OperationRadio,
           OperationOtaRadio, manager_ota_result_msg, manager_wiota_exit, OperationStart
  <2>3. faults' \in 0 .. MaxFault
    BY Zenon, <1>0, <1>2, <1>4
       DEF Operation, OperationMsg, manager_operate_result, Finish, Resend, OperationRadio,
           OperationOtaRadio, manager_ota_result_msg, OperationExit, manager_wiota_exit,
           OperationStart
  <2>4. lossy' \in BOOLEAN
    BY Zenon, <1>4
       DEF Operation, OperationMsg, manager_operate_result, Finish, Resend, OperationRadio,
           OperationOtaRadio, manager_ota_result_msg, OperationExit, manager_wiota_exit,
           OperationStart, TypeOK
  <2>5. QED
    BY Zenon, <2>2, <2>3, <2>4
<1>5. CASE \/ Callbacks \/ Inputs \/ manager_recv_timer_func \/ NetworkTake \/ Waiting
           \/ UNCHANGED vars
  <2> USE DEF Callbacks, manager_send_result, uc_send_radio_ota_callback, Inputs,
              NetworkMessage, manager_recv_data, HttpMessage, manager_recv_timer_func,
              NetworkTake, Waiting
  <2>1. holder' \in [Page -> Place]
    BY Zenon, <1>0, <1>1, <1>5
  <2>2. faults' \in 0 .. MaxFault
    BY Zenon, <1>0, <1>2, <1>5
  <2>3. lossy' \in BOOLEAN
    BY Zenon, <1>5 DEF TypeOK
  <2>4. QED
    BY Zenon, <2>1, <2>2, <2>3
<1>6. QED
  BY Zenon, <1>3, <1>4, <1>5 DEF Next

\* What the logic task keeps: the requests in hand and the answers.
LEMMA LogicTypes ==
    ASSUME TypeOK, QueueKinds, Logic
    PROVE  /\ toServe' \in Seq(Request)
           /\ segment' \in [Request -> [result : Verdict, left : Int] \cup {None}]
           /\ reported' \in [Page -> State]
           /\ answers' \in [Request -> Seq(State)]
           /\ networkQueue' \in Seq(Response) /\ Len(networkQueue') <= NetworkCap
           /\ unsaid' \in BOOLEAN
<1>0. /\ toServe \in Seq(Request)
      /\ segment \in [Request -> [result : Verdict, left : Int] \cup {None}]
      /\ reported \in [Page -> State] /\ answers \in [Request -> Seq(State)]
      /\ networkQueue \in Seq(Response) /\ Len(networkQueue) <= NetworkCap
      /\ unsaid \in BOOLEAN
  BY Zenon DEF TypeOK
<1>1. CASE LogicStart \/ LogicRecv \/ LogicHttp
  <2>1. UNCHANGED <<toServe, segment, reported, answers>>
    BY Zenon, <1>1 DEF LogicStart, LogicRecv, LogicHttp, logicSide, logicVars
  <2>2. NetworkEntry(None, None) \in Response
    BY Zenon DEF NetworkEntry, Response
  <2>3. \/ UNCHANGED <<networkQueue, unsaid>>
        \/ to_network_data(NetworkEntry(None, None))
    BY Zenon, <1>1 DEF LogicStart, LogicRecv, LogicHttp, logicSide
  <2>4. QED
    BY Zenon, <1>0, <2>1, <2>2, <2>3, PostNetworkType
<1>2. CASE LogicNetwork
  <2>1. UNCHANGED <<segment, reported, answers>>
    BY Zenon, <1>2 DEF LogicNetwork
  <2>2. toServe' \in Seq(Request)
    BY Zenon, <1>2, LogicTaken, RequestKinds DEF LogicNetwork
  <2>3. NetworkEntry(None, MANAGER_SEND_SUCCESS) \in Response
    BY Zenon DEF NetworkEntry, Response, State, Verdict
  <2>4. \/ UNCHANGED <<networkQueue, unsaid>>
        \/ to_network_data(NetworkEntry(None, MANAGER_SEND_SUCCESS))
    BY Zenon, <1>2 DEF LogicNetwork
  <2>5. QED
    BY Zenon, <1>0, <2>1, <2>2, <2>3, <2>4, PostNetworkType
<1>3. CASE LogicResult
  <2>1. PICK p : p = Head(logicQueue).page
    BY Zenon
  <2>2. p \in Page /\ headState[p] \in State
    BY Zenon, <1>3, <2>1, LogicTaken DEF LogicResult
  <2>3. toServe' = toServe /\ reported' = [reported EXCEPT ![p] = headState[p]]
    BY Zenon, <1>3, <2>1 DEF LogicResult
  <2>4. reported' \in [Page -> State]
    BY Zenon, <1>0, <2>2, <2>3
  <2>5. CASE UNCHANGED <<segment, answers, networkQueue, unsaid>>
    BY Zenon, <1>0, <2>3, <2>4, <2>5
  <2>6. CASE p \in ServerPage /\ manager_network_to_wiota_result(p)
    <3>1. PICK r \in Request : r = requestOf(p)
      BY Zenon, <2>6, PageKinds
    <3>2. PICK c : c = CountSegment(segment[r], p)
      BY Zenon
    <3>3. CASE UNCHANGED segment /\ manager_response_message_result(r, headState[p])
      BY Zenon, <1>0, <2>2, <2>3, <2>4, <3>3, AnswerType
    <3>4. CASE segment[r] # None
      <4>1. c \in [result : Verdict, left : Int]
        BY <1>0, <3>2, <3>4 DEF CountSegment, Verdict
      <4>2. c.result \in State
        BY Zenon, <4>1 DEF State
      <4>3. /\ [segment EXCEPT ![r] = c]
                  \in [Request -> [result : Verdict, left : Int] \cup {None}]
            /\ [segment EXCEPT ![r] = None]
                  \in [Request -> [result : Verdict, left : Int] \cup {None}]
        BY Zenon, <1>0, <4>1
      <4>4. \/ /\ segment' = [segment EXCEPT ![r] = None]
               /\ manager_response_message_result(r, c.result)
            \/ /\ segment' = [segment EXCEPT ![r] = c]
               /\ UNCHANGED <<answers, networkQueue, unsaid>>
        BY Zenon, <2>6, <3>1, <3>2, <3>4 DEF manager_network_to_wiota_result
      <4>5. QED
        BY Zenon, <1>0, <2>3, <2>4, <4>2, <4>3, <4>4, AnswerType
    <3>5. QED
      BY Zenon, <2>6, <3>1, <3>3, <3>4 DEF manager_network_to_wiota_result
  <2>7. QED
    BY Zenon, <1>3, <2>1, <2>5, <2>6 DEF LogicResult
<1>4. CASE manager_send_msg_to_wiota
  <2>1. /\ toServe' = Tail(toServe) /\ toServe # <<>>
        /\ segment' = [segment EXCEPT ![Head(toServe)] = NewSegment(Head(toServe))]
        /\ UNCHANGED <<networkQueue, unsaid, reported, answers>>
    BY Zenon, <1>4 DEF manager_send_msg_to_wiota
  <2>2. toServe' \in Seq(Request) /\ Head(toServe) \in Request
    BY Zenon, <1>0, <2>1, TailFact
  <2>3. segment' \in [Request -> [result : Verdict, left : Int] \cup {None}]
    <3>1. \A r \in Request : Len(Segments[r]) \in Int
      BY PageAssumption
    <3>2. NewSegment(Head(toServe)) \in [result : Verdict, left : Int] \cup {None}
      BY Zenon, <2>2, <3>1 DEF NewSegment, Verdict
    <3>3. QED
      BY Zenon, <1>0, <2>1, <2>2, <3>2
  <2>4. QED
    BY Zenon, <1>0, <2>1, <2>2, <2>3
<1>5. CASE manager_send_packet
  <2>1. UNCHANGED <<toServe, segment, reported>>
    BY Zenon, <1>5 DEF manager_send_packet
  <2>2. \/ UNCHANGED <<answers, networkQueue, unsaid>>
        \/ \E r \in Request : manager_response_message_result(r, MANAGER_SEND_SUCCESS)
    BY Zenon, <1>5, PageKinds DEF manager_send_packet, IsRadio
  <2>3. MANAGER_SEND_SUCCESS \in State
    BY Zenon DEF State, Verdict
  <2>4. QED
    BY Zenon, <1>0, <2>1, <2>2, <2>3, AnswerType
<1>6. QED
  BY Zenon, <1>1, <1>2, <1>3, <1>4, <1>5 DEF Logic

\* What the operation task keeps: the counters of the pages and of the radio.
LEMMA OperationTypes ==
    ASSUME TypeOK, Operation
    PROVE  /\ headState' \in [Page -> 0 .. MANAGER_MAX_SEND_NUM]
           /\ tries' \in [Page -> Nat] /\ onAir' \in [Iote -> Nat]
           /\ otaAir' \in Nat
<1>0. /\ headState \in [Page -> 0 .. MANAGER_MAX_SEND_NUM] /\ tries \in [Page -> Nat]
      /\ onAir \in [Iote -> Nat] /\ otaAir \in Nat
  BY Zenon DEF TypeOK
<1>1. tries' \in [Page -> Nat]
  <2>1. tries' = tries \/ \E p : tries' = [tries EXCEPT ![p] = @ + 1]
    BY Zenon DEF Operation, OperationMsg, OperationRadio, OperationOtaRadio,
       manager_operate_result, Finish, Resend, uc_wiota_send_data,
       manager_ota_result_msg, OperationExit, manager_wiota_exit, OperationStart,
       operationSide, operationVars, radioVars
  <2>2. QED
    BY <1>0, <2>1
<1>2. onAir' \in [Iote -> Nat]
  <2>1. \/ onAir' = onAir \/ \E i : onAir' = [onAir EXCEPT ![i] = @ + 1]
        \/ \E left \in [Iote -> UNION {0 .. onAir[i] : i \in Iote}] : onAir' = left
    BY Zenon DEF Operation, OperationMsg, OperationRadio, OperationOtaRadio,
       manager_operate_result, Finish, Resend, uc_wiota_send_data,
       manager_ota_result_msg, OperationExit, manager_wiota_exit, OperationStart,
       operationSide, operationVars, radioVars
  <2>2. UNION {0 .. onAir[i] : i \in Iote} \subseteq Nat
    BY <1>0
  <2>3. QED
    BY <1>0, <2>1, <2>2
<1>3. otaAir' \in Nat
  <2>1. otaAir' = otaAir \/ otaAir' = otaAir + 1 \/ otaAir' \in 0 .. otaAir
    BY Zenon DEF Operation, OperationMsg, OperationRadio, OperationOtaRadio,
       manager_operate_result, Finish, Resend, uc_wiota_send_data,
       manager_ota_result_msg, OperationExit, manager_wiota_exit, OperationStart,
       operationSide, operationVars, radioVars
  <2>2. QED
    BY <1>0, <2>1
<1>4. headState' \in [Page -> 0 .. MANAGER_MAX_SEND_NUM]
  <2>0. MANAGER_MAX_SEND_NUM \in Nat /\ MANAGER_MAX_SEND_NUM >= 2
    BY Zenon, BoundAssumption
  <2>1. ASSUME NEW i \in 1 .. Len(sendList), TakesResult(i)
        PROVE  headState' \in [Page -> 0 .. MANAGER_MAX_SEND_NUM]
    <3>1. PICK p \in Page : p = sendList[i]
      BY Zenon, <2>1 DEF TakesResult
    <3>2. CASE \E v \in {1, 2} : headState' = [headState EXCEPT ![p] = v]
      BY <1>0, <2>0, <3>2
    <3>3. CASE headState' = [headState EXCEPT ![p] = @ + 1] /\ ~SentOften(p)
      <4>1. headState[p] + 1 \in 0 .. MANAGER_MAX_SEND_NUM
        BY <1>0, <2>0, <3>1, <3>3 DEF SentOften
      <4>2. QED
        BY Zenon, <1>0, <3>3, <4>1
    <3>4. QED
      BY Zenon, <2>1, <3>1, <3>2, <3>3
         DEF TakesResult, Finish, Resend, MANAGER_SEND_SUCCESS, MANAGER_SEND_FAIL
  <2>2. manager_operate_result => headState' \in [Page -> 0 .. MANAGER_MAX_SEND_NUM]
    BY Zenon, <1>0, <2>1, ResultCases DEF operationVars
  <2>3. manager_operate_result \/ headState' = headState
    BY Zenon DEF Operation, OperationMsg, OperationRadio, OperationOtaRadio,
       manager_ota_result_msg, OperationExit, manager_wiota_exit, OperationStart,
       operationSide, operationVars, radioVars
  <2>4. QED
    BY Zenon, <1>0, <2>2, <2>3
<1>5. QED
  BY Zenon, <1>1, <1>2, <1>3, <1>4

\* Every step keeps the types.
LEMMA TypeStep ==
    ASSUME TypeOK, QueueKinds, OneHolder, SendCounter, [Next]_vars
    PROVE  TypeOK'
<1> USE DEF operationVars, radioVars, logicVars, taskVars, inputVars, logicSide,
            operationSide, vars
<1>1. /\ operationQueue' \in Seq(OperationMessage) /\ Len(operationQueue') <= OperationCap
      /\ logicQueue' \in Seq(LogicMessage) /\ Len(logicQueue') <= LogicCap
      /\ sendList' \in Seq(Page) /\ toSend' \in Seq(Page)
      /\ holder' \in [Page -> Place] /\ faults' \in 0 .. MaxFault /\ lossy' \in BOOLEAN
  BY Zenon, QueueTypes, SharedTypes
<1>2. CASE Logic
  <2>1. UNCHANGED <<headState, tries, radioVars, taskVars, inputVars>>
    BY Zenon, <1>2 DEF Logic, LogicStart, LogicRecv, LogicNetwork, LogicHttp, LogicResult,
       manager_send_msg_to_wiota, manager_send_packet
  <2>2. QED
    BY Zenon, <1>1, <1>2, <2>1, LogicTypes DEF TypeOK
<1>3. CASE Operation
  <2>1. UNCHANGED <<toServe, segment, reported, answers, networkQueue, unsaid, acks, heard,
                    restarts, inputVars>>
    BY Zenon, <1>3 DEF Operation, OperationMsg, manager_operate_result, Finish, Resend,
       uc_wiota_send_data, OperationRadio, OperationOtaRadio, manager_ota_result_msg,
       OperationExit, manager_wiota_exit, OperationStart
  <2>2. phase' \in {"scanning", "running", "leaving"}
    BY Zenon, <1>3 DEF Operation, OperationMsg, manager_operate_result, OperationRadio,
       OperationOtaRadio, manager_ota_result_msg, OperationExit, manager_wiota_exit,
       OperationStart, TypeOK
  <2>3. QED
    BY Zenon, <1>1, <1>3, <2>1, <2>2, OperationTypes DEF TypeOK
<1>4. CASE Callbacks
  <2>1. UNCHANGED <<headState, tries, toServe, segment, reported, answers, networkQueue,
                    unsaid, taskVars, inputVars>>
    BY Zenon, <1>4 DEF Callbacks, manager_send_result, uc_send_radio_ota_callback
  <2>2. onAir \in [Iote -> Nat] /\ acks \in [Iote -> Nat] /\ otaAir \in Nat
    BY Zenon DEF TypeOK
  <2>3. ASSUME NEW i \in Iote, NEW ok \in BOOLEAN, manager_send_result(i, ok)
        PROVE  onAir' \in [Iote -> Nat] /\ otaAir' \in Nat /\ acks' \in [Iote -> Nat]
    <3>1. /\ onAir[i] > 0 /\ onAir' = [onAir EXCEPT ![i] = @ - 1] /\ otaAir' = otaAir
          /\ acks' = acks \/ acks' = [acks EXCEPT ![i] = @ + 1]
      BY Zenon, <2>2, <2>3 DEF manager_send_result
    <3>2. onAir' \in [Iote -> Nat]
      BY <2>2, <3>1
    <3>3. acks' \in [Iote -> Nat]
      BY <2>2, <3>1
    <3>4. QED
      BY Zenon, <2>2, <3>1, <3>2, <3>3
  <2>4. uc_send_radio_ota_callback =>
           onAir' \in [Iote -> Nat] /\ otaAir' \in Nat /\ acks' \in [Iote -> Nat]
    BY <2>2 DEF uc_send_radio_ota_callback
  <2>5. QED
    BY Zenon, <1>1, <1>4, <2>1, <2>3, <2>4 DEF Callbacks, TypeOK
<1>5. CASE Inputs \/ manager_recv_timer_func
  <2>1. UNCHANGED <<headState, tries, radioVars, toServe, segment, reported, answers,
                    networkQueue, unsaid, phase>>
    BY Zenon, <1>5 DEF Inputs, NetworkMessage, manager_recv_data, HttpMessage,
       manager_recv_timer_func
  <2>2. /\ restarts \in 0 .. MaxRestart /\ MaxRestart \in Nat
        /\ inputs \in 0 .. MaxInput /\ MaxInput \in Nat
    BY Zenon, BoundAssumption DEF TypeOK
  <2>3. /\ restarts' = restarts \/ (restarts < MaxRestart /\ restarts' = restarts + 1)
        /\ inputs' = inputs \/ (inputs < MaxInput /\ inputs' = inputs + 1)
    BY Zenon, <1>5 DEF Inputs, NetworkMessage, manager_recv_data, HttpMessage,
       manager_recv_timer_func
  <2>4. restarts' \in 0 .. MaxRestart /\ inputs' \in 0 .. MaxInput
    BY <2>2, <2>3
  <2>5. heard' \in BOOLEAN /\ requested' \subseteq Packet
    BY Zenon, <1>5 DEF Inputs, NetworkMessage, manager_recv_data, HttpMessage,
       manager_recv_timer_func, TypeOK
  <2>6. QED
    BY Zenon, <1>1, <2>1, <2>4, <2>5 DEF TypeOK
<1>6. CASE NetworkTake
  <2>1. networkQueue' \in Seq(Response) /\ Len(networkQueue') <= NetworkCap
    <3>1. /\ networkQueue \in Seq(Response) /\ networkQueue # <<>>
          /\ Len(networkQueue) <= NetworkCap /\ networkQueue' = Tail(networkQueue)
      BY Zenon, <1>6 DEF NetworkTake, TypeOK
    <3>2. QED
      BY <3>1, TailFact, BoundAssumption
  <2>2. QED
    BY Zenon, <1>1, <1>6, <2>1 DEF NetworkTake, TypeOK
<1>7. CASE Waiting \/ UNCHANGED vars
  BY Zenon, <1>7 DEF Waiting, TypeOK
<1>8. QED
  BY Zenon, <1>2, <1>3, <1>4, <1>5, <1>6, <1>7 DEF Next

-----------------------------------------------------------------------------
(* Every step keeps the kinds of the messages and every page held once. *)

\* A message posted to the operation queue keeps its shape while it waits.
LEMMA OperationKindsStep ==
    ASSUME TypeOK, QueueKinds,
           \/ operationQueue' = operationQueue
           \/ operationQueue # <<>> /\ operationQueue' = Tail(operationQueue)
           \/ \E e \in OperationMessage :
                 OperationKind(e) /\ operationQueue' = Append(operationQueue, e)
    PROVE  (\A i \in DOMAIN operationQueue : OperationKind(operationQueue[i]))'
<1> USE DEF OperationKind
<1>1. /\ operationQueue \in Seq(OperationMessage)
      /\ \A i \in DOMAIN operationQueue : OperationKind(operationQueue[i])
  BY Zenon DEF TypeOK, QueueKinds
<1>2. CASE operationQueue' = operationQueue
  BY Zenon, <1>1, <1>2
<1>3. CASE operationQueue # <<>> /\ operationQueue' = Tail(operationQueue)
  BY <1>1, <1>3, TailFact
<1>4. CASE \E e \in OperationMessage :
              OperationKind(e) /\ operationQueue' = Append(operationQueue, e)
  <2>1. PICK e \in OperationMessage :
              OperationKind(e) /\ operationQueue' = Append(operationQueue, e)
    BY Zenon, <1>4
  <2>2. QED
    BY <1>1, <2>1, AppendFact
<1>5. QED
  BY Zenon, <1>2, <1>3, <1>4

\* A message posted to the logic queue keeps its shape while it waits.
LEMMA LogicKindsStep ==
    ASSUME TypeOK, QueueKinds,
           \A i \in DOMAIN logicQueue :
              logicQueue[i].page # None =>
                 /\ headState'[logicQueue[i].page] = headState[logicQueue[i].page]
                 /\ tries'[logicQueue[i].page] = tries[logicQueue[i].page],
           \/ logicQueue' = logicQueue
           \/ logicQueue # <<>> /\ logicQueue' = Tail(logicQueue)
           \/ \E e \in LogicMessage :
                 LogicKind(e)' /\ logicQueue' = Append(logicQueue, e)
    PROVE  (\A i \in DOMAIN logicQueue : LogicKind(logicQueue[i]))'
<1>1. logicQueue \in Seq(LogicMessage) /\ None \notin Page
  BY Zenon, PageAssumption DEF TypeOK
<1>2. \A i \in DOMAIN logicQueue : LogicKind(logicQueue[i])
  BY Zenon DEF QueueKinds
<1>3. ASSUME NEW i \in DOMAIN logicQueue, NEW e, e = logicQueue[i]
      PROVE  LogicKind(e)'
  BY Zenon, <1>1, <1>2, <1>3 DEF LogicKind
<1>4. CASE logicQueue' = logicQueue
  BY Zenon, <1>3, <1>4 DEF LogicKind
<1>5. CASE logicQueue # <<>> /\ logicQueue' = Tail(logicQueue)
  <2>1. ASSUME NEW i \in DOMAIN Tail(logicQueue)
        PROVE  i + 1 \in DOMAIN logicQueue /\ Tail(logicQueue)[i] = logicQueue[i + 1]
    BY <1>1, <1>5, TailFact
  <2>2. QED
    BY Zenon, <1>3, <1>5, <2>1 DEF LogicKind
<1>6. CASE \E e \in LogicMessage :
              LogicKind(e)' /\ logicQueue' = Append(logicQueue, e)
  <2>1. PICK e \in LogicMessage :
              LogicKind(e)' /\ logicQueue' = Append(logicQueue, e)
    BY Zenon, <1>6
  <2>2. ASSUME NEW i \in DOMAIN logicQueue'
        PROVE  \/ i \in DOMAIN logicQueue /\ logicQueue'[i] = logicQueue[i]
               \/ logicQueue'[i] = e
    BY <1>1, <2>1, AppendFact
  <2>3. QED
    BY Zenon, <1>3, <2>1, <2>2 DEF LogicKind
<1>7. QED
  BY Zenon, <1>4, <1>5, <1>6

\* A page leaves its queue, the list or the loop only when that gives it up.
LEMMA LeavesFact ==
    ASSUME TypeOK, QueueKinds, OneHolder, RequestsOnce, [Next]_vars,
           NEW p \in Page, holder'[p] # holder[p]
    PROVE  /\ holder[p] = "toSend" => TakenToSend(p)
           /\ holder[p] = "operationQueue" => TakenFromOperation(p)
           /\ holder[p] = "logicQueue" => TakenFromLogic(p)
           /\ holder[p] = "sendList" => sendList' # sendList
  BY Zenon, PagePath DEF Path, Rests, Passes, Sent, Resent, Done

\* Every step keeps the messages and the listed pages what they are.
LEMMA KindsStep ==
    ASSUME TypeOK, QueueKinds, OneHolder, SendCounter, RequestsOnce, [Next]_vars
    PROVE  QueueKinds'
<1>1. (\A i \in DOMAIN operationQueue : OperationKind(operationQueue[i]))'
  BY Zenon, OperationQueueStep, OperationKindsStep
<1>2. (\A i \in DOMAIN logicQueue : LogicKind(logicQueue[i]))'
  <2>1. ASSUME NEW p \in Page, holder[p] = "logicQueue"
        PROVE  headState'[p] = headState[p] /\ tries'[p] = tries[p]
    BY Zenon, <2>1, PagePath DEF Path, Rests, Passes, Sent, Resent, Done
  <2>2. \A i \in DOMAIN logicQueue :
           logicQueue[i].page # None =>
              /\ headState'[logicQueue[i].page] = headState[logicQueue[i].page]
              /\ tries'[logicQueue[i].page] = tries[logicQueue[i].page]
    BY Zenon, <2>1, LogicQueuedFact
  <2>3. QED
    BY Zenon, <2>2, LogicQueueStep, LogicKindsStep
<1>3. (\A p \in Range(sendList) : ~IsRadio(p))'
  <2>1. sendList \in Seq(Page) /\ \A p \in Range(sendList) : ~IsRadio(p)
    BY Zenon DEF TypeOK, QueueKinds
  <2>2. \A p \in Range(sendList') : p \in Range(sendList) \/ ~IsRadio(p)
    <3>1. CASE sendList' = sendList \/ sendList' = <<>>
      BY <3>1 DEF Range
    <3>2. CASE \E p \in Page : sendList' = Append(sendList, p) /\ ~IsRadio(p)
      BY <2>1, <3>2, QueueRangeFact
    <3>3. CASE \E i \in 1 .. Len(sendList) :
                  sendList' \in {Unlink(sendList, i), <<sendList[i]>> \o Unlink(sendList, i)}
      BY Zenon, <2>1, <3>3, RelinkFact
    <3>4. QED
      BY Zenon, <3>1, <3>2, <3>3, SendListStep
  <2>3. (\A p \in Range(sendList) : ~IsRadio(p))' <=> \A p \in Range(sendList') : ~IsRadio(p)
    BY Zenon
  <2>4. QED
    BY Zenon, <2>1, <2>2, <2>3
<1>4. QED
  BY Zenon, <1>1, <1>2, <1>3 DEF QueueKinds

\* Every step keeps every page held once.
LEMMA HolderStep ==
    ASSUME TypeOK, QueueKinds, OneHolder, SendCounter, RequestsOnce, [Next]_vars
    PROVE  OneHolder'
<1>0. /\ operationQueue \in Seq(OperationMessage) /\ logicQueue \in Seq(LogicMessage)
      /\ sendList \in Seq(Page) /\ toSend \in Seq(Page)
      /\ EntriesOnce(operationQueue, holder, "operationQueue")
      /\ EntriesOnce(logicQueue, holder, "logicQueue")
      /\ NodesOnce(sendList, holder, "sendList") /\ NodesOnce(toSend, holder, "toSend")
  BY Zenon DEF TypeOK, OneHolder
<1>1. EntriesOnce(operationQueue', holder', "operationQueue")
  <2>1. ASSUME NEW i \in DOMAIN operationQueue, operationQueue[i].page # None,
               holder'[operationQueue[i].page] # "operationQueue"
        PROVE  /\ operationQueue[i].page = Head(operationQueue).page
               /\ operationQueue # <<>> /\ operationQueue' = Tail(operationQueue)
    BY Zenon, <1>0, <2>1, EntryPages, LeavesFact DEF EntriesOnce, TakenFromOperation
  <2>2. \A i \in DOMAIN operationQueue :
           operationQueue[i].page \notin {None, Head(operationQueue).page} =>
              holder'[operationQueue[i].page] = holder[operationQueue[i].page]
    BY Zenon, <1>0, <2>1 DEF EntriesOnce
  <2>3. CASE operationQueue # <<>> /\ operationQueue' = Tail(operationQueue)
    BY Zenon, <1>0, <2>2, <2>3, EntriesTail
  <2>4. CASE ~(operationQueue # <<>> /\ operationQueue' = Tail(operationQueue))
    <3>1. \A i \in DOMAIN operationQueue :
             operationQueue[i].page # None =>
                /\ holder'[operationQueue[i].page] = "operationQueue"
                /\ holder[operationQueue[i].page] = "operationQueue"
      BY Zenon, <1>0, <2>1, <2>4 DEF EntriesOnce
    <3>2. CASE operationQueue' = operationQueue
      BY Zenon, <1>0, <3>1, <3>2, EntriesKeep
    <3>3. ASSUME NEW e \in OperationMessage, operationQueue' = Append(operationQueue, e),
                 \/ e.page = None
                 \/ /\ toSend # <<>> /\ e.page = Head(toSend)
                    /\ holder'[e.page] = "operationQueue"
          PROVE  EntriesOnce(operationQueue', holder', "operationQueue")
      <4>1. toSend # <<>> => holder[Head(toSend)] = "toSend"
        BY Zenon, <1>0, HeadHeld
      <4>2. e.page # None => /\ holder[e.page] # "operationQueue"
                             /\ holder'[e.page] = "operationQueue"
        BY Zenon, <3>3, <4>1
      <4>3. QED
        BY Zenon, <1>0, <3>1, <3>3, <4>2, EntriesAppend
    <3>4. QED
      BY Zenon, <2>4, <3>2, <3>3, OperationQueueStep
  <2>5. QED
    BY Zenon, <2>3, <2>4
<1>2. EntriesOnce(logicQueue', holder', "logicQueue")
  <2>1. ASSUME NEW i \in DOMAIN logicQueue, logicQueue[i].page # None,
               holder'[logicQueue[i].page] # "logicQueue"
        PROVE  /\ logicQueue[i].page = Head(logicQueue).page
               /\ logicQueue # <<>> /\ logicQueue' = Tail(logicQueue)
    BY Zenon, <1>0, <2>1, EntryPages, LeavesFact DEF EntriesOnce, TakenFromLogic
  <2>2. \A i \in DOMAIN logicQueue :
           logicQueue[i].page \notin {None, Head(logicQueue).page} =>
              holder'[logicQueue[i].page] = holder[logicQueue[i].page]
    BY Zenon, <1>0, <2>1 DEF EntriesOnce
  <2>3. CASE logicQueue # <<>> /\ logicQueue' = Tail(logicQueue)
    BY Zenon, <1>0, <2>2, <2>3, EntriesTail
  <2>4. CASE ~(logicQueue # <<>> /\ logicQueue' = Tail(logicQueue))
    <3>1. \A i \in DOMAIN logicQueue :
             logicQueue[i].page # None =>
                /\ holder'[logicQueue[i].page] = "logicQueue"
                /\ holder[logicQueue[i].page] = "logicQueue"
      BY Zenon, <1>0, <2>1, <2>4 DEF EntriesOnce
    <3>2. CASE logicQueue' = logicQueue
      BY Zenon, <1>0, <3>1, <3>2, EntriesKeep
    <3>3. ASSUME NEW e \in LogicMessage, logicQueue' = Append(logicQueue, e),
                 e.page # None => /\ holder[e.page] # "logicQueue"
                                  /\ holder'[e.page] = "logicQueue"
          PROVE  EntriesOnce(logicQueue', holder', "logicQueue")
      BY Zenon, <1>0, <3>1, <3>3, EntriesAppend
    <3>4. QED
      BY Zenon, <2>4, <3>2, <3>3, LogicQueueStep
  <2>5. QED
    BY Zenon, <2>3, <2>4
<1>3. NodesOnce(sendList', holder', "sendList")
  <2>1. \A i \in DOMAIN sendList : sendList[i] \in Page /\ holder[sendList[i]] = "sendList"
    BY Zenon, <1>0, EntryPages DEF NodesOnce
  <2>2. CASE sendList' = sendList
    <3>1. \A i \in DOMAIN sendList : holder'[sendList[i]] = "sendList"
      BY Zenon, <2>1, <2>2, LeavesFact
    <3>2. QED
      BY Zenon, <1>0, <2>2, <3>1, NodesKeep
  <2>3. CASE sendList' = <<>>
    BY <2>3 DEF NodesOnce
  <2>4. ASSUME NEW p \in Page, sendList' = Append(sendList, p),
               holder[p] # "sendList", holder'[p] = "sendList",
               \A q \in Page \ {p} : holder'[q] = holder[q]
        PROVE  NodesOnce(sendList', holder', "sendList")
    BY Zenon, <1>0, <2>1, <2>4, NodesAppend
  <2>5. ASSUME NEW i \in 1 .. Len(sendList), sendList' = Unlink(sendList, i),
               \A q \in Page \ {sendList[i]} : holder'[q] = holder[q]
        PROVE  NodesOnce(sendList', holder', "sendList")
    <3>1. i \in DOMAIN sendList
      BY <1>0
    <3>2. \A j \in DOMAIN sendList :
             sendList[j] # sendList[i] => holder'[sendList[j]] = holder[sendList[j]]
      BY Zenon, <2>1, <2>5
    <3>3. QED
      BY Zenon, <1>0, <2>5, <3>1, <3>2, NodesRemove
  <2>6. ASSUME NEW i \in 1 .. Len(sendList), holder' = holder,
               sendList' = <<sendList[i]>> \o Unlink(sendList, i)
        PROVE  NodesOnce(sendList', holder', "sendList")
    <3>1. i \in DOMAIN sendList
      BY <1>0
    <3>2. QED
      BY Zenon, <1>0, <2>6, <3>1, NodesToHead
  <2>7. QED
    BY Zenon, <2>2, <2>3, <2>4, <2>5, <2>6, SendListStep
<1>4. NodesOnce(toSend', holder', "toSend")
  <2>1. \A i \in DOMAIN toSend : toSend[i] \in Page /\ holder[toSend[i]] = "toSend"
    BY Zenon, <1>0, EntryPages DEF NodesOnce
  <2>2. \A i \in DOMAIN toSend : holder'[toSend[i]] # "toSend" =>
           toSend[i] = Head(toSend) /\ toSend # <<>> /\ toSend' = Tail(toSend)
    BY Zenon, <2>1, LeavesFact DEF TakenToSend
  <2>3. CASE toSend # <<>> /\ toSend' = Tail(toSend)
    <3>1. \A i \in DOMAIN toSend : toSend[i] # Head(toSend) =>
                                      holder'[toSend[i]] = holder[toSend[i]]
      BY Zenon, <2>1, <2>2
    <3>2. QED
      BY Zenon, <1>0, <2>3, <3>1, NodesTail
  <2>4. CASE toSend' = toSend /\ ~(toSend # <<>> /\ toSend' = Tail(toSend))
    <3>1. \A i \in DOMAIN toSend : holder'[toSend[i]] = "toSend"
      BY Zenon, <2>2, <2>4
    <3>2. QED
      BY Zenon, <1>0, <2>4, <3>1, NodesKeep
  <2>5. ASSUME NEW m \in Page, toSend' = <<m>>, holder'[m] = "toSend"
        PROVE  NodesOnce(toSend', holder', "toSend")
    BY <2>5 DEF NodesOnce
  <2>6. ASSUME NEW r \in Request, toSend' = Segments[r],
               \A p \in PagesOf(r) : holder'[p] = "toSend"
        PROVE  NodesOnce(toSend', holder', "toSend")
    <3>1. IsInjective(Segments[r])
      BY Zenon, PageAssumption
    <3>2. QED
      BY Zenon, <2>6, <3>1 DEF NodesOnce, PagesOf, Range, IsInjective
  <2>7. QED
    BY Zenon, <2>3, <2>4, <2>5, <2>6, ToSendStep
<1>5. QED
  BY Zenon, <1>1, <1>2, <1>3, <1>4 DEF OneHolder

-----------------------------------------------------------------------------
(* Every step keeps counters and sends in step. *)

\* Every step keeps counters and sends in step.
LEMMA CounterStep ==
    ASSUME TypeOK, QueueKinds, OneHolder, SendCounter, RequestsOnce, [Next]_vars
    PROVE  SendCounter'
<1> SUFFICES ASSUME NEW p \in Page PROVE Counter(p)'
  BY Zenon DEF SendCounter
<1>0. /\ headState[p] \in Nat /\ tries[p] \in Nat
      /\ MANAGER_MAX_SEND_NUM \in Nat /\ MANAGER_MAX_SEND_NUM >= 2
  BY BoundAssumption DEF TypeOK
<1>1. Path(p) /\ Counter(p)
  BY Zenon, PagePath DEF SendCounter
<1>2. CASE Rests(p)
  BY Zenon, <1>1, <1>2 DEF Rests, Counter
<1>3. CASE Passes(p)
  BY Zenon, <1>1, <1>3 DEF Passes, Counter
<1>4. CASE Sent(p)
  <2>1. /\ holder'[p] = "sendList" /\ tries'[p] = 1 /\ headState'[p] = 0
    BY <1>1, <1>4 DEF Sent, Counter
  <2>2. /\ tries'[p] = headState'[p] + 1 /\ headState'[p] <= MANAGER_MAX_SEND_NUM - 1
        /\ tries'[p] <= MANAGER_MAX_SEND_NUM
    BY <1>0, <2>1
  <2>3. QED
    BY Zenon, <2>1, <2>2 DEF Counter
<1>5. CASE Resent(p)
  <2>1. /\ p \notin Ota /\ holder[p] = "sendList" /\ holder'[p] \in {"sendList", "lost"}
        /\ ~SentOften(p) /\ headState'[p] = headState[p] + 1 /\ tries'[p] = tries[p] + 1
    BY Zenon, <1>5 DEF Resent, Unicast
  <2>2. tries[p] = headState[p] + 1
    BY Zenon, <1>1, <2>1 DEF Counter
  <2>3. PICK h \in Nat : h = headState[p] /\ h <= MANAGER_MAX_SEND_NUM - 2
    BY <1>0, <2>1 DEF SentOften
  <2>4. /\ tries'[p] = headState'[p] + 1 /\ headState'[p] <= MANAGER_MAX_SEND_NUM - 1
        /\ tries'[p] <= MANAGER_MAX_SEND_NUM
    BY <1>0, <2>1, <2>2, <2>3
  <2>5. QED
    BY Zenon, <2>1, <2>4 DEF Counter
<1>6. CASE Done(p)
  BY Zenon, <1>1, <1>6 DEF Done, Counter
<1>7. QED
  BY Zenon, <1>1, <1>2, <1>3, <1>4, <1>5, <1>6 DEF Path

\* A freed page stays freed, and a page of a request stays unallocated until
\* that request is started.
Stays(p) ==
    /\ holder[p] = "freed" => holder'[p] = "freed"
    /\ p \in ServerPage /\ holder[p] = "fresh" =>
          \/ holder'[p] = "fresh"
          \/ manager_send_msg_to_wiota /\ p \in PagesOf(Head(toServe))

\* A page that takes one of the paths stays so.
LEMMA PathStays == ASSUME NEW p, Path(p) PROVE Stays(p)
<1>1. p \in ServerPage => p \notin Forward
  BY Zenon, PageAssumption
<1>2. QED
  BY Zenon, <1>1 DEF Stays, Path, Rests, Passes, Sent, Resent, Done

\* Every step leaves every page so.
LEMMA PageMoves ==
    ASSUME TypeOK, QueueKinds, OneHolder, RequestsOnce, [Next]_vars
    PROVE  \A p \in Page : Stays(p)
  BY Zenon, PagePath, PathStays

-----------------------------------------------------------------------------
(* Every listed page has a result to come, and every success is backed by an *)
(* acknowledgement.                                                          *)

\* The results for a device, the successes among them, and the results of the
\* OTA broadcasts.
ResultsFor(i) == {e \in OperationMessage : e.cmd = "MSG_RESULT" /\ e.id = i}
Acked(i) == {e \in ResultsFor(i) : e.ok}
OtaResults == {e \in OperationMessage : e.cmd = "OTA_RADIO_RESULT"}

\* The pages that a success was credited to.
Credited(i) ==
    {p \in To(i) : \/ reported[p] = MANAGER_SEND_SUCCESS
                   \/ holder[p] = "logicQueue" /\ headState[p] = MANAGER_SEND_SUCCESS}
Backed(i) == Covered(operationQueue, Credited(i), Acked(i), acks[i])

\* As long as nothing was dropped or discarded.
Ledger == /\ \A i \in Iote :
                Balanced(operationQueue, sendList, ResultsFor(i), To(i), onAir[i])
          /\ Balanced(operationQueue, sendList, OtaResults, Ota, otaAir)
          /\ phase # "leaving" /\ (phase = "scanning" => sendList = <<>>)

CountInv == /\ \A i \in Iote : Backed(i)
            /\ ~lossy => Ledger

\* A page gets its success from manager_operate_result only.
LEMMA CreditStep ==
    ASSUME PageInv, [Next]_vars, ~manager_operate_result, NEW i \in Iote
    PROVE  Credited(i)' \subseteq Credited(i)
<1>1. TypeOK /\ QueueKinds /\ OneHolder /\ SendCounter /\ RequestsOnce
  BY Zenon DEF PageInv
<1> SUFFICES ASSUME NEW p \in Page, p \in To(i), p \in Unicast, p \in Credited(i)'
             PROVE  p \in Credited(i)
  BY Zenon DEF Credited, To, Unicast
<1>2. Path(p) /\ Counter(p) /\ p \notin Ota
  BY Zenon, <1>1, PagePath, PageKinds DEF SendCounter
<1>3. CASE holder'[p] = "logicQueue" /\ headState'[p] = MANAGER_SEND_SUCCESS
  <2>1. Rests(p) \/ Passes(p)
    BY Zenon, <1>2, <1>3 DEF Path, Sent, Resent, Done
  <2>2. holder[p] # "fresh" \/ headState[p] # MANAGER_SEND_SUCCESS
    BY <1>2 DEF Counter, MANAGER_SEND_SUCCESS
  <2>3. holder[p] = "logicQueue" /\ headState[p] = MANAGER_SEND_SUCCESS
    BY Zenon, <1>3, <2>1, <2>2 DEF Rests, Passes
  <2>4. QED
    BY Zenon, <2>3 DEF Credited
<1>4. CASE reported'[p] = MANAGER_SEND_SUCCESS
  <2>1. CASE reported'[p] = reported[p]
    BY Zenon, <1>4, <2>1 DEF Credited
  <2>2. CASE LogicResult /\ reported'[p] # reported[p]
    <3>1. LogicReady("SEND_RESULT") /\ Head(logicQueue) = logicQueue[1]
          /\ 1 \in DOMAIN logicQueue /\ Head(logicQueue).page \in Page
      BY Zenon, <1>1, <2>2, LogicTaken DEF LogicResult
    <3>2. p = Head(logicQueue).page /\ reported'[p] = headState[p]
      BY Zenon, <1>1, <2>2, <3>1 DEF LogicResult, TypeOK
    <3>3. holder[p] = "logicQueue"
      BY Zenon, <1>1, <3>1, <3>2, LogicQueuedFact, PageAssumption
    <3>4. QED
      BY Zenon, <1>4, <3>2, <3>3 DEF Credited
  <2>3. CASE reported' # reported /\ ~LogicResult
    BY Zenon, <2>3
       DEF Next, Logic, Operation, Callbacks, Inputs, LogicStart, LogicRecv, LogicNetwork,
           LogicHttp, manager_send_msg_to_wiota, manager_send_packet, OperationMsg,
           manager_operate_result, OperationRadio, OperationOtaRadio,
           manager_ota_result_msg, OperationExit, manager_wiota_exit, OperationStart,
           manager_send_result, uc_send_radio_ota_callback, NetworkMessage,
           manager_recv_data, HttpMessage, manager_recv_timer_func, NetworkTake, Waiting,
           vars, logicVars, logicSide
  <2>4. QED
    BY Zenon, <2>1, <2>2, <2>3
<1>5. QED
  BY Zenon, <1>3, <1>4 DEF Credited

\* A search of the list that finds nothing: none of the listed pages is meant.
Findable ==
    \A L : query_head_list(sendList, L) = {} =>
              \A j \in DOMAIN sendList : sendList[j] \notin L

\* manager_operate_result takes a result and acts on a page for its device.
LEMMA ResultTakes ==
    ASSUME TypeOK, QueueKinds, OneHolder, Findable, manager_operate_result, NEW e,
           e = Head(operationQueue)
    PROVE  /\ operationQueue # <<>> /\ operationQueue' = Tail(operationQueue)
           /\ e \in ResultsFor(e.id) /\ e.id \in Iote
           /\ UNCHANGED <<acks, otaAir, phase, reported>>
           /\ \/ /\ \A j \in DOMAIN sendList : sendList[j] \notin To(e.id)
                 /\ UNCHANGED <<sendList, onAir, holder, headState, lossy>>
              \/ \E i \in 1 .. Len(sendList) :
                    /\ sendList[i] \in To(e.id) /\ sendList[i] \in Page
                    /\ holder[sendList[i]] = "sendList"
                    /\ \/ e.ok /\ Finish(i, MANAGER_SEND_SUCCESS)
                       \/ ~e.ok /\ Finish(i, MANAGER_SEND_FAIL)
                       \/ ~e.ok /\ Resend(i)
<1> DEFINE found == query_head_list(sendList, To(e.id))
<1>1. OperationReady("MSG_RESULT") /\ sendList \in Seq(Page)
  BY Zenon DEF manager_operate_result, TypeOK
<1>2. /\ operationQueue # <<>> /\ operationQueue' = Tail(operationQueue)
      /\ e \in OperationMessage /\ e.cmd = "MSG_RESULT" /\ e.id \in Iote
  BY Zenon, <1>1, OperationTaken DEF OperationReady
<1>3. UNCHANGED <<acks, otaAir, phase, reported>>
  BY Zenon DEF manager_operate_result, Finish, Resend, uc_wiota_send_data, logicSide,
     logicVars, taskVars, radioVars
<1>4. CASE found = {} /\ UNCHANGED <<operationVars, radioVars, holder, lossy>>
  <2>1. \A j \in DOMAIN sendList : sendList[j] \notin To(e.id)
    BY Zenon, <1>1, <1>4 DEF Findable
  <2>2. QED
    BY Zenon, <1>2, <1>3, <1>4, <2>1 DEF ResultsFor, operationVars, radioVars
<1>5. ASSUME NEW i \in found,
             IF e.ok THEN Finish(i, MANAGER_SEND_SUCCESS)
             ELSE IF SentOften(sendList[i]) THEN Finish(i, MANAGER_SEND_FAIL)
             ELSE Resend(i)
      PROVE  /\ i \in 1 .. Len(sendList)
             /\ sendList[i] \in To(e.id) /\ sendList[i] \in Page
             /\ holder[sendList[i]] = "sendList"
             /\ \/ e.ok /\ Finish(i, MANAGER_SEND_SUCCESS)
                \/ ~e.ok /\ Finish(i, MANAGER_SEND_FAIL)
                \/ ~e.ok /\ Resend(i)
  <2>1. i \in 1 .. Len(sendList) /\ sendList[i] \in To(e.id)
    BY <1>1, <1>5 DEF query_head_list
  <2>2. QED
    BY Zenon, <1>5, <2>1, ListedFact
<1>6. QED
  BY Zenon, <1>2, <1>3, <1>4, <1>5 DEF ResultsFor, manager_operate_result

\* A success is credited to one page of the device, another result to none.
LEMMA ResultCredit ==
    ASSUME PageInv, Findable, manager_operate_result, NEW i \in Iote, NEW e,
           e = Head(operationQueue)
    PROVE  \/ Credited(i)' \subseteq Credited(i)
           \/ e \in Acked(i) /\ \E p : Credited(i)' \subseteq Credited(i) \cup {p}
<1>1. TypeOK /\ QueueKinds /\ OneHolder /\ headState \in [Page -> 0 .. MANAGER_MAX_SEND_NUM]
      /\ holder \in [Page -> Place]
  BY Zenon DEF PageInv, TypeOK
<1>2. UNCHANGED reported /\ e \in ResultsFor(e.id)
  BY Zenon, <1>1, ResultTakes
<1>3. CASE UNCHANGED <<holder, headState>>
  BY Zenon, <1>2, <1>3 DEF Credited
<1>4. ASSUME NEW j \in 1 .. Len(sendList), NEW p \in Page, p = sendList[j], p \in To(e.id),
             \/ e.ok /\ Finish(j, MANAGER_SEND_SUCCESS)
             \/ ~e.ok /\ Finish(j, MANAGER_SEND_FAIL)
             \/ ~e.ok /\ Resend(j)
      PROVE  \/ Credited(i)' \subseteq Credited(i)
             \/ e \in Acked(i) /\ Credited(i)' \subseteq Credited(i) \cup {p}
  <2>1. \A q \in Page \ {p} : holder'[q] = holder[q] /\ headState'[q] = headState[q]
    BY Zenon, <1>1, <1>4 DEF Finish, Resend, Move, to_queue_logic_data, LogicEntry
  <2>2. Credited(i)' \subseteq Credited(i) \cup {p}
    BY Zenon, <1>2, <2>1 DEF Credited, To, Unicast
  <2>3. CASE e.ok
    <3>1. e \in Acked(e.id)
      BY Zenon, <1>2, <2>3 DEF Acked
    <3>2. i # e.id => p \notin To(i)
      BY Zenon, <1>4 DEF To
    <3>3. i # e.id => Credited(i)' \subseteq Credited(i)
      BY Zenon, <2>2, <3>2 DEF Credited
    <3>4. QED
      BY Zenon, <2>2, <3>1, <3>3
  <2>4. CASE ~e.ok
    <3>1. CASE Finish(j, MANAGER_SEND_FAIL)
      <4>1. headState'[p] # MANAGER_SEND_SUCCESS
        BY <1>1, <1>4, <3>1 DEF Finish, MANAGER_SEND_SUCCESS, MANAGER_SEND_FAIL
      <4>2. QED
        BY Zenon, <1>2, <2>2, <4>1 DEF Credited
    <3>2. CASE Resend(j)
      <4>1. holder'[p] # "logicQueue"
        BY Zenon, <1>1, <1>4, <3>2, ListedFact DEF Resend, Move
      <4>2. QED
        BY Zenon, <1>2, <2>2, <4>1 DEF Credited
    <3>3. QED
      BY Zenon, <1>4, <2>4, <3>1, <3>2
  <2>5. QED
    BY Zenon, <2>3, <2>4
<1>5. QED
  BY Zenon, <1>1, <1>3, <1>4, ResultTakes

\* The results that a step may post come from the radio.
Unposted ==
    \/ operationQueue' = operationQueue
    \/ \E e \in OperationMessage :
          /\ operationQueue' = Append(operationQueue, e)
          /\ e.cmd \notin {"MSG_RESULT", "OTA_RADIO_RESULT"}

\* The logic task, the inputs and the timer neither post results nor touch the list.
LEMMA NotPosted ==
    ASSUME TypeOK, QueueKinds, Logic \/ Inputs \/ manager_recv_timer_func \/ NetworkTake
    PROVE  /\ Unposted /\ (lossy => lossy')
           /\ UNCHANGED <<sendList, onAir, otaAir, acks, phase>>
<1>1. UNCHANGED <<sendList, onAir, otaAir, acks, phase>>
  BY Zenon DEF Logic, Inputs, LogicStart, LogicRecv, LogicNetwork, LogicHttp, LogicResult,
     manager_send_msg_to_wiota, manager_send_packet, NetworkMessage, manager_recv_data,
     HttpMessage, manager_recv_timer_func, NetworkTake, operationSide, operationVars,
     radioVars, taskVars
<1>2. lossy => lossy'
  BY Zenon DEF Logic, Inputs, LogicStart, LogicRecv, LogicNetwork, LogicHttp, LogicResult,
     manager_send_msg_to_wiota, manager_send_packet, NetworkMessage, manager_recv_data,
     HttpMessage, manager_recv_timer_func, NetworkTake, to_queue_logic_data,
     to_operation_wiota_data
<1>3. CASE manager_send_packet
  <2>1. Head(toSend) \in Page
    BY Zenon, <1>3, TailFact DEF manager_send_packet, TypeOK
  <2> DEFINE e == OperationEntry(Command(Head(toSend)), Head(toSend), None, FALSE)
  <2>2. e \in OperationMessage /\ e.cmd = Command(Head(toSend))
    BY Zenon, <2>1 DEF OperationEntry, OperationMessage, Command
  <2>3. e.cmd \notin {"MSG_RESULT", "OTA_RADIO_RESULT"}
    BY Zenon, <2>2 DEF Command
  <2>4. QED
    BY Zenon, <1>1, <1>2, <1>3, <2>2, <2>3
       DEF manager_send_packet, to_operation_wiota_data, Unposted
<1>4. CASE manager_recv_timer_func
  <2> DEFINE e == OperationEntry("EXIT", None, None, FALSE)
  <2>1. e \in OperationMessage /\ e.cmd = "EXIT"
    BY Zenon DEF OperationEntry, OperationMessage
  <2>2. e.cmd \notin {"MSG_RESULT", "OTA_RADIO_RESULT"}
    BY Zenon, <2>1
  <2>3. QED
    BY Zenon, <1>1, <1>2, <1>4, <2>1, <2>2
       DEF manager_recv_timer_func, to_operation_wiota_data, Unposted
<1>5. CASE operationQueue' = operationQueue
  BY Zenon, <1>1, <1>2, <1>5 DEF Unposted
<1>6. QED
  BY Zenon, <1>3, <1>4, <1>5
     DEF Logic, Inputs, LogicStart, LogicRecv, LogicNetwork, LogicHttp, LogicResult,
         manager_send_msg_to_wiota, NetworkMessage, manager_recv_data, HttpMessage,
         NetworkTake

\* Every success that is queued or credited is backed by an acknowledgement.
LEMMA BackedStep ==
    ASSUME PageInv, Findable, [Next]_vars, NEW i \in Iote, Backed(i)
    PROVE  Backed(i)'
<1>1. /\ TypeOK /\ QueueKinds /\ OneHolder
      /\ operationQueue \in Seq(OperationMessage) /\ acks \in [Iote -> Nat]
      /\ Acked(i) = Acked(i)'
  BY Zenon DEF PageInv, TypeOK, Acked, ResultsFor
<1> DEFINE q == operationQueue
           C == Credited(i)
           D == Credited(i)'
           E == Acked(i)
           a == acks[i]
<1>2. q \in Seq(OperationMessage) /\ a \in Nat /\ Covered(q, C, E, a)
  BY Zenon, <1>1 DEF Backed
<1>3. Covered(operationQueue', D, E, acks'[i]) => Backed(i)'
  BY Zenon, <1>1 DEF Backed
<1>4. CASE manager_operate_result
  <2>1. q # <<>> /\ operationQueue' = Tail(q) /\ acks'[i] = a
    BY Zenon, <1>1, <1>4, ResultTakes
  <2>2. \/ D \subseteq C
        \/ Head(q) \in E /\ \E p : D \subseteq C \cup {p}
    BY Zenon, <1>4, ResultCredit
  <2> HIDE DEF q, C, D, E, a
  <2>3. CASE D \subseteq C
    BY Zenon, <1>2, <1>3, <2>1, <2>3, CoverFact
  <2>4. ASSUME Head(q) \in E, NEW p, D \subseteq C \cup {p} PROVE Backed(i)'
    <3>1. Covered(Tail(q), C \cup {p}, E, a) /\ Tail(q) \in Seq(OperationMessage)
      BY Zenon, <1>2, <2>1, <2>4, CoverFact, TailFact
    <3>2. Covered(Tail(q), D, E, a)
      BY Zenon, <1>2, <2>4, <3>1, CoverFact
    <3>3. QED
      BY Zenon, <1>3, <2>1, <3>2
  <2>5. QED
    BY Zenon, <2>2, <2>3, <2>4
<1>5. CASE ~manager_operate_result
  <2>1. D \subseteq C
    BY Zenon, <1>5, CreditStep
  <2>2. /\ Covered(q, D, E, a) /\ Covered(q, D, E, a + 1)
        /\ \A e \in OperationMessage : /\ e \notin E => Covered(Append(q, e), D, E, a)
                                       /\ Covered(Append(q, e), D, E, a + 1)
        /\ q # <<>> => Covered(Tail(q), D, E, a)
    <3> HIDE DEF q, C, D, E, a
    <3>1. QED
      BY Zenon, <1>2, <2>1, CoverFact
  <2>3. ASSUME NEW k \in Iote, NEW ok \in BOOLEAN, manager_send_result(k, ok)
        PROVE  Backed(i)'
    <3> DEFINE m == OperationEntry("MSG_RESULT", None, k, ok)
    <3>0. m \in OperationMessage /\ m.id = k /\ m.ok = ok
      BY Zenon DEF OperationEntry, OperationMessage
    <3>1. PICK e \in OperationMessage : e = m /\ e.id = k /\ e.ok = ok
      BY Zenon, <3>0
    <3>2. q' = q \/ q' = Append(q, e)
      BY Zenon, <2>3, <3>1 DEF manager_send_result, to_operation_wiota_data
    <3>3. \/ acks'[i] = a + 1
          \/ acks'[i] = a /\ e \notin Acked(i)
      BY Zenon, <1>1, <2>3, <3>1 DEF manager_send_result, Acked, ResultsFor
    <3> HIDE DEF q, C, D, E, a, m
    <3>4. \/ acks'[i] = a + 1
          \/ acks'[i] = a /\ e \notin E
      BY Zenon, <3>3 DEF E
    <3>5. operationQueue' = q \/ operationQueue' = Append(q, e)
      BY Zenon, <3>2 DEF q
    <3>6. /\ Covered(operationQueue', D, E, a + 1)
          /\ e \notin E => Covered(operationQueue', D, E, a)
      <4>1. /\ Covered(Append(q, e), D, E, a + 1)
            /\ e \notin E => Covered(Append(q, e), D, E, a)
        BY Zenon, <2>2, <3>1
      <4>2. QED
        BY Zenon, <1>2, <2>2, <3>5, <4>1
    <3>7. Covered(operationQueue', D, E, acks'[i])
      BY Zenon, <1>2, <3>4, <3>6
    <3>8. QED
      BY Zenon, <1>3, <3>7
  <2>4. ASSUME acks' = acks,
               \/ Unposted
               \/ \E e \in OperationMessage : /\ operationQueue' = Append(q, e)
                                              /\ e.cmd = "OTA_RADIO_RESULT"
               \/ q # <<>> /\ operationQueue' = Tail(q)
        PROVE  Backed(i)'
    <3>1. \/ operationQueue' = q
          \/ \E e \in OperationMessage : operationQueue' = Append(q, e) /\ e \notin E
          \/ q # <<>> /\ operationQueue' = Tail(q)
      BY Zenon, <2>4 DEF Unposted, Acked, ResultsFor
    <3>2. acks'[i] = a
      BY Zenon, <2>4
    <3> HIDE DEF q, C, D, E, a
    <3>3. QED
      BY Zenon, <1>3, <2>2, <3>1, <3>2
  <2>5. CASE Logic \/ Inputs \/ manager_recv_timer_func \/ NetworkTake
    BY Zenon, <1>1, <2>4, <2>5, NotPosted
  <2>6. CASE uc_send_radio_ota_callback
    <3>1. OperationEntry("OTA_RADIO_RESULT", None, None, FALSE) \in OperationMessage
          /\ OperationEntry("OTA_RADIO_RESULT", None, None, FALSE).cmd = "OTA_RADIO_RESULT"
      BY Zenon DEF OperationEntry, OperationMessage
    <3>2. QED
      BY Zenon, <2>4, <2>6, <3>1
         DEF uc_send_radio_ota_callback, to_operation_wiota_data, Unposted
  <2>7. CASE Operation
    <3>1. acks' = acks
      BY Zenon, <1>5, <2>7
         DEF Operation, OperationMsg, OperationRadio, OperationOtaRadio,
             manager_ota_result_msg, OperationExit, manager_wiota_exit, OperationStart,
             uc_wiota_send_data, radioVars, operationSide
    <3>2. Unposted \/ (q # <<>> /\ operationQueue' = Tail(q))
      BY Zenon, <1>5, <2>7
         DEF Operation, OperationMsg, OperationRadio, OperationOtaRadio,
             manager_ota_result_msg, OperationExit, manager_wiota_exit, OperationStart,
             OperationReady, Unposted
    <3>3. QED
      BY Zenon, <2>4, <3>1, <3>2
  <2>8. CASE UNCHANGED vars
    BY Zenon, <2>4, <2>8 DEF vars, radioVars, Unposted
  <2>9. QED
    BY Zenon, <2>3, <2>5, <2>6, <2>7, <2>8 DEF Next, Callbacks, Waiting
<1>6. QED
  BY Zenon, <1>4, <1>5

\* What was lost stays lost.
LEMMA LossyStays == ASSUME TypeOK, QueueKinds, [Next]_vars, lossy PROVE lossy'
<1>1. CASE Logic \/ Inputs \/ manager_recv_timer_func \/ NetworkTake
  BY Zenon, <1>1, NotPosted
<1>2. CASE Operation
  BY Zenon, <1>2
     DEF Operation, OperationMsg, OperationRadio, OperationOtaRadio, manager_operate_result,
         manager_ota_result_msg, OperationExit, manager_wiota_exit, OperationStart,
         uc_wiota_send_data, Finish, Resend, to_queue_logic_data
<1>3. CASE Callbacks
  BY Zenon, <1>3 DEF Callbacks, manager_send_result, uc_send_radio_ota_callback,
     to_operation_wiota_data
<1>4. CASE UNCHANGED vars
  BY Zenon, <1>4 DEF vars
<1>5. QED
  BY Zenon, <1>1, <1>2, <1>3, <1>4 DEF Next, Waiting

\* The balance for every device, and for the broadcasts.
DeviceBalance(q, s, on) == \A i \in Iote : Balanced(q, s, ResultsFor(i), To(i), on[i])
OtaBalance(q, s, ota) == Balanced(q, s, OtaResults, Ota, ota)

\* The balance after a step.
LEMMA LedgerIntro ==
    ASSUME DeviceBalance(operationQueue', sendList', onAir'),
           OtaBalance(operationQueue', sendList', otaAir'),
           phase' # "leaving", phase' = "scanning" => sendList' = <<>>
    PROVE  Ledger'
  BY Zenon DEF Ledger, DeviceBalance, OtaBalance, ResultsFor, OtaResults, To, Unicast

\* A message that is no result is posted or taken.
LEMMA OtherMessage ==
    ASSUME NEW q \in Seq(OperationMessage), NEW s, NEW on \in [Iote -> Nat],
           NEW ota \in Nat, DeviceBalance(q, s, on), OtaBalance(q, s, ota)
    PROVE  /\ \A e \in OperationMessage :
                 e.cmd \notin {"MSG_RESULT", "OTA_RADIO_RESULT"} =>
                    /\ DeviceBalance(Append(q, e), s, on)
                    /\ OtaBalance(Append(q, e), s, ota)
           /\ q # <<>> /\ Head(q).cmd \notin {"MSG_RESULT", "OTA_RADIO_RESULT"} =>
                 DeviceBalance(Tail(q), s, on) /\ OtaBalance(Tail(q), s, ota)
<1>1. \A i \in Iote : on[i] \in Nat /\ Balanced(q, s, ResultsFor(i), To(i), on[i])
  BY Zenon DEF DeviceBalance
<1>2. Balanced(q, s, OtaResults, Ota, ota)
  BY Zenon DEF OtaBalance
<1>3. \A e : e.cmd \notin {"MSG_RESULT", "OTA_RADIO_RESULT"} =>
             e \notin OtaResults /\ \A i \in Iote : e \notin ResultsFor(i)
  BY Zenon DEF OtaResults, ResultsFor
<1>4. ASSUME NEW e \in OperationMessage,
             e.cmd \notin {"MSG_RESULT", "OTA_RADIO_RESULT"}
      PROVE  DeviceBalance(Append(q, e), s, on) /\ OtaBalance(Append(q, e), s, ota)
  <2>1. ASSUME NEW i \in Iote
        PROVE  Balanced(Append(q, e), s, ResultsFor(i), To(i), on[i])
    BY Zenon, <1>1, <1>3, <1>4, QueueBalance
  <2>2. Balanced(Append(q, e), s, OtaResults, Ota, ota)
    BY Zenon, <1>2, <1>3, <1>4, QueueBalance
  <2>3. QED
    BY Zenon, <2>1, <2>2 DEF DeviceBalance, OtaBalance
<1>5. ASSUME q # <<>>, Head(q).cmd \notin {"MSG_RESULT", "OTA_RADIO_RESULT"}
      PROVE  DeviceBalance(Tail(q), s, on) /\ OtaBalance(Tail(q), s, ota)
  <2>1. ASSUME NEW i \in Iote
        PROVE  Balanced(Tail(q), s, ResultsFor(i), To(i), on[i])
    BY Zenon, <1>1, <1>3, <1>5, QueueBalance
  <2>2. Balanced(Tail(q), s, OtaResults, Ota, ota)
    BY Zenon, <1>2, <1>3, <1>5, QueueBalance
  <2>3. QED
    BY Zenon, <2>1, <2>2 DEF DeviceBalance, OtaBalance
<1>6. QED
  BY Zenon, <1>4, <1>5

\* A page is listed and given to the radio.
LEMMA PageListed ==
    ASSUME NEW q, NEW s \in Seq(Page), NEW on \in [Iote -> Nat], NEW ota \in Nat,
           DeviceBalance(q, s, on), OtaBalance(q, s, ota), NEW p \in Page
    PROVE  /\ p \in Unicast =>
                 /\ DeviceBalance(q, Append(s, p), [on EXCEPT ![dest[p]] = @ + 1])
                 /\ OtaBalance(q, Append(s, p), ota)
           /\ p \in Ota => /\ DeviceBalance(q, Append(s, p), on)
                           /\ OtaBalance(q, Append(s, p), ota + 1)
<1>1. \A i \in Iote : on[i] \in Nat /\ Balanced(q, s, ResultsFor(i), To(i), on[i])
  BY Zenon DEF DeviceBalance
<1>2. Balanced(q, s, OtaResults, Ota, ota)
  BY Zenon DEF OtaBalance
<1>3. dest[p] \in Iote
  BY Zenon, PageAssumption
<1>4. ASSUME p \in Unicast
      PROVE  /\ DeviceBalance(q, Append(s, p), [on EXCEPT ![dest[p]] = @ + 1])
             /\ OtaBalance(q, Append(s, p), ota)
  <2> DEFINE now == [on EXCEPT ![dest[p]] = @ + 1]
  <2>1. ASSUME NEW i \in Iote
        PROVE  Balanced(q, Append(s, p), ResultsFor(i), To(i), now[i])
    <3>1. p \in To(i) <=> i = dest[p]
      BY Zenon, <1>4 DEF To
    <3>2. now[i] = IF i = dest[p] THEN on[i] + 1 ELSE on[i]
      BY Zenon
    <3>3. /\ p \in To(i) =>
                Balanced(q, Append(s, p), ResultsFor(i), To(i), on[i] + 1)
          /\ p \notin To(i) => Balanced(q, Append(s, p), ResultsFor(i), To(i), on[i])
      BY Zenon, <1>1, ListBalance
    <3> HIDE DEF now
    <3>4. QED
      BY Zenon, <3>1, <3>2, <3>3
  <2>2. p \notin Ota
    BY Zenon, <1>4 DEF Unicast
  <2>3. Balanced(q, Append(s, p), OtaResults, Ota, ota)
    BY Zenon, <1>2, <2>2, ListBalance
  <2>4. QED
    BY Zenon, <2>1, <2>3 DEF DeviceBalance, OtaBalance
<1>5. ASSUME p \in Ota
      PROVE  DeviceBalance(q, Append(s, p), on) /\ OtaBalance(q, Append(s, p), ota + 1)
  <2>1. ASSUME NEW i \in Iote
        PROVE  Balanced(q, Append(s, p), ResultsFor(i), To(i), on[i])
    <3>1. p \notin To(i)
      BY Zenon, <1>5 DEF To, Unicast
    <3>2. QED
      BY Zenon, <1>1, <3>1, ListBalance
  <2>2. Balanced(q, Append(s, p), OtaResults, Ota, ota + 1)
    BY Zenon, <1>2, <1>5, ListBalance
  <2>3. QED
    BY Zenon, <2>1, <2>2 DEF DeviceBalance, OtaBalance
<1>6. QED
  BY Zenon, <1>4, <1>5

\* The radio reports a transmission.
LEMMA ResultPosted ==
    ASSUME NEW q \in Seq(OperationMessage), NEW s, NEW on \in [Iote -> Nat],
           NEW ota \in Nat, DeviceBalance(q, s, on), OtaBalance(q, s, ota),
           NEW e \in OperationMessage
    PROVE  /\ \A k \in Iote : e \in ResultsFor(k) /\ on[k] > 0 =>
                 /\ DeviceBalance(Append(q, e), s, [on EXCEPT ![k] = @ - 1])
                 /\ OtaBalance(Append(q, e), s, ota)
           /\ e \in OtaResults /\ ota > 0 => /\ DeviceBalance(Append(q, e), s, on)
                                             /\ OtaBalance(Append(q, e), s, ota - 1)
<1>1. \A i \in Iote : on[i] \in Nat /\ Balanced(q, s, ResultsFor(i), To(i), on[i])
  BY Zenon DEF DeviceBalance
<1>2. Balanced(q, s, OtaResults, Ota, ota)
  BY Zenon DEF OtaBalance
<1>3. ASSUME NEW k \in Iote, e \in ResultsFor(k), on[k] > 0
      PROVE  /\ DeviceBalance(Append(q, e), s, [on EXCEPT ![k] = @ - 1])
             /\ OtaBalance(Append(q, e), s, ota)
  <2> DEFINE now == [on EXCEPT ![k] = @ - 1]
  <2>1. e \notin OtaResults /\ \A i \in Iote : e \in ResultsFor(i) <=> i = k
    BY Zenon, <1>3 DEF ResultsFor, OtaResults
  <2>2. ASSUME NEW i \in Iote
        PROVE  Balanced(Append(q, e), s, ResultsFor(i), To(i), now[i])
    <3>1. now[i] = IF i = k THEN on[i] - 1 ELSE on[i]
      BY Zenon
    <3>2. /\ e \in ResultsFor(i) /\ on[i] # 0 =>
                Balanced(Append(q, e), s, ResultsFor(i), To(i), on[i] - 1)
          /\ e \notin ResultsFor(i) =>
                Balanced(Append(q, e), s, ResultsFor(i), To(i), on[i])
      BY Zenon, <1>1, QueueBalance
    <3>3. i = k => on[i] # 0
      BY <1>1, <1>3
    <3> HIDE DEF now
    <3>4. QED
      BY Zenon, <2>1, <3>1, <3>2, <3>3
  <2>3. Balanced(Append(q, e), s, OtaResults, Ota, ota)
    BY Zenon, <1>2, <2>1, QueueBalance
  <2>4. QED
    BY Zenon, <2>2, <2>3 DEF DeviceBalance, OtaBalance
<1>4. ASSUME e \in OtaResults, ota > 0
      PROVE  DeviceBalance(Append(q, e), s, on) /\ OtaBalance(Append(q, e), s, ota - 1)
  <2>1. ASSUME NEW i \in Iote
        PROVE  Balanced(Append(q, e), s, ResultsFor(i), To(i), on[i])
    <3>1. e \notin ResultsFor(i)
      BY Zenon, <1>4 DEF ResultsFor, OtaResults
    <3>2. QED
      BY Zenon, <1>1, <3>1, QueueBalance
  <2>2. ota # 0
    BY <1>4
  <2>3. Balanced(Append(q, e), s, OtaResults, Ota, ota - 1)
    BY Zenon, <1>2, <1>4, <2>2, QueueBalance
  <2>4. QED
    BY Zenon, <2>1, <2>3 DEF DeviceBalance, OtaBalance
<1>5. QED
  BY Zenon, <1>3, <1>4

\* The result for a device is taken: there is a page for it, and it is done or
\* sent again.
LEMMA ResultDone ==
    ASSUME NEW q \in Seq(OperationMessage), NEW s \in Seq(Page), NEW on \in [Iote -> Nat],
           NEW ota \in Nat, DeviceBalance(q, s, on), OtaBalance(q, s, ota),
           q # <<>>, NEW k \in Iote, Head(q) \in ResultsFor(k)
    PROVE  /\ \E j \in DOMAIN s : s[j] \in To(k)
           /\ \A i \in 1 .. Len(s) : s[i] \in To(k) =>
                 /\ DeviceBalance(Tail(q), Unlink(s, i), on)
                 /\ DeviceBalance(Tail(q), <<s[i]>> \o Unlink(s, i),
                                  [on EXCEPT ![dest[s[i]]] = @ + 1])
                 /\ OtaBalance(Tail(q), Unlink(s, i), ota)
                 /\ OtaBalance(Tail(q), <<s[i]>> \o Unlink(s, i), ota)
<1>1. \A i \in Iote : on[i] \in Nat /\ Balanced(q, s, ResultsFor(i), To(i), on[i])
  BY Zenon DEF DeviceBalance
<1>2. Balanced(q, s, OtaResults, Ota, ota)
  BY Zenon DEF OtaBalance
<1>3. Head(q) \notin OtaResults /\ \A i \in Iote : Head(q) \in ResultsFor(i) <=> i = k
  BY Zenon DEF ResultsFor, OtaResults
<1>4. \E j \in DOMAIN s : s[j] \in To(k)
  BY Zenon, <1>1, QueueBalance
<1>5. ASSUME NEW i \in 1 .. Len(s), s[i] \in To(k)
      PROVE  /\ DeviceBalance(Tail(q), Unlink(s, i), on)
             /\ DeviceBalance(Tail(q), <<s[i]>> \o Unlink(s, i),
                              [on EXCEPT ![dest[s[i]]] = @ + 1])
             /\ OtaBalance(Tail(q), Unlink(s, i), ota)
             /\ OtaBalance(Tail(q), <<s[i]>> \o Unlink(s, i), ota)
  <2> DEFINE now == [on EXCEPT ![dest[s[i]]] = @ + 1]
  <2>1. dest[s[i]] = k /\ s[i] \notin Ota /\ \A j \in Iote : s[i] \in To(j) <=> j = k
    BY Zenon, <1>5 DEF To, Unicast
  <2>2. ASSUME NEW j \in Iote
        PROVE  /\ Balanced(Tail(q), Unlink(s, i), ResultsFor(j), To(j), on[j])
               /\ Balanced(Tail(q), <<s[i]>> \o Unlink(s, i), ResultsFor(j), To(j), now[j])
    <3>1. now[j] = IF j = k THEN on[j] + 1 ELSE on[j]
      BY Zenon, <2>1
    <3> HIDE DEF now
    <3>2. CASE j = k
      <4>1. PICK b \in Nat : b = on[j] + 1 /\ b # 0 /\ b - 1 = on[j]
        BY <1>1
      <4>2. Balanced(Tail(q), s, ResultsFor(j), To(j), b)
        BY Zenon, <1>1, <1>3, <3>2, <4>1, QueueBalance
      <4>3. Balanced(Tail(q), Unlink(s, i), ResultsFor(j), To(j), b - 1)
        BY Zenon, <2>1, <3>2, <4>1, <4>2, ListBalance
      <4>4. Balanced(Tail(q), <<s[i]>> \o Unlink(s, i), ResultsFor(j), To(j), b)
        BY Zenon, <4>1, <4>2, ListBalance
      <4>5. QED
        BY Zenon, <3>1, <3>2, <4>1, <4>3, <4>4
    <3>3. CASE j # k
      <4>1. Balanced(Tail(q), s, ResultsFor(j), To(j), on[j])
        BY Zenon, <1>1, <1>3, <3>3, QueueBalance
      <4>2. s[i] \notin To(j)
        BY Zenon, <2>1, <3>3
      <4>3. /\ Balanced(Tail(q), Unlink(s, i), ResultsFor(j), To(j), on[j])
            /\ Balanced(Tail(q), <<s[i]>> \o Unlink(s, i), ResultsFor(j), To(j), on[j])
        BY Zenon, <1>1, <4>1, <4>2, ListBalance
      <4>4. QED
        BY Zenon, <3>1, <3>3, <4>3
    <3>4. QED
      BY Zenon, <3>2, <3>3
  <2>3. Balanced(Tail(q), s, OtaResults, Ota, ota)
    BY Zenon, <1>2, <1>3, QueueBalance
  <2>4. /\ Balanced(Tail(q), Unlink(s, i), OtaResults, Ota, ota)
        /\ Balanced(Tail(q), <<s[i]>> \o Unlink(s, i), OtaResults, Ota, ota)
    BY Zenon, <2>1, <2>3, ListBalance
  <2>5. QED
    BY Zenon, <2>2, <2>4 DEF DeviceBalance, OtaBalance
<1>6. QED
  BY Zenon, <1>4, <1>5

\* So is the result of a broadcast.
LEMMA OtaDone ==
    ASSUME NEW q \in Seq(OperationMessage), NEW s \in Seq(Page), NEW on \in [Iote -> Nat],
           NEW ota \in Nat, DeviceBalance(q, s, on), OtaBalance(q, s, ota),
           q # <<>>, Head(q) \in OtaResults
    PROVE  /\ \E j \in DOMAIN s : s[j] \in Ota
           /\ \A i \in 1 .. Len(s) : s[i] \in Ota =>
                 /\ DeviceBalance(Tail(q), Unlink(s, i), on)
                 /\ OtaBalance(Tail(q), Unlink(s, i), ota)
<1>1. \A i \in Iote : on[i] \in Nat /\ Balanced(q, s, ResultsFor(i), To(i), on[i])
  BY Zenon DEF DeviceBalance
<1>2. Balanced(q, s, OtaResults, Ota, ota)
  BY Zenon DEF OtaBalance
<1>3. \E j \in DOMAIN s : s[j] \in Ota
  BY Zenon, <1>2, QueueBalance
<1>4. ASSUME NEW i \in 1 .. Len(s), s[i] \in Ota
      PROVE  /\ DeviceBalance(Tail(q), Unlink(s, i), on)
             /\ OtaBalance(Tail(q), Unlink(s, i), ota)
  <2>1. ASSUME NEW j \in Iote
        PROVE  Balanced(Tail(q), Unlink(s, i), ResultsFor(j), To(j), on[j])
    <3>1. s[i] \notin To(j) /\ Head(q) \notin ResultsFor(j)
      BY Zenon, <1>4 DEF To, Unicast, ResultsFor, OtaResults
    <3>2. Balanced(Tail(q), s, ResultsFor(j), To(j), on[j])
      BY Zenon, <1>1, <3>1, QueueBalance
    <3>3. QED
      BY Zenon, <1>1, <3>1, <3>2, ListBalance
  <2>2. PICK b \in Nat : b = ota + 1 /\ b # 0 /\ b - 1 = ota
    OBVIOUS
  <2>3. Balanced(Tail(q), s, OtaResults, Ota, b)
    BY Zenon, <1>2, <2>2, QueueBalance
  <2>4. Balanced(Tail(q), Unlink(s, i), OtaResults, Ota, b - 1)
    BY Zenon, <1>4, <2>2, <2>3, ListBalance
  <2>5. QED
    BY Zenon, <2>1, <2>2, <2>4 DEF DeviceBalance, OtaBalance
<1>5. QED
  BY Zenon, <1>3, <1>4

\* As long as nothing is lost, every step keeps the balance.
LEMMA LedgerStep ==
    ASSUME PageInv, Findable, Ledger, [Next]_vars, ~lossy'
    PROVE  Ledger'
<1> DEFINE q == operationQueue
           s == sendList
<1>1. TypeOK /\ QueueKinds /\ OneHolder
  BY Zenon DEF PageInv
<1>2. /\ q \in Seq(OperationMessage) /\ s \in Seq(Page) /\ onAir \in [Iote -> Nat]
      /\ otaAir \in Nat
  BY Zenon, <1>1 DEF TypeOK
<1>3. /\ DeviceBalance(q, s, onAir) /\ OtaBalance(q, s, otaAir)
      /\ phase # "leaving" /\ (phase = "scanning" => s = <<>>)
  BY Zenon DEF Ledger, DeviceBalance, OtaBalance
<1>4. ASSUME \/ Unposted
             \/ /\ q # <<>> /\ q' = Tail(q)
                /\ Head(q).cmd \notin {"MSG_RESULT", "OTA_RADIO_RESULT"}
      PROVE  DeviceBalance(q', s, onAir) /\ OtaBalance(q', s, otaAir)
  BY Zenon, <1>2, <1>3, <1>4, OtherMessage DEF Unposted
<1>5. CASE Logic \/ Inputs \/ manager_recv_timer_func \/ NetworkTake
  <2>1. Unposted /\ UNCHANGED <<sendList, onAir, otaAir, phase>>
    BY Zenon, <1>1, <1>5, NotPosted
  <2>2. QED
    BY Zenon, <1>3, <1>4, <2>1, LedgerIntro
<1>6. ASSUME NEW k \in Iote, NEW ok \in BOOLEAN, manager_send_result(k, ok) PROVE Ledger'
  <2> DEFINE e == OperationEntry("MSG_RESULT", None, k, ok)
  <2>1. e \in OperationMessage /\ e \in ResultsFor(k)
    BY Zenon DEF OperationEntry, OperationMessage, ResultsFor
  <2>2. /\ q' = Append(q, e) /\ onAir[k] > 0 /\ onAir' = [onAir EXCEPT ![k] = @ - 1]
        /\ UNCHANGED <<sendList, otaAir, phase>>
    BY Zenon, <1>6 DEF manager_send_result, to_operation_wiota_data, operationVars, taskVars
  <2> HIDE DEF e
  <2>3. DeviceBalance(q', s', onAir') /\ OtaBalance(q', s', otaAir')
    BY Zenon, <1>2, <1>3, <2>1, <2>2, ResultPosted
  <2>4. QED
    BY Zenon, <1>3, <2>2, <2>3, LedgerIntro
<1>7. CASE uc_send_radio_ota_callback
  <2> DEFINE e == OperationEntry("OTA_RADIO_RESULT", None, None, FALSE)
  <2>1. e \in OperationMessage /\ e \in OtaResults
    BY Zenon DEF OperationEntry, OperationMessage, OtaResults
  <2>2. /\ q' = Append(q, e) /\ otaAir > 0 /\ otaAir' = otaAir - 1
        /\ UNCHANGED <<sendList, onAir, phase>>
    BY Zenon, <1>7
       DEF uc_send_radio_ota_callback, to_operation_wiota_data, operationVars, taskVars
  <2> HIDE DEF e
  <2>3. DeviceBalance(q', s', onAir') /\ OtaBalance(q', s', otaAir')
    BY Zenon, <1>2, <1>3, <2>1, <2>2, ResultPosted
  <2>4. QED
    BY Zenon, <1>3, <2>2, <2>3, LedgerIntro
<1>8. CASE OperationMsg
  <2> DEFINE p == Head(q).page
  <2>1. /\ OperationReady("MSG") /\ s' = Append(s, p)
        /\ onAir' = [onAir EXCEPT ![dest[p]] = @ + 1] /\ UNCHANGED <<otaAir, phase>>
    BY Zenon, <1>8
       DEF OperationMsg, uc_wiota_send_data, insert_tail_manager_list, taskVars
  <2>2. /\ q # <<>> /\ q' = Tail(q) /\ Head(q).cmd = "MSG" /\ phase = "running"
        /\ p \in Page /\ Command(p) = "MSG"
    BY Zenon, <1>1, <2>1, OperationTaken DEF OperationReady
  <2>3. p \in Unicast
    BY Zenon, <2>2 DEF Command, Unicast
  <2>4. Head(q).cmd \notin {"MSG_RESULT", "OTA_RADIO_RESULT"}
    BY Zenon, <2>2
  <2>5. DeviceBalance(q', s, onAir) /\ OtaBalance(q', s, otaAir)
    BY Zenon, <1>4, <2>2, <2>4
  <2> HIDE DEF p
  <2>6. DeviceBalance(q', s', onAir') /\ OtaBalance(q', s', otaAir')
    BY Zenon, <1>2, <2>1, <2>2, <2>3, <2>5, PageListed
  <2>7. QED
    BY Zenon, <2>1, <2>2, <2>6, LedgerIntro
<1>9. CASE OperationOtaRadio
  <2> DEFINE p == Head(q).page
  <2>1. /\ OperationReady("OTA_RADIO") /\ s' = Append(s, p)
        /\ otaAir' = otaAir + 1 /\ UNCHANGED <<onAir, phase>>
    BY Zenon, <1>9
       DEF OperationOtaRadio, insert_tail_manager_list, taskVars
  <2>2. /\ q # <<>> /\ q' = Tail(q) /\ Head(q).cmd = "OTA_RADIO" /\ phase = "running"
        /\ p \in Page /\ Command(p) = "OTA_RADIO"
    BY Zenon, <1>1, <2>1, OperationTaken DEF OperationReady
  <2>3. p \in Ota
    BY Zenon, <2>2 DEF Command
  <2>4. Head(q).cmd \notin {"MSG_RESULT", "OTA_RADIO_RESULT"}
    BY Zenon, <2>2
  <2>5. DeviceBalance(q', s, onAir) /\ OtaBalance(q', s, otaAir)
    BY Zenon, <1>4, <2>2, <2>4
  <2> HIDE DEF p
  <2>6. DeviceBalance(q', s', onAir') /\ OtaBalance(q', s', otaAir')
    BY Zenon, <1>2, <2>1, <2>2, <2>3, <2>5, PageListed
  <2>7. QED
    BY Zenon, <2>1, <2>2, <2>6, LedgerIntro
<1>10. CASE manager_operate_result
  <2> DEFINE e == Head(q)
  <2>1. /\ q # <<>> /\ q' = Tail(q) /\ e \in ResultsFor(e.id) /\ e.id \in Iote
        /\ UNCHANGED <<otaAir, phase>>
    BY Zenon, <1>1, <1>10, ResultTakes
  <2>2. \E j \in DOMAIN s : s[j] \in To(e.id)
    BY Zenon, <1>2, <1>3, <2>1, ResultDone
  <2>3. PICK i \in 1 .. Len(s) :
           /\ s[i] \in To(e.id) /\ s[i] \in Page
           /\ \/ Finish(i, MANAGER_SEND_SUCCESS)
              \/ Finish(i, MANAGER_SEND_FAIL)
              \/ Resend(i)
    BY Zenon, <1>1, <1>10, <2>2, ResultTakes
  <2>4. \/ s' = Unlink(s, i) /\ onAir' = onAir
        \/ /\ s' = <<s[i]>> \o Unlink(s, i)
           /\ onAir' = [onAir EXCEPT ![dest[s[i]]] = @ + 1]
    BY Zenon, <2>3 DEF Finish, Resend, uc_wiota_send_data, radioVars, remove_manager_node,
       remove_head_manager_node
  <2>5. /\ DeviceBalance(Tail(q), Unlink(s, i), onAir)
        /\ DeviceBalance(Tail(q), <<s[i]>> \o Unlink(s, i),
                         [onAir EXCEPT ![dest[s[i]]] = @ + 1])
        /\ OtaBalance(Tail(q), Unlink(s, i), otaAir)
        /\ OtaBalance(Tail(q), <<s[i]>> \o Unlink(s, i), otaAir)
    BY Zenon, <1>2, <1>3, <2>1, <2>3, ResultDone
  <2>6. DeviceBalance(q', s', onAir') /\ OtaBalance(q', s', otaAir')
    BY Zenon, <2>1, <2>4, <2>5
  <2>7. phase = "running"
    BY Zenon, <1>10 DEF manager_operate_result, OperationReady
  <2>8. QED
    BY Zenon, <2>1, <2>6, <2>7, LedgerIntro
<1>11. CASE manager_ota_result_msg
  <2>1. /\ OperationReady("OTA_RADIO_RESULT") /\ UNCHANGED <<onAir, otaAir, phase>>
    BY Zenon, <1>11 DEF manager_ota_result_msg, radioVars, taskVars
  <2>2. /\ q # <<>> /\ q' = Tail(q) /\ Head(q) \in OtaResults /\ phase = "running"
    BY Zenon, <1>1, <2>1, OperationTaken DEF OperationReady, OtaResults
  <2>3. \E j \in DOMAIN s : s[j] \in Ota
    BY Zenon, <1>2, <1>3, <2>2, OtaDone
  <2>4. query_head_list(s, Ota) # {}
    BY Zenon, <2>3 DEF Findable
  <2>5. PICK i \in query_head_list(s, Ota) : s' = Unlink(s, i)
    BY Zenon, <1>11, <2>4 DEF manager_ota_result_msg, remove_manager_node
  <2>6. i \in 1 .. Len(s) /\ s[i] \in Ota
    BY <1>2, <2>5 DEF query_head_list
  <2>7. DeviceBalance(Tail(q), Unlink(s, i), onAir) /\ OtaBalance(Tail(q), Unlink(s, i), otaAir)
    BY Zenon, <1>2, <1>3, <2>2, <2>6, OtaDone
  <2>8. QED
    BY Zenon, <2>1, <2>2, <2>5, <2>7, LedgerIntro
<1>12. CASE OperationRadio
  <2>1. OperationReady("RADIO") /\ UNCHANGED <<sendList, onAir, otaAir, phase>>
    BY Zenon, <1>12
       DEF OperationRadio, operationSide, operationVars, radioVars, taskVars
  <2>2. /\ q # <<>> /\ q' = Tail(q) /\ phase = "running"
        /\ Head(q).cmd \notin {"MSG_RESULT", "OTA_RADIO_RESULT"}
    BY Zenon, <1>1, <2>1, OperationTaken DEF OperationReady
  <2>3. QED
    BY Zenon, <1>4, <2>1, <2>2, LedgerIntro
<1>13. CASE OperationExit \/ manager_wiota_exit
  BY Zenon, <1>3, <1>13 DEF OperationExit, manager_wiota_exit
<1>14. CASE OperationStart
  <2>1. /\ phase = "scanning" /\ phase' = "running" /\ s' = <<>>
        /\ UNCHANGED <<operationQueue, onAir, otaAir>>
    BY Zenon, <1>14 DEF OperationStart, radioVars
  <2>2. QED
    BY Zenon, <1>3, <2>1, LedgerIntro
<1>15. CASE UNCHANGED vars
  <2>1. UNCHANGED <<operationQueue, sendList, onAir, otaAir, phase>>
    BY Zenon, <1>15 DEF vars, operationVars, radioVars, taskVars
  <2>2. QED
    BY Zenon, <1>3, <2>1, LedgerIntro
<1>16. QED
  BY Zenon, <1>5, <1>6, <1>7, <1>8, <1>9, <1>10, <1>11, <1>12, <1>13, <1>14, <1>15
     DEF Next, Operation, Callbacks, Waiting

=============================================================================
