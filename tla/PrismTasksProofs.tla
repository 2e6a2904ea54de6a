-------------------------- MODULE PrismTasksProofs --------------------------
(* Theorems about PrismTasks, for any number of calls, snapshots and       *)
(* changes by other clients, and any size of page and limit.               *)
EXTENDS PrismTasks, SequenceTheorems, TLAPS

-----------------------------------------------------------------------------
(* Sequences.                                                              *)

\* The first n elements of a sequence.
LEMMA PrefixProperties ==
    ASSUME NEW S, NEW s \in Seq(S), NEW n \in Nat
    PROVE  /\ Prefix(s, n) \in Seq(S)
           /\ Len(Prefix(s, n)) = IF n < Len(s) THEN n ELSE Len(s)
           /\ \A i \in 1 .. Len(Prefix(s, n)) : Prefix(s, n)[i] = s[i]
           /\ n >= Len(s) => Prefix(s, n) = s
<1>0. Len(s) \in Nat /\ s \in [1 .. Len(s) -> S]
  BY LenProperties
<1> DEFINE k == IF n < Len(s) THEN n ELSE Len(s)
<1>1. k \in Nat /\ k <= Len(s)
  BY <1>0
<1>2. \A i \in 1 .. k : s[i] \in S
  BY <1>0, <1>1
<1>3. /\ SubSeq(s, 1, k) \in Seq(S)
      /\ Len(SubSeq(s, 1, k)) = IF 1 <= k THEN k - 1 + 1 ELSE 0
      /\ \A i \in 1 .. k - 1 + 1 : SubSeq(s, 1, k)[i] = s[1 + i - 1]
  <2> HIDE DEF k
  <2>. QED BY <1>1, <1>2, SubSeqProperties
<1>4. Prefix(s, n) = SubSeq(s, 1, k)
  BY DEF Prefix
<1>5. n >= Len(s) => k = Len(s)
  <2>1. n >= Len(s) => ~(n < Len(s))
    BY <1>0
  <2>. QED BY <2>1
<1>6. SubSeq(s, 1, Len(s)) = s
  BY SubSeqFull
<1>7. k = IF n < Len(s) THEN n ELSE Len(s)
  OBVIOUS
<1> HIDE DEF k
<1>8. n >= Len(s) => Prefix(s, n) = s
  BY <1>4, <1>5, <1>6
<1>9. Len(Prefix(s, n)) = k
  BY <1>1, <1>3, <1>4
<1>10. \A i \in 1 .. k : Prefix(s, n)[i] = s[i]
  BY <1>1, <1>3, <1>4
<1>. QED BY <1>3, <1>4, <1>7, <1>8, <1>9, <1>10

\* A row put in at the p-th place.
LEMMA InsertProperties ==
    ASSUME NEW S, NEW s \in Seq(S), NEW p \in 1 .. Len(s) + 1, NEW e \in S
    PROVE  /\ InsertAt(s, p, e) \in Seq(S)
           /\ Len(InsertAt(s, p, e)) = Len(s) + 1
           /\ \A i \in 1 .. p - 1 : InsertAt(s, p, e)[i] = s[i]
           /\ \A i \in p .. Len(s) : InsertAt(s, p, e)[i + 1] = s[i]
<1> DEFINE k == p - 1
           t == InsertAt(s, p, e)
<1>p. k + 1 = p /\ p - 1 = k
  BY LenProperties
<1>a. k \in Nat /\ k <= Len(s)
  BY LenProperties
<1>b. t = SubSeq(s, 1, k) \o <<e>> \o SubSeq(s, k + 1, Len(s))
  BY <1>p DEF InsertAt
<1> HIDE DEF k, t
<1>0. Len(s) \in Nat /\ s \in [1 .. Len(s) -> S]
  BY LenProperties
<1>1. /\ SubSeq(s, 1, k) \in Seq(S) /\ Len(SubSeq(s, 1, k)) = k
      /\ \A i \in 1 .. k : SubSeq(s, 1, k)[i] = s[i]
  <2>1. \A i \in 1 .. k : s[i] \in S
    BY <1>0, <1>a
  <2>2. /\ SubSeq(s, 1, k) \in Seq(S)
        /\ Len(SubSeq(s, 1, k)) = IF 1 <= k THEN k - 1 + 1 ELSE 0
        /\ \A i \in 1 .. k - 1 + 1 : SubSeq(s, 1, k)[i] = s[1 + i - 1]
    BY <1>0, <1>a, <2>1, SubSeqProperties
  <2>. QED BY <1>0, <1>a, <2>2
<1>2. /\ SubSeq(s, k + 1, Len(s)) \in Seq(S) /\ Len(SubSeq(s, k + 1, Len(s))) = Len(s) - k
      /\ \A i \in 1 .. Len(s) - k : SubSeq(s, k + 1, Len(s))[i] = s[k + i]
  <2>1. \A i \in k + 1 .. Len(s) : s[i] \in S
    BY <1>0, <1>a
  <2>2. /\ SubSeq(s, k + 1, Len(s)) \in Seq(S)
        /\ Len(SubSeq(s, k + 1, Len(s))) =
             IF k + 1 <= Len(s) THEN Len(s) - (k + 1) + 1 ELSE 0
        /\ \A i \in 1 .. Len(s) - (k + 1) + 1 :
             SubSeq(s, k + 1, Len(s))[i] = s[k + 1 + i - 1]
    BY <1>0, <1>a, <2>1, SubSeqProperties
  <2>3. k + 1 <= Len(s) <=> k < Len(s)
    BY <1>0, <1>a
  <2>4. Len(SubSeq(s, k + 1, Len(s))) = Len(s) - k
    <3> DEFINE l == Len(s)
               r == Len(SubSeq(s, k + 1, Len(s)))
    <3>1. l \in Nat /\ k \in Nat /\ k <= l /\ r = IF k + 1 <= l THEN l - (k + 1) + 1 ELSE 0
      BY <1>0, <1>a, <2>2
    <3> HIDE DEF l, r
    <3>2. r = l - k
      BY <3>1
    <3>. QED BY <3>2 DEF l, r
  <2>5. \A i \in 1 .. Len(s) - k : SubSeq(s, k + 1, Len(s))[i] = s[k + i]
    <3>1. Len(s) - (k + 1) + 1 = Len(s) - k /\ \A i \in 1 .. Len(s) - k : k + 1 + i - 1 = k + i
      BY <1>0, <1>a
    <3>. QED BY <2>2, <3>1
  <2>. QED BY <2>2, <2>4, <2>5
<1> DEFINE a == SubSeq(s, 1, k)
           b == SubSeq(s, k + 1, Len(s))
<1> HIDE DEF a, b
<1>3. /\ a \o <<e>> \in Seq(S) /\ Len(a \o <<e>>) = k + 1
      /\ \A i \in 1 .. k : (a \o <<e>>)[i] = s[i]
  <2>1. <<e>> \in Seq(S) /\ Len(<<e>>) = 1
    OBVIOUS
  <2>. QED BY <1>0, <1>a, <1>1, <2>1, ConcatProperties DEF a
<1>4. /\ (a \o <<e>>) \o b \in Seq(S)
      /\ Len((a \o <<e>>) \o b) = Len(s) + 1
      /\ \A i \in 1 .. Len(s) + 1 : ((a \o <<e>>) \o b)[i] =
           IF i <= k + 1 THEN (a \o <<e>>)[i] ELSE b[i - (k + 1)]
  <2>1. b \in Seq(S) /\ Len(b) = Len(s) - k
    BY <1>2 DEF b
  <2>2. /\ (a \o <<e>>) \o b \in Seq(S)
        /\ Len((a \o <<e>>) \o b) = Len(a \o <<e>>) + Len(b)
        /\ \A i \in 1 .. Len(a \o <<e>>) + Len(b) : ((a \o <<e>>) \o b)[i] =
             IF i <= Len(a \o <<e>>) THEN (a \o <<e>>)[i] ELSE b[i - Len(a \o <<e>>)]
    <3> HIDE DEF a, b
    <3>1. a \o <<e>> \in Seq(S)
      BY <1>3
    <3>. QED BY <2>1, <3>1, ConcatProperties
  <2>3. Len(a \o <<e>>) = k + 1 /\ Len(a \o <<e>>) + Len(b) = Len(s) + 1
    BY <1>0, <1>a, <1>3, <2>1
  <2>. QED BY <2>2, <2>3
<1>5. /\ t \in Seq(S) /\ Len(t) = Len(s) + 1
      /\ \A i \in 1 .. Len(s) + 1 :
           t[i] = IF i <= k + 1 THEN (a \o <<e>>)[i] ELSE b[i - (k + 1)]
  <2>1. t = (a \o <<e>>) \o b
    BY <1>b DEF a, b
  <2>. QED BY <1>4, <2>1, Zenon
<1>6. ASSUME NEW i \in k + 1 .. Len(s) PROVE t[i + 1] = s[i]
  <2>1. i + 1 \in 1 .. Len(s) + 1 /\ ~(i + 1 <= k + 1) /\ i + 1 - (k + 1) = i - k
    BY <1>0, <1>a
  <2>2. t[i + 1] = b[i - k]
    <3> DEFINE j == i + 1
    <3>1. j \in 1 .. Len(s) + 1 /\ ~(j <= k + 1) /\ j - (k + 1) = i - k
      BY <1>0, <1>a, <2>1
    <3>2. ASSUME NEW x \in 1 .. Len(s) + 1, ~(x <= k + 1)
          PROVE  t[x] = b[x - (k + 1)]
      BY <1>5, <3>2
    <3> HIDE DEF j
    <3>3. t[j] = b[j - (k + 1)]
      BY <3>1, <3>2
    <3>4. t[j] = b[i - k]
      BY <3>1, <3>3
    <3>. QED BY <3>4 DEF j
  <2>3. i - k \in 1 .. Len(s) - k /\ k + (i - k) = i
    BY <1>0, <1>a
  <2>. QED BY <1>2, <2>2, <2>3 DEF b
<1>7. ASSUME NEW i \in 1 .. k PROVE t[i] = s[i]
  <2>1. i \in 1 .. Len(s) + 1 /\ i <= k + 1
    BY <1>0, <1>a
  <2>. QED BY <1>3, <1>4, <1>5, <2>1
<1>. QED BY <1>p, <1>5, <1>6, <1>7 DEF k, t

\* The k-th row taken out.
LEMMA RemoveProperties ==
    ASSUME NEW S, NEW s \in Seq(S), NEW k \in 1 .. Len(s)
    PROVE  RemoveAt(s, k) \in Seq(S)
<1>0. Len(s) \in Nat /\ s \in [1 .. Len(s) -> S]
  BY LenProperties
<1>1. SubSeq(s, 1, k - 1) \in Seq(S)
  <2>1. \A i \in 1 .. k - 1 : s[i] \in S
    BY <1>0
  <2>. QED BY <1>0, <2>1, SubSeqProperties
<1>2. SubSeq(s, k + 1, Len(s)) \in Seq(S)
  <2>1. \A i \in k + 1 .. Len(s) : s[i] \in S
    BY <1>0
  <2>. QED BY <1>0, <2>1, SubSeqProperties
<1>. QED BY <1>1, <1>2, ConcatProperties DEF RemoveAt

\* The end of a page of p rows after m, in a list of l.
LEMMA EndOfPage ==
    ASSUME NEW m \in Nat, NEW p \in Nat, NEW l \in Nat, NEW h, NEW r,
           h = IF m + p < l THEN m + p ELSE l,
           r = IF m < h THEN h - m ELSE 0
    PROVE  /\ h \in Nat /\ h <= l /\ r <= p
           /\ \A k \in 1 .. l : k > m /\ k > h => r = p /\ k > m + r
           /\ m <= l => m + r <= l
           /\ m <= l /\ r < p => m + r = l
<1>1. CASE m + p < l
  <2>1. h = m + p
    BY <1>1
  <2>2. r = p
    BY <2>1
  <2>. QED BY <1>1, <2>1, <2>2
<1>2. CASE ~(m + p < l)
  <2>1. h = l
    BY <1>2
  <2>. QED BY <1>2, <2>1
<1>. QED BY <1>1, <1>2

\* The page that is served next.
LEMMA PageProperties ==
    ASSUME NEW S, rows \in Seq(S), NEW n \in Nat, n * PageSize \in Nat
    PROVE  /\ Page(n) \in Seq(S)
           /\ Len(Page(n)) <= PageSize
           /\ \A k \in DOMAIN rows : k > n * PageSize =>
                \/ k > n * PageSize + Len(Page(n)) /\ Len(Page(n)) = PageSize
                \/ /\ k - n * PageSize \in 1 .. Len(Page(n))
                   /\ Page(n)[k - n * PageSize] = rows[k]
           /\ n * PageSize <= Len(rows) =>
                /\ n * PageSize + Len(Page(n)) <= Len(rows)
                /\ Len(Page(n)) < PageSize => n * PageSize + Len(Page(n)) = Len(rows)
                /\ \A i \in 1 .. Len(Page(n)) : Page(n)[i] = rows[n * PageSize + i]
<1>0. Len(rows) \in Nat /\ rows \in [1 .. Len(rows) -> S] /\ PageSize \in Nat \ {0}
  BY LenProperties, TasksAssumption
<1> DEFINE m == n * PageSize
           h == IF m + PageSize < Len(rows) THEN m + PageSize ELSE Len(rows)
<1>1. m \in Nat /\ h \in Nat /\ h <= Len(rows) /\ h <= m + PageSize
  BY <1>0
<1>2. Page(n) = SubSeq(rows, m + 1, h)
  <2>1. (n + 1) * PageSize = m + PageSize
    BY <1>0
  <2>. QED BY <2>1 DEF Page
<1>3. \A i \in m + 1 .. h : rows[i] \in S
  BY <1>0, <1>1
<1> HIDE DEF m, h
<1>4. /\ Page(n) \in Seq(S)
      /\ Len(Page(n)) = IF m + 1 <= h THEN h - (m + 1) + 1 ELSE 0
      /\ \A i \in 1 .. h - (m + 1) + 1 : Page(n)[i] = rows[m + 1 + i - 1]
  BY <1>1, <1>2, <1>3, SubSeqProperties
<1>5. Len(Page(n)) = IF m < h THEN h - m ELSE 0
  BY <1>1, <1>4
<1>6. \A i \in 1 .. Len(Page(n)) : Page(n)[i] = rows[m + i]
  BY <1>1, <1>4, <1>5
<1>7. h = IF m + PageSize < Len(rows) THEN m + PageSize ELSE Len(rows)
  BY DEF h
<1>11. /\ Len(Page(n)) <= PageSize
       /\ \A k \in 1 .. Len(rows) : k > m /\ k > h =>
            Len(Page(n)) = PageSize /\ k > m + Len(Page(n))
       /\ m <= Len(rows) => m + Len(Page(n)) <= Len(rows)
       /\ m <= Len(rows) /\ Len(Page(n)) < PageSize => m + Len(Page(n)) = Len(rows)
  <2>1. Len(rows) \in Nat /\ PageSize \in Nat
    BY <1>0
  <2> DEFINE l == Len(rows)
             r == Len(Page(n))
  <2>2. l \in Nat /\ h = IF m + PageSize < l THEN m + PageSize ELSE l
    BY <1>7, <2>1
  <2>3. r = IF m < h THEN h - m ELSE 0
    BY <1>5
  <2> HIDE DEF l, r
  <2>4. /\ r <= PageSize
        /\ \A k \in 1 .. l : k > m /\ k > h => r = PageSize /\ k > m + r
        /\ m <= l => m + r <= l
        /\ m <= l /\ r < PageSize => m + r = l
    BY <1>1, <2>1, <2>2, <2>3, EndOfPage
  <2>. QED BY <2>4 DEF l, r
<1>8. ASSUME NEW k \in DOMAIN rows, k > m
      PROVE  \/ k > m + Len(Page(n)) /\ Len(Page(n)) = PageSize
             \/ k - m \in 1 .. Len(Page(n)) /\ Page(n)[k - m] = rows[k]
  <2>1. k \in 1 .. Len(rows)
    BY <1>0
  <2>2. CASE k <= h
    <3>1. k - m \in 1 .. Len(Page(n))
      BY <1>0, <1>1, <1>5, <1>8, <2>1, <2>2
    <3>. QED BY <1>0, <1>1, <1>6, <2>1, <3>1
  <2>3. CASE k > h
    BY <1>8, <1>11, <2>1, <2>3
  <2>. QED BY <1>1, <2>1, <2>2, <2>3
<1>. QED BY <1>4, <1>6, <1>8, <1>11 DEF m

\* Two sequences put together, by position.
LEMMA ConcatPositions ==
    ASSUME NEW S, NEW s \in Seq(S), NEW t \in Seq(S)
    PROVE  /\ s \o t \in Seq(S) /\ Len(s \o t) = Len(s) + Len(t)
           /\ DOMAIN (s \o t) = 1 .. Len(s) + Len(t)
           /\ \A i \in 1 .. Len(s) : (s \o t)[i] = s[i]
           /\ \A i \in 1 .. Len(t) : (s \o t)[Len(s) + i] = t[i]
<1> DEFINE n == Len(s)
           m == Len(t)
           u == s \o t
<1>0. n \in Nat /\ m \in Nat
  BY LenProperties
<1>1. /\ u \in Seq(S) /\ Len(u) = n + m
      /\ \A i \in 1 .. n + m : u[i] = IF i <= n THEN s[i] ELSE t[i - n]
  BY ConcatProperties
<1>2. DOMAIN u = 1 .. n + m
  BY <1>1, LenProperties
<1> HIDE DEF u, n, m
<1>4. ASSUME NEW i \in 1 .. n PROVE u[i] = s[i]
  BY <1>0, <1>1
<1>5. ASSUME NEW i \in 1 .. m PROVE u[n + i] = t[i]
  <2> DEFINE j == n + i
  <2>1. j \in 1 .. n + m /\ ~(j <= n) /\ j - n = i
    BY <1>0
  <2>2. \A x \in 1 .. n + m : ~(x <= n) => u[x] = t[x - n]
    BY <1>1
  <2> HIDE DEF j
  <2>3. u[j] = t[j - n]
    BY <2>1, <2>2
  <2>4. u[j] = t[i]
    BY <2>1, <2>3
  <2>. QED BY <2>4 DEF j
<1>. QED BY <1>1, <1>2, <1>4, <1>5 DEF u, n, m

\* A sequence over a set is one over any larger set.
LEMMA SeqsGrow ==
    ASSUME NEW S, NEW T, S \subseteq T, NEW s \in Seq(S)
    PROVE  s \in Seq(T)
<1>1. Len(s) \in Nat /\ s \in [1 .. Len(s) -> S]
  BY LenProperties
<1>2. s \in [1 .. Len(s) -> T]
  BY <1>1
<1>. QED BY <1>1, <1>2

\* A function on 1 .. n is a sequence of n elements.
LEMMA FunctionsAreSeqs ==
    ASSUME NEW S, NEW n \in Nat, NEW s \in [1 .. n -> S]
    PROVE  s \in Seq(S) /\ Len(s) = n
  OBVIOUS

-----------------------------------------------------------------------------
(* What the steps do to the snapshots.                                     *)

USE DEF prismVars, walkVars

\* Snapshots keep their names; only an undo is written down as a remover.
LEMMA ShotsStay ==
    ASSUME TypeOK, [Next]_tasksVars
    PROVE  /\ shots' \in Seq(Shots)
           /\ Len(shots) \in Nat /\ Len(shots') \in Nat /\ Len(shots) <= Len(shots')
           /\ \A i \in ShotIds :
                /\ i \in ShotIds' /\ shots'[i].name = shots[i].name
                /\ \/ shots'[i].remover = shots[i].remover
                   \/ \E c \in Calls : /\ Delete(c) /\ i = token[ask[c].of]
                                     /\ shots'[i].remover = c
           /\ \A i \in ShotIds' : i \notin ShotIds => shots'[i].remover = Nobody
<1> USE DEF TypeOK
<1>0. Len(shots) \in Nat /\ shots \in [1 .. Len(shots) -> Shots]
  BY LenProperties
<1> DEFINE Goal ==
           /\ shots' \in Seq(Shots)
           /\ Len(shots) \in Nat /\ Len(shots') \in Nat /\ Len(shots) <= Len(shots')
           /\ \A i \in ShotIds :
                /\ i \in ShotIds' /\ shots'[i].name = shots[i].name
                /\ \/ shots'[i].remover = shots[i].remover
                   \/ \E c \in Calls : /\ Delete(c) /\ i = token[ask[c].of]
                                     /\ shots'[i].remover = c
           /\ \A i \in ShotIds' : i \notin ShotIds => shots'[i].remover = Nobody
<1>1. ASSUME shots' = shots PROVE Goal
  BY <1>0, <1>1 DEF ShotIds
<1>2. ASSUME NEW n \in Names, NEW who \in Calls \cup {Others}, Add(n, who) PROVE Goal
  <2> DEFINE e == [name |-> n, maker |-> who, remover |-> Nobody]
  <2>1. shots' = Append(shots, e) /\ e \in Shots
    BY <1>2 DEF Add, Shots
  <2>2. /\ shots' \in Seq(Shots) /\ Len(shots') = Len(shots) + 1
        /\ \A i \in 1 .. Len(shots) : shots'[i] = shots[i]
        /\ shots'[Len(shots) + 1] = e
    BY <1>0, <2>1, AppendProperties
  <2>3. Len(shots') \in Nat /\ Len(shots) <= Len(shots')
    BY <1>0, <2>2
  <2>4. \A i \in ShotIds : i \in ShotIds' /\ shots'[i] = shots[i]
    BY <1>0, <2>2 DEF ShotIds
  <2>5. \A i \in ShotIds' : i \notin ShotIds => i = Len(shots) + 1
    BY <1>0, <2>2 DEF ShotIds
  <2>6. shots'[Len(shots) + 1].remover = Nobody
    BY <2>2
  <2>. QED BY <1>0, <2>2, <2>3, <2>4, <2>5, <2>6
<1>3. ASSUME NEW c \in Calls, Delete(c) PROVE Goal
  <2>1. PICK k \in DOMAIN rows :
          /\ rows[k] = token[ask[c].of]
          /\ shots' = [shots EXCEPT ![rows[k]].remover = c]
    BY <1>3 DEF Delete
  <2>2. rows[k] \in ShotIds
    BY LenProperties
  <2>3. Len(shots') = Len(shots) /\ shots' \in Seq(Shots)
    <3>1. [shots[rows[k]] EXCEPT !.remover = c] \in Shots
      <4>1. shots[rows[k]] \in Shots
        BY <1>0, <2>2 DEF ShotIds
      <4>2. ASSUME NEW r \in Shots PROVE [r EXCEPT !.remover = c] \in Shots
        BY DEF Shots
      <4>. QED BY <4>1, <4>2
    <3>2. shots' \in [1 .. Len(shots) -> Shots]
      BY <1>0, <2>1, <2>2, <3>1 DEF ShotIds
    <3>. QED BY <1>0, <3>2, FunctionsAreSeqs
  <2>4. \A i \in 1 .. Len(shots) : /\ shots'[i].name = shots[i].name
                                   /\ i # rows[k] => shots'[i].remover = shots[i].remover
                                   /\ i = rows[k] => shots'[i].remover = c
    BY <1>0, <2>1, <2>2 DEF Shots, ShotIds
  <2>. QED BY <1>0, <1>3, <2>1, <2>3, <2>4 DEF ShotIds
<1>4. ASSUME NEW c \in Calls, CallStep(c) PROVE Goal
  BY <1>1, <1>3, <1>4 DEF CallStep, Invoke, Post, NextPage, PageFails, Envelope,
       RequirePassedPrecheck, CallFails
<1>5. ASSUME NEW c \in Calls, TaskSucceeds(c) PROVE Goal
  <2>1. ask[c].op = "snapshot" => ask[c].name \in Names
    BY DEF Asks
  <2>. QED BY <1>1, <1>2, <1>5, <2>1 DEF TaskSucceeds
<1>6. ASSUME NEW c \in Calls, TaskFails(c) \/ PurgeTask(c) PROVE Goal
  BY <1>1, <1>6 DEF TaskFails, PurgeTask
<1>7. ASSUME OthersAdd PROVE Goal
  BY <1>2, <1>7 DEF OthersAdd
<1>8. ASSUME OthersDelete PROVE Goal
  BY <1>1, <1>8 DEF OthersDelete
<1>9. CASE UNCHANGED tasksVars
  BY <1>1, <1>9 DEF tasksVars
<1>. QED BY <1>4, <1>5, <1>6, <1>7, <1>8, <1>9 DEF Next, PrismStep

\* Rows name snapshots.
LEMMA RowsStayTyped ==
    ASSUME TypeOK, [Next]_tasksVars
    PROVE  rows' \in Seq(ShotIds')
<1> USE DEF TypeOK
<1>0. Len(shots) \in Nat /\ Len(rows) \in Nat /\ rows \in [1 .. Len(rows) -> ShotIds]
  BY LenProperties
<1>a. ShotIds \subseteq ShotIds'
  BY ShotsStay
<1>1. ASSUME rows' = rows PROVE rows' \in Seq(ShotIds')
  BY <1>1, <1>a, SeqsGrow
<1>2. ASSUME NEW n \in Names, NEW who \in Calls \cup {Others}, Add(n, who)
      PROVE  rows' \in Seq(ShotIds')
  <2> DEFINE e == [name |-> n, maker |-> who, remover |-> Nobody]
             i == Len(shots) + 1
  <2>1. shots' = Append(shots, e) /\ e \in Shots
    BY <1>2 DEF Add, Shots
  <2>2. Len(shots') = Len(shots) + 1
    BY <1>0, <2>1, AppendProperties
  <2>3. i \in ShotIds'
    BY <1>0, <2>2 DEF ShotIds
  <2>4. PICK k \in 1 .. Len(rows) + 1 : rows' = InsertAt(rows, k, i)
    BY <1>2 DEF Add
  <2>5. rows \in Seq(ShotIds')
    BY <1>a, SeqsGrow
  <2> HIDE DEF i
  <2>. QED BY <2>3, <2>4, <2>5, InsertProperties
<1>3. ASSUME NEW k \in DOMAIN rows, Unlist(k) PROVE rows' \in Seq(ShotIds')
  <2>1. rows \in Seq(ShotIds') /\ k \in 1 .. Len(rows)
    BY <1>0, <1>a, SeqsGrow
  <2>. QED BY <1>3, <2>1, RemoveProperties DEF Unlist
<1>4. ASSUME NEW c \in Calls, CallStep(c) PROVE rows' \in Seq(ShotIds')
  BY <1>1, <1>3, <1>4 DEF CallStep, Invoke, Post, NextPage, PageFails, Envelope,
       RequirePassedPrecheck, CallFails, Delete
<1>5. ASSUME NEW c \in Calls, TaskSucceeds(c) PROVE rows' \in Seq(ShotIds')
  <2>1. ask[c].op = "snapshot" => ask[c].name \in Names
    BY DEF Asks
  <2>. QED BY <1>1, <1>2, <1>5, <2>1 DEF TaskSucceeds
<1>6. ASSUME NEW c \in Calls, TaskFails(c) \/ PurgeTask(c) PROVE rows' \in Seq(ShotIds')
  BY <1>1, <1>6 DEF TaskFails, PurgeTask
<1>7. ASSUME OthersAdd PROVE rows' \in Seq(ShotIds')
  BY <1>2, <1>7 DEF OthersAdd
<1>8. ASSUME OthersDelete PROVE rows' \in Seq(ShotIds')
  BY <1>3, <1>8 DEF OthersDelete
<1>9. CASE UNCHANGED tasksVars
  BY <1>1, <1>9 DEF tasksVars
<1>. QED BY <1>4, <1>5, <1>6, <1>7, <1>8, <1>9 DEF Next, PrismStep

-----------------------------------------------------------------------------
(* Type correctness.                                                       *)

\* Paging keeps its types, whether it begins, ends or rests.
LEMMA PagingTyped ==
    ASSUME TypeOK, NEW c \in Calls, StartPaging(c) \/ EndPaging(c) \/ UNCHANGED walkVars
    PROVE  /\ page' \in [Calls -> Nat]
           /\ got' \in [Calls -> Seq(ShotIds)]
           /\ start' \in [Calls -> Seq(ShotIds)]
           /\ grew' \subseteq Calls /\ shrank' \subseteq Calls
<1>1. <<>> \in Seq(ShotIds)
  OBVIOUS
<1> USE DEF TypeOK
<1>2. CASE StartPaging(c)
  <2>1. start' \in [Calls -> Seq(ShotIds)]
    BY <1>2 DEF StartPaging
  <2>. QED BY <1>2, <2>1 DEF StartPaging
<1>3. CASE EndPaging(c)
  <2>1. page' \in [Calls -> Nat]
    BY <1>3 DEF EndPaging
  <2>2. got' \in [Calls -> Seq(ShotIds)]
    BY <1>1, <1>3 DEF EndPaging
  <2>3. start' \in [Calls -> Seq(ShotIds)]
    BY <1>1, <1>3 DEF EndPaging
  <2>4. grew' \subseteq Calls /\ shrank' \subseteq Calls
    BY <1>3 DEF EndPaging
  <2>. QED BY <2>1, <2>2, <2>3, <2>4
<1>4. CASE UNCHANGED walkVars
  BY <1>4
<1>. QED BY <1>2, <1>3, <1>4

\* Every step keeps the types.
LEMMA TypeStep ==
    ASSUME TypeOK, [Next]_tasksVars
    PROVE  TypeOK'
<1> USE DEF TypeOK
<1>a. shots' \in Seq(Shots) /\ rows' \in Seq(ShotIds') /\ ShotIds \subseteq ShotIds'
  BY ShotsStay, RowsStayTyped
\* What is typed over the old extIds is typed over the new ones.
<1> DEFINE Walks == /\ page' \in [Calls -> Nat]
                    /\ got' \in [Calls -> Seq(ShotIds)]
                    /\ start' \in [Calls -> Seq(ShotIds)]
                    /\ token' \in [Calls -> ShotIds \cup {NoShot}]
                    /\ grew' \subseteq Calls /\ shrank' \subseteq Calls
           Rest == /\ task' \in [Calls -> Statuses]
                   /\ purged' \subseteq Calls /\ drift' \in 0 .. MaxDrift
                   /\ ask' \in [Calls -> Asks]
                   /\ pc' \in [Calls -> {"idle", "pages", "paged", "post", "verify",
                                         "delete", "done", "failed"}]
                   /\ verdict' \in [Calls -> Verdicts]
                   /\ promised' \subseteq Calls
<1>b. ASSUME Walks, Rest PROVE TypeOK'
  <2>1. got' \in [Calls -> Seq(ShotIds')] /\ start' \in [Calls -> Seq(ShotIds')]
    <3>1. \A s \in Seq(ShotIds) : s \in Seq(ShotIds')
      BY <1>a, SeqsGrow
    <3>. QED BY <1>b, <3>1
  <2>2. token' \in [Calls -> ShotIds' \cup {NoShot}]
    BY <1>a, <1>b
  <2>. QED BY <1>a, <1>b, <2>1, <2>2
<1>1. ASSUME NEW c \in Calls, NEW a \in Asks, Invoke(c, a) PROVE Walks /\ Rest
  <2>1. FirstStep(a) \in {"pages", "delete", "verify", "post"}
    BY DEF FirstStep
  <2>2. Rest
    BY <1>1, <2>1 DEF Invoke
  <2>. QED BY <1>1, <2>2, PagingTyped DEF Invoke
<1>2. ASSUME NEW c \in Calls, Post(c) PROVE Walks /\ Rest
  <2>1. Rest
    BY <1>2 DEF Post, Statuses
  <2>. QED BY <1>2, <2>1, PagingTyped DEF Post
<1>3. ASSUME NEW c \in Calls, NextPage(c) PROVE Walks /\ Rest
  <2>1. page[c] * PageSize \in Nat
    BY TasksAssumption
  <2>2. got[c] \o Page(page[c]) \in Seq(ShotIds)
    <3>1. Page(page[c]) \in Seq(ShotIds)
      BY <2>1, PageProperties
    <3>. QED BY <3>1, ConcatProperties
  <2>3. got' \in [Calls -> Seq(ShotIds)]
    BY <1>3, <2>2 DEF NextPage
  <2>4. page' \in [Calls -> Nat]
    BY <1>3 DEF NextPage
  <2>5. Rest
    BY <1>3 DEF NextPage
  <2>. QED BY <1>3, <2>3, <2>4, <2>5 DEF NextPage
<1>4. ASSUME NEW c \in Calls, PageFails(c) \/ CallFails(c) PROVE Walks /\ Rest
  <2>1. Rest
    BY <1>4 DEF PageFails, CallFails
  <2>. QED BY <1>4, <2>1, PagingTyped DEF PageFails, CallFails
<1>5. ASSUME NEW c \in Calls, Envelope(c) PROVE Walks /\ Rest
  <2>1. Rest
    BY <1>5 DEF Envelope
  <2>2. token' \in [Calls -> ShotIds \cup {NoShot}]
    BY <1>5 DEF Envelope
  <2>. QED BY <1>5, <2>1, <2>2, PagingTyped DEF Envelope
<1>6. ASSUME NEW c \in Calls, RequirePassedPrecheck(c) PROVE Walks /\ Rest
  BY <1>6 DEF RequirePassedPrecheck, Judged, AfterPrecheck, Verdicts
<1>7. ASSUME NEW c \in Calls, Delete(c) PROVE Walks /\ Rest
  BY <1>7 DEF Delete, Unlist
<1>8. ASSUME NEW c \in Calls, TaskSucceeds(c) PROVE Walks /\ Rest
  BY <1>8 DEF TaskSucceeds, Add, Statuses
<1>9. ASSUME NEW c \in Calls, TaskFails(c) \/ PurgeTask(c) PROVE Walks /\ Rest
  BY <1>9 DEF TaskFails, PurgeTask, Statuses
<1>10. ASSUME OthersAdd \/ OthersDelete PROVE Walks /\ Rest
  <2>1. drift' \in 0 .. MaxDrift
    BY <1>10, TasksAssumption DEF OthersAdd, OthersDelete
  <2>2. grew' \subseteq Calls /\ shrank' \subseteq Calls
    BY <1>10 DEF OthersAdd, OthersDelete, Add, Unlist
  <2>. QED BY <1>10, <2>1, <2>2 DEF OthersAdd, OthersDelete
<1>11. ASSUME UNCHANGED tasksVars PROVE Walks /\ Rest
  BY <1>11 DEF tasksVars
<1> HIDE DEF Walks, Rest
<1>12. Walks /\ Rest
  BY <1>1, <1>2, <1>3, <1>4, <1>5, <1>6, <1>7, <1>8, <1>9, <1>10, <1>11
     DEF Next, PrismStep, CallStep
<1>. QED BY <1>b, <1>12

-----------------------------------------------------------------------------
(* Calls, tokens and the precheck guard.                                   *)

\* A call that started keeps its request.
LEMMA RequestsStay ==
    ASSUME TypeOK, [Next]_tasksVars, NEW c \in Calls, pc[c] # "idle"
    PROVE  pc'[c] # "idle" /\ ask'[c] = ask[c]
<1> USE DEF TypeOK
<1>1. ASSUME NEW d \in Calls, NEW a \in Asks, Invoke(d, a)
      PROVE  pc'[c] # "idle" /\ ask'[c] = ask[c]
  BY <1>1 DEF Invoke
<1>2. ASSUME NEW d \in Calls, Post(d) \/ NextPage(d) \/ PageFails(d) \/ Envelope(d)
                              \/ RequirePassedPrecheck(d) \/ Delete(d) \/ CallFails(d)
      PROVE  pc'[c] # "idle" /\ ask'[c] = ask[c]
  BY <1>2 DEF Post, NextPage, PageFails, Envelope, RequirePassedPrecheck, Delete, CallFails,
       AfterPrecheck
<1>3. ASSUME PrismStep PROVE pc'[c] # "idle" /\ ask'[c] = ask[c]
  BY <1>3 DEF PrismStep, TaskSucceeds, TaskFails, PurgeTask, OthersAdd, OthersDelete
<1>4. CASE UNCHANGED tasksVars
  BY <1>4 DEF tasksVars
<1>. QED BY <1>1, <1>2, <1>3, <1>4 DEF Next, CallStep

\* Only its invocation takes a call out of idle.
LEMMA IdleUntilInvoked ==
    ASSUME TypeOK, [Next]_tasksVars, NEW c \in Calls, pc[c] = "idle", pc'[c] # "idle"
    PROVE  \E a \in Asks : Invoke(c, a)
<1> USE DEF TypeOK
<1>1. ASSUME NEW d \in Calls, NEW a \in Asks, Invoke(d, a)
      PROVE  c = d
  BY <1>1 DEF Invoke
<1>2. ASSUME NEW d \in Calls, Post(d) \/ NextPage(d) \/ PageFails(d) \/ Envelope(d)
                              \/ RequirePassedPrecheck(d) \/ Delete(d) \/ CallFails(d)
      PROVE  FALSE
  BY <1>2 DEF Post, NextPage, PageFails, Envelope, RequirePassedPrecheck, Delete, CallFails
<1>3. ASSUME PrismStep PROVE FALSE
  BY <1>3 DEF PrismStep, TaskSucceeds, TaskFails, PurgeTask, OthersAdd, OthersDelete
<1>4. CASE UNCHANGED tasksVars
  BY <1>4 DEF tasksVars
<1>. QED BY <1>1, <1>2, <1>3, <1>4 DEF Next, CallStep

\* A token appears when its call ends, and stays.
LEMMA TokensStay ==
    ASSUME TypeOK, CallsInOrder, [Next]_tasksVars, NEW c \in Calls
    PROVE  \/ token'[c] = token[c]
           \/ Envelope(c) /\ ask[c].op = "snapshot" /\ token[c] = NoShot
<1> USE DEF TypeOK
<1>1. ASSUME NEW d \in Calls, Envelope(d)
      PROVE  \/ token'[c] = token[c]
             \/ Envelope(c) /\ ask[c].op = "snapshot" /\ token[c] = NoShot
  <2>1. CASE c = d /\ ask[c].op = "snapshot"
    BY <1>1, <2>1 DEF Envelope, CallsInOrder
  <2>2. CASE c # d \/ ask[c].op # "snapshot"
    BY <1>1, <2>2 DEF Envelope
  <2>. QED BY <2>1, <2>2
<1>2. ASSUME NEW d \in Calls, \/ \E a \in Asks : Invoke(d, a)
                              \/ Post(d) \/ NextPage(d) \/ PageFails(d)
                              \/ RequirePassedPrecheck(d) \/ Delete(d) \/ CallFails(d)
      PROVE  token'[c] = token[c]
  BY <1>2 DEF Invoke, Post, NextPage, PageFails, RequirePassedPrecheck, Delete, CallFails
<1>3. ASSUME PrismStep PROVE token'[c] = token[c]
  BY <1>3 DEF PrismStep, TaskSucceeds, TaskFails, PurgeTask, OthersAdd, OthersDelete
<1>4. CASE UNCHANGED tasksVars
  BY <1>4 DEF tasksVars
<1>. QED BY <1>1, <1>2, <1>3, <1>4 DEF Next, CallStep

\* A token that appears is of a listed snapshot of the name that was asked for.
LEMMA EnvelopeNames ==
    ASSUME TypeOK, NEW c \in Calls, Envelope(c), ask[c].op = "snapshot"
    PROVE  /\ token'[c] \in ShotIds \cup {NoShot}
           /\ token'[c] # NoShot => shots[token'[c]].name = ask[c].name
<1>1. PICK i \in ShotIds \cup {NoShot} :
        ResolvesTo(i, Listed(c), ask[c].name) /\ token' = [token EXCEPT ![c] = i]
  BY DEF Envelope
<1>2. token'[c] = i
  BY <1>1 DEF TypeOK
<1>. QED BY <1>1, <1>2 DEF ResolvesTo

\* A task that succeeded stays so.
LEMMA TasksSucceedOnce ==
    ASSUME TypeOK, [Next]_tasksVars, CallsInOrder, NEW c \in Calls, task[c] = "SUCCEEDED"
    PROVE  task'[c] = "SUCCEEDED"
<1> USE DEF TypeOK
<1>1. ASSUME NEW d \in Calls, CallStep(d)
      PROVE  task'[c] = "SUCCEEDED"
  BY <1>1 DEF CallStep, Invoke, Post, NextPage, PageFails, Envelope, RequirePassedPrecheck,
       Delete, CallFails, CallsInOrder
<1>2. ASSUME PrismStep PROVE task'[c] = "SUCCEEDED"
  BY <1>2 DEF PrismStep, TaskSucceeds, TaskFails, PurgeTask, OthersAdd, OthersDelete
<1>3. CASE UNCHANGED tasksVars
  BY <1>3 DEF tasksVars
<1>. QED BY <1>1, <1>2, <1>3 DEF Next

\* Every step keeps CallsInOrder.
LEMMA CallsStep ==
    ASSUME TypeOK, CallsInOrder, [Next]_tasksVars
    PROVE  CallsInOrder'
<1> USE DEF TypeOK
<1> SUFFICES ASSUME NEW c \in Calls
             PROVE  /\ pc'[c] = "idle" => verdict'[c] = "none"
                    /\ pc'[c] \in {"idle", "post", "verify"} => task'[c] = "none"
                    /\ pc'[c] \in {"pages", "paged"} => ask'[c].op \in {"list", "snapshot"}
                    /\ pc'[c] = "verify" => ask'[c].op \in {"update", "preview"}
                    /\ pc'[c] = "delete" => ask'[c].op = "undo"
                    /\ pc'[c] \in {"idle", "pages", "paged", "post", "verify", "delete"} =>
                         token'[c] = NoShot
                    /\ token'[c] # NoShot =>
                         ask'[c].op = "snapshot" /\ shots'[token'[c]].name = ask'[c].name
                    /\ pc'[c] # "idle" /\ ask'[c].op = "undo" => token'[ask'[c].of] # NoShot
  BY DEF CallsInOrder
<1> DEFINE Places == /\ pc'[c] = "idle" => verdict'[c] = "none"
                     /\ pc'[c] \in {"idle", "post", "verify"} => task'[c] = "none"
                     /\ pc'[c] \in {"pages", "paged"} => ask'[c].op \in {"list", "snapshot"}
                     /\ pc'[c] = "verify" => ask'[c].op \in {"update", "preview"}
                     /\ pc'[c] = "delete" => ask'[c].op = "undo"
                     /\ pc'[c] \in {"idle", "pages", "paged", "post", "verify", "delete"} =>
                          token'[c] = NoShot
\* Where c is, and what it holds there.
<1>1. Places
  <2>1. ASSUME NEW a \in Asks, Invoke(c, a) PROVE Places
    BY <2>1 DEF Invoke, FirstStep, CallsInOrder, Asks
  <2>2. ASSUME Post(c) \/ NextPage(c) \/ PageFails(c) \/ Delete(c) \/ CallFails(c)
        PROVE  Places
    BY <2>2 DEF Post, NextPage, PageFails, Delete, CallFails, CallsInOrder
  <2>3. ASSUME Envelope(c) PROVE Places
    BY <2>3 DEF Envelope
  <2>4. ASSUME RequirePassedPrecheck(c) PROVE Places
    BY <2>4 DEF RequirePassedPrecheck, AfterPrecheck, CallsInOrder
  <2>5. ASSUME NEW d \in Calls, c # d, CallStep(d) PROVE Places
    <3>1. /\ pc'[c] = pc[c] /\ ask'[c] = ask[c] /\ task'[c] = task[c]
          /\ verdict'[c] = verdict[c] /\ token'[c] = token[c]
      BY <2>5 DEF CallStep, Invoke, Post, NextPage, PageFails, Envelope,
           RequirePassedPrecheck, Delete, CallFails
    <3>. QED BY <3>1 DEF CallsInOrder
  <2>6. ASSUME PrismStep PROVE Places
    <3>1. /\ pc' = pc /\ ask' = ask /\ verdict' = verdict /\ token' = token
          /\ task[c] = "none" => task'[c] = "none"
      BY <2>6 DEF PrismStep, TaskSucceeds, TaskFails, PurgeTask, OthersAdd, OthersDelete
    <3>. QED BY <3>1 DEF CallsInOrder
  <2>7. ASSUME UNCHANGED tasksVars PROVE Places
    BY <2>7 DEF tasksVars, CallsInOrder
  <2> HIDE DEF Places
  <2>. QED BY <2>1, <2>2, <2>3, <2>4, <2>5, <2>6, <2>7 DEF Next, CallStep
\* Tokens name what was asked for.
<1>2. token'[c] # NoShot =>
        ask'[c].op = "snapshot" /\ shots'[token'[c]].name = ask'[c].name
  <2>1. CASE token'[c] = token[c] /\ token[c] # NoShot
    <3>1. pc[c] # "idle" /\ ask[c].op = "snapshot" /\ shots[token[c]].name = ask[c].name
      BY <2>1 DEF CallsInOrder
    <3>2. token[c] \in ShotIds
      BY <2>1
    <3>. QED BY <2>1, <3>1, <3>2, RequestsStay, ShotsStay
  <2>2. CASE Envelope(c) /\ ask[c].op = "snapshot"
    <3>1. shots' = shots /\ ask' = ask
      BY <2>2 DEF Envelope
    <3>. QED BY <2>2, <3>1, EnvelopeNames
  <2>. QED BY <2>1, <2>2, TokensStay
\* The token of an undo stays.
<1>3. pc'[c] # "idle" /\ ask'[c].op = "undo" => token'[ask'[c].of] # NoShot
  <2> SUFFICES ASSUME pc'[c] # "idle", ask'[c].op = "undo"
               PROVE  token'[ask'[c].of] # NoShot
    OBVIOUS
  <2>1. CASE pc[c] # "idle"
    <3>1. ask'[c] = ask[c]
      BY <2>1, RequestsStay
    <3>2. ask[c].of \in Calls
      BY <3>1 DEF Asks
    <3>3. token[ask[c].of] # NoShot
      BY <2>1, <3>1 DEF CallsInOrder
    <3>. QED BY <3>1, <3>2, <3>3, TokensStay
  <2>2. CASE pc[c] = "idle"
    <3>1. PICK a \in Asks : Invoke(c, a)
      BY <2>2, IdleUntilInvoked
    <3>2. ask'[c] = a /\ token' = token /\ (a.op = "undo" => token[a.of] # NoShot)
      BY <3>1 DEF Invoke
    <3>. QED BY <3>2
  <2>. QED BY <2>1, <2>2
<1>. QED BY <1>1, <1>2, <1>3

\* Every step keeps GuardsHold.
LEMMA GuardsStep ==
    ASSUME TypeOK, CallsInOrder, GuardsHold, [Next]_tasksVars
    PROVE  GuardsHold'
<1> USE DEF TypeOK
<1> SUFFICES ASSUME NEW c \in Calls
             PROVE  /\ ask'[c].op = "update" /\ (pc'[c] = "post" \/ task'[c] # "none") =>
                         verdict'[c] \in {"verified", "unstated"}
                    /\ verdict'[c] # "none" => ask'[c].op \in {"update", "preview"}
                    /\ verdict'[c] = "verified" => task'[ask'[c].of] = "SUCCEEDED"
                    /\ c \in promised' =>
                         /\ pc'[c] # "idle" /\ ask'[c].op = "update"
                         /\ task'[ask'[c].of] = "SUCCEEDED"
                         /\ verdict'[c] = "refused" => ask'[c].of \in purged'
  BY DEF GuardsHold
<1> DEFINE Goal == /\ ask'[c].op = "update" /\ (pc'[c] = "post" \/ task'[c] # "none") =>
                        verdict'[c] \in {"verified", "unstated"}
                   /\ verdict'[c] # "none" => ask'[c].op \in {"update", "preview"}
                   /\ verdict'[c] = "verified" => task'[ask'[c].of] = "SUCCEEDED"
                   /\ c \in promised' =>
                        /\ pc'[c] # "idle" /\ ask'[c].op = "update"
                        /\ task'[ask'[c].of] = "SUCCEEDED"
                        /\ verdict'[c] = "refused" => ask'[c].of \in purged'
\* A task that was verified stays succeeded.
<1>0. ask[c].op \in {"update", "preview"} =>
        /\ ask[c].of \in Calls
        /\ task[ask[c].of] = "SUCCEEDED" => task'[ask[c].of] = "SUCCEEDED"
  BY TasksSucceedOnce DEF Asks
<1>1. ASSUME NEW a \in Asks, Invoke(c, a) PROVE Goal
  <2>1. /\ pc[c] = "idle" /\ ask'[c] = a /\ pc'[c] = FirstStep(a) /\ pc'[c] # "idle"
        /\ task' = task /\ verdict' = verdict
    BY <1>1 DEF Invoke, FirstStep
  <2>2. verdict[c] = "none" /\ task[c] = "none" /\ c \notin promised
    BY <2>1 DEF CallsInOrder, GuardsHold
  <2>3. c \in promised' => a.op = "update" /\ task[a.of] = "SUCCEEDED"
    <3>1. c \in promised' =>
            a.op = "update" /\ \E p \in Calls : /\ ask[p].op = "preview" /\ ask[p].of = a.of
                                               /\ verdict[p] = "verified"
      BY <1>1, <2>2 DEF Invoke
    <3>. QED BY <3>1 DEF GuardsHold
  <2>4. a.op = "update" => pc'[c] = "verify"
    BY <2>1 DEF FirstStep
  <2>. QED BY <2>1, <2>2, <2>3, <2>4
<1>2. ASSUME RequirePassedPrecheck(c) PROVE Goal
  <2>1. PICK v \in Judged(ask[c].of) :
          verdict' = [verdict EXCEPT ![c] = v] /\ pc' = [pc EXCEPT ![c] = AfterPrecheck(c, v)]
    BY <1>2 DEF RequirePassedPrecheck
  <2>2. /\ pc[c] = "verify" /\ ask' = ask /\ task' = task /\ purged' = purged
        /\ promised' = promised /\ verdict'[c] = v /\ pc'[c] = AfterPrecheck(c, v)
    BY <1>2, <2>1 DEF RequirePassedPrecheck
  <2>3. ask[c].op \in {"update", "preview"} /\ task[c] = "none"
    BY <2>2 DEF CallsInOrder
  <2>4. /\ v \in {"verified", "unstated", "refused"}
        /\ v = "verified" => task[ask[c].of] = "SUCCEEDED"
        /\ v = "refused" => ask[c].of \in purged \/ task[ask[c].of] # "SUCCEEDED"
    BY <2>1 DEF Judged, PrecheckPassed
  <2>5. pc'[c] # "idle" /\ (pc'[c] = "post" => v # "refused")
    BY <2>2 DEF AfterPrecheck
  <2>6. c \in promised => ask[c].op = "update" /\ task[ask[c].of] = "SUCCEEDED"
    BY DEF GuardsHold
  <2>. QED BY <2>2, <2>3, <2>4, <2>5, <2>6
<1>3. ASSUME Post(c) PROVE Goal
  <2>1. /\ pc[c] = "post" /\ ask' = ask /\ verdict' = verdict /\ promised' = promised
        /\ purged' = purged /\ pc'[c] # "idle"
    BY <1>3 DEF Post
  <2>. QED BY <1>0, <2>1 DEF GuardsHold
\* Any other step leaves the guard of c alone.
<1>4. ASSUME /\ ask'[c] = ask[c] /\ verdict'[c] = verdict[c] /\ purged \subseteq purged'
             /\ (c \in promised' => c \in promised)
             /\ (pc'[c] = "post" => pc[c] = "post") /\ (pc[c] # "idle" => pc'[c] # "idle")
             /\ (task[c] = "none" => task'[c] = "none")
      PROVE  Goal
  BY <1>0, <1>4 DEF GuardsHold
<1>5. ASSUME NextPage(c) \/ PageFails(c) \/ Envelope(c) \/ Delete(c) \/ CallFails(c)
      PROVE  Goal
  BY <1>4, <1>5 DEF NextPage, PageFails, Envelope, Delete, CallFails
<1>6. ASSUME NEW d \in Calls, c # d, CallStep(d) PROVE Goal
  BY <1>4, <1>6 DEF CallStep, Invoke, Post, NextPage, PageFails, Envelope,
       RequirePassedPrecheck, Delete, CallFails
<1>7. ASSUME PrismStep PROVE Goal
  BY <1>4, <1>7 DEF PrismStep, TaskSucceeds, TaskFails, PurgeTask, OthersAdd, OthersDelete
<1>8. ASSUME UNCHANGED tasksVars PROVE Goal
  BY <1>4, <1>8 DEF tasksVars
<1>9. ASSUME NEW d \in Calls, CallStep(d) PROVE Goal
  <2>1. CASE c = d
    BY <1>1, <1>2, <1>3, <1>5, <1>9, <2>1 DEF CallStep
  <2>2. CASE c # d
    BY <1>6, <1>9, <2>2
  <2>. QED BY <2>1, <2>2
<1>. QED BY <1>7, <1>8, <1>9 DEF Next

\* Every step keeps UndosHold.
LEMMA UndosStep ==
    ASSUME TypeOK, CallsInOrder, UndosHold, [Next]_tasksVars
    PROVE  UndosHold'
<1> USE DEF TypeOK
<1> SUFFICES ASSUME NEW i \in ShotIds', shots'[i].remover \in Calls
             PROVE  LET who == shots'[i].remover
                    IN  /\ pc'[who] # "idle" /\ ask'[who].op = "undo"
                        /\ ask'[ask'[who].of].op = "snapshot"
                        /\ shots'[i].name = ask'[ask'[who].of].name
  BY DEF UndosHold
<1> DEFINE who == shots'[i].remover
<1>1. i \in ShotIds /\ shots'[i].name = shots[i].name
  BY ShotsStay, TasksAssumption
\* A call that is past idle, and the call whose token it has, keep their requests.
<1>2. CASE shots'[i].remover = shots[i].remover
  <2>1. /\ pc[who] # "idle" /\ ask[who].op = "undo" /\ ask[ask[who].of].op = "snapshot"
        /\ shots[i].name = ask[ask[who].of].name
    BY <1>1, <1>2 DEF UndosHold
  <2>2. ask[who].of \in Calls /\ token[ask[who].of] # NoShot
    BY <2>1 DEF CallsInOrder, Asks
  <2>3. pc[ask[who].of] # "idle"
    BY <2>2 DEF CallsInOrder
  <2>. QED BY <1>1, <2>1, <2>2, <2>3, RequestsStay
<1>3. CASE \E c \in Calls : Delete(c) /\ i = token[ask[c].of] /\ shots'[i].remover = c
  <2>1. Delete(who) /\ i = token[ask[who].of]
    BY <1>3
  <2>2. pc[who] = "delete" /\ ask[who].op = "undo" /\ ask' = ask /\ pc'[who] # "idle"
    BY <2>1 DEF Delete, CallsInOrder
  <2>3. ask[who].of \in Calls /\ token[ask[who].of] # NoShot
    BY <2>2 DEF CallsInOrder, Asks
  <2>4. ask[ask[who].of].op = "snapshot" /\ shots[i].name = ask[ask[who].of].name
    BY <2>1, <2>3 DEF CallsInOrder
  <2>. QED BY <1>1, <2>2, <2>4
<1>. QED BY <1>1, <1>2, <1>3, ShotsStay

-----------------------------------------------------------------------------
(* Paged lists.                                                            *)

\* What WalksHold says of one call.
Walk(c) ==
    /\ pc[c] = "pages" =>
         /\ Len(got[c]) = page[c] * PageSize
         /\ c \notin shrank => \A i \in DOMAIN start[c] :
              \/ start[c][i] \in Range(got[c])
              \/ \E k \in DOMAIN rows : k > Len(got[c]) /\ rows[k] = start[c][i]
         /\ c \notin grew \cup shrank => rows = start[c] /\ got[c] = Prefix(rows, Len(got[c]))
    /\ pc[c] = "paged" =>
         /\ c \notin shrank =>
              Len(got[c]) >= MaxItems(c) \/ Range(start[c]) \subseteq Range(got[c])
         /\ c \notin grew \cup shrank =>
              /\ got[c] = Prefix(start[c], Len(got[c]))
              /\ Len(got[c]) >= MaxItems(c) \/ got[c] = start[c]
    /\ pc[c] \notin {"pages", "paged"} =>
         got[c] = <<>> /\ page[c] = 0 /\ c \notin grew \cup shrank

\* Paging begins with nothing collected and everything ahead.
LEMMA WalkStarts ==
    ASSUME TypeOK, WalksHold, NEW c \in Calls, pc[c] \notin {"pages", "paged"},
           StartPaging(c), rows' = rows, pc'[c] = "pages"
    PROVE  Walk(c)'
<1> USE DEF TypeOK
<1>1. /\ got'[c] = <<>> /\ page'[c] = 0 /\ start'[c] = rows /\ c \notin grew' \cup shrank'
  BY DEF StartPaging, WalksHold
<1>2. Len(got'[c]) = 0 /\ page'[c] * PageSize = 0
  BY <1>1, TasksAssumption
<1>3. Len(rows) \in Nat /\ DOMAIN rows = 1 .. Len(rows)
  BY LenProperties
<1>4. \A i \in DOMAIN start'[c] : i > 0 /\ rows'[i] = start'[c][i]
  BY <1>1, <1>3
<1>5. Prefix(rows, 0) = <<>>
  BY <1>3, SubSeqEmpty DEF Prefix
<1>. QED BY <1>1, <1>2, <1>3, <1>4, <1>5 DEF Walk

\* A page carries the walk on, or ends it.
LEMMA WalkAdvances ==
    ASSUME TypeOK, WalksHold, NEW c \in Calls, NextPage(c)
    PROVE  Walk(c)'
<1> USE DEF TypeOK
<1> DEFINE n == page[c] * PageSize
           served == Page(page[c])
           collected == got[c] \o served
<1>1. /\ pc[c] = "pages" /\ got'[c] = collected /\ rows' = rows /\ start' = start
      /\ grew' = grew /\ shrank' = shrank /\ ask' = ask
      /\ IF LastPage(c, served, collected)
           THEN pc'[c] = "paged" /\ page' = page
           ELSE pc'[c] = "pages" /\ page'[c] = page[c] + 1
  BY DEF NextPage
<1>2. /\ n \in Nat /\ page[c] \in Nat /\ PageSize \in Nat \ {0}
      /\ got[c] \in Seq(ShotIds) /\ Len(got[c]) = n
      /\ rows \in Seq(ShotIds) /\ start[c] \in Seq(ShotIds)
      /\ Len(rows) \in Nat /\ DOMAIN rows = 1 .. Len(rows)
  <2>1. n \in Nat
    BY TasksAssumption
  <2>. QED BY <1>1, <2>1, TasksAssumption, LenProperties DEF WalksHold
<1> HIDE DEF n
<1>3. /\ served \in Seq(ShotIds) /\ Len(served) \in Nat
      /\ Len(served) <= PageSize
      /\ \A k \in DOMAIN rows : k > n =>
           \/ k > n + Len(served) /\ Len(served) = PageSize
           \/ k - n \in 1 .. Len(served) /\ served[k - n] = rows[k]
      /\ n <= Len(rows) =>
           /\ n + Len(served) <= Len(rows)
           /\ Len(served) < PageSize => n + Len(served) = Len(rows)
           /\ \A i \in 1 .. Len(served) : served[i] = rows[n + i]
  BY <1>2, PageProperties, LenProperties DEF n
<1> HIDE DEF served
<1>4. /\ collected \in Seq(ShotIds) /\ Len(collected) = n + Len(served)
      /\ DOMAIN collected = 1 .. n + Len(served)
      /\ \A i \in 1 .. n : collected[i] = got[c][i]
      /\ \A i \in 1 .. Len(served) : collected[n + i] = served[i]
  <2>1. n \in Nat /\ got[c] \in Seq(ShotIds) /\ Len(got[c]) = n
    BY <1>2
  <2>2. served \in Seq(ShotIds) /\ Len(served) \in Nat
    BY <1>3
  <2>3. \A s, t \in Seq(ShotIds) :
          /\ s \o t \in Seq(ShotIds) /\ Len(s \o t) = Len(s) + Len(t)
          /\ DOMAIN (s \o t) = 1 .. Len(s) + Len(t)
          /\ \A i \in 1 .. Len(s) : (s \o t)[i] = s[i]
          /\ \A i \in 1 .. Len(t) : (s \o t)[Len(s) + i] = t[i]
    <3> SUFFICES ASSUME NEW s \in Seq(ShotIds), NEW t \in Seq(ShotIds)
                 PROVE  /\ s \o t \in Seq(ShotIds) /\ Len(s \o t) = Len(s) + Len(t)
                        /\ DOMAIN (s \o t) = 1 .. Len(s) + Len(t)
                        /\ \A i \in 1 .. Len(s) : (s \o t)[i] = s[i]
                        /\ \A i \in 1 .. Len(t) : (s \o t)[Len(s) + i] = t[i]
      OBVIOUS
    <3>. QED BY ConcatPositions
  <2>. QED BY <2>1, <2>2, <2>3, Zenon
<1> HIDE DEF collected
<1>5. Range(got[c]) \subseteq Range(collected)
  <2>1. DOMAIN got[c] = 1 .. n
    BY <1>2, LenProperties
  <2>2. \A i \in 1 .. n : i \in DOMAIN collected /\ collected[i] = got[c][i]
    <3>1. n \in Nat /\ Len(served) \in Nat
      BY <1>2, <1>3
    <3>2. \A i \in 1 .. n : i \in 1 .. n + Len(served)
      BY <3>1
    <3>. QED BY <1>4, <3>2
  <2>. QED BY <2>1, <2>2 DEF Range
\* What is not collected is behind the page, if the page was full.
<1>6. ASSUME c \notin shrank, NEW i \in DOMAIN start[c]
      PROVE  \/ start[c][i] \in Range(collected)
             \/ /\ Len(served) = PageSize
                /\ \E k \in DOMAIN rows : k > Len(collected) /\ rows[k] = start[c][i]
  <2>1. CASE start[c][i] \in Range(got[c])
    BY <1>5, <2>1
  <2>2. CASE \E k \in DOMAIN rows : k > n /\ rows[k] = start[c][i]
    <3>1. PICK k \in DOMAIN rows : k > n /\ rows[k] = start[c][i]
      BY <2>2
    <3>2. CASE k > n + Len(served) /\ Len(served) = PageSize
      BY <1>4, <3>1, <3>2
    <3>3. CASE k - n \in 1 .. Len(served) /\ served[k - n] = rows[k]
      <4>1. collected[n + (k - n)] = start[c][i]
        BY <1>4, <3>1, <3>3
      <4>2. n + (k - n) \in DOMAIN collected
        <5>1. n \in Nat /\ Len(served) \in Nat
          BY <1>2, <1>3
        <5>2. \A j \in 1 .. Len(served) : n + j \in 1 .. n + Len(served)
          BY <5>1
        <5>. QED BY <1>4, <3>3, <5>2
      <4>. QED BY <4>1, <4>2 DEF Range
    <3>. QED BY <1>3, <3>1, <3>2, <3>3
  <2>. QED BY <1>1, <1>2, <1>6, <2>1, <2>2 DEF WalksHold
\* With a list at rest, a prefix of it is collected.
<1>7. ASSUME c \notin grew \cup shrank
      PROVE  /\ rows = start[c] /\ Len(collected) <= Len(rows)
             /\ collected = Prefix(rows, Len(collected))
             /\ Len(served) < PageSize => collected = rows
  <2>1. rows = start[c] /\ got[c] = Prefix(rows, n)
    BY <1>1, <1>2, <1>7 DEF WalksHold
  <2>2. n <= Len(rows) /\ \A i \in 1 .. n : got[c][i] = rows[i]
    <3>1. rows \in Seq(ShotIds) /\ n \in Nat /\ Len(rows) \in Nat /\ Len(got[c]) = n
      BY <1>2
    <3>2. /\ Len(got[c]) = IF n < Len(rows) THEN n ELSE Len(rows)
          /\ \A i \in 1 .. Len(got[c]) : got[c][i] = rows[i]
      <4>1. /\ Len(Prefix(rows, n)) = IF n < Len(rows) THEN n ELSE Len(rows)
            /\ \A i \in 1 .. Len(Prefix(rows, n)) : Prefix(rows, n)[i] = rows[i]
        BY <3>1, PrefixProperties
      <4>. QED BY <2>1, <4>1, Zenon
    <3>. QED BY <3>1, <3>2
  <2>a. n \in Nat /\ Len(served) \in Nat /\ Len(collected) = n + Len(served)
    BY <1>2, <1>3, <1>4
  <2>3. ASSUME NEW i \in 1 .. Len(collected) PROVE collected[i] = rows[i]
    <3>1. CASE i <= n
      <4>1. i \in 1 .. n
        BY <2>a, <3>1
      <4>. QED BY <1>4, <2>2, <4>1
    <3>2. CASE i > n
      <4> DEFINE j == i - n
      <4>1. j \in 1 .. Len(served) /\ n + j = i
        BY <2>a, <3>2
      <4> HIDE DEF j
      <4>2. collected[n + j] = served[j] /\ served[j] = rows[n + j]
        BY <1>3, <1>4, <2>2, <4>1
      <4>. QED BY <4>1, <4>2
    <3>3. i <= n \/ i > n
      BY <2>a
    <3>. QED BY <3>1, <3>2, <3>3
  <2>4. Len(collected) \in Nat /\ Len(collected) <= Len(rows)
    <3>1. n + Len(served) <= Len(rows)
      BY <1>3, <2>2
    <3>. QED BY <2>a, <3>1
  <2>5. /\ Prefix(rows, Len(collected)) \in Seq(ShotIds)
        /\ Len(Prefix(rows, Len(collected))) = Len(collected)
        /\ \A i \in 1 .. Len(collected) : Prefix(rows, Len(collected))[i] = rows[i]
        /\ Len(collected) >= Len(rows) => Prefix(rows, Len(collected)) = rows
    BY <1>2, <2>4, PrefixProperties
  <2>6. collected = Prefix(rows, Len(collected))
    BY <1>4, <2>3, <2>5, SeqEqual
  <2>7. Len(served) < PageSize => Len(collected) = Len(rows)
    <3>1. Len(served) < PageSize => n + Len(served) = Len(rows)
      BY <1>3, <2>2
    <3>. QED BY <2>a, <3>1
  <2>. QED BY <1>2, <2>1, <2>4, <2>5, <2>6, <2>7
<1>8. CASE LastPage(c, served, collected)
  <2>1. Len(served) < PageSize \/ Len(collected) >= MaxItems(c)
    BY <1>8 DEF LastPage
  <2>2. c \notin shrank =>
          Len(collected) >= MaxItems(c) \/ Range(start[c]) \subseteq Range(collected)
    <3>0. Len(served) \in Nat /\ PageSize \in Nat
      BY <1>2, <1>3
    <3>1. Len(served) < PageSize => Len(served) # PageSize
      BY <3>0
    <3>2. c \notin shrank /\ Len(served) < PageSize =>
            \A i \in DOMAIN start[c] : start[c][i] \in Range(collected)
      BY <1>6, <3>1
    <3>. QED BY <2>1, <3>2 DEF Range
  <2>3. MaxItems(c)' = MaxItems(c)
    BY <1>1 DEF MaxItems, LimitOf
  <2>. QED BY <1>1, <1>7, <1>8, <2>1, <2>2, <2>3 DEF Walk
<1>9. CASE ~LastPage(c, served, collected)
  <2>1. Len(served) = PageSize
    BY <1>2, <1>3, <1>9 DEF LastPage
  <2>2. Len(collected) = (page[c] + 1) * PageSize
    BY <1>2, <1>4, <2>1 DEF n
  <2>. QED BY <1>1, <1>6, <1>7, <1>9, <2>1, <2>2 DEF Walk
<1>. QED BY <1>8, <1>9

\* A snapshot that is added moves no row to an earlier place.
LEMMA AddedRowsMoveOn ==
    ASSUME TypeOK, NEW n, NEW who, Add(n, who), NEW m \in Nat, NEW j \in DOMAIN rows, j > m
    PROVE  \E k \in DOMAIN rows' : k > m /\ rows'[k] = rows[j]
<1> USE DEF TypeOK
<1>1. Len(shots) \in Nat /\ Len(rows) \in Nat /\ DOMAIN rows = 1 .. Len(rows)
  BY LenProperties
<1> DEFINE e == Len(shots) + 1
           S == Nat
<1>2. rows \in Seq(S) /\ e \in S
  BY <1>1, SeqsGrow DEF ShotIds
<1>3. PICK k \in 1 .. Len(rows) + 1 : rows' = InsertAt(rows, k, e)
  BY DEF Add
<1> HIDE DEF e, S
<1>4. /\ rows' \in Seq(S) /\ Len(rows') = Len(rows) + 1
      /\ \A i \in 1 .. k - 1 : rows'[i] = rows[i]
      /\ \A i \in k .. Len(rows) : rows'[i + 1] = rows[i]
  BY <1>2, <1>3, InsertProperties
<1>5. DOMAIN rows' = 1 .. Len(rows) + 1
  BY <1>4, LenProperties
<1>6. CASE j < k
  <2>1. j \in 1 .. k - 1 /\ j \in DOMAIN rows'
    BY <1>1, <1>5, <1>6
  <2>. QED BY <1>4, <2>1
<1>7. CASE ~(j < k)
  <2>1. j \in k .. Len(rows) /\ j + 1 \in DOMAIN rows' /\ j + 1 > m
    BY <1>1, <1>5, <1>7
  <2>. QED BY <1>4, <2>1
<1>. QED BY <1>6, <1>7

\* A snapshot that comes or goes under a walk is noted, and skips nothing unseen.
LEMMA WalkSurvivesChange ==
    ASSUME TypeOK, WalksHold, NEW c \in Calls, pc[c] # "idle" => ask'[c] = ask[c],
           pc'[c] = pc[c], got' = got, page' = page, start' = start,
           \/ /\ shrank' = shrank
              /\ \E n \in Names, who \in Calls \cup {Others} : Add(n, who)
           \/ grew' = grew /\ \E k \in DOMAIN rows : Unlist(k)
    PROVE  Walk(c)'
<1> USE DEF TypeOK
<1>1. CASE pc[c] = "pages"
  <2>1. Len(got[c]) = page[c] * PageSize
    BY <1>1 DEF WalksHold
  <2>2. CASE \E k \in DOMAIN rows : Unlist(k)
    <3>1. c \in shrank'
      BY <1>1, <2>2 DEF Unlist
    <3>. QED BY <1>1, <2>1, <3>1 DEF Walk
  <2>3. CASE /\ shrank' = shrank
             /\ \E n \in Names, who \in Calls \cup {Others} : Add(n, who)
    <3>1. PICK n \in Names, who \in Calls \cup {Others} : Add(n, who)
      BY <2>3
    <3>2. c \in grew'
      BY <1>1, <3>1 DEF Add
    <3>3. ASSUME c \notin shrank, NEW i \in DOMAIN start[c]
          PROVE  \/ start[c][i] \in Range(got[c])
                 \/ \E k \in DOMAIN rows' : k > Len(got[c]) /\ rows'[k] = start[c][i]
      <4>1. Len(got[c]) \in Nat
        BY LenProperties
      <4>2. \/ start[c][i] \in Range(got[c])
            \/ \E k \in DOMAIN rows : k > Len(got[c]) /\ rows[k] = start[c][i]
        BY <1>1, <3>3 DEF WalksHold
      <4>3. ASSUME NEW k \in DOMAIN rows, k > Len(got[c]), rows[k] = start[c][i]
            PROVE  \E x \in DOMAIN rows' : x > Len(got[c]) /\ rows'[x] = start[c][i]
        BY <3>1, <4>1, <4>3, AddedRowsMoveOn
      <4>. QED BY <4>2, <4>3
    <3>. QED BY <1>1, <2>1, <2>3, <3>2, <3>3 DEF Walk
  <2>. QED BY <2>2, <2>3
<1>2. CASE pc[c] # "pages"
  <2>1. c \in grew' <=> c \in grew
    BY <1>2 DEF Add
  <2>2. c \in shrank' <=> c \in shrank
    BY <1>2 DEF Unlist
  <2>3. pc[c] = "paged" => MaxItems(c)' = MaxItems(c)
    BY DEF MaxItems, LimitOf
  <2>. QED BY <1>2, <2>1, <2>2, <2>3 DEF Walk, WalksHold
<1>. QED BY <1>1, <1>2

\* A step that leaves the rows and the paging of c alone.
LEMMA WalkRests ==
    ASSUME TypeOK, WalksHold, NEW c \in Calls, pc[c] # "idle" => ask'[c] = ask[c],
           rows' = rows, got'[c] = got[c], page'[c] = page[c],
           c \in grew' <=> c \in grew, c \in shrank' <=> c \in shrank,
           \/ pc'[c] = pc[c] /\ start'[c] = start[c]
           \/ pc[c] \notin {"pages", "paged"} /\ pc'[c] \notin {"pages", "paged"}
    PROVE  Walk(c)'
<1>1. pc[c] = "paged" => MaxItems(c)' = MaxItems(c)
  BY DEF MaxItems, LimitOf
<1>. QED BY <1>1 DEF Walk, WalksHold

\* The end of paging leaves nothing behind.
LEMMA WalkEnds ==
    ASSUME TypeOK, NEW c \in Calls, EndPaging(c), pc'[c] \notin {"pages", "paged"}
    PROVE  Walk(c)'
  BY DEF TypeOK, EndPaging, Walk

\* Every step keeps WalksHold.
LEMMA WalksStep ==
    ASSUME TypeOK, WalksHold, [Next]_tasksVars
    PROVE  WalksHold'
<1> USE DEF TypeOK
<1> SUFFICES ASSUME NEW c \in Calls PROVE Walk(c)'
  BY DEF WalksHold, Walk
<1>a. pc[c] # "idle" => ask'[c] = ask[c]
  BY RequestsStay
<1>1. ASSUME NEW a \in Asks, Invoke(c, a) PROVE Walk(c)'
  <2>1. CASE a.op = "list"
    BY <1>1, <2>1, WalkStarts DEF Invoke, FirstStep
  <2>2. CASE a.op # "list"
    <3>1. pc[c] = "idle" /\ pc'[c] \notin {"pages", "paged"}
      BY <1>1, <2>2 DEF Invoke, FirstStep
    <3>. QED BY <1>1, <1>a, <2>2, <3>1, WalkRests DEF Invoke
  <2>. QED BY <2>1, <2>2
<1>2. ASSUME Post(c) PROVE Walk(c)'
  <2>1. CASE ask[c].op = "snapshot"
    BY <1>2, <2>1, WalkStarts DEF Post
  <2>2. CASE ask[c].op # "snapshot"
    BY <1>2, <1>a, <2>2, WalkRests DEF Post
  <2>. QED BY <2>1, <2>2
<1>3. ASSUME NextPage(c) PROVE Walk(c)'
  BY <1>3, WalkAdvances
<1>4. ASSUME PageFails(c) \/ Envelope(c) \/ CallFails(c) PROVE Walk(c)'
  BY <1>4, WalkEnds DEF PageFails, Envelope, CallFails
<1>5. ASSUME RequirePassedPrecheck(c) PROVE Walk(c)'
  <2>1. pc[c] = "verify" /\ pc'[c] \notin {"pages", "paged"}
    BY <1>5 DEF RequirePassedPrecheck, AfterPrecheck
  <2>. QED BY <1>5, <1>a, <2>1, WalkRests DEF RequirePassedPrecheck
<1>6. ASSUME Delete(c) PROVE Walk(c)'
  <2>1. pc[c] = "delete" /\ pc'[c] = "done" /\ got' = got /\ page' = page /\ grew' = grew
    BY <1>6 DEF Delete
  <2>2. c \in shrank' <=> c \in shrank
    BY <1>6, <2>1 DEF Delete, Unlist
  <2>. QED BY <2>1, <2>2 DEF Walk, WalksHold
<1>7. ASSUME NEW d \in Calls, c # d, CallStep(d) PROVE Walk(c)'
  <2>1. CASE Delete(d)
    BY <1>7, <1>a, <2>1, WalkSurvivesChange DEF Delete
  <2>2. CASE \/ \E a \in Asks : Invoke(d, a)
             \/ Post(d) \/ NextPage(d) \/ RequirePassedPrecheck(d)
    <3>1. /\ pc'[c] = pc[c] /\ rows' = rows /\ got'[c] = got[c] /\ page'[c] = page[c]
          /\ start'[c] = start[c] /\ grew' = grew /\ shrank' = shrank
      BY <1>7, <2>2 DEF Invoke, Post, NextPage, RequirePassedPrecheck, StartPaging
    <3>. QED BY <1>a, <3>1, WalkRests
  <2>3. CASE PageFails(d) \/ Envelope(d) \/ CallFails(d)
    <3>1. /\ pc'[c] = pc[c] /\ rows' = rows /\ got'[c] = got[c] /\ page'[c] = page[c]
          /\ start'[c] = start[c] /\ (c \in grew' <=> c \in grew)
          /\ (c \in shrank' <=> c \in shrank)
      BY <1>7, <2>3 DEF PageFails, Envelope, CallFails, EndPaging
    <3>. QED BY <1>a, <3>1, WalkRests
  <2>. QED BY <1>7, <2>1, <2>2, <2>3 DEF CallStep
<1>8. ASSUME NEW d \in Calls, TaskSucceeds(d) PROVE Walk(c)'
  <2>1. CASE ask[d].op = "snapshot"
    <3>1. ask[d].name \in Names
      BY <2>1 DEF Asks
    <3>. QED BY <1>8, <1>a, <2>1, <3>1, WalkSurvivesChange DEF TaskSucceeds
  <2>2. CASE ask[d].op # "snapshot"
    BY <1>8, <1>a, <2>2, WalkRests DEF TaskSucceeds
  <2>. QED BY <2>1, <2>2
<1>9. ASSUME NEW d \in Calls, TaskFails(d) \/ PurgeTask(d) PROVE Walk(c)'
  BY <1>9, <1>a, WalkRests DEF TaskFails, PurgeTask
<1>10. ASSUME OthersAdd \/ OthersDelete PROVE Walk(c)'
  BY <1>10, <1>a, WalkSurvivesChange DEF OthersAdd, OthersDelete
<1>11. CASE UNCHANGED tasksVars
  BY <1>11, <1>a, WalkRests DEF tasksVars
<1>12. ASSUME NEW d \in Calls, CallStep(d) PROVE Walk(c)'
  <2>1. CASE c = d
    BY <1>1, <1>2, <1>3, <1>4, <1>5, <1>6, <1>12, <2>1 DEF CallStep
  <2>. QED BY <1>7, <1>12, <2>1
<1>. QED BY <1>8, <1>9, <1>10, <1>11, <1>12 DEF Next, PrismStep

-----------------------------------------------------------------------------
(* The invariant, and what follows from it.                                *)

\* The initial states satisfy the invariant.
LEMMA InitHolds == Init => TasksInv
<1> SUFFICES ASSUME Init PROVE TasksInv
  OBVIOUS
<1>1. PICK n \in 0 .. MaxShots :
        /\ shots \in [1 .. n -> [name : Names, maker : {Others}, remover : {Nobody}]]
        /\ rows = [i \in 1 .. n |-> i]
  BY DEF Init
<1>2. n \in Nat
  BY TasksAssumption
<1>3. shots \in [1 .. n -> Shots] /\ \A i \in 1 .. n : shots[i].remover = Nobody
  BY <1>1 DEF Shots
<1>4. shots \in Seq(Shots) /\ ShotIds = 1 .. n
  BY <1>2, <1>3, FunctionsAreSeqs DEF ShotIds
<1>5. rows \in Seq(ShotIds)
  <2>1. rows \in [1 .. n -> ShotIds]
    BY <1>1, <1>4
  <2>. QED BY <1>2, <2>1, FunctionsAreSeqs
<1>6. TypeOK
  <2>1. <<>> \in Seq(ShotIds)
    OBVIOUS
  <2>2. got \in [Calls -> Seq(ShotIds)] /\ start \in [Calls -> Seq(ShotIds)]
    BY <2>1 DEF Init
  <2>3. ask \in [Calls -> Asks]
    BY DEF Init, Asks
  <2>4. drift \in 0 .. MaxDrift
    BY TasksAssumption DEF Init
  <2>5. /\ task \in [Calls -> Statuses] /\ verdict \in [Calls -> Verdicts]
        /\ page \in [Calls -> Nat] /\ token \in [Calls -> ShotIds \cup {NoShot}]
        /\ pc \in [Calls -> {"idle", "pages", "paged", "post", "verify", "delete",
                              "done", "failed"}]
    BY DEF Init, Statuses, Verdicts
  <2>6. purged \subseteq Calls /\ grew \subseteq Calls /\ shrank \subseteq Calls
        /\ promised \subseteq Calls
    BY DEF Init
  <2>. QED BY <1>4, <1>5, <2>2, <2>3, <2>4, <2>5, <2>6 DEF TypeOK
<1>7. CallsInOrder
  BY DEF Init, CallsInOrder
<1>8. GuardsHold
  BY DEF Init, GuardsHold
<1>9. UndosHold
  <2>1. \A i \in ShotIds : shots[i].remover = Nobody
    BY <1>3, <1>4
  <2>2. Nobody \notin Calls
    BY TasksAssumption
  <2>. QED BY <2>1, <2>2 DEF UndosHold
<1>10. WalksHold
  BY DEF Init, WalksHold
<1>. QED BY <1>6, <1>7, <1>8, <1>9, <1>10 DEF TasksInv

\* The invariant holds in every state, whatever the sizes of pages, limits and lists
\* and however many calls, tasks and other clients interleave.
THEOREM TasksInvariant == Spec => []TasksInv
<1>1. Init => TasksInv
  BY InitHolds
<1>2. TasksInv /\ [Next]_tasksVars => TasksInv'
  BY TypeStep, CallsStep, GuardsStep, UndosStep, WalksStep DEF TasksInv
<1>. QED BY <1>1, <1>2, PTL DEF Spec

\* A limit that a call was given is clamped to at least one.
LEMMA LimitsArePositive ==
    ASSUME TypeOK, NEW c \in Calls
    PROVE  LimitOf(c) \in Nat /\ LimitOf(c) > 0
<1>1. (IF ask[c].op = "list" THEN ask[c].limit ELSE DefaultLimit) \in Nat
  <2>1. ask[c] \in Asks
    BY DEF TypeOK
  <2>2. ask[c].op = "list" => ask[c].limit \in Limits
    BY <2>1 DEF Asks
  <2>. QED BY <2>2, TasksAssumption
<1>2. \A n \in Nat : Clamp(n) \in Nat /\ Clamp(n) > 0
  BY TasksAssumption DEF Clamp
<1>. QED BY <1>1, <1>2 DEF LimitOf

\* What a call returns of a list that was paged, by the number of rows collected.
LEMMA WhatIsListed ==
    ASSUME TypeOK, NEW c \in Calls
    PROVE  /\ Truncated(c) <=> Len(got[c]) > LimitOf(c)
           /\ Listed(c) \in Seq(ShotIds)
           /\ Len(Listed(c)) = IF LimitOf(c) < Len(got[c]) THEN LimitOf(c) ELSE Len(got[c])
           /\ \A i \in 1 .. Len(Listed(c)) : Listed(c)[i] = got[c][i]
           /\ ~Truncated(c) => Listed(c) = got[c]
<1> DEFINE l == LimitOf(c)
           g == got[c]
<1>1. l \in Nat /\ g \in Seq(ShotIds) /\ Len(g) \in Nat
  BY LimitsArePositive, LenProperties DEF TypeOK
<1>2. l + 1 \in Nat
  BY <1>1
<1>3. Listed(c) = Prefix(g, l) /\ (Truncated(c) <=> Len(Prefix(g, l + 1)) > l)
  BY DEF Listed, Truncated, MaxItems
<1> HIDE DEF l, g
<1>4. /\ Prefix(g, l) \in Seq(ShotIds)
      /\ Len(Prefix(g, l)) = IF l < Len(g) THEN l ELSE Len(g)
      /\ \A i \in 1 .. Len(Prefix(g, l)) : Prefix(g, l)[i] = g[i]
      /\ l >= Len(g) => Prefix(g, l) = g
  BY <1>1, PrefixProperties
<1>5. Len(Prefix(g, l + 1)) = IF l + 1 < Len(g) THEN l + 1 ELSE Len(g)
  BY <1>1, <1>2, PrefixProperties
<1>6. Len(Prefix(g, l + 1)) > l <=> Len(g) > l
  BY <1>1, <1>5
<1>7. ~(Len(g) > l) => l >= Len(g)
  BY <1>1
<1>. QED BY <1>3, <1>4, <1>6, <1>7 DEF l, g

\* A list paged over a list at rest is exact, for any page size and limit.
THEOREM QuietListsExact == Spec => []QuietListsAreExact
<1>1. TasksInv => QuietListsAreExact
  <2> SUFFICES ASSUME TasksInv, NEW c \in Calls, pc[c] = "paged", c \notin grew \cup shrank
               PROVE  /\ Listed(c) = Prefix(start[c], LimitOf(c))
                      /\ Truncated(c) <=> Len(start[c]) > LimitOf(c)
    BY DEF QuietListsAreExact
  <2> DEFINE l == LimitOf(c)
             g == got[c]
             s == start[c]
             r == Listed(c)
  <2>0. TypeOK
    BY DEF TasksInv
  <2>1. /\ l \in Nat /\ g \in Seq(ShotIds) /\ s \in Seq(ShotIds)
        /\ Len(g) \in Nat /\ Len(s) \in Nat
    BY <2>0, LimitsArePositive, LenProperties DEF TypeOK
  <2>2. g = Prefix(s, Len(g)) /\ (Len(g) >= l + 1 \/ g = s)
    BY DEF TasksInv, WalksHold, MaxItems
  <2>3. /\ Truncated(c) <=> Len(g) > l
        /\ r \in Seq(ShotIds)
        /\ Len(r) = IF l < Len(g) THEN l ELSE Len(g)
        /\ \A i \in 1 .. Len(r) : r[i] = g[i]
    BY <2>0, WhatIsListed
  <2> HIDE DEF l, g, s, r
  <2>4. /\ Len(Prefix(s, Len(g))) = IF Len(g) < Len(s) THEN Len(g) ELSE Len(s)
        /\ \A i \in 1 .. Len(Prefix(s, Len(g))) : Prefix(s, Len(g))[i] = s[i]
    BY <2>1, PrefixProperties
  <2>5. Len(g) = (IF Len(g) < Len(s) THEN Len(g) ELSE Len(s)) /\ \A i \in 1 .. Len(g) : g[i] = s[i]
    BY <2>2, <2>4, Zenon
  <2>6. /\ Prefix(s, l) \in Seq(ShotIds)
        /\ Len(Prefix(s, l)) = IF l < Len(s) THEN l ELSE Len(s)
        /\ \A i \in 1 .. Len(Prefix(s, l)) : Prefix(s, l)[i] = s[i]
    BY <2>1, PrefixProperties
  <2>7. Len(g) <= Len(s) /\ (Len(g) > l \/ Len(g) = Len(s))
    BY <2>1, <2>2, <2>5
  <2>8. Len(r) = Len(Prefix(s, l)) /\ Len(r) \in Nat /\ Len(r) <= Len(g)
    BY <2>1, <2>3, <2>6, <2>7
  <2>9. \A i \in 1 .. Len(r) : r[i] = Prefix(s, l)[i]
    <3>1. \A i \in 1 .. Len(r) : i \in 1 .. Len(g)
      BY <2>1, <2>8
    <3>. QED BY <2>3, <2>5, <2>6, <2>8, <3>1
  <2>10. r = Prefix(s, l)
    BY <2>3, <2>6, <2>8, <2>9, SeqEqual
  <2>11. Len(g) > l <=> Len(s) > l
    BY <2>1, <2>7
  <2>. QED BY <2>3, <2>10, <2>11 DEF l, g, s, r
<1>. QED BY <1>1, TasksInvariant, PTL

\* A list that does not say truncated skips nothing unless something was deleted under
\* it, for any page size and limit and any number of snapshots added meanwhile.
THEOREM ListsSkipNothing == Spec => []NothingSkipped
<1>1. TasksInv => NothingSkipped
  <2> SUFFICES ASSUME TasksInv, NEW c \in Calls, pc[c] = "paged", ~Truncated(c), c \notin shrank
               PROVE  Range(start[c]) \subseteq Range(Listed(c))
    BY DEF NothingSkipped
  <2>1. TypeOK
    BY DEF TasksInv
  <2>2. Listed(c) = got[c] /\ ~(Len(got[c]) > LimitOf(c))
    BY <2>1, WhatIsListed
  <2>3. Len(got[c]) >= LimitOf(c) + 1 \/ Range(start[c]) \subseteq Range(got[c])
    BY DEF TasksInv, WalksHold, MaxItems
  <2>4. Len(got[c]) \in Nat /\ LimitOf(c) \in Nat
    BY <2>1, LimitsArePositive, LenProperties DEF TypeOK
  <2>5. ~(Len(got[c]) >= LimitOf(c) + 1)
    BY <2>2, <2>4
  <2>. QED BY <2>2, <2>3, <2>5
<1>. QED BY <1>1, TasksInvariant, PTL

\* The undo of a snapshot deletes a snapshot of its name, in any interleaving.
THEOREM UndoKeepsName == Spec => []UndoKeepsToItsName
<1>1. TasksInv => UndoKeepsToItsName
  BY DEF TasksInv, UndosHold, UndoKeepsToItsName
<1>. QED BY <1>1, TasksInvariant, PTL

\* An update that reached Prism followed a succeeded task, or one without a status.
THEOREM UpdatesAfterSuccess == Spec => []UpdatesFollowSuccess
<1>1. TasksInv => UpdatesFollowSuccess
  BY DEF TasksInv, GuardsHold, UpdatesFollowSuccess
<1>. QED BY <1>1, TasksInvariant, PTL

\* What a preview verified is refused only when Prism no longer keeps the task.
THEOREM PromisesKept == Spec => []PreviewsKeepTheirPromise
<1>1. TasksInv => PreviewsKeepTheirPromise
  BY DEF TasksInv, TypeOK, GuardsHold, PreviewsKeepTheirPromise
<1>. QED BY <1>1, TasksInvariant, PTL
=============================================================================
