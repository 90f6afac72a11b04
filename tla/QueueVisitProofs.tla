--------------------------- MODULE QueueVisitProofs ---------------------------
(***************************************************************************)
(* Theorems about QueueVisit, for every queue, page size, batch size, cap  *)
(* and timeout.                                                            *)
(***************************************************************************)
EXTENDS QueueVisit, ModelCallsProofs, BatchingProofs, SequenceTheorems

-----------------------------------------------------------------------------
(* Sequences: the smaller of two numbers, an entry more, an entry less, and*)
(* the entries that are in a set.                                          *)
LEMMA SmallerOfTwo ==
    ASSUME NEW m \in Int, NEW n \in Int
    PROVE  Min({m, n}) = IF m <= n THEN m ELSE n
<1>1. \E x \in {m, n} : \A y \in {m, n} : x <= y
  OBVIOUS
<1> QED
  BY <1>1 DEF Min

LEMMA Entries ==
    ASSUME NEW S, NEW T, NEW s \in Seq(S), \A i \in 1..Len(s) : s[i] \in T
    PROVE  s \in Seq(T)
<1>1. Len(s) \in Nat /\ s \in [1..Len(s) -> S]
  BY LenProperties
<1>2. s \in [1..Len(s) -> T]
  BY <1>1
<1> QED
  BY <1>1, <1>2, IsASeq

Inserts(t, s, n, e) ==
    /\ Len(t) = Len(s) + 1
    /\ \A i \in 1..Len(s) + 1 : t[i] = IF i < n THEN s[i] ELSE IF i = n THEN e ELSE s[i - 1]

LEMMA TableIsList ==
    ASSUME NEW S, NEW n \in Nat, NEW f \in [1..n -> S]
    PROVE  f \in Seq(S) /\ Len(f) = n
<1>1. f \in Seq(S)
  BY IsASeq
<1>2. Len(f) \in Nat /\ 1..Len(f) = 1..n
  BY <1>1, LenProperties
<1> QED
  BY <1>1, <1>2

LEMMA Inserted ==
    ASSUME NEW S, NEW s \in Seq(S), NEW n \in 1..Len(s) + 1, NEW e \in S
    PROVE  InsertAt(s, n, e) \in Seq(S) /\ Inserts(InsertAt(s, n, e), s, n, e)
<1> DEFINE before == SubSeq(s, 1, n - 1)
           after == SubSeq(s, n, Len(s))
<1>1. /\ before \in Seq(S) /\ Len(before) = n - 1
      /\ \A i \in 1..n - 1 : before[i] = s[i]
  OBVIOUS
<1>2. /\ after \in Seq(S) /\ Len(after) = Len(s) + 1 - n
      /\ \A i \in 1..Len(s) + 1 - n : after[i] = s[n + i - 1]
  OBVIOUS
<1>3. InsertAt(s, n, e) = before \o <<e>> \o after
  BY DEF InsertAt
<1> HIDE DEF before, after
<1> DEFINE front == before \o <<e>>
<1>4. /\ front \in Seq(S) /\ Len(front) = n
      /\ \A i \in 1..n : front[i] = IF i < n THEN s[i] ELSE e
  BY <1>1
<1>5. InsertAt(s, n, e) = front \o after
  BY <1>3
<1> HIDE DEF front
<1>6. Len(front \o after) = Len(s) + 1 /\ front \o after \in Seq(S)
  BY <1>2, <1>4
<1>7. ASSUME NEW i \in 1..Len(s) + 1
      PROVE  (front \o after)[i] = IF i < n THEN s[i] ELSE IF i = n THEN e ELSE s[i - 1]
  <2>1. (front \o after)[i] = IF i <= n THEN front[i] ELSE after[i - n]
    BY <1>2, <1>4, ConcatProperties
  <2>2. CASE i <= n
    BY <1>4, <2>1, <2>2
  <2>3. CASE ~(i <= n)
    <3>1. i - n \in 1..Len(s) + 1 - n /\ n + (i - n) - 1 = i - 1
      BY <2>3
    <3>2. after[i - n] = s[n + (i - n) - 1]
      BY <1>2, <3>1
    <3> QED
      BY <2>1, <2>3, <3>1, <3>2
  <2> QED
    BY <2>2, <2>3
<1> QED
  BY <1>5, <1>6, <1>7 DEF Inserts

LEMMA Removed ==
    ASSUME NEW S, NEW s \in Seq(S), NEW n \in 1..Len(s)
    PROVE  /\ RemoveAt(s, n) \in Seq(S)
           /\ Len(RemoveAt(s, n)) = Len(s) - 1
           /\ \A i \in 1..Len(s) - 1 : RemoveAt(s, n)[i] = IF i < n THEN s[i] ELSE s[i + 1]
<1> DEFINE before == SubSeq(s, 1, n - 1)
           after == SubSeq(s, n + 1, Len(s))
<1>1. /\ before \in Seq(S) /\ Len(before) = n - 1
      /\ \A i \in 1..n - 1 : before[i] = s[i]
  OBVIOUS
<1>2. /\ after \in Seq(S) /\ Len(after) = Len(s) - n
      /\ \A i \in 1..Len(s) - n : after[i] = s[n + i]
  OBVIOUS
<1>3. RemoveAt(s, n) = before \o after
  BY DEF RemoveAt
<1> HIDE DEF before, after
<1>4. /\ before \o after \in Seq(S) /\ Len(before \o after) = Len(before) + Len(after)
      /\ \A i \in 1..Len(before) + Len(after) :
            (before \o after)[i] = IF i <= Len(before) THEN before[i] ELSE after[i - Len(before)]
  BY <1>1, <1>2, ConcatProperties
<1>5. n \in Nat /\ Len(s) \in Nat /\ Len(before) + Len(after) = Len(s) - 1
  BY <1>1, <1>2
<1>6. ASSUME NEW i \in 1..Len(s) - 1
      PROVE  (before \o after)[i] = IF i < n THEN s[i] ELSE s[i + 1]
  <2>1. CASE i < n
    BY <1>1, <1>4, <1>5, <2>1
  <2>2. CASE ~(i < n)
    <3>1. i - (n - 1) \in 1..Len(s) - n /\ n + (i - (n - 1)) = i + 1
      BY <1>5, <2>2
    <3>2. (before \o after)[i] = after[i - (n - 1)]
      BY <1>1, <1>4, <1>5, <2>2
    <3> QED
      BY <1>2, <2>2, <3>1, <3>2
  <2> QED
    BY <2>1, <2>2
<1> QED
  BY <1>3, <1>4, <1>5, <1>6

LEMMA AmongProperties ==
    ASSUME NEW S, NEW list \in Seq(S), NEW T
    PROVE  /\ Among(list, T) \in Seq(S)
           /\ Range(Among(list, T)) = Range(list) \cap T
           /\ IsInjective(list) => IsInjective(Among(list, T))
<1> DEFINE places == {i \in DOMAIN list : list[i] \in T}
           N == Cardinality(places)
           sub == Among(list, T)
<1>1. DOMAIN list = 1..Len(list) /\ Len(list) \in Nat
  OBVIOUS
<1>2. places \in SUBSET Nat /\ IsFiniteSet(places)
  <2>1. IsFiniteSet(1..Len(list))
    BY <1>1, FS_Interval
  <2> QED
    BY <1>1, <2>1, FS_Subset
<1>3. /\ N \in Nat
      /\ \A n \in 1..N : Nth(places, n) \in places
      /\ \A m, n \in 1..N : Nth(places, m) = Nth(places, n) => m = n
      /\ \A i \in places : \E n \in 1..N : Nth(places, n) = i
  BY <1>2, NthEnumerates
<1>4. sub = [n \in 1..N |-> list[Nth(places, n)]]
  BY DEF Among
<1>5. \A i \in places : i \in DOMAIN list /\ list[i] \in T /\ list[i] \in S
  BY <1>1, ElementOfSeq
<1>6. \A i \in DOMAIN list : list[i] \in T => i \in places
  OBVIOUS
<1> HIDE DEF places, N, sub
<1>7. sub \in [1..N -> S] /\ DOMAIN sub = 1..N
  BY <1>3, <1>4, <1>5
<1>8. sub \in Seq(S)
  BY <1>3, <1>7, IsASeq
<1>9. Range(sub) = Range(list) \cap T
  <2>1. \A x \in Range(sub) : x \in Range(list) \cap T
    BY <1>3, <1>4, <1>5, <1>7 DEF Range
  <2>2. ASSUME NEW x \in Range(list) \cap T PROVE x \in Range(sub)
    <3>1. PICK i \in DOMAIN list : x = list[i]
      BY DEF Range
    <3>2. PICK n \in 1..N : Nth(places, n) = i
      BY <1>3, <1>6, <3>1
    <3> QED
      BY <1>4, <1>7, <3>1, <3>2 DEF Range
  <2> QED
    BY <2>1, <2>2
<1>10. ASSUME IsInjective(list) PROVE IsInjective(sub)
  BY <1>3, <1>4, <1>5, <1>7, <1>10 DEF IsInjective
<1> QED
  BY <1>8, <1>9, <1>10 DEF sub

-----------------------------------------------------------------------------
(* The fetch.  Of a queue that lost no record the first Listed positions   *)
(* have been read, and what stayed is in the list when its position has    *)
(* been passed; of one that got no record nothing that was listed comes    *)
(* again.                                                                  *)
Listed == (page - 1) * PageSize

PagesType ==
    /\ fetch \in {"paging", "done", "failed"} /\ page \in Nat \ {0}
    /\ live \in Seq(Records) /\ all \in Seq(Records)
    /\ stayed \subseteq Records
    /\ shrunk \in BOOLEAN /\ grown \in BOOLEAN /\ cut \in BOOLEAN

Passed(q, k, T, l) == \A n \in 1..k : q[n] \in T => q[n] \in Range(l)

PagesInv ==
    /\ PagesType
    /\ IsInjective(live)
    /\ fetch = "paging" => ~cut
    /\ fetch = "paging" /\ ~shrunk =>
         /\ Len(all) = Listed /\ Listed <= Len(live)
         /\ stayed \subseteq Range(live)
         /\ Passed(live, Listed, stayed, all)
         /\ ~grown => \A n \in 1..Listed : all[n] = live[n]
    /\ fetch = "paging" /\ ~grown =>
         \A n \in 1..Len(live) : n > Listed => live[n] \notin Range(all)
    /\ ~grown => IsInjective(all)
    /\ fetch = "done" /\ ~cut /\ ~shrunk => stayed \subseteq Range(all)
    /\ SteadyComplete

LEMMA PagesStart == PagesInit => PagesInv
<1> SUFFICES ASSUME PagesInit PROVE PagesInv
  OBVIOUS
<1>1. Cardinality(Records) \in Nat
  BY PagesAssumption, FS_CardinalityType
<1>2. live \in Seq(Records) /\ IsInjective(live)
  BY <1>1, SeqDef DEF PagesInit, SeqOf
<1>3. Range(live) \subseteq Records
  BY <1>2, RangeOfSeq
<1>4. /\ fetch = "paging" /\ page = 1 /\ all = <<>> /\ stayed = Range(live)
      /\ shrunk = FALSE /\ grown = FALSE /\ cut = FALSE
  BY DEF PagesInit
<1>5. PagesType
  <2>1. all \in Seq(Records) /\ stayed \subseteq Records
    BY <1>3, <1>4, EmptySeq
  <2>2. page \in Nat \ {0} /\ fetch \in {"paging", "done", "failed"}
    BY <1>4
  <2>3. shrunk \in BOOLEAN /\ grown \in BOOLEAN /\ cut \in BOOLEAN
    BY <1>4
  <2> QED
    BY <1>2, <2>1, <2>2, <2>3 DEF PagesType
<1>6. Listed = 0 /\ Len(live) \in Nat /\ Len(all) = 0
  <2>1. Len(live) \in Nat
    BY <1>2, LenProperties
  <2>2. (1 - 1) * PageSize = 0
    BY PagesAssumption
  <2> QED
    BY <1>4, <2>1, <2>2, EmptySeq DEF Listed
<1>7. IsInjective(all) /\ Range(all) = {}
  BY <1>4 DEF IsInjective, Range
<1> QED
  BY <1>2, <1>4, <1>5, <1>6, <1>7 DEF PagesInv, Passed, SteadyComplete

(* A page holds the positions after those that were read.                  *)
LEMMA PageProperties ==
    ASSUME PagesType
    PROVE  /\ Listed \in Nat /\ page * PageSize = Listed + PageSize
           /\ OnPage \in Seq(Records)
           /\ Len(OnPage) = IF Listed + PageSize <= Len(live) THEN PageSize
                            ELSE IF Listed <= Len(live) THEN Len(live) - Listed ELSE 0
           /\ \A i \in 1..Len(OnPage) : /\ Listed + i \in 1..Len(live)
                                         /\ OnPage[i] = live[Listed + i]
<1>1. page \in Nat \ {0} /\ PageSize \in Nat \ {0} /\ live \in Seq(Records) /\ Len(live) \in Nat
  BY PagesAssumption DEF PagesType
<1>2. page - 1 \in Nat /\ Listed \in Nat /\ page * PageSize = Listed + PageSize
  BY <1>1 DEF Listed
<1> DEFINE last == IF Listed + PageSize <= Len(live) THEN Listed + PageSize ELSE Len(live)
<1>3. last = Min({page * PageSize, Len(live)})
  BY <1>1, <1>2, SmallerOfTwo
<1>4. OnPage = SubSeq(live, Listed + 1, last)
  BY <1>2, <1>3 DEF OnPage, FirstOnPage, Listed
<1>5. last \in Nat /\ last <= Len(live)
  BY <1>1, <1>2
<1>6. \A i \in Listed + 1..last : live[i] \in Records
  BY <1>1, <1>2, <1>5, ElementOfSeq
<1>7. /\ OnPage \in Seq(Records)
      /\ Len(OnPage) = IF Listed + 1 <= last THEN last - Listed ELSE 0
      /\ \A i \in 1..last - Listed : OnPage[i] = live[Listed + i]
  <2> HIDE DEF last
  <2>1. Listed + 1 \in Int /\ last \in Int
    BY <1>2, <1>5
  <2>2. /\ OnPage \in Seq(Records)
        /\ Len(OnPage) = IF Listed + 1 <= last THEN last - (Listed + 1) + 1 ELSE 0
        /\ \A i \in 1..last - (Listed + 1) + 1 : OnPage[i] = live[Listed + 1 + i - 1]
    BY <1>4, <1>6, <2>1, SubSeqProperties
  <2> QED
    BY <1>2, <1>5, <2>2
<1> QED
  BY <1>1, <1>2, <1>5, <1>7

(* The positions of a list with an entry more, and with an entry less,     *)
(* still hold different entries.                                           *)
LEMMA InsertedInjective ==
    ASSUME NEW S, NEW s \in Seq(S), NEW n \in 1..Len(s) + 1, NEW e \in S,
           IsInjective(s), e \notin Range(s)
    PROVE  IsInjective(InsertAt(s, n, e))
<1> DEFINE t == InsertAt(s, n, e)
           At(i) == IF i < n THEN i ELSE i - 1
<1>1. /\ DOMAIN s = 1..Len(s) /\ Len(s) \in Nat
      /\ DOMAIN t = 1..Len(s) + 1
      /\ \A i \in 1..Len(s) + 1 : t[i] = IF i < n THEN s[i] ELSE IF i = n THEN e ELSE s[i - 1]
  <2>1. t \in Seq(S) /\ Inserts(t, s, n, e)
    BY Inserted
  <2>2. /\ DOMAIN s = 1..Len(s) /\ Len(s) \in Nat
        /\ DOMAIN t = 1..Len(t)
    BY <2>1, LenProperties
  <2> QED
    BY <2>1, <2>2 DEF Inserts
<1>2. \A i \in 1..Len(s) + 1 : i # n => At(i) \in 1..Len(s) /\ t[i] = s[At(i)]
  BY <1>1
<1>3. \A i \in 1..Len(s) : s[i] # e
  BY <1>1 DEF Range
<1>4. t[n] = e
  BY <1>1
<1> HIDE DEF t
<1> SUFFICES ASSUME NEW i \in 1..Len(s) + 1, NEW j \in 1..Len(s) + 1, t[i] = t[j], i # j
             PROVE  FALSE
  BY <1>1 DEF IsInjective, t
<1>5. i # n /\ j # n
  BY <1>2, <1>3, <1>4
<1>6. At(i) = At(j)
  BY <1>1, <1>2, <1>5 DEF IsInjective
<1> QED
  BY <1>1, <1>5, <1>6

LEMMA RemovedInjective ==
    ASSUME NEW S, NEW s \in Seq(S), NEW n \in 1..Len(s), IsInjective(s)
    PROVE  IsInjective(RemoveAt(s, n))
<1> DEFINE t == RemoveAt(s, n)
           At(i) == IF i < n THEN i ELSE i + 1
<1>1. /\ DOMAIN s = 1..Len(s) /\ Len(s) \in Nat
      /\ DOMAIN t = 1..Len(s) - 1
      /\ \A i \in 1..Len(s) - 1 : t[i] = IF i < n THEN s[i] ELSE s[i + 1]
  BY Removed, LenProperties
<1>2. \A i \in 1..Len(s) - 1 : At(i) \in 1..Len(s) /\ t[i] = s[At(i)]
  BY <1>1
<1> HIDE DEF t
<1> SUFFICES ASSUME NEW i \in 1..Len(s) - 1, NEW j \in 1..Len(s) - 1, t[i] = t[j], i # j
             PROVE  FALSE
  BY <1>1 DEF IsInjective, t
<1>3. At(i) = At(j)
  BY <1>1, <1>2 DEF IsInjective
<1> QED
  BY <1>1, <1>3

LEMMA ArrivesKeepsPages == ASSUME PagesInv, RecordArrives PROVE PagesInv'
<1>1. PICK r \in Records \ Range(live), n \in 1..Len(live) + 1 : live' = InsertAt(live, n, r)
  BY DEF RecordArrives
<1>2. /\ fetch = "paging" /\ grown' = TRUE
      /\ UNCHANGED <<fetch, page, all, stayed, shrunk, cut>>
  BY DEF RecordArrives
<1>3. live \in Seq(Records) /\ IsInjective(live) /\ DOMAIN live = 1..Len(live) /\ Len(live) \in Nat
  BY LenProperties DEF PagesInv, PagesType
<1>4. /\ live' \in Seq(Records) /\ Len(live') = Len(live) + 1
      /\ DOMAIN live' = 1..Len(live) + 1
      /\ \A i \in 1..Len(live) + 1 :
           live'[i] = IF i < n THEN live[i] ELSE IF i = n THEN r ELSE live[i - 1]
  <2>1. /\ live' \in Seq(Records) /\ Len(live') = Len(live) + 1
        /\ \A i \in 1..Len(live) + 1 :
             live'[i] = IF i < n THEN live[i] ELSE IF i = n THEN r ELSE live[i - 1]
    <3>1. r \in Records
      BY <1>1
    <3>2. InsertAt(live, n, r) \in Seq(Records) /\ Inserts(InsertAt(live, n, r), live, n, r)
      BY <1>3, <3>1, Inserted
    <3> QED
      BY <1>1, <3>2 DEF Inserts
  <2>2. DOMAIN live' = 1..Len(live')
    BY <2>1, LenProperties
  <2> QED
    BY <2>1, <2>2
<1>5. IsInjective(live')
  BY <1>1, <1>3, InsertedInjective
<1>6. Listed' = Listed /\ PagesType' /\ Listed \in Nat
  <2>1. PagesType'
    BY <1>2, <1>4 DEF PagesInv, PagesType
  <2>2. Listed' = Listed /\ Listed \in Nat
    BY <1>2, PagesAssumption DEF Listed, PagesInv, PagesType
  <2> QED
    BY <2>1, <2>2
<1>7. ASSUME ~shrunk
      PROVE  /\ Len(all) = Listed /\ Listed <= Len(live')
             /\ stayed \subseteq Range(live')
             /\ \A i \in 1..Listed : live'[i] \in stayed => live'[i] \in Range(all)
  <2>1. /\ Len(all) = Listed /\ Listed <= Len(live)
        /\ stayed \subseteq Range(live)
        /\ \A i \in 1..Listed : live[i] \in stayed => live[i] \in Range(all)
    BY <1>2, <1>7 DEF PagesInv, Passed
  <2>2. ASSUME NEW x \in stayed PROVE x \in Range(live')
    <3>1. PICK i \in 1..Len(live) : x = live[i]
      BY <1>3, <2>1 DEF Range
    <3>2. CASE i < n
      BY <1>3, <1>4, <3>1, <3>2 DEF Range
    <3>3. CASE ~(i < n)
      <4>1. i + 1 \in 1..Len(live) + 1 /\ ~(i + 1 < n) /\ i + 1 # n /\ (i + 1) - 1 = i
        BY <1>3, <3>3
      <4>2. live'[i + 1] = x
        BY <1>4, <3>1, <4>1
      <4> QED
        BY <1>4, <4>1, <4>2 DEF Range
    <3> QED
      BY <3>2, <3>3
  <2>3. ASSUME NEW i \in 1..Listed, live'[i] \in stayed PROVE live'[i] \in Range(all)
    <3>1. i \in 1..Len(live) + 1 /\ i \in Int
      BY <1>3, <1>6, <2>1
    <3>2. live'[i] # r
      BY <1>1, <2>1, <2>3
    <3>3. CASE i < n
      BY <1>4, <2>1, <2>3, <3>1, <3>3
    <3>4. CASE ~(i < n)
      <4>1. i - 1 \in 1..Listed /\ live'[i] = live[i - 1]
        BY <1>4, <1>6, <3>1, <3>2, <3>4
      <4> QED
        BY <2>1, <2>3, <4>1
    <3> QED
      BY <3>3, <3>4
  <2> QED
    BY <1>3, <1>4, <1>6, <2>1, <2>2, <2>3
<1> QED
  BY <1>2, <1>5, <1>6, <1>7 DEF PagesInv, Passed, SteadyComplete

LEMMA LeavesKeepsPages == ASSUME PagesInv, RecordLeaves PROVE PagesInv'
<1>1. PICK n \in 1..Len(live) : live' = RemoveAt(live, n) /\ stayed' = stayed \ {live[n]}
  BY DEF RecordLeaves
<1>2. /\ fetch = "paging" /\ shrunk' = TRUE
      /\ UNCHANGED <<fetch, page, all, grown, cut>>
  BY DEF RecordLeaves
<1>3. live \in Seq(Records) /\ IsInjective(live) /\ Len(live) \in Nat
  BY LenProperties DEF PagesInv, PagesType
<1>4. /\ live' \in Seq(Records) /\ Len(live') = Len(live) - 1
      /\ \A i \in 1..Len(live) - 1 : live'[i] = IF i < n THEN live[i] ELSE live[i + 1]
  BY <1>1, <1>3, Removed
<1>5. IsInjective(live')
  BY <1>1, <1>3, RemovedInjective
<1>6. Listed' = Listed /\ PagesType' /\ Listed \in Nat
  BY <1>1, <1>2, <1>4, PagesAssumption DEF Listed, PagesInv, PagesType
<1>7. ASSUME ~grown, NEW i \in 1..Len(live'), i > Listed
      PROVE  live'[i] \notin Range(all)
  <2>1. \A j \in 1..Len(live) : j > Listed => live[j] \notin Range(all)
    BY <1>2, <1>7 DEF PagesInv
  <2>2. i \in 1..Len(live) /\ i + 1 \in 1..Len(live) /\ i + 1 > Listed
    BY <1>3, <1>4, <1>6, <1>7
  <2> QED
    BY <1>3, <1>4, <1>7, <2>1, <2>2
<1>8. ~grown => IsInjective(all)
  BY DEF PagesInv
<1> QED
  BY <1>2, <1>5, <1>6, <1>7, <1>8 DEF PagesInv, SteadyComplete

(* A page that holds the positions after the first k of a queue completes  *)
(* what a list says of the first k, and repeats nothing of a list that has *)
(* nothing from behind the first k.                                        *)
PageOf(r, q, k) == \A i \in 1..Len(r) : k + i \in 1..Len(q) /\ r[i] = q[k + i]

LEMMA PageLists ==
    ASSUME NEW S, NEW q \in Seq(S), NEW l \in Seq(S), NEW r \in Seq(S), NEW k \in Nat, NEW T,
           PageOf(r, q, k), Passed(q, k, T, l)
    PROVE  Passed(q, k + Len(r), T, l \o r)
<1> SUFFICES ASSUME NEW n \in 1..k + Len(r), q[n] \in T PROVE q[n] \in Range(l) \cup Range(r)
  BY RangeConcatenation DEF Passed
<1>1. CASE n <= k
  BY <1>1 DEF Passed
<1>2. CASE ~(n <= k)
  <2>1. Len(r) \in Nat /\ DOMAIN r = 1..Len(r)
    BY LenProperties
  <2>2. n - k \in 1..Len(r) /\ k + (n - k) = n
    BY <1>2, <2>1
  <2>3. q[n] = r[n - k]
    BY <2>2 DEF PageOf
  <2> QED
    BY <2>1, <2>2, <2>3 DEF Range
<1> QED
  BY <1>1, <1>2

Begins(l, q, k) == \A n \in 1..k : l[n] = q[n]

LEMMA PageContinues ==
    ASSUME NEW S, NEW q \in Seq(S), NEW l \in Seq(S), NEW r \in Seq(S), NEW k \in Nat,
           PageOf(r, q, k), Len(l) = k, Begins(l, q, k)
    PROVE  Begins(l \o r, q, k + Len(r))
<1> SUFFICES ASSUME NEW n \in 1..k + Len(r) PROVE (l \o r)[n] = q[n]
  BY DEF Begins
<1>1. (l \o r)[n] = IF n <= k THEN l[n] ELSE r[n - k]
  BY ConcatProperties
<1>2. CASE n <= k
  BY <1>1, <1>2 DEF Begins
<1>3. CASE ~(n <= k)
  <2>1. Len(r) \in Nat
    BY LenProperties
  <2>2. n - k \in 1..Len(r) /\ k + (n - k) = n
    BY <1>3, <2>1
  <2> QED
    BY <1>1, <1>3, <2>2 DEF PageOf
<1> QED
  BY <1>2, <1>3

LEMMA PageRepeatsNothing ==
    ASSUME NEW S, NEW q \in Seq(S), NEW l \in Seq(S), NEW r \in Seq(S), NEW k \in Nat,
           PageOf(r, q, k), IsInjective(q), IsInjective(l),
           \A n \in 1..Len(q) : n > k => q[n] \notin Range(l)
    PROVE  /\ IsInjective(l \o r)
           /\ \A n \in 1..Len(q) : n > k + Len(r) => q[n] \notin Range(l \o r)
<1> DEFINE t == l \o r
<1>1. /\ DOMAIN q = 1..Len(q) /\ Len(q) \in Nat
      /\ DOMAIN l = 1..Len(l) /\ Len(l) \in Nat
      /\ DOMAIN r = 1..Len(r) /\ Len(r) \in Nat
  BY LenProperties
<1>2. /\ t \in Seq(S) /\ DOMAIN t = 1..Len(l) + Len(r)
      /\ \A i \in 1..Len(l) + Len(r) : t[i] = IF i <= Len(l) THEN l[i] ELSE r[i - Len(l)]
      /\ Range(t) = Range(l) \cup Range(r)
  BY ConcatProperties, RangeConcatenation, LenProperties
<1> HIDE DEF t
<1>3. \A i, j \in 1..Len(q) : q[i] = q[j] => i = j
  BY <1>1 DEF IsInjective
<1>4. \A i \in 1..Len(r) : r[i] \notin Range(l)
  BY <1>1 DEF PageOf
<1>5. \A i, j \in 1..Len(r) : r[i] = r[j] => i = j
  BY <1>1, <1>3 DEF PageOf
<1>6. /\ \A i \in 1..Len(l) : l[i] \in Range(l)
      /\ \A i, j \in 1..Len(l) : l[i] = l[j] => i = j
  BY <1>1 DEF Range, IsInjective
<1>7. ASSUME NEW i \in 1..Len(l) + Len(r), NEW j \in 1..Len(l) + Len(r), t[i] = t[j]
      PROVE  i = j
  <2>1. CASE i <= Len(l) /\ j <= Len(l)
    BY <1>1, <1>2, <1>6, <1>7, <2>1
  <2>2. CASE ~(i <= Len(l)) /\ ~(j <= Len(l))
    <3>1. i - Len(l) \in 1..Len(r) /\ j - Len(l) \in 1..Len(r)
      BY <1>1, <2>2
    <3>2. i - Len(l) = j - Len(l)
      BY <1>2, <1>5, <1>7, <2>2, <3>1
    <3> QED
      BY <1>1, <3>2
  <2>3. CASE i <= Len(l) /\ ~(j <= Len(l))
    <3>1. i \in 1..Len(l) /\ j - Len(l) \in 1..Len(r)
      BY <1>1, <2>3
    <3> QED
      BY <1>2, <1>4, <1>6, <1>7, <2>3, <3>1
  <2>4. CASE ~(i <= Len(l)) /\ j <= Len(l)
    <3>1. j \in 1..Len(l) /\ i - Len(l) \in 1..Len(r)
      BY <1>1, <2>4
    <3> QED
      BY <1>2, <1>4, <1>6, <1>7, <2>4, <3>1
  <2> QED
    BY <2>1, <2>2, <2>3, <2>4
<1>8. ASSUME NEW n \in 1..Len(q), n > k + Len(r)
      PROVE  q[n] \notin Range(t)
  <2>1. \A i \in 1..Len(r) : q[n] # r[i]
    BY <1>1, <1>3, <1>8 DEF PageOf
  <2>2. q[n] \notin Range(r)
    BY <1>1, <2>1 DEF Range
  <2>3. n > k
    BY <1>1, <1>8
  <2> QED
    BY <1>2, <2>2, <2>3
<1> QED
  BY <1>2, <1>7, <1>8 DEF IsInjective, t

(* The last page completes what it came with; any other page is full.      *)
LEMMA PageKeepsPages == ASSUME PagesInv, PageFetched PROVE PagesInv'
<1> DEFINE r == OnPage
<1>1. /\ fetch = "paging" /\ all' = all \o r
      /\ UNCHANGED <<live, stayed, shrunk, grown, cut>>
      /\ \/ /\ Len(all \o r) >= Len(live) \/ r = <<>>
            /\ fetch' = "done" /\ page' = page
         \/ /\ ~(Len(all \o r) >= Len(live)) /\ r # <<>>
            /\ fetch' = "paging" /\ page' = page + 1
  BY DEF PageFetched, Received, LastPage
<1>2. /\ live \in Seq(Records) /\ all \in Seq(Records)
      /\ page \in Nat \ {0} /\ PageSize \in Nat \ {0}
  BY PagesAssumption DEF PagesInv, PagesType
<1>3. Len(live) \in Nat /\ Len(all) \in Nat /\ DOMAIN live = 1..Len(live)
  BY <1>2, LenProperties
<1>4. /\ Listed \in Nat /\ r \in Seq(Records) /\ PageOf(r, live, Listed)
      /\ Len(r) = IF Listed + PageSize <= Len(live) THEN PageSize
                  ELSE IF Listed <= Len(live) THEN Len(live) - Listed ELSE 0
  BY PageProperties DEF PagesInv, PageOf
<1>5. Len(r) \in Nat /\ (r = <<>> <=> Len(r) = 0)
  BY <1>4, LenProperties, EmptySeq
<1> HIDE DEF r
<1>6. all \o r \in Seq(Records) /\ Len(all \o r) = Len(all) + Len(r)
  BY <1>2, <1>4, ConcatProperties
<1>7. PagesType'
  BY <1>1, <1>2, <1>6 DEF PagesInv, PagesType
<1>8. page' = page + 1 => Listed' = Listed + PageSize
  BY <1>2 DEF Listed
<1>9. ASSUME ~shrunk
      PROVE  /\ Len(all) = Listed /\ Listed <= Len(live)
             /\ stayed \subseteq Range(live)
             /\ Passed(live, Listed, stayed, all)
             /\ ~grown => \A n \in 1..Listed : all[n] = live[n]
  BY <1>1, <1>9 DEF PagesInv
<1>10. ASSUME ~shrunk
       PROVE  /\ Passed(live, Listed + Len(r), stayed, all \o r)
              /\ ~grown => \A n \in 1..Listed + Len(r) : (all \o r)[n] = live[n]
  <2>1. Passed(live, Listed + Len(r), stayed, all \o r)
    <3>1. /\ live \in Seq(Records) /\ all \in Seq(Records) /\ r \in Seq(Records)
          /\ Listed \in Nat /\ PageOf(r, live, Listed) /\ Passed(live, Listed, stayed, all)
      BY <1>2, <1>4, <1>9, <1>10
    <3> QED
      BY <3>1, PageLists
  <2>2. ~grown => \A n \in 1..Listed + Len(r) : (all \o r)[n] = live[n]
    <3>1. SUFFICES ASSUME ~grown PROVE Begins(all \o r, live, Listed + Len(r))
      BY DEF Begins
    <3>2. /\ live \in Seq(Records) /\ all \in Seq(Records) /\ r \in Seq(Records)
          /\ Listed \in Nat /\ PageOf(r, live, Listed) /\ Len(all) = Listed
          /\ Begins(all, live, Listed)
      BY <1>2, <1>4, <1>9, <1>10, <3>1 DEF Begins
    <3> QED
      BY <3>2, PageContinues
  <2> QED
    BY <2>1, <2>2
<1>11. ASSUME ~shrunk
       PROVE  /\ Len(all \o r) = Listed + Len(r)
              /\ \/ Len(r) = PageSize /\ Listed + Len(r) <= Len(live)
                 \/ Listed + Len(r) = Len(live)
              /\ Len(r) = 0 => Listed + Len(r) = Len(live)
  <2>1. Len(all) = Listed /\ Listed <= Len(live)
    BY <1>9, <1>11
  <2>2. Len(r) = IF Listed + PageSize <= Len(live) THEN PageSize ELSE Len(live) - Listed
    BY <1>4, <2>1
  <2>3. Listed \in Nat /\ PageSize \in Nat \ {0} /\ Len(live) \in Nat /\ Len(r) \in Nat
    BY <1>2, <1>3, <1>4, <1>5
  <2> QED
    BY <1>6, <2>1, <2>2, <2>3
<1>12. ASSUME ~shrunk, fetch' = "done"
       PROVE  stayed \subseteq Range(all') /\ (~grown => all' = live)
  <2>1. Listed + Len(r) = Len(live)
    <3>1. Len(all \o r) >= Len(live) \/ Len(r) = 0
      BY <1>1, <1>5, <1>12
    <3>2. Listed \in Nat /\ Len(live) \in Nat /\ Len(r) \in Nat
      BY <1>3, <1>4, <1>5
    <3> QED
      BY <1>11, <1>12, <3>1, <3>2
  <2>2. \A x \in stayed : \E n \in 1..Len(live) : x = live[n]
    BY <1>3, <1>9, <1>12 DEF Range
  <2>3. stayed \subseteq Range(all \o r)
    BY <1>10, <1>12, <2>1, <2>2 DEF Passed
  <2>4. ASSUME ~grown PROVE all \o r = live
    <3>1. Len(all \o r) = Len(live)
      BY <1>11, <1>12, <2>1
    <3>2. \A n \in 1..Len(live) : (all \o r)[n] = live[n]
      BY <1>10, <1>12, <2>1, <2>4
    <3> QED
      BY <1>2, <1>6, <3>1, <3>2, SeqEqual
  <2> QED
    BY <1>1, <2>3, <2>4
<1>13. ASSUME ~shrunk, fetch' = "paging"
       PROVE  /\ Len(all') = Listed' /\ Listed' <= Len(live)
              /\ Passed(live, Listed', stayed, all')
              /\ ~grown => \A n \in 1..Listed' : all'[n] = live[n]
  <2>1. ~(Len(all \o r) >= Len(live)) /\ Len(r) # 0 /\ page' = page + 1
    BY <1>1, <1>5, <1>13
  <2>2. Listed \in Nat /\ Len(live) \in Nat /\ Len(r) \in Nat
    BY <1>3, <1>4, <1>5
  <2>3. Len(r) = PageSize /\ Listed + Len(r) <= Len(live)
    BY <1>11, <1>13, <2>1, <2>2
  <2>4. Listed' = Listed + Len(r)
    BY <1>8, <2>1, <2>3
  <2> QED
    BY <1>1, <1>10, <1>11, <1>13, <2>3, <2>4
<1>14. ASSUME ~grown
       PROVE  /\ IsInjective(all')
              /\ fetch' = "paging" =>
                   \A n \in 1..Len(live) : n > Listed' => live[n] \notin Range(all')
  <2>1. /\ IsInjective(live) /\ IsInjective(all)
        /\ \A n \in 1..Len(live) : n > Listed => live[n] \notin Range(all)
    BY <1>1, <1>14 DEF PagesInv
  <2>2. /\ IsInjective(all \o r)
        /\ \A n \in 1..Len(live) : n > Listed + Len(r) => live[n] \notin Range(all \o r)
    BY <1>2, <1>4, <2>1, PageRepeatsNothing
  <2>3. ASSUME fetch' = "paging", NEW n \in 1..Len(live), n > Listed'
        PROVE  n > Listed + Len(r)
    <3>1. page' = page + 1
      BY <1>1, <2>3
    <3>2. Len(r) <= PageSize
      <4>1. Len(r) = IF Listed + PageSize <= Len(live) THEN PageSize
                     ELSE IF Listed <= Len(live) THEN Len(live) - Listed ELSE 0
        BY <1>4
      <4>2. Listed \in Nat /\ PageSize \in Nat \ {0} /\ Len(live) \in Nat
        BY <1>2, <1>3, <1>4
      <4> QED
        BY <4>1, <4>2
    <3>3. Listed' = Listed + PageSize
      BY <1>8, <3>1
    <3> QED
      BY <1>2, <1>4, <1>5, <2>3, <3>2, <3>3
  <2> QED
    BY <1>1, <2>2, <2>3
<1>15. IsInjective(live') /\ ~cut'
  BY <1>1 DEF PagesInv
<1>16. fetch' = "done" \/ fetch' = "paging"
  BY <1>1
<1> QED
  BY <1>1, <1>7, <1>9, <1>14, <1>15, <1>16, <1>12, <1>13 DEF PagesInv, SteadyComplete

LEMMA PagesStep == ASSUME PagesInv, [PagesNext]_page_vars PROVE PagesInv'
<1>1. CASE PageFetched
  BY <1>1, PageKeepsPages
<1>2. CASE PageEmptyBody
  <2>1. all \o <<>> = all
    BY ConcatEmptySeq DEF PagesInv, PagesType
  <2>2. /\ fetch' = "done" /\ all' = all /\ cut' = TRUE /\ page' = page
        /\ UNCHANGED <<live, stayed, shrunk, grown>>
    BY <1>2, <2>1 DEF PageEmptyBody, Received, LastPage
  <2> QED
    BY <2>2 DEF PagesInv, PagesType, SteadyComplete
<1>3. CASE PageFails
  <2>1. /\ fetch' = "failed" /\ all' = <<>>
        /\ UNCHANGED <<live, page, stayed, shrunk, grown, cut>>
    BY <1>3 DEF PageFails
  <2>2. all' \in Seq(Records) /\ IsInjective(all')
    BY <2>1, EmptySeq DEF IsInjective
  <2> QED
    BY <2>1, <2>2 DEF PagesInv, PagesType, SteadyComplete
<1>4. CASE RecordArrives
  BY <1>4, ArrivesKeepsPages
<1>5. CASE RecordLeaves
  BY <1>5, LeavesKeepsPages
<1>6. CASE UNCHANGED page_vars
  BY <1>6 DEF page_vars, PagesInv, PagesType, Listed, Passed, SteadyComplete
<1> QED
  BY <1>1, <1>2, <1>3, <1>4, <1>5, <1>6 DEF PagesNext, Paging

-----------------------------------------------------------------------------
(* The local tier, and the requests that are made of what it lets through. *)
TierInv ==
    /\ tier \in {"off", "classify", "done"}
    /\ items \in Seq(Records) /\ sent \in 0..Len(items)
    /\ kept \subseteq Records /\ answered \subseteq Records
    /\ tier = "off" => sent = 0
    /\ tier # "off" => fetch = "done" /\ items = Among(all, Removable)

LEMMA TierStart == TierInit => TierInv
<1> SUFFICES ASSUME TierInit PROVE TierInv
  OBVIOUS
<1>1. items \in Seq(Records) /\ Len(items) = 0
  BY EmptySeq DEF TierInit
<1> QED
  BY <1>1 DEF TierInit, TierInv

(* No page comes after the last.                                           *)
LEMMA FetchEnds == ASSUME fetch = "done" PROVE ~PagesNext
  BY DEF PagesNext, Paging, PageFetched, PageEmptyBody, PageFails, Received, RecordArrives,
         RecordLeaves

LEMMA RangeTyped == ASSUME NEW S, NEW s \in Seq(S) PROVE Range(s) \subseteq S
  BY RangeOfSeq

LEMMA FetchKeepsTier == ASSUME TierInv, PagesNext, UNCHANGED tier_vars PROVE TierInv'
  BY FetchEnds DEF TierInv, tier_vars

LEMMA FindKeepsTier == ASSUME PagesInv, TierInv, FindCandidates PROVE TierInv'
<1>1. /\ fetch = "done" /\ tier = "off" /\ items' = Among(all, Removable)
      /\ tier' \in {"classify", "done"}
      /\ UNCHANGED <<sent, kept, answered, page_vars>>
  BY DEF FindCandidates, Classify
<1>2. items' \in Seq(Records)
  BY <1>1, AmongProperties DEF PagesInv, PagesType
<1>3. Len(items') \in Nat /\ sent' = 0
  BY <1>1, <1>2, LenProperties DEF TierInv
<1> QED
  BY <1>1, <1>2, <1>3 DEF TierInv, page_vars

LEMMA FilteringKeepsTier == ASSUME TierInv, Filtering, UNCHANGED page_vars PROVE TierInv'
<1>1. /\ tier = "classify" /\ sent' = BatchEnd /\ tier' \in {"classify", "done"} /\ items' = items
      /\ fetch' = fetch /\ all' = all
  BY DEF Filtering, Label, LabelFails, BatchDone, page_vars
<1>2. items \in Seq(Records) /\ Len(items) \in Nat /\ sent \in 0..Len(items)
  BY LenProperties DEF TierInv
<1>3. BatchEnd = IF sent + LocalBatch <= Len(items) THEN sent + LocalBatch ELSE Len(items)
  BY <1>2, PrefilterAssumption, SmallerOfTwo DEF BatchEnd
<1>4. BatchEnd \in 0..Len(items)
  BY <1>2, <1>3, PrefilterAssumption
<1>5. Range(items) \subseteq Records
  BY <1>2, RangeTyped
<1>6. Batch \subseteq Records
  <2>1. \A i \in sent + 1..BatchEnd : items[i] \in Records
    BY <1>2, <1>4, ElementOfSeq
  <2>2. sent + 1 \in Int /\ BatchEnd \in Int
    BY <1>2, <1>4
  <2>3. SubSeq(items, sent + 1, BatchEnd) \in Seq(Records)
    BY <2>1, <2>2, SubSeqProperties
  <2> QED
    BY <2>3, RangeTyped DEF Batch
<1>7. kept' \subseteq Records /\ answered' \subseteq Records
  <2>1. CASE Label
    BY <1>5, <1>6, <2>1 DEF Label, TierInv
  <2>2. CASE LabelFails
    BY <2>2 DEF LabelFails, TierInv
  <2> QED
    BY <2>1, <2>2 DEF Filtering
<1> QED
  BY <1>1, <1>2, <1>4, <1>7 DEF TierInv

LEMMA CappedProperties ==
    ASSUME NEW S, NEW list \in Seq(S), NEW n \in Nat
    PROVE  /\ Capped(list, n) \in Seq(S)
           /\ Len(Capped(list, n)) = IF n > 0 /\ n < Len(list) THEN n ELSE Len(list)
           /\ \A i \in 1..Len(Capped(list, n)) : Capped(list, n)[i] = list[i]
<1>1. Len(list) \in Nat
  BY LenProperties
<1>2. CASE n > 0
  <2>1. Min({n, Len(list)}) = IF n < Len(list) THEN n ELSE Len(list)
    BY <1>1, SmallerOfTwo
  <2> DEFINE m == IF n < Len(list) THEN n ELSE Len(list)
  <2>2. m \in 0..Len(list)
    BY <1>1
  <2>3. Capped(list, n) = SubSeq(list, 1, m)
    BY <1>2, <2>1 DEF Capped
  <2> HIDE DEF m
  <2>4. /\ SubSeq(list, 1, m) \in Seq(S) /\ Len(SubSeq(list, 1, m)) = m
        /\ \A i \in 1..m : SubSeq(list, 1, m)[i] = list[i]
    BY <1>1, <2>2
  <2>5. m = IF n > 0 /\ n < Len(list) THEN n ELSE Len(list)
    BY <1>2 DEF m
  <2> QED
    BY <2>3, <2>4, <2>5
<1>3. CASE ~(n > 0)
  BY <1>3 DEF Capped
<1> QED
  BY <1>2, <1>3

(* Multiples of a size: they are as far apart as the size, a quotient is   *)
(* the number of multiples that fit, and a position is found in one way.   *)
LEMMA Multiples ==
    ASSUME NEW i \in Nat, NEW j \in Nat, NEW n \in Nat, i < j
    PROVE  i * n + n <= j * n
  BY SMT

LEMMA Quotient ==
    ASSUME NEW m \in Nat, NEW n \in Nat \ {0}
    PROVE  m \div n \in Nat /\ (m \div n) * n <= m /\ m < (m \div n) * n + n
  BY SMT

LEMMA OnePlace ==
    ASSUME NEW i \in Nat \ {0}, NEW j \in Nat \ {0}, NEW n \in Nat,
           NEW k \in 1..n, NEW l \in 1..n, (i - 1) * n + k = (j - 1) * n + l
    PROVE  i = j /\ k = l
<1>1. i - 1 \in Nat /\ j - 1 \in Nat /\ (i - 1) * n \in Nat /\ (j - 1) * n \in Nat
  OBVIOUS
<1>2. CASE i < j
  <2>1. (i - 1) * n + n <= (j - 1) * n
    BY <1>1, <1>2, Multiples
  <2> QED
    BY <1>1, <1>2, <2>1
<1>3. CASE j < i
  <2>1. (j - 1) * n + n <= (i - 1) * n
    BY <1>1, <1>3, Multiples
  <2> QED
    BY <1>1, <1>3, <2>1
<1>4. CASE i = j
  BY <1>1, <1>4
<1> QED
  BY <1>2, <1>3, <1>4

(* Chunks deal a list out: every position of the list is one of a chunk,   *)
(* none beyond the size.                                                   *)
DealtOut(c, list, size) ==
    /\ \A i \in 1..Len(c) : \A k \in 1..Len(c[i]) :
         /\ k <= size /\ (i - 1) * size + k \in 1..Len(list)
         /\ c[i][k] = list[(i - 1) * size + k]
    /\ \A p \in 1..Len(list) : \E i \in 1..Len(c) : \E k \in 1..Len(c[i]) :
         p = (i - 1) * size + k

LEMMA ChunksProperties ==
    ASSUME NEW S, NEW list \in Seq(S), NEW size \in Nat \ {0}
    PROVE  /\ Chunks(list, size) \in Seq(Seq(S) \ {<<>>})
           /\ DealtOut(Chunks(list, size), list, size)
<1> DEFINE L == Len(list)
           N == (L + size - 1) \div size
           c == Chunks(list, size)
           From(i) == (i - 1) * size
           To(i) == IF i * size <= L THEN i * size ELSE L
<1>1. L \in Nat
  BY LenProperties
<1>2. N \in Nat /\ N * size <= L + size - 1 /\ L + size - 1 < N * size + size
  BY <1>1, Quotient
<1>3. \A i \in 1..N : From(i) \in Nat /\ From(i) + size = i * size /\ i * size \in Nat
  BY <1>2
<1>4. \A i \in 1..N : From(i) < L
  <2> SUFFICES ASSUME NEW i \in 1..N PROVE From(i) < L
    OBVIOUS
  <2>1. i * size <= N * size
    <3>1. i = N \/ i * size + size <= N * size
      BY <1>2, Multiples
    <3> QED
      BY <1>2, <1>3, <3>1
  <2> QED
    BY <1>1, <1>2, <1>3, <2>1
<1> HIDE DEF N, L, From
<1>5. c = [i \in 1..N |-> SubSeq(list, From(i) + 1, To(i))]
  <2>1. \A i \in 1..N : Min({i * size, L}) = To(i)
    BY <1>1, <1>3, SmallerOfTwo
  <2> QED
    BY <2>1 DEF Chunks, N, L, From
<1>6. \A i \in 1..N : To(i) \in Nat /\ To(i) <= L /\ From(i) + 1 <= To(i) /\ To(i) <= From(i) + size
  BY <1>1, <1>3, <1>4
<1> HIDE DEF c
<1>7. ASSUME NEW i \in 1..N
      PROVE  /\ c[i] \in Seq(S) \ {<<>>} /\ Len(c[i]) = To(i) - From(i)
             /\ \A k \in 1..To(i) - From(i) : c[i][k] = list[From(i) + k]
  <2>1. From(i) \in Nat /\ To(i) \in Nat /\ To(i) <= L /\ From(i) + 1 <= To(i)
    BY <1>3, <1>6
  <2>2. c[i] = SubSeq(list, From(i) + 1, To(i))
    BY <1>5
  <2> HIDE DEF To
  <2>3. \A n \in From(i) + 1..To(i) : list[n] \in S
    BY <1>1, <2>1, ElementOfSeq DEF L
  <2>4. From(i) + 1 \in Int /\ To(i) \in Int
    BY <2>1
  <2>5. /\ c[i] \in Seq(S)
        /\ Len(c[i]) = IF From(i) + 1 <= To(i) THEN To(i) - (From(i) + 1) + 1 ELSE 0
        /\ \A k \in 1..To(i) - (From(i) + 1) + 1 : c[i][k] = list[From(i) + 1 + k - 1]
    BY <2>2, <2>3, <2>4, SubSeqProperties
  <2>6. Len(c[i]) = To(i) - From(i) /\ Len(c[i]) # 0
    BY <2>1, <2>5
  <2>7. ASSUME NEW k \in 1..To(i) - From(i) PROVE c[i][k] = list[From(i) + k]
    <3>1. k \in 1..To(i) - (From(i) + 1) + 1 /\ From(i) + 1 + k - 1 = From(i) + k
      BY <2>1
    <3> QED
      BY <2>5, <3>1
  <2> QED
    BY <2>5, <2>6, <2>7, EmptySeq
<1>8. c \in Seq(Seq(S) \ {<<>>}) /\ Len(c) = N
  <2>1. c \in [1..N -> Seq(S) \ {<<>>}]
    BY <1>5, <1>7
  <2>2. N \in Nat
    BY <1>2
  <2> QED
    BY <2>1, <2>2, TableIsList
<1>9. ASSUME NEW i \in 1..Len(c), NEW k \in 1..Len(c[i])
      PROVE  /\ k <= size /\ From(i) + k \in 1..L
             /\ c[i][k] = list[From(i) + k]
  <2>1. i \in 1..N /\ k \in 1..To(i) - From(i)
    BY <1>7, <1>8
  <2>2. From(i) \in Nat /\ To(i) \in Nat /\ To(i) <= L /\ To(i) <= From(i) + size
    BY <1>3, <1>6, <2>1
  <2>3. c[i][k] = list[From(i) + k]
    BY <1>7, <2>1
  <2> HIDE DEF To
  <2> QED
    BY <1>1, <2>1, <2>2, <2>3
<1>10. ASSUME NEW p \in 1..L
       PROVE  \E i \in 1..Len(c) : \E k \in 1..Len(c[i]) : p = From(i) + k
  <2> DEFINE q == (p - 1) \div size
             i == q + 1
             k == p - q * size
  <2>1. q \in Nat /\ q * size <= p - 1 /\ p - 1 < q * size + size /\ q * size \in Nat
    BY <1>1, Quotient
  <2> HIDE DEF q
  <2>2. From(i) = q * size /\ i * size = q * size + size
    BY <2>1 DEF From
  <2>3. q < N
    <3>1. N * size \in Nat
      BY <1>2
    <3>2. q * size < N * size
      BY <1>1, <1>2, <2>1, <3>1
    <3>3. q = N \/ N < q \/ q < N
      BY <1>2, <2>1
    <3>4. N < q => N * size + size <= q * size
      BY <1>2, <2>1, Multiples
    <3> QED
      BY <2>1, <3>1, <3>2, <3>3, <3>4
  <2>4. i \in 1..N
    BY <1>2, <2>1, <2>3
  <2>5. k \in 1..To(i) - From(i)
    BY <1>1, <2>1, <2>2
  <2>6. i \in 1..Len(c) /\ k \in 1..Len(c[i]) /\ p = From(i) + k
    <3>1. Len(c) = N /\ Len(c[i]) = To(i) - From(i)
      BY <1>7, <1>8, <2>4
    <3>2. p = From(i) + k
      BY <2>1, <2>2
    <3> HIDE DEF i, k, To
    <3> QED
      BY <2>4, <2>5, <3>1, <3>2
  <2> HIDE DEF i, k
  <2> QED
    BY <2>6
<1> QED
  BY <1>8, <1>9, <1>10 DEF DealtOut, c, L, From

(* The requests of a visit hold what was escalated, up to the cap; and     *)
(* nothing twice, when nothing was listed twice.                           *)
LEMMA RequestsProperties ==
    ASSUME TierInv
    PROVE  /\ Escalated \in Seq(Records)
           /\ Range(Escalated) = Range(items) \ kept
           /\ Requests \in Seq(Seq(Records) \ {<<>>})
           /\ \A p \in 1..Len(Escalated) :
                \/ MaxCandidates > 0 /\ p > MaxCandidates
                \/ \E i \in 1..Len(Requests) : Escalated[p] \in Range(Requests[i])
           /\ IsInjective(items) =>
                \A i, j \in 1..Len(Requests) :
                   \A k \in 1..Len(Requests[i]), l \in 1..Len(Requests[j]) :
                      Requests[i][k] = Requests[j][l] => i = j /\ k = l
<1> DEFINE e == Escalated
           list == Capped(e, MaxCandidates)
           size == IF BatchSize > 0 THEN BatchSize ELSE Len(list)
           c == Requests
<1>1. /\ e \in Seq(Records) /\ Range(e) = Range(items) \cap (Range(items) \ kept)
      /\ IsInjective(items) => IsInjective(e)
  BY AmongProperties DEF TierInv, Escalated
<1> HIDE DEF e
<1>2. /\ list \in Seq(Records) /\ Len(list) \in Nat
      /\ Len(list) = IF MaxCandidates > 0 /\ MaxCandidates < Len(e) THEN MaxCandidates ELSE Len(e)
      /\ \A n \in 1..Len(list) : list[n] = e[n]
  BY <1>1, CappedProperties, VisitAssumption, LenProperties
<1>3. Len(e) \in Nat /\ DOMAIN e = 1..Len(e) /\ MaxCandidates \in Nat /\ BatchSize \in Nat
  BY <1>1, LenProperties, VisitAssumption
<1>4. c = IF list = <<>> THEN <<>> ELSE Chunks(list, size)
  BY DEF Requests, e
<1> HIDE DEF list, c
<1>5. /\ c \in Seq(Seq(Records) \ {<<>>})
      /\ \E n \in Nat : DealtOut(c, list, n)
  <2>1. CASE list = <<>>
    <3>1. c = <<>> /\ Len(list) = 0 /\ Len(c) = 0
      BY <1>4, <2>1
    <3>2. DealtOut(c, list, 1)
      BY <3>1 DEF DealtOut
    <3>3. c \in Seq(Seq(Records) \ {<<>>})
      BY <3>1, EmptySeq
    <3> QED
      BY <3>2, <3>3
  <2>2. CASE list # <<>>
    <3>1. Len(list) \in Nat \ {0}
      BY <1>2, <2>2, EmptySeq
    <3>2. size \in Nat \ {0}
      BY <1>3, <3>1
    <3> HIDE DEF size
    <3>3. c = Chunks(list, size)
      BY <1>4, <2>2
    <3> QED
      BY <1>2, <3>2, <3>3, ChunksProperties
  <2> QED
    BY <2>1, <2>2
<1>6. PICK n \in Nat : DealtOut(c, list, n)
  BY <1>5
<1>7. \A i \in 1..Len(c) : /\ c[i] \in Seq(Records) /\ DOMAIN c[i] = 1..Len(c[i])
  BY <1>5, ElementOfSeq, LenProperties
<1>8. ASSUME NEW p \in 1..Len(e), ~(MaxCandidates > 0 /\ p > MaxCandidates)
      PROVE  \E i \in 1..Len(c) : e[p] \in Range(c[i])
  <2>1. p \in 1..Len(list)
    BY <1>2, <1>3, <1>8
  <2>2. PICK i \in 1..Len(c) : \E k \in 1..Len(c[i]) : p = (i - 1) * n + k
    BY <1>6, <2>1 DEF DealtOut
  <2>3. PICK k \in 1..Len(c[i]) : p = (i - 1) * n + k
    BY <2>2
  <2>4. c[i][k] = list[p]
    BY <1>6, <2>3 DEF DealtOut
  <2>5. c[i][k] = e[p]
    BY <1>2, <2>1, <2>4
  <2> QED
    BY <1>7, <2>5 DEF Range
<1>9. ASSUME IsInjective(items),
             NEW i \in 1..Len(c), NEW j \in 1..Len(c),
             NEW k \in 1..Len(c[i]), NEW l \in 1..Len(c[j]), c[i][k] = c[j][l]
      PROVE  i = j /\ k = l
  <2> DEFINE p == (i - 1) * n + k
             q == (j - 1) * n + l
  <2>1. /\ k <= n /\ p \in 1..Len(list) /\ c[i][k] = list[p]
        /\ l <= n /\ q \in 1..Len(list) /\ c[j][l] = list[q]
    BY <1>6 DEF DealtOut
  <2> HIDE DEF p, q
  <2>2. list[p] = e[p] /\ list[q] = e[q] /\ p \in 1..Len(e) /\ q \in 1..Len(e)
    BY <1>2, <1>3, <2>1
  <2>3. p = q
    BY <1>1, <1>3, <1>9, <2>1, <2>2 DEF IsInjective
  <2>4. i \in Nat \ {0} /\ j \in Nat \ {0} /\ k \in 1..n /\ l \in 1..n
    BY <1>9, <2>1
  <2>5. (i - 1) * n + k = (j - 1) * n + l
    BY <2>3 DEF p, q
  <2> QED
    BY <1>6, <2>4, <2>5, OnePlace
<1> QED
  BY <1>1, <1>5, <1>8, <1>9 DEF e, c

-----------------------------------------------------------------------------
(* The calls: the outcomes so far belong to their requests, all of them are*)
(* there when the call is over, and the clock does not pass the limit.     *)
CallInv ==
    /\ OrderInv /\ ClockInv
    /\ Len(outcomes) <= asked
    /\ \A i \in 1..Len(outcomes) : outcomes[i] \in {0, i}
    /\ call = "over" => Len(outcomes) = asked
    /\ call = "idle" => streamed = {} /\ byID = <<>>
    /\ streamed \subseteq 1..asked
    /\ now <= limit /\ endedAt <= now

LEMMA CallStart == CallInit => CallInv
<1> SUFFICES ASSUME CallInit PROVE CallInv
  OBVIOUS
<1>1. OrderInv /\ ClockInv
  BY OrderInit, ClockInit
<1>2. /\ call = "idle" /\ asked = 0 /\ outcomes = <<>> /\ limit = 0 /\ now = 0 /\ endedAt = 0
      /\ streamed = {} /\ byID = <<>>
  BY DEF CallInit
<1>3. Len(outcomes) = 0
  BY <1>2
<1> QED
  BY <1>1, <1>2, <1>3 DEF CallInv

LEMMA DispatchKeeps ==
    ASSUME CallInv, call \in {"decide", "dispatch"},
           NEW outcome \in {0, Len(outcomes) + 1}, Dispatch(outcome)
    PROVE  /\ Len(outcomes') <= asked'
           /\ \A i \in 1..Len(outcomes') : outcomes'[i] \in {0, i}
           /\ call' = "over" => Len(outcomes') = asked'
           /\ call' # "idle" /\ UNCHANGED <<asked, streamed, limit, now, endedAt>>
<1>1. /\ outcomes \in Seq(Nat) /\ Len(outcomes) \in Nat /\ asked \in Nat /\ Len(outcomes) < asked
      /\ \A i \in 1..Len(outcomes) : outcomes[i] \in {0, i}
  BY LenProperties DEF CallInv, OrderInv, Working
<1>2. /\ outcomes' = Append(outcomes, outcome) /\ outcome \in Nat
      /\ call' = IF Len(outcomes') = asked THEN "over" ELSE call
      /\ UNCHANGED <<asked, streamed, limit, now, endedAt>>
  BY <1>1 DEF Dispatch, clock_vars
<1>3. /\ Len(outcomes') = Len(outcomes) + 1
      /\ \A i \in 1..Len(outcomes) : outcomes'[i] = outcomes[i]
      /\ outcomes'[Len(outcomes) + 1] = outcome
  BY <1>1, <1>2, AppendProperties
<1>4. \A i \in 1..Len(outcomes') : outcomes'[i] \in {0, i}
  <2> SUFFICES ASSUME NEW i \in 1..Len(outcomes') PROVE outcomes'[i] \in {0, i}
    OBVIOUS
  <2>1. CASE i = Len(outcomes) + 1
    BY <1>3, <2>1
  <2>2. CASE i # Len(outcomes) + 1
    <3>1. i \in 1..Len(outcomes)
      BY <1>1, <1>3, <2>2
    <3> QED
      BY <1>1, <1>3, <3>1
  <2> QED
    BY <2>1, <2>2
<1>5. Len(outcomes') <= asked'
  BY <1>1, <1>2, <1>3
<1> QED
  BY <1>2, <1>4, <1>5

LEMMA CallKeeps == ASSUME CallInv, [CallStep]_call_vars PROVE CallInv'
<1>1. OrderInv' /\ ClockInv'
  BY OrderStep, ClockStep DEF CallInv
<1>2. /\ asked \in Nat /\ outcomes \in Seq(Nat) /\ Len(outcomes) \in Nat
      /\ limit \in Nat /\ now \in Nat /\ endedAt \in Nat
  BY LenProperties DEF CallInv, OrderInv, ClockInv
<1> USE DEF clock_vars
<1>a. ASSUME NEW n \in Nat, Ask(n) PROVE CallInv'
  <2>1. /\ call = "idle" /\ asked' = n /\ call' \in {"over", "submit", "decide"}
        /\ call' = "over" => n = 0
        /\ UNCHANGED <<outcomes, limit, now, endedAt, streamed>>
    BY <1>a DEF Ask
  <2>2. outcomes = <<>> /\ streamed = {}
    BY <2>1 DEF CallInv, OrderInv
  <2>3. Len(outcomes) = 0
    BY <2>2
  <2> QED
    BY <1>1, <1>2, <2>1, <2>2, <2>3 DEF CallInv
<1>b. CASE Decide
  <2>1. PICK outcome \in {0, Len(outcomes) + 1} : Dispatch(outcome)
    BY <1>b DEF Decide
  <2>2. call = "decide"
    BY <1>b DEF Decide
  <2> QED
    BY <1>1, <2>1, <2>2, DispatchKeeps DEF CallInv
<1>c. CASE DispatchResult
  <2>1. call = "dispatch" /\ Dispatch(byID[Len(outcomes) + 1])
    BY <1>c DEF DispatchResult
  <2>2. byID[Len(outcomes) + 1] \in {0, Len(outcomes) + 1}
    BY <1>2, <2>1 DEF CallInv, OrderInv, Working
  <2> QED
    BY <1>1, <2>1, <2>2, DispatchKeeps DEF CallInv
<1>d. CASE Submit
  <2>1. /\ call = "submit" /\ call' = "poll" /\ limit' \in Timeouts
        /\ UNCHANGED <<asked, outcomes, now, endedAt, streamed>>
    BY <1>d DEF Submit
  <2>2. now = 0 /\ limit' \in Nat
    BY <2>1, CallsAssumption DEF CallInv, ClockInv
  <2> QED
    BY <1>1, <1>2, <2>1, <2>2 DEF CallInv
<1>e. CASE Poll \/ WaitOver \/ BatchFails \/ StreamEnds
  BY <1>1, <1>e DEF Poll, WaitOver, BatchFails, Fail, StreamEnds, CallInv
<1>f. ASSUME NEW i \in 1..asked, ResultLine(i) PROVE CallInv'
  <2>1. /\ call = "stream" /\ streamed' = streamed \cup {i}
        /\ UNCHANGED <<call, asked, outcomes, limit, now, endedAt>>
    BY <1>f DEF ResultLine
  <2> QED
    BY <1>1, <2>1 DEF CallInv
<1>g. CASE ClockTicks
  <2>1. /\ call = "wait" /\ now < limit /\ now' = now + 1
        /\ UNCHANGED <<call, asked, outcomes, limit, endedAt, streamed>>
    BY <1>g DEF ClockTicks
  <2>2. now' <= limit' /\ endedAt' <= now'
    BY <1>2, <2>1 DEF CallInv
  <2> QED
    BY <1>1, <2>1, <2>2 DEF CallInv
<1>h. CASE BatchEnds
  <2>1. /\ call \in {"poll", "wait"} /\ endedAt' = now
        /\ UNCHANGED <<call, asked, outcomes, limit, now, streamed>>
    BY <1>h DEF BatchEnds
  <2> QED
    BY <1>1, <1>2, <2>1 DEF CallInv
<1>i. CASE UNCHANGED call_vars
  BY <1>1, <1>i DEF call_vars, CallInv
<1> QED
  BY <1>a, <1>b, <1>c, <1>d, <1>e, <1>f, <1>g, <1>h, <1>i DEF CallStep, Calling

-----------------------------------------------------------------------------
(* The visit: the model is asked when the tier is done, about what the tier*)
(* let through, and neither changes afterwards.                            *)
VisitInv ==
    /\ PagesInv /\ TierInv /\ CallInv
    /\ call = "idle" => chunks = <<>>
    /\ call # "idle" => tier = "done" /\ chunks = Requests
    /\ asked = Len(chunks)

LEMMA VisitStart == Init => VisitInv
<1> SUFFICES ASSUME Init PROVE VisitInv
  OBVIOUS
<1>1. PagesInv /\ TierInv /\ CallInv
  BY PagesStart, TierStart, CallStart DEF Init
<1>2. call = "idle" /\ asked = 0 /\ chunks = <<>>
  BY DEF Init, CallInit
<1> QED
  BY <1>1, <1>2 DEF VisitInv

(* Every step of a visit is a step of one of its parts.                    *)
LEMMA VisitSteps ==
    ASSUME VisitInv, [Next]_vars
    PROVE  [PagesNext]_page_vars /\ [CallStep]_call_vars
<1>1. ASSUME AskModel PROVE \E n \in Nat : Ask(n)
  <2>1. Requests \in Seq(Seq(Records) \ {<<>>})
    BY RequestsProperties DEF VisitInv
  <2>2. Len(Requests) \in Nat
    BY <2>1, LenProperties
  <2> QED
    BY <1>1, <2>2 DEF AskModel
<1> QED
  BY <1>1 DEF Next, Visit, Fetch, ServerChanges, FindCandidates, FilterBatch, AskModel, CallModel,
              BatchProgress, PagesNext, CallStep, vars

LEMMA VisitStep == VisitInv /\ [Next]_vars => VisitInv'
<1> SUFFICES ASSUME VisitInv, [Next]_vars PROVE VisitInv'
  OBVIOUS
<1>1. PagesInv' /\ CallInv'
  BY VisitSteps, PagesStep, CallKeeps DEF VisitInv
<1>2. CASE Fetch \/ ServerChanges
  <2>1. PagesNext /\ UNCHANGED <<tier_vars, call_vars, chunks>>
    BY <1>2 DEF Fetch, ServerChanges, PagesNext
  <2>2. TierInv'
    BY <2>1, FetchKeepsTier DEF VisitInv
  <2>3. Requests' = Requests
    BY <2>1 DEF tier_vars, Requests, Escalated
  <2> QED
    BY <1>1, <2>1, <2>2, <2>3 DEF VisitInv, tier_vars, call_vars
<1>3. CASE FindCandidates
  <2>1. tier = "off" /\ UNCHANGED <<call_vars, chunks>>
    BY <1>3 DEF FindCandidates, Classify
  <2>2. TierInv'
    BY <1>3, FindKeepsTier DEF VisitInv
  <2> QED
    BY <1>1, <2>1, <2>2 DEF VisitInv, call_vars
<1>4. CASE FilterBatch
  <2>1. Filtering /\ UNCHANGED <<page_vars, call_vars, chunks>>
    BY <1>4 DEF FilterBatch
  <2>2. tier = "classify"
    BY <2>1 DEF Filtering, Label, LabelFails
  <2>3. TierInv'
    BY <2>1, FilteringKeepsTier DEF VisitInv
  <2> QED
    BY <1>1, <2>1, <2>2, <2>3 DEF VisitInv, call_vars
<1>5. CASE AskModel
  <2>1. /\ tier = "done" /\ call = "idle" /\ call' # "idle"
        /\ asked' = Len(Requests) /\ chunks' = Requests /\ UNCHANGED <<page_vars, tier_vars>>
    BY <1>5 DEF AskModel, Ask
  <2>2. TierInv' /\ Requests' = Requests
    BY <2>1 DEF VisitInv, TierInv, page_vars, tier_vars, Requests, Escalated
  <2> QED
    BY <1>1, <2>1, <2>2 DEF VisitInv, tier_vars
<1>6. CASE CallModel \/ BatchProgress
  <2>1. call # "idle" /\ call' # "idle" /\ asked' = asked /\ UNCHANGED <<page_vars, tier_vars, chunks>>
    BY <1>6 DEF CallModel, BatchProgress, VisitInv, CallInv, OrderInv, Calling, Decide, Submit, Poll,
                WaitOver, BatchFails, Fail, StreamEnds, DispatchResult, Dispatch, ResultLine,
                ClockTicks, BatchEnds
  <2>2. TierInv' /\ Requests' = Requests
    BY <2>1 DEF VisitInv, TierInv, page_vars, tier_vars, Requests, Escalated
  <2> QED
    BY <1>1, <2>1, <2>2 DEF VisitInv, tier_vars
<1>7. CASE UNCHANGED vars
  <2>1. UNCHANGED <<page_vars, tier_vars, call_vars, chunks>>
    BY <1>7 DEF vars
  <2>2. TierInv' /\ Requests' = Requests
    BY <2>1 DEF VisitInv, TierInv, page_vars, tier_vars, Requests, Escalated
  <2> QED
    BY <1>1, <2>1, <2>2 DEF VisitInv, tier_vars, call_vars
<1> QED
  BY <1>2, <1>3, <1>4, <1>5, <1>6, <1>7 DEF Next, Visit

THEOREM VisitInvariant == Spec => []VisitInv
  BY VisitStart, VisitStep, PTL DEF Spec

LEMMA VisitTyped == VisitInv => TypeOK
<1> SUFFICES ASSUME VisitInv PROVE TypeOK
  OBVIOUS
<1>1. PagesType /\ TierInv /\ CallInv /\ OrderInv /\ ClockInv
  BY DEF VisitInv, PagesInv, CallInv
<1>2. chunks \in Seq(Seq(Records) \ {<<>>}) /\ asked = Len(chunks)
  BY RequestsProperties, EmptySeq DEF VisitInv
<1>3. asked \in Nat
  BY <1>1 DEF OrderInv
<1>4. outcomes \in Seq(0..asked) /\ Len(outcomes) <= asked
  <2>1. /\ Len(outcomes) \in Nat /\ Len(outcomes) <= asked
        /\ outcomes \in [1..Len(outcomes) -> Nat]
        /\ \A i \in 1..Len(outcomes) : outcomes[i] \in {0, i}
    BY <1>1, LenProperties DEF CallInv, OrderInv
  <2>2. ASSUME NEW i \in 1..Len(outcomes) PROVE outcomes[i] \in 0..asked
    <3>1. i \in 0..asked /\ 0 \in 0..asked
      BY <1>3, <2>1
    <3> QED
      BY <2>1, <3>1
  <2> QED
    BY <1>1, <2>1, <2>2, Entries DEF OrderInv
<1>5. byID \in Seq(0..asked)
  <2>1. CASE call = "idle"
    BY <1>1, <2>1, EmptySeq DEF CallInv
  <2>2. CASE call # "idle"
    <3>1. byID \in [1..asked -> Nat] /\ \A i \in 1..asked : byID[i] \in {0, i}
      BY <1>1, <2>2 DEF OrderInv
    <3>2. \A i \in 1..asked : byID[i] \in 0..asked
      BY <1>3, <3>1
    <3>3. byID \in [1..asked -> 0..asked]
      BY <3>1, <3>2
    <3> QED
      BY <1>3, <3>3, IsASeq
  <2> QED
    BY <2>1, <2>2
<1>6. /\ fetch \in {"paging", "done", "failed"} /\ page \in Nat \ {0}
      /\ {live, all, items} \subseteq Seq(Records)
      /\ {stayed, kept, answered} \subseteq SUBSET Records
      /\ tier \in {"off", "classify", "done"} /\ sent \in 0..Len(items)
  BY <1>1 DEF PagesType, TierInv
<1>7. {shrunk, grown, cut, batchMode, due, ended} \subseteq BOOLEAN
  BY <1>1 DEF PagesType, OrderInv, ClockInv
<1>8. /\ call \in {"idle", "decide", "submit", "poll", "wait", "stream", "dispatch", "over", "failed"}
      /\ streamed \subseteq 1..asked
      /\ {limit, now, tickAt, endedAt} \subseteq Nat /\ now <= limit /\ endedAt <= now
  BY <1>1 DEF OrderInv, CallSteps, Working, CallInv, ClockInv
<1> QED
  BY <1>2, <1>4, <1>5, <1>6, <1>7, <1>8 DEF TypeOK

(* The state of a visit is well typed: no request is empty, and no outcome *)
(* is of a request that was not made.                                      *)
THEOREM VisitTypeOK == Spec => []TypeOK
  BY VisitInvariant, VisitTyped, PTL

(* A queue that stands still is fetched exactly (Client.Queue), whatever   *)
(* its length and the page size.                                           *)
THEOREM SteadyQueueComplete == Spec => []SteadyComplete
<1>1. VisitInv => SteadyComplete
  BY DEF VisitInv, PagesInv
<1> QED
  BY <1>1, VisitInvariant, PTL

LEMMA StuckAnswered == VisitInv => StuckIsAnswered
<1> SUFFICES ASSUME VisitInv, call = "over", ~shrunk, ~cut,
                    NEW r \in stayed \cap Removable, r \notin kept,
                    ~(MaxCandidates > 0
                        /\ r \in Range(SubSeq(Escalated, MaxCandidates + 1, Len(Escalated))))
             PROVE  \E i \in 1..asked : r \in Range(chunks[i]) /\ outcomes[i] \in {0, i}
  BY DEF StuckIsAnswered
<1>1. tier = "done" /\ chunks = Requests /\ asked = Len(chunks)
  BY DEF VisitInv
<1>2. /\ fetch = "done" /\ items = Among(all, Removable) /\ all \in Seq(Records)
  BY <1>1 DEF VisitInv, TierInv, PagesInv, PagesType
<1>3. r \in Range(all)
  BY <1>2 DEF VisitInv, PagesInv
<1>4. r \in Range(items)
  BY <1>2, <1>3, AmongProperties
<1>5. /\ Escalated \in Seq(Records) /\ Range(Escalated) = Range(items) \ kept
      /\ \A p \in 1..Len(Escalated) :
           \/ MaxCandidates > 0 /\ p > MaxCandidates
           \/ \E i \in 1..Len(Requests) : Escalated[p] \in Range(Requests[i])
  BY RequestsProperties DEF VisitInv
<1>6. Len(Escalated) \in Nat /\ DOMAIN Escalated = 1..Len(Escalated) /\ MaxCandidates \in Nat
  BY <1>5, LenProperties, VisitAssumption
<1>7. r \in Range(Escalated)
  BY <1>4, <1>5
<1>8. PICK p \in 1..Len(Escalated) : Escalated[p] = r
  BY <1>6, <1>7 DEF Range
<1>9. ~(MaxCandidates > 0 /\ p > MaxCandidates)
  <2> SUFFICES ASSUME MaxCandidates > 0, p > MaxCandidates
               PROVE  r \in Range(SubSeq(Escalated, MaxCandidates + 1, Len(Escalated)))
    OBVIOUS
  <2> DEFINE rest == SubSeq(Escalated, MaxCandidates + 1, Len(Escalated))
  <2>1. \A n \in MaxCandidates + 1..Len(Escalated) : Escalated[n] \in Records
    BY <1>5, <1>6, ElementOfSeq
  <2>2. /\ rest \in Seq(Records)
        /\ Len(rest) = IF MaxCandidates + 1 <= Len(Escalated)
                       THEN Len(Escalated) - (MaxCandidates + 1) + 1 ELSE 0
        /\ \A n \in 1..Len(Escalated) - (MaxCandidates + 1) + 1 :
             rest[n] = Escalated[MaxCandidates + 1 + n - 1]
    BY <1>6, <2>1, SubSeqProperties
  <2> HIDE DEF rest
  <2>3. /\ p - MaxCandidates \in 1..Len(Escalated) - (MaxCandidates + 1) + 1
        /\ MaxCandidates + 1 + (p - MaxCandidates) - 1 = p
    BY <1>6
  <2>6. p - MaxCandidates \in 1..Len(rest)
    <3>1. MaxCandidates + 1 <= Len(Escalated)
      BY <1>6
    <3>2. Len(rest) = Len(Escalated) - (MaxCandidates + 1) + 1
      BY <2>2, <3>1
    <3> QED
      BY <2>3, <3>2
  <2>4. rest[p - MaxCandidates] = r
    BY <1>8, <2>2, <2>3
  <2>5. DOMAIN rest = 1..Len(rest)
    BY <2>2, LenProperties
  <2> QED
    BY <2>4, <2>5, <2>6 DEF Range, rest
<1>10. PICK i \in 1..Len(Requests) : r \in Range(Requests[i])
  BY <1>5, <1>8, <1>9
<1>11. Len(outcomes) = asked /\ \A j \in 1..Len(outcomes) : outcomes[j] \in {0, j}
  BY DEF VisitInv, CallInv
<1> QED
  BY <1>1, <1>10, <1>11

(* What is removable and stays in the queue is answered, or there is a     *)
(* recorded reason why not (Client.Queue, funnelQueue, runBatched), unless *)
(* the queue shrank or lost a page while it was fetched.                   *)
THEOREM StuckAlwaysAnswered == Spec => []StuckIsAnswered
  BY VisitInvariant, StuckAnswered, PTL

LEMMA OnceAsked == VisitInv => AskedOnce
<1> SUFFICES ASSUME VisitInv, ~grown,
                    NEW i \in DOMAIN chunks, NEW j \in DOMAIN chunks,
                    NEW k \in DOMAIN chunks[i], NEW l \in DOMAIN chunks[j],
                    chunks[i][k] = chunks[j][l]
             PROVE  i = j /\ k = l
  BY DEF AskedOnce
<1>1. chunks \in Seq(Seq(Records) \ {<<>>}) /\ (chunks = Requests \/ chunks = <<>>)
  BY RequestsProperties, EmptySeq DEF VisitInv
<1>2. /\ DOMAIN chunks = 1..Len(chunks)
      /\ i \in 1..Len(chunks) /\ j \in 1..Len(chunks)
  BY <1>1, LenProperties
<1>3. chunks[i] \in Seq(Records) /\ chunks[j] \in Seq(Records)
  BY <1>1, <1>2, ElementOfSeq
<1>4. k \in 1..Len(chunks[i]) /\ l \in 1..Len(chunks[j])
  BY <1>3, LenProperties
<1>5. chunks = Requests /\ tier = "done"
  <2>1. Len(<<>>) = 0
    BY EmptySeq
  <2>2. chunks # <<>>
    BY <1>2, <2>1
  <2> QED
    BY <2>2 DEF VisitInv
<1>6. IsInjective(items)
  BY <1>5, AmongProperties DEF VisitInv, TierInv, PagesInv, PagesType
<1> QED
  BY <1>2, <1>4, <1>5, <1>6, RequestsProperties DEF VisitInv

(* No candidate is put to the model twice in a visit in which no record    *)
(* came to the queue while it was fetched.                                 *)
THEOREM NoneAskedTwice == Spec => []AskedOnce
  BY VisitInvariant, OnceAsked, PTL

(* In the visit as by itself, the chunks are resolved in order, each with  *)
(* its own answer or none.                                                 *)
THEOREM VisitAnswersInOrder == Spec => AnswersInOrder
<1>1. Init => A!Init
  BY CallsAssumption DEF Init, CallInit, A!Init, Over
<1>2. VisitInv /\ [Next]_vars => [A!Next]_<<batchMode, asked, outcomes, Over>>
  BY VisitSteps, OrderStep DEF VisitInv, CallInv
<1> QED
  BY <1>1, <1>2, VisitInvariant, PTL DEF Spec, AnswersInOrder, A!Spec

(* In the visit as by itself, a batch that ended a poll interval or more   *)
(* before the context was done is not given up.                            *)
THEOREM VisitReadsInTime == Spec => ReadInTime
<1>1. VisitInv /\ [Next]_vars
        => [call = "wait" /\ call' = "failed" /\ ended
              => endedAt + PollInterval >= limit]_call_vars
  BY VisitSteps, GivenUpAtLimit DEF VisitInv, CallInv
<1> QED
  BY <1>1, VisitInvariant, PTL DEF Spec, ReadInTime
=============================================================================
