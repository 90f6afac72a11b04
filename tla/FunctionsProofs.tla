--------------------------- MODULE FunctionsProofs ---------------------------
(***************************************************************************)
(* Theorems about the pure functions, for every argument: the allowlist is *)
(* exact, listed extensions are protected, what loads is usable, and       *)
(* truncate, ageBucket, dedupe and parseDecisions keep what their comments *)
(* promise.                                                                *)
(*                                                                         *)
(* What a recursive function computes is proved by least counterexample:   *)
(* the numbers are well-founded, so a set of bad positions that is not     *)
(* empty has a first one, and the step that leads to it is good.           *)
(***************************************************************************)
EXTENDS MCFunctions, BatchingProofs, SequenceTheorems, WellFoundedInduction

(* Induction over numbers: a set of them has a least, and one that is      *)
(* bounded has a largest member.                                           *)
LEMMA LeastNumber ==
    ASSUME NEW T \in SUBSET Nat, T # {}
    PROVE  \E n \in T : \A m \in T : n <= m
<1>1. PICK n \in T : \A m \in T : ~(<<m, n>> \in OpToRel(<, Nat))
  BY WFMin, NatLessThanWellFounded
<1>2. \A m \in T : ~(m < n)
  BY <1>1 DEF OpToRel
<1> QED
  BY <1>2

(* Max and Min of the community modules choose what they are named after.  *)
LEMMA MaxIsLargest ==
    ASSUME NEW k \in Nat, NEW T \in SUBSET (0..k), T # {}
    PROVE  Max(T) \in T /\ \A n \in T : n <= Max(T)
<1> DEFINE U == {k - n : n \in T}
<1>1. U \in SUBSET Nat /\ U # {}
  <2>1. \A n \in T : n \in Nat /\ k - n \in Nat
    OBVIOUS
  <2> QED
    BY <2>1
<1>2. PICK u \in U : \A v \in U : u <= v
  BY <1>1, LeastNumber
<1>3. PICK n \in T : u = k - n
  BY <1>2
<1>4. \A m \in T : n >= m
  BY <1>2, <1>3
<1> QED
  BY <1>3, <1>4 DEF Max

(* and Min the least of some numbers.                                      *)
LEMMA MinIsLeast ==
    ASSUME NEW T \in SUBSET Nat, T # {}
    PROVE  Min(T) \in T /\ \A n \in T : Min(T) <= n
<1>1. PICK least \in T : \A n \in T : least <= n
  BY LeastNumber
<1> QED
  BY <1>1 DEF Min

(* The same of two numbers.                                                *)
LEMMA MinOfTwo ==
    ASSUME NEW a \in Nat, NEW b \in Nat
    PROVE  Min({a, b}) = IF a <= b THEN a ELSE b
<1>1. \E x \in {a, b} : \A y \in {a, b} : x <= y
  OBVIOUS
<1>2. Min({a, b}) \in {a, b} /\ \A y \in {a, b} : Min({a, b}) <= y
  BY <1>1 DEF Min
<1> QED
  BY <1>2

-----------------------------------------------------------------------------
(* A function on 0..k defined by recursion goes from e by steps within X.  *)
StepsWithin(st, k, X) == st \in [1..k -> [X -> X]]
IsFold(g, e, k, st, X) ==
    /\ g \in [0..k -> X]
    /\ g[0] = e /\ \A n \in 1..k : g[n] = st[n][g[n - 1]]

(* As the equations of a recursive definition read: they hold as long as   *)
(* what they step from is in X.                                            *)
StepsFrom(g, e, k, st, X) ==
    /\ g[0] = e
    /\ \A n \in 1..k : g[n - 1] \in X => g[n] = st[n][g[n - 1]]

(* There is such a function: a first length without one could be reached.  *)
LEMMA FoldExists ==
    ASSUME NEW X, NEW e \in X, NEW k \in Nat, NEW st, StepsWithin(st, k, X)
    PROVE  \E g : IsFold(g, e, k, st, X)
<1> USE DEF StepsWithin
<1> SUFFICES \E g \in [0..k -> X] : g[0] = e /\ \A n \in 1..k : g[n] = st[n][g[n - 1]]
  BY DEF IsFold
<1> DEFINE G(m, g) == g[0] = e /\ \A n \in 1..m : g[n] = st[n][g[n - 1]]
           Bad == {m \in 0..k : ~\E g \in [0..m -> X] : G(m, g)}
<1> SUFFICES ASSUME Bad # {} PROVE FALSE
  <2>1. k \in 0..k
    OBVIOUS
  <2> QED
    BY <2>1
<1>1. PICK m \in Bad : \A l \in Bad : m <= l
  <2>1. Bad \in SUBSET Nat
    OBVIOUS
  <2> HIDE DEF Bad
  <2> QED
    BY <2>1, LeastNumber
<1>2. m # 0
  <2>1. [n \in 0..0 |-> e] \in [0..0 -> X] /\ G(0, [n \in 0..0 |-> e])
    OBVIOUS
  <2> QED
    BY <1>1, <2>1
<1>3. PICK g \in [0..m - 1 -> X] : G(m - 1, g)
  <2>1. m \in 0..k /\ m - 1 \in 0..k /\ ~(m <= m - 1)
    BY <1>1, <1>2
  <2>2. m - 1 \notin Bad
    BY <1>1, <2>1
  <2> QED
    BY <2>1, <2>2
<1> DEFINE h == [n \in 0..m |-> IF n = m THEN st[m][g[m - 1]] ELSE g[n]]
<1>4. h \in [0..m -> X]
  BY <1>1, <1>2
<1>5. G(m, h)
  <2>1. h[0] = e
    BY <1>1, <1>2, <1>3
  <2>2. ASSUME NEW n \in 1..m
        PROVE  h[n] = st[n][h[n - 1]]
    <3>1. h[n - 1] = g[n - 1]
      BY <1>1, <1>2, <2>2
    <3>2. CASE n = m
      <4>1. h[m] = st[m][g[m - 1]]
        BY <1>1
      <4> QED
        BY <3>1, <3>2, <4>1
    <3>3. CASE n # m
      <4>1. n \in 1..m - 1 /\ h[n] = g[n]
        BY <1>1, <2>2, <3>3
      <4> QED
        BY <1>3, <3>1, <4>1
    <3> QED
      BY <3>2, <3>3
  <2> QED
    BY <2>1, <2>2
<1> QED
  BY <1>1, <1>4, <1>5

(* Two of them are the same, and stay in X.                                *)
LEMMA FoldUnique ==
    ASSUME NEW X, NEW e \in X, NEW k \in Nat, NEW st, StepsWithin(st, k, X),
           NEW g, StepsFrom(g, e, k, st, X), NEW h, StepsFrom(h, e, k, st, X)
    PROVE  \A n \in 0..k : g[n] \in X /\ h[n] = g[n]
<1> USE DEF StepsWithin, StepsFrom
<1> DEFINE Bad == {n \in 0..k : ~(g[n] \in X /\ h[n] = g[n])}
<1> SUFFICES ASSUME Bad # {} PROVE FALSE
  OBVIOUS
<1>1. PICK m \in Bad : \A l \in Bad : m <= l
  <2>1. Bad \in SUBSET Nat
    OBVIOUS
  <2> HIDE DEF Bad
  <2> QED
    BY <2>1, LeastNumber
<1>2. m # 0
  BY <1>1
<1>3. m - 1 \in 0..k /\ m \in 1..k /\ m - 1 \notin Bad
  BY <1>1, <1>2
<1>4. g[m - 1] \in X /\ h[m - 1] = g[m - 1]
  BY <1>3
<1>5. g[m] = st[m][g[m - 1]] /\ h[m] = g[m]
  BY <1>3, <1>4
<1>6. st[m][g[m - 1]] \in X
  BY <1>3, <1>4
<1> QED
  BY <1>1, <1>5, <1>6

(* Two functions that start alike and step alike are alike.                *)
StepAlike(c, h, k) ==
    c[0] = h[0] /\ \A n \in 1..k : c[n - 1] = h[n - 1] => c[n] = h[n]

(* The same argument without a set to stay in.                             *)
LEMMA SameSteps ==
    ASSUME NEW k \in Nat, NEW c, NEW h, StepAlike(c, h, k)
    PROVE  \A n \in 0..k : c[n] = h[n]
<1> USE DEF StepAlike
<1> DEFINE Bad == {n \in 0..k : c[n] # h[n]}
<1> SUFFICES ASSUME Bad # {} PROVE FALSE
  OBVIOUS
<1>1. PICK m \in Bad : \A l \in Bad : m <= l
  <2>1. Bad \in SUBSET Nat
    OBVIOUS
  <2> HIDE DEF Bad
  <2> QED
    BY <2>1, LeastNumber
<1>2. m # 0
  BY <1>1
<1>3. m - 1 \in 0..k /\ m \in 1..k /\ m - 1 \notin Bad
  BY <1>1, <1>2
<1> QED
  BY <1>1, <1>3

-----------------------------------------------------------------------------
(* Clean paths.                                                            *)

Proper == Names \ {".", ".."}

(* Front of a sequence that is not empty.                                  *)
LEMMA FrontType ==
    ASSUME NEW X, NEW s \in Seq(X), s # <<>>
    PROVE  Front(s) \in Seq(X) /\ Front(s) = SubSeq(s, 1, Len(s) - 1)
<1>1. Len(s) \in Nat /\ Len(s) # 0
  BY LenProperties, EmptySeq
<1>2. SubSeq(s, 1, Len(s) - 1) \in Seq(X)
  BY <1>1, SubSeqProperties
<1> QED
  BY <1>2 DEF Front

(* As long as no ".." stays, a step cleans a name away as walking does.    *)
LEMMA StepWalks ==
    ASSUME NEW clean \in Seq(Proper), NEW name \in Names
    PROVE  Step(TRUE, clean, name) = Walked(clean, name) /\ Walked(clean, name) \in Seq(Proper)
<1>1. CASE name = "."
  BY <1>1 DEF Step, Walked
<1>2. CASE name = ".." /\ clean = <<>>
  <2>1. SubSeq(clean, 1, Len(clean) - 1) = <<>>
    BY <1>2, SubSeqEmpty, EmptySeq
  <2> QED
    BY <1>2, <2>1 DEF Step, Walked
<1>3. CASE name = ".." /\ clean # <<>>
  <2>1. Len(clean) \in 1..Len(clean)
    BY <1>3, LenProperties, EmptySeq
  <2>2. clean[Len(clean)] \in Proper
    BY <2>1, ElementOfSeq
  <2>3. clean[Len(clean)] # ".."
    BY <2>2 DEF Proper
  <2> QED
    BY <1>3, <2>3, FrontType DEF Step, Walked
<1>4. CASE name # "." /\ name # ".."
  <2>1. name \in Proper
    BY <1>4 DEF Proper
  <2>2. Append(clean, name) = clean \o <<name>> /\ Append(clean, name) \in Seq(Proper)
    BY <2>1, AppendIsConcat, AppendProperties
  <2> QED
    BY <1>4, <2>2 DEF Step, Walked
<1> QED
  BY <1>1, <1>2, <1>3, <1>4

(* Cleaning an absolute path leads where walking it does, and leaves no    *)
(* name that is not one of a file or directory.                            *)
LEMMA CleanIsPlace ==
    ASSUME NEW names \in Seq(Names)
    PROVE  LET p == Path(TRUE, names)
           IN Clean(p) = Path(TRUE, Place(p)) /\ Place(p) \in Seq(Proper)
<1> DEFINE p == Path(TRUE, names)
           k == Len(names)
           X == Seq(Proper)
           st == [n \in 1..k |-> [clean \in X |-> Walked(clean, names[n])]]
<1>1. k \in Nat /\ <<>> \in X /\ \A n \in 1..k : names[n] \in Names
  BY LenProperties, ElementOfSeq, EmptySeq
<1>2. StepsWithin(st, k, X)
  BY <1>1, StepWalks DEF StepsWithin
<1>3. PICK g : IsFold(g, <<>>, k, st, X)
  <2> HIDE DEF st, X, k
  <2> QED
    BY <1>1, <1>2, FoldExists
<1>4. ASSUME NEW n \in 1..k
      PROVE  g[n - 1] \in X /\ g[n] = Walked(g[n - 1], names[n])
  <2>1. n - 1 \in 0..k
    BY <1>1
  <2>2. g[n - 1] \in X
    BY <1>3, <2>1 DEF IsFold
  <2>3. st[n][g[n - 1]] = Walked(g[n - 1], names[n])
    BY <2>2
  <2>4. g[n] = st[n][g[n - 1]]
    BY <1>3 DEF IsFold
  <2> QED
    BY <2>2, <2>3, <2>4
<1> DEFINE c == CHOOSE c : c = [n \in 0..Len(p.names) |->
                    IF n = 0 THEN <<>> ELSE Step(p.abs, c[n - 1], p.names[n])]
           d == CHOOSE d : d = [n \in 0..Len(p.names) |->
                    IF n = 0 THEN <<>> ELSE Walked(d[n - 1], p.names[n])]
<1>5. Clean(p) = Path(TRUE, c[k]) /\ Place(p) = d[k] /\ p.names = names /\ p.abs = TRUE
  BY DEF Clean, Place, Path
<1>6. \A n \in 0..k : n # 0 => n \in 1..k
  BY <1>1
<1>7. g = [n \in 0..Len(p.names) |-> IF n = 0 THEN <<>> ELSE Step(p.abs, g[n - 1], p.names[n])]
  <2>1. \A n \in 0..k : g[n] = IF n = 0 THEN <<>> ELSE Step(TRUE, g[n - 1], names[n])
    BY <1>1, <1>3, <1>4, <1>6, StepWalks DEF IsFold
  <2> QED
    BY <1>3, <1>5, <2>1 DEF IsFold
<1>8. g = [n \in 0..Len(p.names) |-> IF n = 0 THEN <<>> ELSE Walked(g[n - 1], p.names[n])]
  <2>1. \A n \in 0..k : g[n] = IF n = 0 THEN <<>> ELSE Walked(g[n - 1], names[n])
    BY <1>3, <1>4, <1>6 DEF IsFold
  <2> QED
    BY <1>3, <1>5, <2>1 DEF IsFold
<1>9. c = [n \in 0..Len(p.names) |-> IF n = 0 THEN <<>> ELSE Step(p.abs, c[n - 1], p.names[n])]
  BY <1>7, Zenon
<1>10. d = [n \in 0..Len(p.names) |-> IF n = 0 THEN <<>> ELSE Walked(d[n - 1], p.names[n])]
  BY <1>8, Zenon
<1> HIDE DEF c, d, p
<1>11. StepsFrom(c, <<>>, k, st, X)
  <2>1. ASSUME NEW n \in 1..k
        PROVE  n \in 0..Len(p.names) /\ n # 0
    BY <1>1, <1>5
  <2>2. \A n \in 1..k : c[n] = Step(TRUE, c[n - 1], names[n])
    BY <1>5, <1>9, <2>1
  <2>3. c[0] = <<>>
    BY <1>1, <1>5, <1>9
  <2> QED
    BY <1>1, <2>2, <2>3, StepWalks DEF StepsFrom
<1>12. StepsFrom(d, <<>>, k, st, X)
  <2>1. ASSUME NEW n \in 1..k
        PROVE  n \in 0..Len(p.names) /\ n # 0
    BY <1>1, <1>5
  <2>2. \A n \in 1..k : d[n] = Walked(d[n - 1], names[n])
    BY <1>5, <1>10, <2>1
  <2>3. d[0] = <<>>
    BY <1>1, <1>5, <1>10
  <2> QED
    BY <2>2, <2>3 DEF StepsFrom
<1>13. k \in 0..k
  BY <1>1
<1>14. c[k] \in X /\ d[k] = c[k]
  <2> HIDE DEF st, X, k
  <2> QED
    BY <1>1, <1>2, <1>11, <1>12, <1>13, FoldUnique
<1> QED
  BY <1>5, <1>14 DEF p

(* The common beginning of two paths is all of the first just when that is *)
(* a prefix of the second.                                                 *)
LEMMA CommonPrefix ==
    ASSUME NEW X, NEW s \in Seq(X), NEW t \in Seq(X)
    PROVE  /\ Common(s, t) \in 0..Len(s)
           /\ Common(s, t) \in 0..Len(t)
           /\ Common(s, t) = Len(s) <=> IsPrefix(s, t)
<1> DEFINE k == Min({Len(s), Len(t)})
           T == {n \in 0..k : SubSeq(s, 1, n) = SubSeq(t, 1, n)}
<1>1. Len(s) \in Nat /\ Len(t) \in Nat
  BY LenProperties
<1>2. k = IF Len(s) <= Len(t) THEN Len(s) ELSE Len(t)
  BY <1>1, MinOfTwo
<1> HIDE DEF k
<1>3. k \in Nat /\ k <= Len(s) /\ k <= Len(t)
  BY <1>1, <1>2
<1>4. 0 \in T
  <2>1. SubSeq(s, 1, 0) = <<>> /\ SubSeq(t, 1, 0) = <<>>
    BY SubSeqEmpty
  <2> QED
    BY <1>3, <2>1
<1>5. Max(T) \in T /\ \A n \in T : n <= Max(T)
  <2>1. T \in SUBSET (0..k)
    OBVIOUS
  <2> HIDE DEF T
  <2> QED
    BY <1>3, <1>4, <2>1, MaxIsLargest
<1>6. Common(s, t) = Max(T)
  BY DEF Common, k
<1>7. Max(T) \in 0..k /\ SubSeq(s, 1, Max(T)) = SubSeq(t, 1, Max(T))
  BY <1>5
<1>8. ASSUME IsPrefix(s, t)
      PROVE  Max(T) = Len(s)
  <2>1. Len(s) \in T
    BY <1>1, <1>2, <1>8 DEF IsPrefix
  <2> QED
    BY <1>1, <1>3, <1>5, <1>7, <2>1
<1>9. ASSUME Max(T) = Len(s)
      PROVE  IsPrefix(s, t)
  <2> HIDE DEF T
  <2>1. SubSeq(s, 1, Len(s)) = SubSeq(t, 1, Len(s)) /\ Len(s) \in 0..k
    BY <1>7, <1>9
  <2>2. Len(s) <= Len(t)
    BY <1>1, <1>3, <2>1
  <2> QED
    BY <2>1, <2>2 DEF IsPrefix
<1> QED
  BY <1>1, <1>3, <1>6, <1>7, <1>8, <1>9

(* No ".." is left among such names.                                       *)
LEMMA ProperNames ==
    ASSUME NEW s \in Seq(Proper), NEW i \in 1..Len(s)
    PROVE  s[i] # ".."
<1>1. s[i] \in Proper
  BY ElementOfSeq
<1> QED
  BY <1>1 DEF Proper

(* With no ".." left, Rel starts with one just where it leaves the base.   *)
LEMMA RelStaysBelow ==
    ASSUME NEW s \in Seq(Proper), NEW t \in Seq(Proper)
    PROVE  LET rel == Rel(Path(TRUE, s), Path(TRUE, t))
           IN (rel = <<>> \/ rel[1] # "..") <=> IsPrefix(s, t)
<1> DEFINE n == Common(s, t)
           up == [i \in 1..Len(s) - n |-> ".."]
           down == SubSeq(t, n + 1, Len(t))
           rel == Rel(Path(TRUE, s), Path(TRUE, t))
<1>1. rel = up \o down
  BY DEF Rel, Path
<1>2. n \in 0..Len(s) /\ n \in 0..Len(t) /\ (n = Len(s) <=> IsPrefix(s, t))
  BY CommonPrefix
<1>3. Len(s) \in Nat /\ Len(t) \in Nat
  BY LenProperties
<1> HIDE DEF n
<1>4. down \in Seq(Proper) /\ Len(down) = Len(t) - n
      /\ \A i \in 1..Len(t) - n : down[i] = t[n + i]
  BY <1>2, <1>3, SubSeqProperties
<1>5. up \in Seq({".."}) /\ Len(up) = Len(s) - n
  BY <1>2, <1>3, IsASeq
<1>6. \A i \in 1..Len(s) - n : up[i] = ".."
  OBVIOUS
<1> HIDE DEF up, down, rel
<1>7. CASE n = Len(s)
  <2>1. up = <<>>
    BY <1>3, <1>5, <1>7, EmptySeq
  <2>2. rel = down
    BY <1>1, <1>4, <2>1, ConcatEmptySeq
  <2>3. ASSUME down # <<>>
        PROVE  down[1] # ".."
    <3>1. 1 \in 1..Len(down)
      BY <1>2, <1>3, <1>4, <2>3, EmptySeq
    <3> QED
      BY <1>4, <3>1, ProperNames
  <2> QED
    BY <1>2, <1>7, <2>2, <2>3 DEF rel
<1>8. CASE n # Len(s)
  <2>1. 1 \in 1..Len(s) - n /\ 1 \in 1..Len(up)
    BY <1>2, <1>3, <1>5, <1>8
  <2>2. up \in Seq(Proper \cup {".."}) /\ down \in Seq(Proper \cup {".."})
    BY <1>4, <1>5, SeqMonotonic
  <2>3. Len(up \o down) = Len(up) + Len(down) /\ (up \o down)[1] = up[1]
    BY <2>1, <2>2, ConcatProperties
  <2>4. up[1] = ".."
    BY <1>6, <2>1
  <2>5. up \o down # <<>>
    <3>1. Len(up \o down) # 0
      BY <1>2, <1>3, <1>4, <1>5, <1>8, <2>3
    <3> QED
      BY <3>1, EmptySeq
  <2> QED
    BY <1>1, <1>2, <1>8, <2>3, <2>4, <2>5 DEF rel
<1> QED
  BY <1>7, <1>8

(* The paths the rails are asked about, and those of the configuration.    *)
AbsolutePaths == {Path(TRUE, names) : names \in Seq(Names)}
RelativePaths == {Path(FALSE, names) : names \in Seq(Names)}

(* One root of the allowlist: under it is at its place or below, and       *)
(* nothing is under a relative one.                                        *)
LEMMA UnderIsBelow ==
    ASSUME NEW path \in AbsolutePaths, NEW root \in AbsolutePaths \cup RelativePaths
    PROVE  Under(path, Clean(root)) <=> root.abs /\ IsPrefix(Place(root), Place(path))
<1>1. /\ path.abs = TRUE /\ Clean(path) = Path(TRUE, Place(path))
      /\ Place(path) \in Seq(Proper)
  <2>1. PICK names \in Seq(Names) : path = Path(TRUE, names)
    BY DEF AbsolutePaths
  <2>2. path.abs = TRUE
    BY <2>1 DEF Path
  <2> QED
    BY <2>1, <2>2, CleanIsPlace
<1>2. CASE root \in AbsolutePaths
  <2>1. /\ root.abs = TRUE /\ Clean(root) = Path(TRUE, Place(root))
        /\ Place(root) \in Seq(Proper)
    <3>1. PICK names \in Seq(Names) : root = Path(TRUE, names)
      BY <1>2 DEF AbsolutePaths
    <3>2. root.abs = TRUE
      BY <3>1 DEF Path
    <3> QED
      BY <3>1, <3>2, CleanIsPlace
  <2> DEFINE s == Place(root)
             t == Place(path)
  <2>2. CanRelate(Path(TRUE, s), Path(TRUE, t))
    <3> HIDE DEF s, t
    <3>1. \A i \in Common(s, t) + 1..Len(s) : i \in 1..Len(s)
      BY <1>1, <2>1, CommonPrefix, LenProperties DEF s, t
    <3> QED
      BY <2>1, <3>1, ProperNames DEF CanRelate, Path, s
  <2>3. LET rel == Rel(Path(TRUE, s), Path(TRUE, t))
        IN (rel = <<>> \/ rel[1] # "..") <=> IsPrefix(s, t)
    BY <1>1, <2>1, RelStaysBelow
  <2> QED
    BY <1>1, <2>1, <2>2, <2>3 DEF Under
<1>3. CASE root \in RelativePaths
  <2>1. Clean(root).abs = FALSE /\ root.abs = FALSE /\ Clean(path).abs = TRUE
    BY <1>1, <1>3 DEF RelativePaths, Clean, Path
  <2>2. ~CanRelate(Clean(root), Clean(path))
    BY <2>1 DEF CanRelate
  <2> QED
    BY <2>1, <2>2 DEF Under
<1> QED
  BY <1>2, <1>3

(* The inputs of the run are among the sequences the theorems speak of.    *)
LEMMA ShortSequences ==
    ASSUME NEW X, NEW k \in Nat, NEW s \in SeqOf(X, k)
    PROVE  s \in Seq(X) /\ Len(s) <= k
<1>1. PICK n \in 0..k : s \in [1..n -> X]
  BY DEF SeqOf
<1>2. s \in Seq(X) /\ Len(s) = n
  <2>1. s = [i \in 1..n |-> s[i]] /\ \A i \in 1..n : s[i] \in X
    BY <1>1
  <2> QED
    BY <1>1, <2>1, IsASeq
<1> QED
  BY <1>1, <1>2

(* So are its paths and roots.                                             *)
LEMMA PathsOfNames ==
    /\ \A p \in Paths : p.abs => p \in AbsolutePaths
    /\ Roots \subseteq AbsolutePaths \cup RelativePaths
<1>1. ASSUME NEW k \in Nat, NEW abs \in BOOLEAN, NEW names \in SeqOf(Names, k)
      PROVE  /\ Path(abs, names) \in AbsolutePaths \cup RelativePaths
             /\ Path(abs, names).abs = abs
             /\ abs => Path(abs, names) \in AbsolutePaths
  <2>1. names \in Seq(Names)
    BY ShortSequences
  <2>2. Path(abs, names).abs = abs
    BY DEF Path
  <2>3. CASE abs = TRUE
    BY <2>1, <2>2, <2>3 DEF AbsolutePaths
  <2>4. CASE abs = FALSE
    BY <2>1, <2>2, <2>4 DEF RelativePaths
  <2> QED
    BY <2>3, <2>4
<1>2. 2 \in Nat
  OBVIOUS
<1>3. \A p \in Paths : p.abs => p \in AbsolutePaths
  BY <1>1, DepthAssumption DEF Paths
<1>4. \A r \in Roots : r \in AbsolutePaths \cup RelativePaths
  BY <1>1, <1>2 DEF Roots
<1> QED
  BY <1>3, <1>4

(* The allowlist is exact: WithinAllowedRoot lets an absolute path through *)
(* just when walking it ends at an allowed root or below, whatever "." and *)
(* ".." either contains.                                                   *)
THEOREM AllowlistExact ==
    ASSUME NEW path \in AbsolutePaths, NEW roots \in SUBSET (AbsolutePaths \cup RelativePaths)
    PROVE  AllowlistExactFor(path, roots)
  BY UnderIsBelow DEF AllowlistExactFor, WithinAllowedRoot

(* An extension without a dot inside that is listed protects every file    *)
(* whose name ends in it.                                                  *)
THEOREM ListedIsProtected ==
    ASSUME NEW X, NEW file \in Seq(X), NEW extensions, \A e \in extensions : e \in Seq(X) /\ Len(e) <= 1
    PROVE  ListedIsProtectedFor(file, extensions)
<1> SUFFICES ASSUME NEW e \in extensions, e # <<>>, Len(file) > Len(e), IsSuffix(e, file)
             PROVE  Ext(file) \in extensions
  BY DEF ListedIsProtectedFor, IsProtectedExt
<1>1. e \in Seq(X) /\ Len(e) <= 1
  OBVIOUS
<1>2. Len(e) \in Nat /\ Len(e) # 0 /\ Len(file) \in Nat
  BY <1>1, LenProperties, EmptySeq
<1>3. Len(e) = 1 /\ Len(file) > 1
  <2>1. \A l \in Nat : l # 0 /\ l <= 1 => l = 1
    OBVIOUS
  <2>2. Len(e) = 1
    BY <1>1, <1>2, <2>1
  <2>3. Len(file) > Len(e)
    OBVIOUS
  <2> QED
    BY <2>2, <2>3
<1>4. Len(Reverse(e)) = 1 /\ Reverse(e)[1] = e[1] /\ Reverse(e) \in Seq(X)
  <2>1. \A j \in 1..1 : e[(1 - j) + 1] = e[1] /\ e[1] \in X
    BY <1>1, <1>3, ElementOfSeq
  <2>2. Reverse(e) = [j \in 1..1 |-> e[1]]
    BY <1>3, <2>1 DEF Reverse
  <2> QED
    BY <2>1, <2>2, IsASeq
<1>5. Reverse(file) \in Seq(X) /\ Len(Reverse(file)) = Len(file)
      /\ Reverse(file)[1] = file[Len(file)]
  <2>1. \A j \in 1..Len(file) : (Len(file) - j) + 1 \in 1..Len(file)
    BY <1>2
  <2>2. \A j \in 1..Len(file) : file[(Len(file) - j) + 1] \in X
    BY <2>1, ElementOfSeq
  <2>3. Len(file) \in Nat /\ (Len(file) - 1) + 1 = Len(file) /\ 1 \in 1..Len(file)
    BY <1>2, <1>3
  <2> QED
    BY <2>2, <2>3, IsASeq DEF Reverse
<1>6. SubSeq(Reverse(e), 1, 1) = SubSeq(Reverse(file), 1, 1)
  BY <1>3, <1>4 DEF IsSuffix, IsPrefix
<1>7. SubSeq(Reverse(e), 1, 1)[1] = e[1] /\ SubSeq(Reverse(file), 1, 1)[1] = file[Len(file)]
  <2> DEFINE a == Reverse(e)
             b == Reverse(file)
  <2> HIDE DEF a, b
  <2>1. SubSeq(a, 1, 1)[1] = a[1]
    BY <1>4, SubSeqProperties DEF a
  <2>2. SubSeq(b, 1, 1)[1] = b[1]
    BY <1>3, <1>5, SubSeqProperties DEF b
  <2> QED
    BY <1>4, <1>5, <2>1, <2>2 DEF a, b
<1>8. e = <<e[1]>>
  BY <1>1, <1>3
<1> QED
  BY <1>3, <1>6, <1>7, <1>8 DEF Ext

(* Every answer of the two rails, for every absolute path and every root,  *)
(* and for every file and every extension without a dot inside.            *)
THEOREM RailsAlwaysExact == Spec => []RailsExact
<1>1. Init => RailsExact
  BY DEF Init, RailsExact
<1>2. Next => RailsExact'
  <2> SUFFICES ASSUME Next PROVE RailsExact'
    OBVIOUS
  <2>1. CASE AskPath
    <3>1. PICK p \in {q \in Paths : q.abs}, r \in Roots :
               call' = [of |-> "path", path |-> p, roots |-> {r}]
      BY <2>1 DEF AskPath
    <3>2. p \in AbsolutePaths /\ {r} \in SUBSET (AbsolutePaths \cup RelativePaths)
      BY <3>1, PathsOfNames
    <3>3. AllowlistExactFor(p, {r})
      BY <3>2, AllowlistExact
    <3> QED
      BY <3>1, <3>3 DEF RailsExact
  <2>2. CASE AskFile
    <3>1. PICK f \in SeqOf({"film", "en", "srt"}, 3), e \in SeqOf({"en", "srt"}, 1) :
               call' = [of |-> "file", file |-> f, extensions |-> {e}]
      BY <2>2 DEF AskFile
    <3> DEFINE X == {"film", "en", "srt"}
    <3>2. f \in Seq(X) /\ e \in Seq(X) /\ Len(e) <= 1
      <4>1. f \in Seq(X) /\ e \in Seq({"en", "srt"}) /\ Len(e) <= 1
        BY <3>1, ShortSequences
      <4> QED
        BY <4>1, SeqMonotonic
    <3> HIDE DEF X
    <3>3. ListedIsProtectedFor(f, {e})
      BY <3>2, ListedIsProtected
    <3> QED
      BY <3>1, <3>3 DEF RailsExact
  <2>3. CASE call'.of \notin {"path", "file"}
    BY <2>3 DEF RailsExact
  <2>4. CASE LoadConfig
    BY <2>3, <2>4 DEF LoadConfig
  <2>5. CASE CutText
    BY <2>3, <2>5 DEF CutText
  <2>6. CASE BucketAge
    BY <2>3, <2>6 DEF BucketAge
  <2>7. CASE DedupeTexts
    <3>1. PICK s : call' = [of |-> "dedupe", texts |-> s]
      BY <2>7, Zenon DEF DedupeTexts
    <3> QED
      BY <2>3, <3>1
  <2>8. CASE ParseAnswer
    BY <2>3, <2>8 DEF ParseAnswer
  <2> QED
    BY <2>1, <2>2, <2>4, <2>5, <2>6, <2>7, <2>8 DEF Next
<1>3. RailsExact /\ UNCHANGED call => RailsExact'
  BY DEF RailsExact
<1> QED
  BY <1>1, <1>2, <1>3, PTL DEF Spec

-----------------------------------------------------------------------------
(* The configurations of given models, instances and roots.                *)
Raw(models, lists, flags, sets) ==
    [numbers : [Numbers -> Int], model : models, queueModel : models, orphanModel : models,
     instances : lists, apiKey : flags, deleteEnabled : flags, trashDataset : flags,
     allowedRoots : sets]

Replaced(raw, n, m, o, q) ==
    [raw EXCEPT !.numbers = n, !.model = m, !.orphanModel = o, !.queueModel = q]

(* The four fields ApplyDefaults sets, and the five it leaves alone.       *)
LEMMA FourReplaced ==
    ASSUME NEW models, NEW lists, NEW flags, NEW sets,
           NEW raw \in Raw(models, lists, flags, sets),
           NEW n, NEW m, NEW o, NEW q
    PROVE  Replaced(raw, n, m, o, q) =
               [numbers |-> n, model |-> m, queueModel |-> q, orphanModel |-> o,
                instances |-> raw.instances, apiKey |-> raw.apiKey,
                deleteEnabled |-> raw.deleteEnabled, trashDataset |-> raw.trashDataset,
                allowedRoots |-> raw.allowedRoots]
<1> DEFINE e == Replaced(raw, n, m, o, q)
<1>1. e \in [numbers : {n}, model : {m}, queueModel : {q}, orphanModel : {o},
             instances : {raw.instances}, apiKey : {raw.apiKey},
             deleteEnabled : {raw.deleteEnabled}, trashDataset : {raw.trashDataset},
             allowedRoots : {raw.allowedRoots}]
  BY DEF Raw, Replaced
<1> HIDE DEF e
<1>2. e = [numbers |-> n, model |-> m, queueModel |-> q, orphanModel |-> o,
           instances |-> raw.instances, apiKey |-> raw.apiKey,
           deleteEnabled |-> raw.deleteEnabled, trashDataset |-> raw.trashDataset,
           allowedRoots |-> raw.allowedRoots]
  BY <1>1
<1> QED
  BY <1>2 DEF e

(* Defaults leave nothing to default.                                      *)
LEMMA DefaultsSettle ==
    ASSUME NEW models, NEW lists, NEW flags, NEW sets,
           NEW raw \in Raw(models, lists, flags, sets)
    PROVE  LET cfg == ApplyDefaults(raw)
           IN  /\ ApplyDefaults(cfg) = cfg
               /\ Unset \notin {cfg.model, cfg.orphanModel, cfg.queueModel}
               /\ \A f \in Numbers : raw.numbers[f] >= 0 => cfg.numbers[f] > 0
<1> DEFINE cfg == ApplyDefaults(raw)
           numbers == [f \in Numbers |-> IF raw.numbers[f] = 0 THEN Default[f] ELSE raw.numbers[f]]
           model == IF raw.model # Unset THEN raw.model ELSE "sonnet"
           queue == IF raw.queueModel # Unset THEN raw.queueModel ELSE "haiku"
           orphan == OrphanModel(raw)
<1>1. raw \in Raw(models, lists, flags, sets)
  OBVIOUS
<1>2. cfg = [numbers |-> numbers, model |-> model, queueModel |-> queue, orphanModel |-> orphan,
             instances |-> raw.instances, apiKey |-> raw.apiKey,
             deleteEnabled |-> raw.deleteEnabled, trashDataset |-> raw.trashDataset,
             allowedRoots |-> raw.allowedRoots]
  <2>1. cfg = Replaced(raw, numbers, model, orphan, queue)
    BY DEF ApplyDefaults, Replaced
  <2> HIDE DEF cfg, numbers, model, queue, orphan
  <2> QED
    BY <2>1, FourReplaced
<1>3. model # Unset /\ queue # Unset /\ orphan # Unset
  BY DEF Unset, OrphanModel
<1>4. ASSUME NEW f \in Numbers
      PROVE  numbers[f] \in Int /\ numbers[f] # 0 /\ (raw.numbers[f] >= 0 => numbers[f] > 0)
  <2>1. raw.numbers[f] \in Int /\ Default[f] \in Nat /\ Default[f] # 0
    BY <1>1, DefaultsAssumption DEF Raw
  <2> QED
    BY <2>1
<1> HIDE DEF model, queue, orphan
<1>5. [f \in Numbers |-> IF numbers[f] = 0 THEN Default[f] ELSE numbers[f]] = numbers
  <2>1. \A f \in Numbers : (IF numbers[f] = 0 THEN Default[f] ELSE numbers[f]) = numbers[f]
    BY <1>4
  <2> QED
    BY <2>1
<1>6. cfg \in Raw({model, queue, orphan}, {raw.instances}, {raw.apiKey, raw.deleteEnabled,
                 raw.trashDataset}, {raw.allowedRoots})
  <2>1. numbers \in [Numbers -> Int]
    BY <1>4
  <2> HIDE DEF cfg, numbers
  <2> QED
    BY <1>2, <2>1 DEF Raw
<1> HIDE DEF numbers
<1>7. OrphanModel(cfg) = orphan
  BY <1>2, <1>3 DEF OrphanModel
<1> HIDE DEF cfg
<1>8. ApplyDefaults(cfg) = cfg
  <2>1. ApplyDefaults(cfg) = Replaced(cfg, numbers, model, orphan, queue)
    BY <1>2, <1>3, <1>5, <1>7 DEF ApplyDefaults, Replaced
  <2> QED
    BY <1>2, <1>6, <2>1, FourReplaced
<1> QED
  BY <1>2, <1>3, <1>4, <1>8 DEF cfg

(* What Load accepts is settled and usable, whatever the configuration: it *)
(* would load to itself, has a model for each triage and no number that is *)
(* zero, and with deletion enabled a bin and an allowlist.                 *)
THEOREM LoadSettles ==
    ASSUME NEW models, NEW lists, NEW flags, NEW sets,
           NEW raw \in Raw(models, lists, flags, sets)
    PROVE  LoadedUsableFor(raw)
<1> DEFINE cfg == ApplyDefaults(raw)
<1>1. CASE Validate(cfg)
  <2>1. Load(raw) = cfg
    BY <1>1 DEF Load
  <2>2. cfg.deleteEnabled => cfg.trashDataset /\ cfg.allowedRoots # {}
    BY <1>1 DEF Validate
  <2>3. /\ ApplyDefaults(cfg) = cfg
        /\ Unset \notin {cfg.model, cfg.orphanModel, cfg.queueModel}
        /\ \A f \in Numbers : raw.numbers[f] >= 0 => cfg.numbers[f] > 0
    BY DefaultsSettle
  <2> HIDE DEF cfg
  <2>4. Load(cfg) = cfg
    BY <1>1, <2>3 DEF Load
  <2> QED
    BY <2>1, <2>2, <2>3, <2>4 DEF LoadedUsableFor
<1>2. CASE ~Validate(cfg)
  BY <1>2 DEF Load, LoadedUsableFor
<1> QED
  BY <1>1, <1>2

(* No configuration is accepted that is not usable.                        *)
THEOREM AlwaysLoadsUsable == Spec => []LoadedUsable
<1>1. Init => LoadedUsable
  BY DEF Init, LoadedUsable
<1>2. Next => LoadedUsable'
  <2> SUFFICES ASSUME Next PROVE LoadedUsable'
    OBVIOUS
  <2>1. CASE LoadConfig
    <3>1. PICK raw \in Configurations : call' = [of |-> "config", raw |-> raw]
      BY <2>1 DEF LoadConfig
    <3>2. raw \in Raw({Unset, "opus"}, Instances, BOOLEAN, {{}, {"tv"}})
      <4>1. \A n \in [Numbers -> -1..1] : n \in [Numbers -> Int]
        OBVIOUS
      <4> HIDE DEF Instances
      <4> QED
        BY <3>1, <4>1 DEF Configurations, Raw
    <3>3. LoadedUsableFor(raw)
      BY <3>2, LoadSettles
    <3> QED
      BY <3>1, <3>3 DEF LoadedUsable
  <2>2. CASE call'.of # "config"
    BY <2>2 DEF LoadedUsable
  <2>3. CASE AskPath
    BY <2>2, <2>3 DEF AskPath
  <2>4. CASE AskFile
    BY <2>2, <2>4 DEF AskFile
  <2>5. CASE CutText
    BY <2>2, <2>5 DEF CutText
  <2>6. CASE BucketAge
    BY <2>2, <2>6 DEF BucketAge
  <2>7. CASE DedupeTexts
    <3>1. PICK s : call' = [of |-> "dedupe", texts |-> s]
      BY <2>7, Zenon DEF DedupeTexts
    <3> QED
      BY <2>2, <3>1
  <2>8. CASE ParseAnswer
    BY <2>2, <2>8 DEF ParseAnswer
  <2> QED
    BY <2>1, <2>3, <2>4, <2>5, <2>6, <2>7, <2>8 DEF Next
<1>3. LoadedUsable /\ UNCHANGED call => LoadedUsable'
  BY DEF LoadedUsable
<1> QED
  BY <1>1, <1>2, <1>3, PTL DEF Spec
-----------------------------------------------------------------------------
(* The bucket of an age never runs ahead of it, lags by less than its unit *)
(* and never falls as time goes by, for every age.                         *)
THEOREM AgesAlwaysSettle ==
    ASSUME NEW hours \in Int
    PROVE  AgesSettle(hours)
<1>1. CASE hours < 0
  BY <1>1 DEF AgesSettle, AgeBucket
<1>2. CASE hours \in 0..24
  BY <1>2 DEF AgesSettle, AgeBucket
<1>3. CASE hours \in 25..168
  BY <1>3 DEF AgesSettle, AgeBucket
<1>4. CASE hours > 168
  BY <1>4 DEF AgesSettle, AgeBucket
<1> QED
  BY <1>1, <1>2, <1>3, <1>4
-----------------------------------------------------------------------------
(* The positions up to n where a text occurs first.                        *)
Once(texts, n) ==
    {m \in 1..n : texts[m] # "" /\ \A l \in 1..m - 1 : texts[l] # texts[m]}
Firsts(texts, n) ==
    [i \in 1..Cardinality(Once(texts, n)) |-> texts[Nth(Once(texts, n), i)]]

(* They are a finite set of numbers, which has places.                     *)
LEMMA OnceFinite ==
    ASSUME NEW texts, NEW n \in Nat
    PROVE  Once(texts, n) \in SUBSET Nat /\ IsFiniteSet(Once(texts, n))
           /\ Once(texts, n) \in SUBSET (1..n)
<1>1. Once(texts, n) \in SUBSET (1..n)
  BY DEF Once
<1>2. 1 \in Int /\ n \in Int
  OBVIOUS
<1>3. IsFiniteSet(1..n)
  BY <1>2, FS_Interval
<1> QED
  BY <1>1, <1>3, FS_Subset

(* What stands in those places.                                            *)
LEMMA FirstsAreTexts ==
    ASSUME NEW X, NEW texts \in Seq(X), NEW n \in 0..Len(texts)
    PROVE  /\ Firsts(texts, n) \in Seq(X)
           /\ Len(Firsts(texts, n)) = Cardinality(Once(texts, n))
           /\ Range(Firsts(texts, n)) = {texts[m] : m \in Once(texts, n)}
<1> DEFINE S == Once(texts, n)
           N == Cardinality(S)
           F == Firsts(texts, n)
<1>1. Len(texts) \in Nat /\ n \in Nat
  BY LenProperties
<1>2. S \in SUBSET Nat /\ IsFiniteSet(S) /\ S \in SUBSET (1..n)
  BY <1>1, OnceFinite
<1> HIDE DEF S
<1>3. /\ N \in Nat
      /\ \A i \in 1..N : Nth(S, i) \in S
      /\ \A x \in S : \E i \in 1..N : Nth(S, i) = x
  BY <1>2, NthEnumerates
<1>4. \A m \in S : texts[m] \in X
  BY <1>1, <1>2, ElementOfSeq
<1>5. F = [i \in 1..N |-> texts[Nth(S, i)]]
  BY DEF Firsts, S
<1> HIDE DEF N, F
<1>6. \A i \in 1..N : texts[Nth(S, i)] \in X
  BY <1>3, <1>4
<1>7. F \in Seq(X) /\ Len(F) = N
  BY <1>3, <1>5, <1>6, IsASeq
<1>8. Range(F) = {texts[Nth(S, i)] : i \in 1..N}
  BY <1>5 DEF Range
<1>9. Range(F) = {texts[m] : m \in S}
  BY <1>3, <1>8
<1> QED
  BY <1>7, <1>9 DEF F, N, S

(* The next text is kept just when it is a first.                          *)
LEMMA FirstsStep ==
    ASSUME NEW X, NEW texts \in Seq(X), NEW n \in 1..Len(texts)
    PROVE  Firsts(texts, n) = Kept(Firsts(texts, n - 1), texts[n])
<1> DEFINE S == Once(texts, n - 1)
           T == Once(texts, n)
           t == texts[n]
           F == Firsts(texts, n - 1)
<1>1. Len(texts) \in Nat /\ n \in Nat /\ n - 1 \in Nat /\ n - 1 \in 0..Len(texts)
      /\ n \in 0..Len(texts)
  BY LenProperties
<1>2. S \in SUBSET Nat /\ IsFiniteSet(S) /\ S \in SUBSET (1..n - 1)
  BY <1>1, OnceFinite
<1>3. F \in Seq(X) /\ Len(F) = Cardinality(S) /\ Range(F) = {texts[m] : m \in S}
  BY <1>1, FirstsAreTexts
<1>4. T = S \cup {m \in {n} : texts[m] # "" /\ \A l \in 1..m - 1 : texts[l] # texts[m]}
  <2>1. 1..n = (1..n - 1) \cup {n}
    BY <1>1
  <2> QED
    BY <2>1 DEF Once
<1>5. CASE t = "" \/ t \in Range(F)
  <2>1. n \notin T
    <3>1. CASE t = ""
      BY <3>1 DEF Once
    <3>2. CASE t \in Range(F)
      <4>1. PICK m \in 1..n - 1 : texts[m] = t
        BY <1>2, <1>3, <3>2
      <4> QED
        BY <4>1 DEF Once
    <3> QED
      BY <1>5, <3>1, <3>2
  <2>2. T = S
    BY <1>4, <2>1
  <2>3. Firsts(texts, n) = F
    BY <2>2 DEF Firsts
  <2> QED
    BY <1>5, <2>3 DEF Kept
<1>6. CASE t # "" /\ t \notin Range(F)
  <2>1. \A l \in 1..n - 1 : texts[l] # t
    <3> DEFINE Same == {l \in 1..n - 1 : texts[l] = t}
    <3> SUFFICES ASSUME Same # {} PROVE FALSE
      OBVIOUS
    <3>1. PICK m \in Same : \A l \in Same : m <= l
      <4>1. Same \in SUBSET Nat
        BY <1>1
      <4> HIDE DEF Same
      <4> QED
        BY <4>1, LeastNumber
    <3>2. \A l \in 1..m - 1 : texts[l] # t
      <4> SUFFICES ASSUME NEW l \in 1..m - 1, texts[l] = t PROVE FALSE
        OBVIOUS
      <4>1. l \in Same /\ ~(m <= l)
        BY <1>1, <3>1
      <4> QED
        BY <3>1, <4>1
    <3>3. m \in S
      BY <1>6, <3>1, <3>2 DEF Once
    <3> QED
      BY <1>3, <1>6, <3>1, <3>3
  <2>2. T = S \cup {n}
    BY <1>4, <1>6, <2>1
  <2>3. \A y \in S : y < n
    BY <1>1, <1>2
  <2> DEFINE N == Cardinality(S)
  <2>4. /\ N \in Nat
        /\ Cardinality(T) = N + 1
        /\ \A i \in 1..N : Nth(T, i) = Nth(S, i)
        /\ Nth(T, N + 1) = n
    <3> HIDE DEF S, T
    <3> QED
      BY <1>1, <1>2, <2>2, <2>3, NthAdded
  <2>5. Append(F, t) \in Seq(X) /\ Len(Append(F, t)) = N + 1 /\ Append(F, t)[N + 1] = t
        /\ \A i \in 1..N : Append(F, t)[i] = F[i]
    <3>1. t \in X
      BY ElementOfSeq
    <3> HIDE DEF F, t
    <3> QED
      BY <1>3, <3>1, AppendProperties
  <2>6. Firsts(texts, n) \in Seq(X) /\ Len(Firsts(texts, n)) = N + 1
    BY <1>1, <2>4, FirstsAreTexts
  <2>7. \A i \in 1..N + 1 : Firsts(texts, n)[i] = texts[Nth(T, i)]
    BY <2>4 DEF Firsts
  <2>8. \A i \in 1..N : F[i] = texts[Nth(S, i)]
    BY DEF Firsts
  <2>9. \A i \in 1..N + 1 : Firsts(texts, n)[i] = Append(F, t)[i]
    <3> HIDE DEF F, S, T, N
    <3>1. \A i \in 1..N + 1 : i \in 1..N \/ i = N + 1
      BY <2>4
    <3> QED
      BY <2>4, <2>5, <2>7, <2>8, <3>1
  <2>10. Firsts(texts, n) = Append(F, t)
    <3> HIDE DEF F, t, N
    <3> QED
      BY <2>5, <2>6, <2>9, SeqEqual
  <2> QED
    BY <1>6, <2>10 DEF Kept
<1> QED
  BY <1>5, <1>6

(* dedupe keeps, in their order, the first of each text that is not empty. *)
THEOREM FirstsAreKept ==
    ASSUME NEW X, NEW texts \in Seq(X)
    PROVE  FirstOnly(texts)
<1> DEFINE k == Len(texts)
           h == [n \in 0..k |-> Firsts(texts, n)]
           c == CHOOSE c : c = [n \in 0..Len(texts) |->
                                    IF n = 0 THEN <<>> ELSE Kept(c[n - 1], texts[n])]
<1>1. k \in Nat /\ \A n \in 0..k : n # 0 => n \in 1..k /\ n - 1 \in 0..k
  BY LenProperties
<1>2. Firsts(texts, 0) = <<>>
  <2>1. Firsts(texts, 0) \in Seq(X) /\ Len(Firsts(texts, 0)) = Cardinality(Once(texts, 0))
    BY <1>1, FirstsAreTexts
  <2>2. Once(texts, 0) = {}
    BY DEF Once
  <2>3. Len(Firsts(texts, 0)) = 0
    BY <2>1, <2>2, FS_EmptySet
  <2> QED
    BY <2>1, <2>3, EmptySeq
<1>3. \A n \in 0..k : h[n] = IF n = 0 THEN <<>> ELSE Kept(h[n - 1], texts[n])
  BY <1>1, <1>2, FirstsStep
<1>4. h = [n \in 0..Len(texts) |-> IF n = 0 THEN <<>> ELSE Kept(h[n - 1], texts[n])]
  BY <1>3
<1>5. c = [n \in 0..Len(texts) |-> IF n = 0 THEN <<>> ELSE Kept(c[n - 1], texts[n])]
  BY <1>4, Zenon
<1>6. Dedupe(texts) = c[k]
  BY DEF Dedupe
<1>7. k \in 0..k /\ h[k] = Firsts(texts, k)
  BY <1>1
<1> HIDE DEF c, h, k
<1>8. StepAlike(c, h, k)
  <2>1. \A n \in 1..k : n \in 0..Len(texts) /\ n # 0
    BY <1>1 DEF k
  <2>2. \A n \in 1..k : c[n] = Kept(c[n - 1], texts[n]) /\ h[n] = Kept(h[n - 1], texts[n])
    BY <1>4, <1>5, <2>1
  <2>3. c[0] = <<>> /\ h[0] = <<>>
    BY <1>1, <1>4, <1>5 DEF k
  <2> QED
    BY <2>2, <2>3 DEF StepAlike
<1>9. c[k] = h[k]
  BY <1>1, <1>7, <1>8, SameSteps
<1>10. Dedupe(texts) = Firsts(texts, Len(texts))
  BY <1>6, <1>7, <1>9 DEF k
<1> QED
  BY <1>10 DEF FirstOnly, Firsts, Once

-----------------------------------------------------------------------------
(* Where runes end.                                                        *)
LEMMA EndsAdd ==
    ASSUME NEW widths \in Seq(Nat)
    PROVE  /\ Ends(widths) \in [0..Len(widths) -> Nat]
           /\ Ends(widths)[0] = 0
           /\ \A n \in 1..Len(widths) : Ends(widths)[n] = Ends(widths)[n - 1] + widths[n]
<1> DEFINE k == Len(widths)
           st == [n \in 1..k |-> [x \in Nat |-> x + widths[n]]]
           c == CHOOSE c : c = [n \in 0..Len(widths) |->
                                    IF n = 0 THEN 0 ELSE c[n - 1] + widths[n]]
<1>1. k \in Nat /\ \A n \in 1..k : widths[n] \in Nat
  BY LenProperties, ElementOfSeq
<1>2. \A n \in 0..k : n # 0 => n \in 1..k /\ n - 1 \in 0..k
  BY <1>1
<1>3. StepsWithin(st, k, Nat)
  BY <1>1 DEF StepsWithin
<1>4. PICK g : IsFold(g, 0, k, st, Nat)
  <2> HIDE DEF st, k
  <2> QED
    BY <1>1, <1>3, FoldExists
<1>5. g = [n \in 0..Len(widths) |-> IF n = 0 THEN 0 ELSE g[n - 1] + widths[n]]
  <2>1. \A n \in 0..k : g[n] = IF n = 0 THEN 0 ELSE g[n - 1] + widths[n]
    BY <1>2, <1>4 DEF IsFold
  <2> QED
    BY <1>4, <2>1 DEF IsFold
<1>6. c = [n \in 0..Len(widths) |-> IF n = 0 THEN 0 ELSE c[n - 1] + widths[n]]
  BY <1>5, Zenon
<1>7. Ends(widths) = c
  BY DEF Ends
<1> HIDE DEF c
<1>8. c[0] = 0 /\ \A n \in 1..k : c[n] = c[n - 1] + widths[n]
  <2>1. \A n \in 1..k : n \in 0..Len(widths) /\ n # 0
    BY <1>1
  <2>2. 0 \in 0..Len(widths)
    BY <1>1
  <2> QED
    BY <1>6, <2>1, <2>2
<1>9. g[0] = 0 /\ \A n \in 1..k : g[n] = g[n - 1] + widths[n]
  <2>1. \A n \in 1..k : n \in 0..Len(widths) /\ n # 0
    BY <1>1
  <2>2. 0 \in 0..Len(widths)
    BY <1>1
  <2> QED
    BY <1>5, <2>1, <2>2
<1>10. StepAlike(c, g, k)
  BY <1>8, <1>9 DEF StepAlike
<1>11. \A n \in 0..k : c[n] = g[n]
  <2> HIDE DEF k
  <2> QED
    BY <1>1, <1>10, SameSteps
<1>12. c \in [0..k -> Nat]
  BY <1>4, <1>6, <1>11 DEF IsFold
<1> QED
  BY <1>7, <1>8, <1>12

(* truncate cuts to whole runes, as many as fit with the ellipsis.         *)
THEOREM CutsFit ==
    ASSUME NEW widths \in Seq(Nat), NEW max \in Int
    PROVE  TruncateFits(widths, max)
<1> DEFINE k == Len(widths)
           end == Ends(widths)
           all == end[k]
           bytes == Bytes(widths)
           cut == IF max < Ellipsis THEN 0 ELSE max - Ellipsis
<1>1. k \in Nat /\ end \in [0..k -> Nat] /\ end[0] = 0
  BY LenProperties, EndsAdd
<1> HIDE DEF end, k
<1>2. all \in Nat
  BY <1>1
<1>3. bytes = [i \in 1..all |-> \E n \in 1..k : end[n - 1] = i - 1]
  BY DEF Bytes, end, k
<1>4. Len(bytes) = all
  BY <1>2, <1>3
<1>5. CASE all <= max
  BY <1>4, <1>5 DEF Truncate, TruncateFits, end, k
<1>6. CASE ~(all <= max)
  <2>1. Truncate(bytes, max) = Boundary(bytes, cut)
    BY <1>4, <1>6 DEF Truncate
  <2> DEFINE Cuts == {c \in 0..cut : c = 0 \/ bytes[c + 1]}
             Fits == {end[n] : n \in {m \in 0..k : m = 0 \/ end[m] <= max - Ellipsis}}
  <2>2. cut \in Nat /\ (cut # 0 => cut = max - Ellipsis /\ cut + 1 <= all)
    BY <1>2, <1>6 DEF Ellipsis
  <2>3. ASSUME NEW c \in 0..cut, c # 0
        PROVE  bytes[c + 1] <=> \E n \in 0..k : end[n] = c /\ end[n] <= max - Ellipsis
    <3>1. c + 1 \in 1..all /\ c <= max - Ellipsis /\ c < all
      BY <1>2, <2>2, <2>3
    <3>2. bytes[c + 1] <=> \E n \in 1..k : end[n - 1] = c
      BY <1>3, <3>1
    <3>3. (\E n \in 1..k : end[n - 1] = c) <=> \E n \in 0..k : end[n] = c
      <4>1. ASSUME NEW n \in 0..k, end[n] = c
            PROVE  n + 1 \in 1..k /\ end[(n + 1) - 1] = c
        <5>1. n # k
          BY <1>1, <1>2, <3>1, <4>1
        <5> QED
          BY <1>1, <4>1, <5>1
      <4>2. ASSUME NEW n \in 1..k PROVE n - 1 \in 0..k
        BY <1>1
      <4> QED
        BY <4>1, <4>2
    <3> QED
      BY <3>1, <3>2, <3>3
  <2>4. Cuts = Fits
    <3>1. ASSUME NEW c \in Cuts PROVE c \in Fits
      <4>1. CASE c = 0
        BY <1>1, <4>1
      <4>2. CASE c # 0
        <5>1. PICK n \in 0..k : end[n] = c /\ end[n] <= max - Ellipsis
          BY <2>3, <3>1, <4>2
        <5> QED
          BY <5>1
      <4> QED
        BY <4>1, <4>2
    <3>2. ASSUME NEW c \in Fits PROVE c \in Cuts
      <4>1. PICK n \in 0..k : c = end[n] /\ (n = 0 \/ end[n] <= max - Ellipsis)
        BY <3>2
      <4>2. c \in Nat /\ (n = 0 => c = 0)
        BY <1>1, <4>1
      <4>3. CASE c = 0
        BY <2>2, <4>3
      <4>4. CASE c # 0
        <5>1. c <= max - Ellipsis /\ c \in 0..cut
          BY <2>2, <4>1, <4>2, <4>4 DEF Ellipsis
        <5> QED
          BY <2>3, <4>1, <4>4, <5>1
      <4> QED
        BY <4>3, <4>4
    <3> HIDE DEF Cuts, Fits
    <3> QED
      BY <3>1, <3>2
  <2>5. Boundary(bytes, cut) = Max(Fits)
    <3>1. Boundary(bytes, cut) = Max(Cuts)
      BY DEF Boundary
    <3> HIDE DEF Cuts, Fits
    <3> QED
      BY <2>4, <3>1
  <2> QED
    BY <1>6, <2>1, <2>5 DEF TruncateFits, end, k
<1> QED
  BY <1>5, <1>6

-----------------------------------------------------------------------------
(* Tokens of an answer, those around its array, and the array.             *)
Around == {"prose", "newline", "fence", "json"}
Tokens == Around \cup {"[", "]", "decision"}
Array(decisions) == <<"[">> \o decisions \o <<"]">>

(* The array stands in a text after p other tokens, and has its only       *)
(* brackets.                                                               *)
StandsAt(text, decisions, p) ==
    /\ text \in Seq(Tokens)
    /\ p \in Nat
    /\ p + Len(decisions) + 2 <= Len(text)
    /\ text[p + 1] = "["
    /\ text[p + Len(decisions) + 2] = "]"
    /\ \A i \in 1..Len(decisions) : text[p + 1 + i] = decisions[i]
    /\ \A i \in 1..Len(text) : (i <= p \/ i > p + Len(decisions) + 2) => text[i] \in Around

(* An array lies within its text.                                          *)
LEMMA StandsInside ==
    ASSUME NEW text, NEW decisions, NEW p, StandsAt(text, decisions, p)
    PROVE  p \in Nat /\ Len(text) \in Nat /\ p + Len(decisions) + 2 <= Len(text)
<1>1. text \in Seq(Tokens) /\ p \in Nat /\ p + Len(decisions) + 2 <= Len(text)
  BY DEF StandsAt
<1>2. Len(text) \in Nat
  BY <1>1, LenProperties
<1> QED
  BY <1>1, <1>2

(* Between its only brackets, parseDecisions finds the array.              *)
LEMMA ArrayFound ==
    ASSUME NEW decisions \in Seq({"decision"}), NEW text, NEW p,
           StandsAt(StripFences(text), decisions, p)
    PROVE  ParseDecisions(text) = decisions
<1> DEFINE body == StripFences(text)
           k == Len(decisions)
           opens == {n \in 1..Len(body) : body[n] = "["}
           closes == {n \in 1..Len(body) : body[n] = "]"}
           inner == SubSeq(body, Min(opens) + 1, Max(closes) - 1)
<1>1. /\ body \in Seq(Tokens)
      /\ p \in Nat
      /\ p + k + 2 <= Len(body)
      /\ body[p + 1] = "["
      /\ body[p + k + 2] = "]"
      /\ \A i \in 1..k : body[p + 1 + i] = decisions[i]
      /\ \A i \in 1..Len(body) : (i <= p \/ i > p + k + 2) => body[i] \in Around
  BY DEF StandsAt
<1>2. ParseDecisions(text) = IF opens = {} \/ closes = {} THEN NoArray
                             ELSE IF Max(closes) > Min(opens) /\ Range(inner) \subseteq {"decision"}
                                  THEN inner ELSE NoArray
  BY DEF ParseDecisions
<1> HIDE DEF body, k
<1>3. k \in Nat /\ \A i \in 1..k : decisions[i] = "decision"
  <2>1. \A i \in 1..k : decisions[i] \in {"decision"}
    BY ElementOfSeq DEF k
  <2> QED
    BY <2>1, LenProperties DEF k
<1>4. Len(body) \in Nat
  BY <1>1, LenProperties
<1>5. \A n \in 1..Len(body) : \/ n = p + 1 /\ body[n] = "["
                              \/ n = p + k + 2 /\ body[n] = "]"
                              \/ body[n] \notin {"[", "]"}
  <2> SUFFICES ASSUME NEW n \in 1..Len(body), n # p + 1, n # p + k + 2
               PROVE  body[n] \notin {"[", "]"}
    BY <1>1
  <2>1. CASE n <= p \/ n > p + k + 2
    BY <1>1, <2>1 DEF Around
  <2>2. CASE ~(n <= p \/ n > p + k + 2)
    <3>1. n - (p + 1) \in 1..k /\ p + 1 + (n - (p + 1)) = n
      BY <1>1, <1>3, <1>4, <2>2
    <3>2. body[n] = decisions[n - (p + 1)]
      BY <1>1, <3>1
    <3> QED
      BY <1>3, <3>1, <3>2
  <2> QED
    BY <2>1, <2>2
<1>6. opens = {p + 1} /\ closes = {p + k + 2}
  <2>1. p + 1 \in 1..Len(body) /\ p + k + 2 \in 1..Len(body) /\ p + 1 # p + k + 2
    BY <1>1, <1>3, <1>4
  <2> QED
    BY <1>1, <1>5, <2>1
<1> HIDE DEF opens, closes
<1>7. Min(opens) = p + 1 /\ Max(closes) = p + k + 2
  BY <1>1, <1>3, <1>6 DEF Min, Max
<1>8. inner = SubSeq(body, p + 2, p + k + 1)
  BY <1>1, <1>3, <1>7
<1> HIDE DEF inner
<1>9. inner = decisions
  <2>1. \A i \in p + 2..p + k + 1 : body[i] \in Tokens
    <3>1. \A i \in p + 2..p + k + 1 : i \in 1..Len(body)
      BY <1>1, <1>3, <1>4
    <3> QED
      BY <1>1, <3>1, ElementOfSeq
  <2>2. p + 2 \in Int /\ p + k + 1 \in Int /\ (p + k + 1) - (p + 2) + 1 = k
        /\ (k = 0 <=> ~(p + 2 <= p + k + 1))
    BY <1>1, <1>3
  <2>3. inner \in Seq(Tokens) /\ Len(inner) = k
        /\ \A i \in 1..k : inner[i] = body[p + 2 + i - 1]
    BY <1>8, <2>1, <2>2, SubSeqProperties
  <2>4. \A i \in 1..k : p + 2 + i - 1 = p + 1 + i
    BY <1>1, <1>3
  <2>5. \A i \in 1..k : inner[i] = decisions[i]
    BY <1>1, <2>3, <2>4
  <2>6. decisions \in Seq(Tokens)
    BY SeqMonotonic DEF Tokens
  <2> QED
    BY <2>3, <2>5, <2>6, SeqEqual DEF k
<1>10. Range(decisions) \subseteq {"decision"}
  BY RangeOfSeq DEF Range
<1>11. p + k + 2 > p + 1
  BY <1>1, <1>3
<1> QED
  BY <1>2, <1>6, <1>7, <1>9, <1>10, <1>11

(* The array still stands when tokens before or behind it are dropped.     *)
LEMMA PartStands ==
    ASSUME NEW decisions \in Seq({"decision"}), NEW text, NEW p, StandsAt(text, decisions, p),
           NEW a \in Nat, 1 <= a, a <= p + 1,
           NEW b \in Nat, p + Len(decisions) + 2 <= b, b <= Len(text)
    PROVE  /\ StandsAt(SubSeq(text, a, b), decisions, p + 1 - a)
           /\ Len(SubSeq(text, a, b)) = b - a + 1
           /\ \A i \in 1..b - a + 1 : SubSeq(text, a, b)[i] = text[a + i - 1]
<1> DEFINE k == Len(decisions)
           n == b - a + 1
           part == SubSeq(text, a, b)
           q == p + 1 - a
<1>1. /\ text \in Seq(Tokens) /\ p \in Nat /\ k \in Nat /\ Len(text) \in Nat
      /\ p + k + 2 <= b /\ a \in Int /\ b \in Int /\ a <= b
  BY LenProperties DEF StandsAt
<1>2. n \in Nat /\ q \in Nat /\ q + k + 2 <= n
  BY <1>1
<1>3. \A i \in 1..n : a + i - 1 \in 1..Len(text)
  BY <1>1
<1>4. part \in Seq(Tokens) /\ Len(part) = n /\ \A i \in 1..n : part[i] = text[a + i - 1]
  <2>1. \A i \in a..b : i \in 1..Len(text)
    BY <1>1
  <2>2. \A i \in a..b : text[i] \in Tokens
    BY <1>1, <2>1, ElementOfSeq
  <2> QED
    BY <1>1, <2>2, SubSeqProperties
<1>5. /\ q + 1 \in 1..n /\ a + (q + 1) - 1 = p + 1
      /\ q + k + 2 \in 1..n /\ a + (q + k + 2) - 1 = p + k + 2
      /\ \A i \in 1..k : q + 1 + i \in 1..n /\ a + (q + 1 + i) - 1 = p + 1 + i
      /\ \A i \in 1..n : i <= q \/ i > q + k + 2 => a + i - 1 <= p \/ a + i - 1 > p + k + 2
  BY <1>1
<1> HIDE DEF part, q, n
<1>6. part[q + 1] = "[" /\ part[q + k + 2] = "]" /\ \A i \in 1..k : part[q + 1 + i] = decisions[i]
  BY <1>4, <1>5 DEF StandsAt
<1>7. \A i \in 1..n : i <= q \/ i > q + k + 2 => part[i] \in Around
  BY <1>3, <1>4, <1>5 DEF StandsAt
<1>8. StandsAt(part, decisions, q)
  BY <1>2, <1>4, <1>6, <1>7 DEF StandsAt
<1> QED
  BY <1>4, <1>8 DEF part, n, q

(* Trimming leaves the array alone.                                        *)
LEMMA TrimmedPart ==
    ASSUME NEW decisions \in Seq({"decision"}), NEW text, NEW p, StandsAt(text, decisions, p)
    PROVE  \E a, b \in Nat : /\ 1 <= a /\ a <= p + 1
                            /\ p + Len(decisions) + 2 <= b /\ b <= Len(text)
                            /\ Trimmed(text) = SubSeq(text, a, b)
<1> DEFINE solid == {n \in 1..Len(text) : text[n] # "newline"}
           k == Len(decisions)
<1>1. p \in Nat /\ k \in Nat /\ Len(text) \in Nat /\ p + k + 2 <= Len(text)
  BY LenProperties DEF StandsAt
<1>2. p + 1 \in solid /\ p + k + 2 \in solid
  BY <1>1 DEF StandsAt
<1>3. Trimmed(text) = SubSeq(text, Min(solid), Max(solid))
  BY <1>2 DEF Trimmed
<1>4. solid \in SUBSET Nat /\ solid # {} /\ \A n \in solid : 1 <= n /\ n <= Len(text)
  BY <1>1, <1>2
<1> HIDE DEF solid
<1>5. Max(solid) \in solid /\ \A n \in solid : n <= Max(solid)
  <2>1. solid \in SUBSET (0..Len(text))
    BY <1>1, <1>4
  <2> QED
    BY <1>1, <1>4, <2>1, MaxIsLargest
<1>6. Min(solid) \in solid /\ \A n \in solid : Min(solid) <= n
  BY <1>4, MinIsLeast
<1> QED
  BY <1>1, <1>2, <1>3, <1>4, <1>5, <1>6

(* An array between two texts without brackets stands.                     *)
LEMMA ConcatStands ==
    ASSUME NEW decisions \in Seq({"decision"}), NEW x \in Seq(Around), NEW y \in Seq(Around)
    PROVE  /\ StandsAt((x \o Array(decisions)) \o y, decisions, Len(x))
           /\ Len((x \o Array(decisions)) \o y) = Len(x) + Len(decisions) + 2 + Len(y)
           /\ \A i \in 1..Len(x) : ((x \o Array(decisions)) \o y)[i] = x[i]
           /\ ((x \o Array(decisions)) \o y)[Len(x) + 1] = "["
<1> DEFINE k == Len(decisions)
           a == Array(decisions)
           b == x \o a
           c == b \o y
<1>1. k \in Nat /\ Len(x) \in Nat /\ Len(y) \in Nat
  BY LenProperties
<1>2. x \in Seq(Tokens) /\ y \in Seq(Tokens) /\ decisions \in Seq(Tokens)
      /\ <<"[">> \in Seq(Tokens) /\ <<"]">> \in Seq(Tokens)
      /\ Len(<<"[">>) = 1 /\ Len(<<"]">>) = 1
  <2>1. x \in Seq(Tokens) /\ y \in Seq(Tokens) /\ decisions \in Seq(Tokens)
    BY SeqMonotonic DEF Tokens
  <2> QED
    BY <2>1 DEF Tokens
<1>3. /\ <<"[">> \o decisions \in Seq(Tokens) /\ Len(<<"[">> \o decisions) = 1 + k
      /\ \A i \in 1..1 + k : (<<"[">> \o decisions)[i] =
              IF i <= 1 THEN <<"[">>[i] ELSE decisions[i - 1]
  <2> DEFINE open == <<"[">>
  <2>1. open \in Seq(Tokens) /\ Len(open) = 1
    BY <1>2
  <2> HIDE DEF open
  <2>2. /\ open \o decisions \in Seq(Tokens) /\ Len(open \o decisions) = Len(open) + k
        /\ \A i \in 1..Len(open) + k : (open \o decisions)[i] =
                IF i <= Len(open) THEN open[i] ELSE decisions[i - Len(open)]
    BY <1>2, <2>1, ConcatProperties
  <2>3. /\ open \o decisions \in Seq(Tokens) /\ Len(open \o decisions) = 1 + k
        /\ \A i \in 1..1 + k : (open \o decisions)[i] =
                IF i <= 1 THEN open[i] ELSE decisions[i - 1]
    BY <2>1, <2>2
  <2> QED
    BY <2>3 DEF open
<1>4. /\ a \in Seq(Tokens) /\ Len(a) = k + 2
      /\ a[1] = "[" /\ a[k + 2] = "]" /\ \A i \in 1..k : a[1 + i] = decisions[i]
  <2> DEFINE open == <<"[">> \o decisions
             close == <<"]">>
  <2>1. open \in Seq(Tokens) /\ Len(open) = 1 + k /\ open[1] = "["
        /\ \A i \in 1..k : open[1 + i] = decisions[i]
    <3>1. 1 \in 1..1 + k /\ \A i \in 1..k : 1 + i \in 1..1 + k /\ ~(1 + i <= 1) /\ (1 + i) - 1 = i
      BY <1>1
    <3> QED
      BY <1>3, <3>1
  <2>2. close \in Seq(Tokens) /\ Len(close) = 1 /\ close[1] = "]"
    BY <1>2
  <2>3. a = open \o close
    BY DEF Array
  <2> HIDE DEF open, close, a
  <2>4. /\ a \in Seq(Tokens) /\ Len(a) = Len(open) + Len(close)
        /\ \A i \in 1..Len(open) + Len(close) : a[i] =
                IF i <= Len(open) THEN open[i] ELSE close[i - Len(open)]
    BY <2>1, <2>2, <2>3, ConcatProperties
  <2>5. /\ 1 \in 1..k + 2 /\ k + 2 \in 1..k + 2 /\ ~(k + 2 <= 1 + k) /\ (k + 2) - (1 + k) = 1
        /\ 1 <= 1 + k /\ \A i \in 1..k : 1 + i \in 1..k + 2 /\ 1 + i <= 1 + k
    BY <1>1
  <2>6. /\ a \in Seq(Tokens) /\ Len(a) = k + 2
        /\ \A i \in 1..k + 2 : a[i] = IF i <= 1 + k THEN open[i] ELSE close[i - (1 + k)]
    BY <1>1, <2>1, <2>2, <2>4
  <2> QED
    BY <2>1, <2>2, <2>5, <2>6
<1> HIDE DEF a
<1>5. /\ b \in Seq(Tokens) /\ Len(b) = Len(x) + (k + 2)
      /\ \A i \in 1..Len(x) + (k + 2) : b[i] = IF i <= Len(x) THEN x[i] ELSE a[i - Len(x)]
  <2>1. x \in Seq(Tokens) /\ a \in Seq(Tokens)
    BY <1>2, <1>4
  <2>2. /\ b \in Seq(Tokens) /\ Len(b) = Len(x) + Len(a)
        /\ \A i \in 1..Len(x) + Len(a) : b[i] = IF i <= Len(x) THEN x[i] ELSE a[i - Len(x)]
    BY <2>1, ConcatProperties
  <2> QED
    BY <1>4, <2>2
<1> HIDE DEF b
<1>6. /\ c \in Seq(Tokens) /\ Len(c) = Len(b) + Len(y)
      /\ \A i \in 1..Len(b) + Len(y) : c[i] = IF i <= Len(b) THEN b[i] ELSE y[i - Len(b)]
  <2>1. b \in Seq(Tokens) /\ y \in Seq(Tokens)
    BY <1>2, <1>5
  <2> QED
    BY <2>1, ConcatProperties
<1> HIDE DEF c
<1>7. Len(c) = Len(x) + k + 2 + Len(y)
  BY <1>1, <1>5, <1>6
<1>8. \A i \in 1..Len(x) : c[i] = x[i]
  <2>1. \A i \in 1..Len(x) : i \in 1..Len(b) + Len(y) /\ i <= Len(b) /\ i <= Len(x)
                           /\ i \in 1..Len(x) + (k + 2)
    BY <1>1, <1>5
  <2> QED
    BY <1>5, <1>6, <2>1
<1>9. ASSUME NEW i \in 1..k + 2 PROVE c[Len(x) + i] = a[i]
  <2>1. /\ Len(x) + i \in 1..Len(b) + Len(y) /\ Len(x) + i <= Len(b) /\ ~(Len(x) + i <= Len(x))
        /\ Len(x) + i \in 1..Len(x) + (k + 2) /\ (Len(x) + i) - Len(x) = i
    BY <1>1, <1>5
  <2> QED
    BY <1>5, <1>6, <2>1
<1>10. c[Len(x) + 1] = "[" /\ c[Len(x) + k + 2] = "]"
  <2>1. 1 \in 1..k + 2 /\ k + 2 \in 1..k + 2 /\ Len(x) + k + 2 = Len(x) + (k + 2)
    BY <1>1
  <2> QED
    BY <1>4, <1>9, <2>1
<1>11. ASSUME NEW i \in 1..k PROVE c[Len(x) + 1 + i] = decisions[i]
  <2>1. 1 + i \in 1..k + 2 /\ Len(x) + 1 + i = Len(x) + (1 + i)
    BY <1>1
  <2> QED
    BY <1>4, <1>9, <2>1
<1>12. ASSUME NEW i \in 1..Len(c), i <= Len(x) \/ i > Len(x) + k + 2
       PROVE  c[i] \in Around
  <2>1. CASE i <= Len(x)
    <3>1. i \in 1..Len(x)
      BY <1>1, <1>7, <2>1
    <3> QED
      BY <1>8, <3>1, ElementOfSeq
  <2>2. CASE i > Len(x) + k + 2
    <3>1. /\ i \in 1..Len(b) + Len(y) /\ ~(i <= Len(b)) /\ i - Len(b) \in 1..Len(y)
      BY <1>1, <1>5, <1>7, <2>2
    <3>2. c[i] = y[i - Len(b)]
      BY <1>6, <3>1
    <3> QED
      BY <3>1, <3>2, ElementOfSeq
  <2> QED
    BY <1>12, <2>1, <2>2
<1>13. Len(x) + k + 2 <= Len(c)
  BY <1>1, <1>7
<1>14. StandsAt(c, decisions, Len(x))
  BY <1>1, <1>6, <1>10, <1>11, <1>12, <1>13 DEF StandsAt
<1> QED
  BY <1>7, <1>8, <1>10, <1>14 DEF c, b, a

(* So does all of stripFences, if each fence before the array is on a line *)
(* above it.                                                               *)
LEMMA WrappedFound ==
    ASSUME NEW decisions \in Seq({"decision"}), NEW text, NEW p, StandsAt(text, decisions, p),
           \A n \in 1..p : text[n] = "fence" => \E m \in n + 1..p : text[m] = "newline"
    PROVE  ParseDecisions(text) = decisions
<1> DEFINE s == Trimmed(text)
           k == Len(decisions)
<1>1. PICK a, b \in Nat : /\ 1 <= a /\ a <= p + 1
                         /\ p + k + 2 <= b /\ b <= Len(text)
                         /\ s = SubSeq(text, a, b)
  BY TrimmedPart
<1> HIDE DEF s
<1> DEFINE q == p + 1 - a
<1>2. p \in Nat /\ k \in Nat /\ Len(text) \in Nat /\ q \in Nat
  BY <1>1, LenProperties DEF StandsAt
<1>3. /\ StandsAt(s, decisions, q) /\ Len(s) = b - a + 1
      /\ \A i \in 1..b - a + 1 : s[i] = text[a + i - 1]
  BY <1>1, PartStands
<1>4. s # <<>>
  <2>1. Len(s) # 0
    BY <1>1, <1>2, <1>3
  <2> QED
    BY <2>1
<1>5. CASE s[1] # "fence"
  <2>1. StripFences(text) = s
    BY <1>5 DEF StripFences, s
  <2> QED
    BY <1>3, <2>1, ArrayFound
<1>6. CASE s[1] = "fence"
  <2> DEFINE lines == {n \in 1..Len(s) : s[n] = "newline"}
             rest == FirstLineDropped(s)
             body == Trimmed(rest)
  <2>1. text[a] = "fence" /\ a \in 1..p
    <3>1. 1 \in 1..b - a + 1 /\ a + 1 - 1 = a
      BY <1>1, <1>2
    <3>2. s[1] = text[a]
      BY <1>3, <3>1
    <3>3. a # p + 1
      BY <1>6, <3>2 DEF StandsAt
    <3> QED
      BY <1>1, <1>2, <1>6, <3>2, <3>3
  <2>2. PICK m \in a + 1..p : text[m] = "newline"
    BY <2>1
  <2>3. m + 1 - a \in lines /\ m + 1 - a <= q
    <3>1. m + 1 - a \in 1..b - a + 1 /\ a + (m + 1 - a) - 1 = m /\ m + 1 - a <= q
      BY <1>1, <1>2
    <3>2. s[m + 1 - a] = "newline"
      BY <1>3, <2>2, <3>1
    <3> QED
      BY <1>3, <3>1, <3>2
  <2>4. lines \in SUBSET Nat /\ lines # {} /\ rest = From(s, Min(lines) + 1)
    BY <2>3 DEF FirstLineDropped
  <2> HIDE DEF lines
  <2>5. Min(lines) \in Nat /\ Min(lines) <= q
    <3>1. Min(lines) \in lines /\ Min(lines) <= m + 1 - a
      BY <2>3, <2>4, MinIsLeast
    <3>2. Min(lines) \in Nat
      BY <2>4, <3>1
    <3> QED
      BY <1>2, <2>3, <3>1, <3>2
  <2> HIDE DEF rest, q
  <2> DEFINE r == q + 1 - (Min(lines) + 1)
  <2>6. StandsAt(rest, decisions, r)
    <3>1. rest = SubSeq(s, Min(lines) + 1, Len(s))
      BY <2>4 DEF From
    <3>2. Len(s) \in Nat /\ q + k + 2 <= Len(s)
      BY <1>3, StandsInside
    <3>3. Len(s) <= Len(s)
      BY <3>2
    <3>4. Min(lines) + 1 \in Nat /\ 1 <= Min(lines) + 1 /\ Min(lines) + 1 <= q + 1
      BY <1>2, <2>5
    <3> QED
      BY <1>3, <3>1, <3>2, <3>3, <3>4, PartStands
  <2> HIDE DEF r, body
  <2>7. PICK t : StandsAt(body, decisions, t)
    <3>1. PICK c, d \in Nat : /\ 1 <= c /\ c <= r + 1
                             /\ r + k + 2 <= d /\ d <= Len(rest)
                             /\ body = SubSeq(rest, c, d)
      BY <2>6, TrimmedPart DEF body
    <3> QED
      BY <2>6, <3>1, PartStands
  <2>8. StripFences(text) = IF body # <<>> /\ body[Len(body)] = "fence" THEN Front(body) ELSE body
    BY <1>4, <1>6 DEF StripFences, s, rest, body
  <2>9. CASE body # <<>> /\ body[Len(body)] = "fence"
    <3>1. t \in Nat /\ Len(body) \in Nat /\ t + k + 2 <= Len(body)
      BY <2>7, StandsInside
    <3>2. Len(body) # t + k + 2
      BY <2>7, <2>9 DEF StandsAt
    <3>3. Front(body) = SubSeq(body, 1, Len(body) - 1)
      BY DEF Front
    <3>4. Len(body) - 1 \in Nat /\ t + k + 2 <= Len(body) - 1 /\ Len(body) - 1 <= Len(body)
          /\ 1 <= t + 1
      BY <1>2, <3>1, <3>2
    <3>5. StandsAt(Front(body), decisions, t + 1 - 1)
      BY <2>7, <3>3, <3>4, PartStands
    <3> QED
      BY <2>8, <2>9, <3>5, ArrayFound
  <2>10. CASE ~(body # <<>> /\ body[Len(body)] = "fence")
    BY <2>7, <2>8, <2>10, ArrayFound
  <2> QED
    BY <2>9, <2>10
<1> QED
  BY <1>5, <1>6

(* Concatenation under a name of its own, to regroup five sequences.       *)
Joined(s, t) == s \o t

(* It associates,                                                          *)
LEMMA JoinedAssociates ==
    ASSUME NEW X, NEW s \in Seq(X), NEW t \in Seq(X), NEW u \in Seq(X)
    PROVE  Joined(s, t) \in Seq(X) /\ Joined(Joined(s, t), u) = Joined(s, Joined(t, u))
  BY ConcatAssociative DEF Joined

(* so that what is around a fenced array can be gathered on its two sides. *)
LEMMA Regrouped ==
    ASSUME NEW X, NEW b \in Seq(X), NEW o \in Seq(X), NEW a \in Seq(X), NEW c \in Seq(X),
           NEW e \in Seq(X)
    PROVE  Joined(Joined(b, Joined(Joined(o, a), c)), e)
               = Joined(Joined(Joined(b, o), a), Joined(c, e))
<1>1. Joined(o, a) \in Seq(X) /\ Joined(b, o) \in Seq(X) /\ Joined(Joined(b, o), a) \in Seq(X)
  BY JoinedAssociates
<1>2. Joined(b, Joined(Joined(o, a), c)) = Joined(Joined(b, Joined(o, a)), c)
  BY <1>1, JoinedAssociates
<1>3. Joined(b, Joined(o, a)) = Joined(Joined(b, o), a)
  BY <1>1, JoinedAssociates
<1>4. Joined(Joined(Joined(Joined(b, o), a), c), e) = Joined(Joined(Joined(b, o), a), Joined(c, e))
  BY <1>1, JoinedAssociates
<1> QED
  BY <1>2, <1>3, <1>4, Zenon

(* Fences, and prose around or before them, do not change the array that   *)
(* parseDecisions finds.                                                   *)
THEOREM FencesAlwaysTolerated ==
    ASSUME NEW decisions \in Seq({"decision"}),
           NEW before \in Seq({"prose", "newline"}), NEW after \in Seq({"prose", "newline"})
    PROVE  FencesTolerated(decisions, before, after)
<1> DEFINE a == Array(decisions)
           opening == <<"fence", "json", "newline">>
           closing == <<"newline", "fence">>
           k == Len(decisions)
<1>1. opening \in Seq(Around) /\ Len(opening) = 3 /\ closing \in Seq(Around) /\ Len(closing) = 2
      /\ opening[1] = "fence" /\ opening[2] = "json" /\ opening[3] = "newline"
  BY DEF Around
<1> HIDE DEF opening, closing
<1>2. /\ before \in Seq(Around) /\ after \in Seq(Around)
      /\ Len(before) \in Nat /\ Len(after) \in Nat /\ k \in Nat
  BY SeqMonotonic, LenProperties DEF Around
<1>3. ASSUME NEW x \in Seq({"prose", "newline"}), NEW n \in 1..Len(x)
      PROVE  x[n] # "fence"
  <2>1. x[n] \in {"prose", "newline"}
    BY <1>3, ElementOfSeq
  <2> QED
    BY <2>1
<1>5. ParseDecisions((before \o a) \o after) = decisions
  <2> DEFINE text == (before \o a) \o after
  <2>1. StandsAt(text, decisions, Len(before)) /\ \A i \in 1..Len(before) : text[i] = before[i]
    BY <1>2, ConcatStands
  <2> HIDE DEF text
  <2>2. \A n \in 1..Len(before) : text[n] # "fence"
    BY <1>3, <2>1
  <2>3. ParseDecisions(text) = decisions
    BY <2>1, <2>2, WrappedFound
  <2> QED
    BY <2>3 DEF text
<1>6. ASSUME NEW x \in Seq({"prose", "newline"}), NEW y \in Seq({"prose", "newline"})
      PROVE  ParseDecisions(((x \o opening) \o a) \o (closing \o y)) = decisions
  <2> DEFINE p == x \o opening
             q == closing \o y
             text == (p \o a) \o q
  <2>1. x \in Seq(Around) /\ y \in Seq(Around) /\ Len(x) \in Nat
    BY SeqMonotonic, LenProperties DEF Around
  <2>2. /\ p \in Seq(Around) /\ Len(p) = Len(x) + 3
        /\ \A i \in 1..Len(x) + 3 : p[i] = IF i <= Len(x) THEN x[i] ELSE opening[i - Len(x)]
    <3>1. /\ p \in Seq(Around) /\ Len(p) = Len(x) + Len(opening)
          /\ \A i \in 1..Len(x) + Len(opening) :
                 p[i] = IF i <= Len(x) THEN x[i] ELSE opening[i - Len(x)]
      <4>1. opening \in Seq(Around) /\ x \in Seq(Around)
        BY <1>1, <2>1
      <4> QED
        BY <4>1, ConcatProperties
    <3> HIDE DEF p
    <3> QED
      BY <1>1, <3>1
  <2>3. q \in Seq(Around)
    <3>1. closing \in Seq(Around) /\ y \in Seq(Around)
      BY <1>1, <2>1
    <3> QED
      BY <3>1, ConcatProperties
  <2> HIDE DEF p, q
  <2>4. StandsAt(text, decisions, Len(p)) /\ \A i \in 1..Len(p) : text[i] = p[i]
    BY <2>2, <2>3, ConcatStands
  <2> HIDE DEF text
  <2>5. text[Len(x) + 3] = "newline" /\ Len(p) = Len(x) + 3
    <3>1. Len(x) + 3 \in 1..Len(x) + 3 /\ ~(Len(x) + 3 <= Len(x)) /\ (Len(x) + 3) - Len(x) = 3
      BY <2>1
    <3> QED
      BY <1>1, <2>2, <2>4, <3>1
  <2>6. ASSUME NEW n \in 1..Len(p), text[n] = "fence"
        PROVE  \E m \in n + 1..Len(p) : text[m] = "newline"
    <3>1. n # Len(x) + 3
      BY <2>5, <2>6
    <3>2. Len(x) + 3 \in n + 1..Len(p)
      BY <2>1, <2>5, <3>1
    <3> QED
      BY <2>5, <3>2
  <2>7. ParseDecisions(text) = decisions
    BY <2>4, <2>6, WrappedFound
  <2> QED
    BY <2>7 DEF text, p, q
<1>7. Fenced(a) = (opening \o a) \o closing
  BY DEF Fenced, opening, closing
<1>8. /\ opening \in Seq(Tokens) /\ closing \in Seq(Tokens) /\ a \in Seq(Tokens)
      /\ before \in Seq(Tokens) /\ after \in Seq(Tokens)
  <2>1. Around \subseteq Tokens
    BY DEF Tokens
  <2>2. decisions \in Seq(Tokens) /\ <<"[">> \in Seq(Tokens) /\ <<"]">> \in Seq(Tokens)
    BY SeqMonotonic DEF Tokens
  <2>3. a \in Seq(Tokens)
    BY <2>2, ConcatProperties DEF Array
  <2> QED
    BY <1>1, <1>2, <2>1, <2>3, SeqMonotonic
<1> HIDE DEF a
<1>9. (before \o Fenced(a)) \o after = ((before \o opening) \o a) \o (closing \o after)
  <2>1. Joined(Joined(before, Joined(Joined(opening, a), closing)), after)
            = Joined(Joined(Joined(before, opening), a), Joined(closing, after))
    BY <1>8, Regrouped
  <2>2. (before \o ((opening \o a) \o closing)) \o after
            = ((before \o opening) \o a) \o (closing \o after)
    BY <2>1 DEF Joined
  <2> QED
    BY <1>7, <2>2
<1>10. Fenced(a) = ((<<>> \o opening) \o a) \o (closing \o <<>>)
  BY <1>7, <1>8, ConcatEmptySeq
<1>11. <<>> \in Seq({"prose", "newline"})
  BY EmptySeq
<1>12. ParseDecisions(Fenced(a)) = decisions
  BY <1>6, <1>10, <1>11
<1>13. ParseDecisions((before \o Fenced(a)) \o after) = decisions
  BY <1>6, <1>9
<1>14. a = <<"[">> \o decisions \o <<"]">>
  BY DEF a, Array
<1> QED
  BY <1>5, <1>12, <1>13, <1>14 DEF FencesTolerated

-----------------------------------------------------------------------------
(* The text functions keep what their comments promise in every call.      *)
THEOREM TextsAlwaysKept == Spec => []TextsKept
<1>1. Init => TextsKept
  BY DEF Init, TextsKept
<1>2. Next => TextsKept'
  <2> SUFFICES ASSUME Next PROVE TextsKept'
    OBVIOUS
  <2>1. CASE CutText
    <3>1. PICK w \in SeqOf(1..4, 4), max \in 3..9 :
               call' = [of |-> "cut", widths |-> w, max |-> max]
      BY <2>1 DEF CutText
    <3>2. w \in Seq(Nat) /\ max \in Int
      <4>1. w \in Seq(1..4)
        BY ShortSequences
      <4>2. 1..4 \subseteq Nat
        OBVIOUS
      <4> QED
        BY <4>1, <4>2, SeqMonotonic
    <3>3. TruncateFits(w, max)
      BY <3>2, CutsFit
    <3> QED
      BY <3>1, <3>3 DEF TextsKept
  <2>2. CASE BucketAge
    <3>1. PICK h \in -2..700 : call' = [of |-> "age", hours |-> h]
      BY <2>2 DEF BucketAge
    <3>2. AgesSettle(h)
      BY AgesAlwaysSettle
    <3> QED
      BY <3>1, <3>2 DEF TextsKept
  <2>3. CASE DedupeTexts
    <3>1. PICK s \in SeqOf({"", "a", "b"}, 4) : call' = [of |-> "dedupe", texts |-> s]
      BY <2>3, Zenon DEF DedupeTexts
    <3>2. FirstOnly(s)
      <4> DEFINE X == {"", "a", "b"}
      <4>1. s \in SeqOf(X, 4)
        OBVIOUS
      <4> HIDE DEF X
      <4>2. s \in Seq(X)
        BY <4>1, ShortSequences
      <4> QED
        BY <4>2, FirstsAreKept
    <3> QED
      BY <3>1, <3>2 DEF TextsKept
  <2>4. CASE ParseAnswer
    <3>1. PICK n \in 0..2, before \in Prose, after \in Prose :
               call' = [of |-> "parse", decisions |-> [i \in 1..n |-> "decision"],
                        before |-> before, after |-> after]
      BY <2>4 DEF ParseAnswer
    <3> DEFINE decisions == [i \in 1..n |-> "decision"]
    <3>2. decisions \in Seq({"decision"})
      BY IsASeq
    <3>3. before \in Seq({"prose", "newline"}) /\ after \in Seq({"prose", "newline"})
      BY ShortSequences DEF Prose
    <3> HIDE DEF decisions
    <3>4. FencesTolerated(decisions, before, after)
      BY <3>2, <3>3, FencesAlwaysTolerated
    <3> QED
      BY <3>1, <3>4 DEF TextsKept, decisions
  <2>5. CASE call'.of \notin {"cut", "age", "dedupe", "parse"}
    BY <2>5 DEF TextsKept
  <2>6. CASE AskPath
    BY <2>5, <2>6 DEF AskPath
  <2>7. CASE AskFile
    BY <2>5, <2>7 DEF AskFile
  <2>8. CASE LoadConfig
    BY <2>5, <2>8 DEF LoadConfig
  <2> QED
    BY <2>1, <2>2, <2>3, <2>4, <2>6, <2>7, <2>8 DEF Next
<1>3. TextsKept /\ UNCHANGED call => TextsKept'
  BY DEF TextsKept
<1> QED
  BY <1>1, <1>2, <1>3, PTL DEF Spec
=============================================================================
