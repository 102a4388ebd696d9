--------------------------- MODULE LogTail_proofs ---------------------------
(***************************************************************************)
(* Proofs about LogTail for every file, every size of buffer, chunk and    *)
(* line, and every number of lines asked for: the types, and what the two  *)
(* readers answer.                                                         *)
(***************************************************************************)
EXTENDS LogTail, FiniteSetTheorems, SequenceTheorems, TLAPS

-----------------------------------------------------------------------------
(* The inductive invariant.                                                *)

\* What each place in the code implies, whatever happened to the file.
PlaceInv ==
    /\ pc # "answered" => answer = NoAnswer
    /\ pc = "asked" => /\ reader = "none" /\ found = Nothing /\ pos = 0 /\ buffer = <<>>
                       /\ writes = 0 /\ ~cut
    /\ pc \in {"all", "last"} => /\ reader = pc /\ n \in 1..MaxLines
                                 /\ Len(file) <= Len(opened) + writes
    /\ pc = "last" => /\ pos + Len(buffer) <= Len(opened)
                      /\ Len(found.lines) <= n
                      /\ Len(found.lines) = n => found.line = <<>>
    /\ answer.status = "ok" => reader # "none"
    /\ refilled => cut

\* The forward reader has scanned the first q bytes of f, and b is what it has read
\* behind them: it has seen the lines that end there, none of them too long, and the
\* beginning of the next.
Closed(f, q) == {e \in 1..q : f[e] = "LF"}
ScannedLines(f, q) ==
    [k \in 1..Cardinality(Closed(f, q)) |-> WithoutCR(Pick(f, Span(f, Nth(Closed(f, q), k))))]
ScannedUpTo(f, q, b, seen) ==
    /\ q + Len(b) <= Len(f) /\ \A i \in 1..Len(b) : b[i] = f[q + i]
    /\ seen.lines = ScannedLines(f, q)
    /\ seen.line = Pick(f, Span(f, q + 1))
    /\ \A e \in Closed(f, q) : Cardinality(Span(f, e)) < TokenLimit

ScanInv ==
    pc = "all" /\ ~cut =>
        /\ Len(buffer) <= pos
        /\ ScannedUpTo(file, pos - Len(buffer), buffer, found)

\* The backward reader has the first q bytes of f before it, the last of which are b:
\* it has seen the visible lines that begin behind them, and what is visible of the
\* line there.
Done(f, q) == {e \in VisibleEnds(f) : \E i \in q + 1..e - 1 : f[i] = "LF"}
Current(f, q) == {i \in q + 1..Len(f) : f[i] # "CR" /\ \A j \in q + 1..i : f[j] # "LF"}
CollectedLines(f, q) ==
    [k \in 1..Cardinality(Done(f, q)) |-> Reverse(Pick(f, Visible(f, Nth(Done(f, q), k))))]
Collected(f, q) ==
    [lines |-> CollectedLines(f, q), line |-> Reverse(Pick(f, Current(f, q)))]
CollectedDownTo(f, q, b, seen) ==
    /\ q <= Len(f) /\ \A i \in 1..Len(b) : b[i] = f[q - Len(b) + i]
    /\ seen = Collected(f, q)

\* Where the file still holds them, its first bytes are those it had when its size was
\* taken.
CollectInv ==
    pc = "last" /\ ~refilled =>
        /\ cut => file = <<>>
        /\ ~cut => Len(opened) <= Len(file) /\ \A i \in 1..Len(opened) : file[i] = opened[i]
        /\ CollectedDownTo(opened, pos + Len(buffer), buffer, found)

IInv == TypeOK /\ PlaceInv /\ ScanInv /\ CollectInv /\ ScannedTail /\ CollectedTail

-----------------------------------------------------------------------------
(* Positions: finite sets of naturals, in their order.                     *)

\* Every set of naturals has a least element.  (The library's induction theorems
\* have operators for parameters, this one has a set.)
LEMMA LeastNat ==
    ASSUME NEW T, T \subseteq Nat, T # {}
    PROVE  \E x \in T : \A y \in T : x <= y
<1> DEFINE Below(x) == 0..x - 1
           Cuts == {Below(x) : x \in T}
<1>1. \A x \in T : Below(x) \in FiniteSubsetsOf(Nat)
  <2> TAKE x \in T
  <2>1. IsFiniteSet(0..x - 1)
    BY FS_Interval
  <2>2. 0..x - 1 \subseteq Nat
    OBVIOUS
  <2> QED BY <2>1, <2>2 DEF FiniteSubsetsOf
<1>2. Cuts \subseteq FiniteSubsetsOf(Nat) /\ Cuts # {}
  BY <1>1
<1>3. IsWellFoundedOn(StrictSubsetOrdering(Nat), FiniteSubsetsOf(Nat))
  BY FS_StrictSubsetOrderingWellFounded
<1> HIDE DEF Cuts
<1>4. PICK c \in Cuts : \A b \in Cuts : <<b, c>> \notin StrictSubsetOrdering(Nat)
  BY <1>2, <1>3, WFMin
<1>5. PICK x \in T : c = Below(x)
  BY DEF Cuts
<1>6. ASSUME NEW y \in T, y < x PROVE FALSE
  <2>1. Below(y) \in Cuts
    BY DEF Cuts
  <2>2. /\ x - 1 \in Below(x) /\ x - 1 \notin Below(y) /\ Below(y) \subseteq Below(x)
        /\ <<Below(y), Below(x)>> \in (SUBSET Nat) \X (SUBSET Nat)
    BY <1>6
  <2>3. <<Below(y), Below(x)>> \in StrictSubsetOrdering(Nat)
    <3> HIDE DEF Below
    <3> QED BY <2>2 DEF StrictSubsetOrdering
  <2> QED BY <2>1, <2>3, <1>4, <1>5
<1> QED BY <1>6

Positions(P) == (\A x \in P : x \in Nat) /\ IsFiniteSet(P)

LEMMA RankType ==
    ASSUME NEW P, Positions(P), NEW e \in Int
    PROVE  /\ Positions({x \in P : x <= e})
           /\ Rank(P, e) \in Nat /\ Cardinality(P) \in Nat
           /\ Rank(P, e) <= Cardinality(P)
<1>1. {x \in P : x <= e} \in SUBSET P
  OBVIOUS
<1>2. /\ IsFiniteSet({x \in P : x <= e})
      /\ Cardinality({x \in P : x <= e}) <= Cardinality(P)
  BY <1>1, FS_Subset DEF Positions
<1>3. Cardinality(P) \in Nat /\ Cardinality({x \in P : x <= e}) \in Nat
  BY <1>2, FS_CardinalityType DEF Positions
<1> QED BY <1>2, <1>3 DEF Rank, Positions

LEMMA RankGrows ==
    ASSUME NEW P, Positions(P), NEW e \in Int, NEW g \in P, e < g
    PROVE  Rank(P, e) < Rank(P, g)
<1> DEFINE A == {x \in P : x <= e}
           B == {x \in P : x <= g}
<1>1. A \in SUBSET B /\ g \in B /\ g \notin A /\ g \in Nat
  BY DEF Positions
<1>2. IsFiniteSet(B) /\ Rank(P, e) \in Nat /\ Rank(P, g) \in Nat
  <2>1. Positions(B) /\ Rank(P, g) \in Nat
    BY <1>1, RankType
  <2>2. Rank(P, e) \in Nat
    BY RankType
  <2> QED BY <2>1, <2>2 DEF Positions
<1>3. Cardinality(A) <= Cardinality(B) /\ (Cardinality(B) = Cardinality(A) => B = A)
  <2> HIDE DEF A, B
  <2> QED BY <1>1, <1>2, FS_Subset
<1> QED BY <1>1, <1>2, <1>3 DEF Rank

LEMMA RankOfElement ==
    ASSUME NEW P, Positions(P), NEW e \in P
    PROVE  Rank(P, e) \in 1..Cardinality(P)
<1> DEFINE before == -1
<1>1. e \in Int /\ before \in Int /\ before < e
  BY DEF Positions
<1> HIDE DEF before
<1>2. Rank(P, before) < Rank(P, e)
  BY <1>1, RankGrows
<1>3. Rank(P, before) \in Nat
  BY <1>1, RankType
<1>4. Rank(P, e) \in Nat /\ Cardinality(P) \in Nat /\ Rank(P, e) <= Cardinality(P)
  BY <1>1, RankType
<1> QED BY <1>2, <1>3, <1>4

LEMMA NthOfRank ==
    ASSUME NEW P, Positions(P), NEW e \in P
    PROVE  Nth(P, Rank(P, e)) = e
<1>1. ASSUME NEW g \in P, Rank(P, g) = Rank(P, e) PROVE g = e
  <2>1. g \in Int /\ e \in Int /\ Rank(P, e) \in Int
    BY RankOfElement DEF Positions
  <2>2. ~(g < e) /\ ~(e < g)
    BY <1>1, <2>1, RankGrows
  <2> QED BY <2>1, <2>2
<1> QED BY <1>1 DEF Nth

LEMMA NthExists ==
    ASSUME NEW P, Positions(P), NEW k \in 1..Cardinality(P)
    PROVE  Nth(P, k) \in P /\ Rank(P, Nth(P, k)) = k
<1> DEFINE T == {m \in Nat : k <= Rank(P, m)}
<1>0. /\ Cardinality(P) \in Nat /\ k \in Nat
      /\ \A x \in P : x \in Nat
      /\ \A m \in Int : Rank(P, m) \in Nat
  <2>1. Cardinality(P) \in Nat
    BY FS_CardinalityType DEF Positions
  <2>2. \A m \in Int : Rank(P, m) \in Nat
    BY RankType
  <2> QED BY <2>1, <2>2 DEF Positions
<1>1. T # {}
  <2> SUFFICES ASSUME \A m \in Nat : ~(k <= Rank(P, m)) PROVE FALSE
    OBVIOUS
  <2> DEFINE Over == {x \in Nat : \E y \in P : x < y}
  <2>1. \A m \in Nat : \E y \in P : m < y
    <3> SUFFICES ASSUME NEW m \in Nat, \A y \in P : ~(m < y) PROVE FALSE
      OBVIOUS
    <3>1. {x \in P : x <= m} = P
      BY DEF Positions
    <3> QED BY <1>0, <3>1 DEF Rank
  <2>2. PICK y \in P : TRUE
    BY <2>1
  <2>3. \A y1 \in P : Rank(P, y1) < k
    BY <1>0
  <2> DEFINE R == {r \in Nat : \E z \in P : r = k - Rank(P, z)}
  <2>4. R # {} /\ R \subseteq Nat
    <3>1. k - Rank(P, y) \in Nat
      BY <1>0, <2>3
    <3> QED BY <3>1
  <2>5. PICK r \in R : \A r2 \in R : r <= r2
    BY <2>4, LeastNat
  <2>6. PICK z \in P : r = k - Rank(P, z)
    OBVIOUS
  <2>7. PICK w \in P : z < w
    BY <1>0, <2>1
  <2>8. Rank(P, z) < Rank(P, w) /\ Rank(P, z) \in Nat /\ Rank(P, w) \in Nat
    BY <1>0, <2>7, RankGrows
  <2>9. k - Rank(P, w) \in R
    BY <2>3, <2>8
  <2> QED BY <2>5, <2>6, <2>8, <2>9
<1>2. PICK m \in T : \A y \in T : m <= y
  BY <1>1, LeastNat
<1>3. m \in P /\ Rank(P, m) = k
  <2>1. Rank(P, m) \in Nat /\ Rank(P, m - 1) \in Nat
    BY <1>0
  <2>2. Rank(P, m - 1) < k
    <3>1. CASE m = 0
      <4>1. {x \in P : x <= -1} = {}
        BY DEF Positions
      <4>2. Rank(P, m - 1) = 0
        BY <3>1, <4>1, FS_EmptySet DEF Rank
      <4> QED BY <4>2
    <3>2. CASE m # 0
      <4>1. m - 1 \in Nat /\ m - 1 \notin T
        BY <1>2, <3>2
      <4> QED BY <2>1, <4>1
    <3> QED BY <3>1, <3>2
  <2>3. m \in P
    <3> SUFFICES ASSUME m \notin P PROVE FALSE
      OBVIOUS
    <3>1. {x \in P : x <= m} = {x \in P : x <= m - 1}
      BY DEF Positions
    <3> QED BY <2>1, <2>2, <3>1 DEF Rank
  <2>4. {x \in P : x <= m} = {x \in P : x <= m - 1} \cup {m}
    <3>1. \A x \in P : x <= m <=> x <= m - 1 \/ x = m
      BY <1>0
    <3> QED BY <2>3, <3>1, Zenon
  <2>5. m \notin {x \in P : x <= m - 1} /\ IsFiniteSet({x \in P : x <= m - 1})
    BY RankType DEF Positions
  <2>6. Rank(P, m) = Rank(P, m - 1) + 1
    BY <2>4, <2>5, FS_AddElement DEF Rank
  <2> QED BY <2>1, <2>2, <2>3, <2>6
<1> QED BY <1>3, NthOfRank

\* The positions of a set come before those of another one that lies beyond it.
LEMMA NthBeyond ==
    ASSUME NEW A, Positions(A), NEW B, Positions(B), \A a \in A : \A b \in B : a < b,
           NEW P, P = A \cup B
    PROVE  /\ Positions(P)
           /\ Cardinality(P) = Cardinality(A) + Cardinality(B)
           /\ \A k \in 1..Cardinality(A) : Nth(P, k) = Nth(A, k)
           /\ \A k \in 1..Cardinality(B) : Nth(P, Cardinality(A) + k) = Nth(B, k)
<1>1. /\ \A x \in A : x \in Nat
      /\ \A x \in B : x \in Nat
      /\ IsFiniteSet(A) /\ IsFiniteSet(B) /\ A \cap B = {}
      /\ Cardinality(A) \in Nat /\ Cardinality(B) \in Nat
  <2>1. Cardinality(A) \in Nat /\ Cardinality(B) \in Nat
    BY FS_CardinalityType DEF Positions
  <2> QED BY <2>1 DEF Positions
<1>2. Positions(P) /\ Cardinality(P) = Cardinality(A) + Cardinality(B)
  <2>1. IsFiniteSet(P) /\ Cardinality(P) = Cardinality(A) + Cardinality(B) - Cardinality({})
    BY <1>1, FS_Union
  <2> QED BY <1>1, <2>1, FS_EmptySet DEF Positions
<1>3. ASSUME NEW k \in 1..Cardinality(A) PROVE Nth(P, k) = Nth(A, k)
  <2>1. PICK e \in A : e = Nth(A, k) /\ Rank(A, e) = k
    BY NthExists
  <2>2. {x \in P : x <= e} = {x \in A : x <= e}
    <3>1. \A x \in B : ~(x <= e)
      BY <1>1
    <3> QED BY <3>1, Zenon
  <2>3. Rank(P, e) = k
    BY <2>1, <2>2 DEF Rank
  <2> QED BY <1>2, <2>1, <2>3, NthOfRank
<1>4. ASSUME NEW k \in 1..Cardinality(B) PROVE Nth(P, Cardinality(A) + k) = Nth(B, k)
  <2>1. PICK e \in B : e = Nth(B, k) /\ Rank(B, e) = k
    BY NthExists
  <2> DEFINE C == {x \in B : x <= e}
  <2>2. {x \in P : x <= e} = A \cup C
    <3>1. \A x \in A : x <= e
      BY <1>1
    <3> QED BY <3>1, Zenon
  <2>3. Positions(C) /\ Cardinality(C) = k
    BY <1>1, <2>1, RankType DEF Rank
  <2>4. A \cap C = {}
    BY <1>1
  <2>5. Cardinality(A \cup C) = Cardinality(A) + k
    <3> HIDE DEF C
    <3>1. Cardinality(A \cup C) = Cardinality(A) + Cardinality(C) - Cardinality({})
      BY <1>1, <2>3, <2>4, FS_Union DEF Positions
    <3> QED BY <1>1, <2>3, <3>1, FS_EmptySet
  <2>6. Rank(P, e) = Cardinality(A) + k
    BY <2>2, <2>5 DEF Rank
  <2> QED BY <1>2, <2>1, <2>6, NthOfRank
<1> QED BY <1>2, <1>3, <1>4

LEMMA NthOfSingleton ==
    ASSUME NEW e \in Nat
    PROVE  Positions({e}) /\ Cardinality({e}) = 1 /\ Nth({e}, 1) = e
<1>1. Positions({e}) /\ Cardinality({e}) = 1
  BY FS_Singleton DEF Positions
<1>2. Nth({e}, 1) \in {e}
  BY <1>1, NthExists
<1> QED BY <1>1, <1>2

\* One more position, behind all others or before them.
LEMMA NthBehind ==
    ASSUME NEW A, Positions(A), NEW i \in Nat, \A a \in A : a < i
    PROVE  /\ Cardinality(A \cup {i}) = Cardinality(A) + 1
           /\ \A k \in 1..Cardinality(A) : Nth(A \cup {i}, k) = Nth(A, k)
           /\ Nth(A \cup {i}, Cardinality(A) + 1) = i
<1>1. ASSUME NEW B, B = {i}, NEW P, P = A \cup B
      PROVE  /\ Positions(P)
             /\ Cardinality(P) = Cardinality(A) + Cardinality(B)
             /\ \A k \in 1..Cardinality(A) : Nth(P, k) = Nth(A, k)
             /\ \A k \in 1..Cardinality(B) : Nth(P, Cardinality(A) + k) = Nth(B, k)
  <2>1. Positions(B) /\ \A a \in A : \A b \in B : a < b
    BY <1>1, NthOfSingleton
  <2>2. P = A \cup B
    BY <1>1
  <2> QED BY <2>1, <2>2, NthBeyond
<1>2. Cardinality({i}) = 1 /\ Nth({i}, 1) = i
  BY NthOfSingleton
<1> QED BY <1>1, <1>2

LEMMA NthBefore ==
    ASSUME NEW B, Positions(B), NEW i \in Nat, \A b \in B : i < b
    PROVE  /\ Cardinality({i} \cup B) = Cardinality(B) + 1
           /\ \A k \in 1..Cardinality(B) : Nth({i} \cup B, 1 + k) = Nth(B, k)
           /\ Nth({i} \cup B, 1) = i
<1>1. ASSUME NEW A, A = {i}, NEW P, P = A \cup B
      PROVE  /\ Positions(P)
             /\ Cardinality(P) = Cardinality(A) + Cardinality(B)
             /\ \A k \in 1..Cardinality(A) : Nth(P, k) = Nth(A, k)
             /\ \A k \in 1..Cardinality(B) : Nth(P, Cardinality(A) + k) = Nth(B, k)
  <2>1. Positions(A) /\ \A a \in A : \A b \in B : a < b
    BY <1>1, NthOfSingleton
  <2>2. P = A \cup B
    BY <1>1
  <2> QED BY <2>1, <2>2, NthBeyond
<1>2. Cardinality({i}) = 1 /\ Nth({i}, 1) = i /\ Cardinality(B) \in Nat
  BY NthOfSingleton, FS_CardinalityType DEF Positions
<1>3. ASSUME NEW A, A = {i}, NEW P, P = A \cup B
      PROVE  /\ Cardinality(P) = Cardinality(B) + 1
             /\ \A k \in 1..Cardinality(B) : Nth(P, 1 + k) = Nth(B, k)
             /\ Nth(P, 1) = i
  <2>1. Cardinality(A) = 1 /\ Nth(A, 1) = i
    BY <1>2, <1>3
  <2> QED BY <1>1, <1>2, <1>3, <2>1
<1> QED BY <1>3

\* A part of 1..m is a set of positions.
LEMMA IntervalPositions ==
    ASSUME NEW m \in Int, NEW P, \A x \in P : x \in 1..m
    PROVE  Positions(P) /\ Cardinality(P) \in Nat
<1>1. IsFiniteSet(1..m)
  BY FS_Interval
<1>2. P \in SUBSET (1..m)
  OBVIOUS
<1>3. IsFiniteSet(P)
  BY <1>1, <1>2, FS_Subset
<1> QED BY <1>3, FS_CardinalityType DEF Positions

-----------------------------------------------------------------------------
(* What a file has at some positions.                                      *)

LEMMA PickType ==
    ASSUME NEW S, NEW f \in Seq(S), NEW P, \A i \in P : i \in 1..Len(f)
    PROVE  Pick(f, P) \in Seq(S) /\ Len(Pick(f, P)) = Cardinality(P) /\ Positions(P)
<1>1. Len(f) \in Nat /\ \A i \in 1..Len(f) : f[i] \in S
  BY ElementOfSeq, LenProperties
<1>2. Positions(P) /\ Cardinality(P) \in Nat
  BY <1>1, IntervalPositions
<1>3. \A k \in 1..Cardinality(P) : f[Nth(P, k)] \in S
  BY <1>1, <1>2, NthExists
<1>4. Pick(f, P) \in [1..Cardinality(P) -> S]
  BY <1>3 DEF Pick
<1> QED BY <1>2, <1>4, IsASeq, LenProperties

\* Two files that agree there have the same at the positions of P.
LEMMA PickAgrees ==
    ASSUME NEW f, NEW g, NEW P, Positions(P), \A i \in P : f[i] = g[i]
    PROVE  Pick(f, P) = Pick(g, P)
<1>1. \A k \in 1..Cardinality(P) : f[Nth(P, k)] = g[Nth(P, k)]
  BY NthExists
<1> QED BY <1>1 DEF Pick

LEMMA PickEmpty == \A f : Pick(f, {}) = <<>>
BY FS_EmptySet DEF Pick

\* One more position, behind all others.
LEMMA PickBehind ==
    ASSUME NEW S, NEW f \in Seq(S), NEW i \in 1..Len(f), NEW P, \A j \in P : j \in 1..i - 1,
           NEW Q, Q = P \cup {i}
    PROVE  Pick(f, Q) = Append(Pick(f, P), f[i])
<1>1. Positions(P) /\ Cardinality(P) \in Nat
  <2>1. Len(f) \in Nat /\ \A j \in P : j \in 1..Len(f)
    BY LenProperties
  <2> QED BY <2>1, IntervalPositions
<1>2. i \in Nat /\ \A a \in P : a < i
  OBVIOUS
<1>4. /\ Cardinality(P \cup {i}) = Cardinality(P) + 1
      /\ \A k \in 1..Cardinality(P) : Nth(P \cup {i}, k) = Nth(P, k)
      /\ Nth(P \cup {i}, Cardinality(P) + 1) = i
  BY <1>1, <1>2, NthBehind
<1>5. /\ Pick(f, P) \in Seq(S) /\ Len(Pick(f, P)) = Cardinality(P)
      /\ Pick(f, P \cup {i}) \in Seq(S) /\ Len(Pick(f, P \cup {i})) = Cardinality(P) + 1
  <2>1. \A j \in P \cup {i} : j \in 1..Len(f)
    BY LenProperties
  <2> QED BY <1>4, <2>1, PickType
<1>6. f[i] \in S
  BY ElementOfSeq
<1>p. PICK m \in Nat : m = Cardinality(P)
  BY <1>1
<1>7. ASSUME NEW k \in 1..m + 1
      PROVE  Pick(f, P \cup {i})[k] = Append(Pick(f, P), f[i])[k]
  <2>1. CASE k \in 1..m
    <3>1. Pick(f, P \cup {i})[k] = f[Nth(P, k)] /\ Pick(f, P)[k] = f[Nth(P, k)]
      BY <1>p, <1>4, <2>1 DEF Pick
    <3>2. Append(Pick(f, P), f[i])[k] = Pick(f, P)[k]
      BY <1>p, <1>5, <1>6, <2>1, AppendProperties
    <3> QED BY <3>1, <3>2
  <2>2. CASE k = m + 1
    <3>1. Pick(f, P \cup {i})[k] = f[i]
      BY <1>p, <1>4, <2>2 DEF Pick
    <3>2. Append(Pick(f, P), f[i])[k] = f[i]
      BY <1>p, <1>5, <1>6, <2>2, AppendProperties
    <3> QED BY <3>1, <3>2
  <2>3. k \in 1..m \/ k = m + 1
    OBVIOUS
  <2> QED BY <2>1, <2>2, <2>3
<1>8. /\ Append(Pick(f, P), f[i]) \in Seq(S)
      /\ Len(Append(Pick(f, P), f[i])) = Cardinality(P) + 1
  BY <1>5, <1>6, AppendProperties
<1>9. Pick(f, P \cup {i}) = Append(Pick(f, P), f[i])
  BY <1>p, <1>5, <1>7, <1>8, SeqEqual
<1> QED BY <1>9

LEMMA ReverseType ==
    ASSUME NEW S, NEW s \in Seq(S)
    PROVE  Reverse(s) \in Seq(S) /\ Len(Reverse(s)) = Len(s)
<1>1. Len(s) \in Nat /\ \A i \in 1..Len(s) : s[i] \in S
  BY ElementOfSeq, LenProperties
<1>2. \A i \in 1..Len(s) : s[(Len(s) - i) + 1] \in S
  BY <1>1
<1>3. Reverse(s) \in [1..Len(s) -> S]
  BY <1>2 DEF Reverse
<1> QED BY <1>1, <1>3, IsASeq, LenProperties

\* One more position before all others, in a sequence read backwards.
LEMMA PickBefore ==
    ASSUME NEW S, NEW f \in Seq(S), NEW i \in 1..Len(f), NEW P, \A j \in P : j \in i + 1..Len(f),
           NEW Q, Q = {i} \cup P
    PROVE  Reverse(Pick(f, Q)) = Append(Reverse(Pick(f, P)), f[i])
<1>1. Positions(P) /\ Cardinality(P) \in Nat
  <2>1. Len(f) \in Nat /\ \A j \in P : j \in 1..Len(f)
    BY LenProperties
  <2> QED BY <2>1, IntervalPositions
<1>2. i \in Nat /\ \A b \in P : i < b
  OBVIOUS
<1>4. /\ Cardinality({i} \cup P) = Cardinality(P) + 1
      /\ \A k \in 1..Cardinality(P) : Nth({i} \cup P, 1 + k) = Nth(P, k)
      /\ Nth({i} \cup P, 1) = i
  BY <1>1, <1>2, NthBefore
<1> DEFINE s == Pick(f, P)
           t == Pick(f, {i} \cup P)
<1>5. /\ s \in Seq(S) /\ Len(s) = Cardinality(P)
      /\ t \in Seq(S) /\ Len(t) = Cardinality(P) + 1
  <2>1. \A j \in {i} \cup P : j \in 1..Len(f)
    BY LenProperties
  <2> QED BY <1>4, <2>1, PickType
<1>6. f[i] \in S
  BY ElementOfSeq
<1>p. PICK m \in Nat : m = Cardinality(P)
  BY <1>1
<1>7. /\ t[1] = f[i]
      /\ \A k \in 1..m : t[1 + k] = s[k]
  <2>1. t = [k \in 1..m + 1 |-> f[Nth({i} \cup P, k)]]
    BY <1>p, <1>4 DEF Pick
  <2>2. s = [k \in 1..m |-> f[Nth(P, k)]]
    BY <1>p DEF Pick
  <2> HIDE DEF s, t
  <2>3. t[1] = f[i]
    BY <1>4, <2>1
  <2>4. ASSUME NEW k \in 1..m PROVE t[1 + k] = s[k]
    <3>1. t[1 + k] = f[Nth({i} \cup P, 1 + k)]
      BY <2>1
    <3>2. Nth({i} \cup P, 1 + k) = Nth(P, k)
      BY <1>p, <1>4
    <3> QED BY <2>2, <3>1, <3>2
  <2> QED BY <2>3, <2>4
<1> HIDE DEF s, t
<1>8. /\ Reverse(s) \in Seq(S) /\ Len(Reverse(s)) = m /\ Len(s) = m
      /\ Reverse(t) \in Seq(S) /\ Len(Reverse(t)) = m + 1 /\ Len(t) = m + 1
  BY <1>p, <1>5, ReverseType
<1>9. ASSUME NEW k \in 1..m + 1
      PROVE  Reverse(t)[k] = Append(Reverse(s), f[i])[k]
  <2>1. CASE k \in 1..m
    <3>1. Reverse(t)[k] = t[1 + (m + 1 - k)]
      BY <1>8, <2>1 DEF Reverse
    <3>2. m + 1 - k \in 1..m
      BY <2>1
    <3>3. Reverse(s)[k] = s[m + 1 - k]
      BY <1>8, <2>1 DEF Reverse
    <3>4. Append(Reverse(s), f[i])[k] = Reverse(s)[k]
      BY <1>6, <1>8, <2>1, AppendProperties
    <3> QED BY <1>7, <3>1, <3>2, <3>3, <3>4
  <2>2. CASE k = m + 1
    <3>1. Reverse(t)[k] = t[1]
      BY <1>8, <2>2 DEF Reverse
    <3>2. Append(Reverse(s), f[i])[k] = f[i]
      BY <1>6, <1>8, <2>2, AppendProperties
    <3> QED BY <1>7, <3>1, <3>2
  <2>3. k \in 1..m \/ k = m + 1
    OBVIOUS
  <2> QED BY <2>1, <2>2, <2>3
<1>10. /\ Append(Reverse(s), f[i]) \in Seq(S)
       /\ Len(Append(Reverse(s), f[i])) = m + 1
  BY <1>6, <1>8, AppendProperties
<1>11. Reverse(t) = Append(Reverse(s), f[i])
  BY <1>8, <1>9, <1>10, SeqEqual
<1> QED BY <1>11 DEF s, t

-----------------------------------------------------------------------------
(* Sequences.                                                              *)

LEMMA FunctionIsSeq ==
    ASSUME NEW S, NEW m \in Nat, NEW s \in [1..m -> S]
    PROVE  s \in Seq(S) /\ Len(s) = m
<1>1. s \in Seq(S)
  BY SeqDef
<1> QED BY <1>1, LenProperties

\* A part of a sequence.
LEMMA PartOf ==
    ASSUME NEW S, NEW s \in Seq(S), NEW i \in 1..Len(s) + 1, NEW j \in i - 1..Len(s)
    PROVE  /\ SubSeq(s, i, j) \in Seq(S) /\ Len(SubSeq(s, i, j)) = j - i + 1
           /\ \A k \in 1..j - i + 1 : SubSeq(s, i, j)[k] = s[i + k - 1]
<1>1. Len(s) \in Nat
  BY LenProperties
<1>2. i \in Int /\ j \in Int /\ \A k \in i..j : s[k] \in S
  BY <1>1, ElementOfSeq
<1>3. /\ SubSeq(s, i, j) \in Seq(S)
      /\ Len(SubSeq(s, i, j)) = IF i <= j THEN j - i + 1 ELSE 0
      /\ \A k \in 1..j - i + 1 : SubSeq(s, i, j)[k] = s[i + k - 1]
  BY <1>2, SubSeqProperties
<1> QED BY <1>1, <1>3

LEMMA LastOfIsLast ==
    ASSUME NEW S, NEW s \in Seq(S), NEW k \in Nat
    PROVE  LastOf(s, k) \in Seq(S) /\ IsLastOf(LastOf(s, k), s, k)
<1>1. Len(s) \in Nat /\ DOMAIN s = 1..Len(s)
  BY LenProperties
<1>2. CASE Len(s) <= k
  <2>1. LastOf(s, k) = s
    BY <1>2 DEF LastOf
  <2>2. Len(s) = IF Len(s) < k THEN Len(s) ELSE k
    <3>1. PICK m \in Nat : m = Len(s)
      BY <1>1
    <3>2. m <= k /\ (~(m < k) => m = k)
      BY <1>2, <3>1
    <3> QED BY <3>1, <3>2, Zenon
  <2>3. ASSUME NEW i \in DOMAIN s PROVE s[i] = s[Len(s) - Len(s) + i]
    <3>1. Len(s) - Len(s) + i = i
      BY <1>1
    <3> QED BY <3>1
  <2>4. IsLastOf(s, s, k)
    BY <2>2, <2>3, Zenon DEF IsLastOf
  <2> QED BY <2>1, <2>4
<1>3. CASE ~(Len(s) <= k)
  <2> DEFINE t == SubSeq(s, Len(s) - k + 1, Len(s))
  <2>1. LastOf(s, k) = t
    BY <1>3 DEF LastOf
  <2>2. Len(s) - k + 1 \in 1..Len(s) + 1 /\ Len(s) \in Len(s) - k + 1 - 1..Len(s)
    BY <1>1, <1>3
  <2>3. /\ t \in Seq(S) /\ Len(t) = Len(s) - (Len(s) - k + 1) + 1
        /\ \A i \in 1..Len(s) - (Len(s) - k + 1) + 1 : t[i] = s[Len(s) - k + 1 + i - 1]
    BY <2>2, PartOf
  <2> HIDE DEF t
  <2>4. Len(t) = k /\ DOMAIN t = 1..k
    BY <1>1, <2>3, LenProperties
  <2>5. \A i \in 1..k : t[i] = s[Len(s) - k + i]
    BY <1>1, <2>3
  <2>6. Len(t) = IF Len(s) < k THEN Len(s) ELSE k
    <3>1. ~(Len(s) < k)
      BY <1>1, <1>3
    <3> QED BY <2>4, <3>1, Zenon
  <2>7. \A i \in DOMAIN t : t[i] = s[Len(s) - Len(t) + i]
    BY <2>4, <2>5, Zenon
  <2>8. IsLastOf(t, s, k)
    BY <2>6, <2>7, Zenon DEF IsLastOf
  <2> QED BY <2>1, <2>3, <2>8
<1> QED BY <1>2, <1>3

\* There is only one such sequence.
LEMMA IsLastOfUnique ==
    ASSUME NEW S, NEW s \in Seq(S), NEW t \in Seq(S), NEW all, NEW k,
           IsLastOf(s, all, k), IsLastOf(t, all, k)
    PROVE  s = t
<1>1. Len(s) = Len(t) /\ DOMAIN s = 1..Len(s) /\ DOMAIN t = 1..Len(t)
  BY LenProperties DEF IsLastOf
<1>2. \A i \in 1..Len(s) : s[i] = t[i]
  BY <1>1 DEF IsLastOf
<1> QED BY <1>1, <1>2, SeqEqual

LEMMA WithoutCRType ==
    ASSUME NEW S, NEW s \in Seq(S)
    PROVE  WithoutCR(s) \in Seq(S)
<1>1. CASE s = <<>> \/ Last(s) # "CR"
  BY <1>1 DEF WithoutCR
<1>2. CASE ~(s = <<>> \/ Last(s) # "CR")
  <2>1. Len(s) \in Nat \ {0}
    BY <1>2, EmptySeq
  <2>2. SubSeq(s, 1, Len(s) - 1) \in Seq(S)
    BY <2>1, PartOf
  <2> QED BY <1>2, <2>2 DEF WithoutCR, Front
<1> QED BY <1>1, <1>2

LEMMA WithoutCROfAppend ==
    ASSUME NEW S, NEW s \in Seq(S), "CR" \in S
    PROVE  WithoutCR(Append(s, "CR")) = s
<1> DEFINE t == Append(s, "CR")
<1>1. /\ t \in Seq(S) /\ t # <<>> /\ Len(t) = Len(s) + 1 /\ Len(s) \in Nat
      /\ \A i \in 1..Len(s) : t[i] = s[i]
      /\ t[Len(s) + 1] = "CR"
  BY AppendProperties, LenProperties
<1> HIDE DEF t
<1>2. WithoutCR(t) = SubSeq(t, 1, Len(t) - 1)
  BY <1>1 DEF WithoutCR, Last, Front
<1>3. /\ SubSeq(t, 1, Len(t) - 1) \in Seq(S) /\ Len(SubSeq(t, 1, Len(t) - 1)) = Len(s)
      /\ \A i \in 1..Len(s) : SubSeq(t, 1, Len(t) - 1)[i] = t[1 + i - 1]
  <2>1. 1 \in 1..Len(t) + 1 /\ Len(t) - 1 \in 1 - 1..Len(t) /\ Len(t) - 1 - 1 + 1 = Len(s)
    BY <1>1
  <2> QED BY <1>1, <2>1, PartOf
<1>4. WithoutCR(t) = s
  BY <1>1, <1>2, <1>3, SeqEqual
<1> QED BY <1>4 DEF t

\* A line that is collected backwards comes out the right way round if its bytes are
\* all characters.
LEMMA ReverseStringType ==
    ASSUME NEW s \in Seq(Byte)
    PROVE  ReverseString(s) \in Line /\ Len(ReverseString(s)) = Len(s)
<1>1. Len(s) \in Nat /\ \A i \in 1..Len(s) : s[i] \in Byte
  BY ElementOfSeq, LenProperties
<1>2. \A j \in 1..Len(s) : s[Len(s) + 1 - j] \in Byte
  BY <1>1
<1>3. ReverseString(s) \in [1..Len(s) -> Byte \cup {"?"}]
  BY <1>2 DEF ReverseString, Byte
<1> QED BY <1>1, <1>3, IsASeq, LenProperties DEF Line

LEMMA ReverseStringReverses ==
    ASSUME NEW s \in Seq(Byte), \A i \in 1..Len(s) : s[i] \notin {"hi", "lo"}
    PROVE  ReverseString(Reverse(s)) = s
<1> DEFINE r == Reverse(s)
<1>1. r \in Seq(Byte) /\ Len(r) = Len(s) /\ Len(s) \in Nat
  BY ReverseType, LenProperties
<1>2. \A i \in 1..Len(s) : r[i] = s[Len(s) + 1 - i]
  BY <1>1 DEF Reverse
<1>3. \A i \in 1..Len(s) : r[i] \notin {"hi", "lo"}
  BY <1>1, <1>2
<1> HIDE DEF r
<1>4. \A i \in 1..Len(s) : ~Pair(r, i) /\ ~Pair(r, i - 1)
  BY <1>1, <1>3 DEF Pair
<1>5. \A j \in 1..Len(s) : ReverseString(r)[j] = s[j]
  <2> TAKE j \in 1..Len(s)
  <2>1. Len(s) + 1 - j \in 1..Len(s) /\ Len(s) + 1 - (Len(s) + 1 - j) = j
    BY <1>1
  <2> DEFINE i == Len(s) + 1 - j
  <2>2. r[i] \notin {"hi", "lo"} /\ ~Pair(r, i) /\ ~Pair(r, i - 1) /\ r[i] = s[j]
    BY <1>2, <1>3, <1>4, <2>1
  <2>3. ReverseString(r)[j] = r[i]
    BY <1>1, <2>2, Zenon DEF ReverseString
  <2> QED BY <2>2, <2>3
<1>6. ReverseString(r) \in Seq(Byte \cup {"?"}) /\ Len(ReverseString(r)) = Len(s)
  BY <1>1, ReverseStringType DEF Line
<1>7. s \in Seq(Byte \cup {"?"})
  BY SeqMonotonic
<1>8. ReverseString(r) = s
  BY <1>5, <1>6, <1>7, SeqEqual
<1> QED BY <1>8 DEF r

-----------------------------------------------------------------------------
(* The lines of a file, as what four sequences have at their ends.         *)

RawAt(f) == [e \in 1..Len(f) + 1 |-> Pick(f, Span(f, e))]
TextAt(f) == [e \in 1..Len(f) + 1 |-> WithoutCR(Pick(f, Span(f, e)))]
VisibleAt(f) == [e \in 1..Len(f) + 1 |-> Pick(f, Visible(f, e))]
ReversedAt(f) == [e \in 1..Len(f) + 1 |-> Reverse(Pick(f, Visible(f, e)))]

LEMMA LineType ==
    ASSUME NEW f \in Seq(Byte), NEW e \in 1..Len(f) + 1
    PROVE  /\ \A i \in Span(f, e) : i \in 1..Len(f) /\ i \in 1..e - 1
           /\ \A i \in Visible(f, e) : i \in 1..Len(f) /\ i \in 1..e - 1
           /\ Pick(f, Span(f, e)) \in Seq(Byte) /\ Pick(f, Visible(f, e)) \in Seq(Byte)
           /\ Len(Pick(f, Span(f, e))) = Cardinality(Span(f, e))
           /\ Len(Pick(f, Visible(f, e))) = Cardinality(Visible(f, e))
           /\ Positions(Span(f, e)) /\ Positions(Visible(f, e))
<1>1. Len(f) \in Nat
  BY LenProperties
<1>2. \A i \in Span(f, e) : i \in 1..Len(f) /\ i \in 1..e - 1
  BY <1>1 DEF Span
<1>3. \A i \in Visible(f, e) : i \in 1..Len(f) /\ i \in 1..e - 1
  BY <1>2 DEF Visible
<1>4. /\ Pick(f, Span(f, e)) \in Seq(Byte)
      /\ Len(Pick(f, Span(f, e))) = Cardinality(Span(f, e)) /\ Positions(Span(f, e))
  BY <1>2, PickType
<1>5. /\ Pick(f, Visible(f, e)) \in Seq(Byte)
      /\ Len(Pick(f, Visible(f, e))) = Cardinality(Visible(f, e)) /\ Positions(Visible(f, e))
  BY <1>3, PickType
<1> QED BY <1>2, <1>3, <1>4, <1>5

LEMMA LinesType ==
    ASSUME NEW f \in Seq(Byte)
    PROVE  /\ RawAt(f) \in Seq(Seq(Byte)) /\ TextAt(f) \in Seq(Seq(Byte))
           /\ VisibleAt(f) \in Seq(Seq(Byte)) /\ ReversedAt(f) \in Seq(Seq(Byte))
           /\ Len(RawAt(f)) = Len(f) + 1 /\ Len(TextAt(f)) = Len(f) + 1
           /\ Len(VisibleAt(f)) = Len(f) + 1 /\ Len(ReversedAt(f)) = Len(f) + 1
<1>1. PICK m \in Nat : m = Len(f) + 1
  BY LenProperties
<1>2. \A e \in 1..m : Pick(f, Span(f, e)) \in Seq(Byte) /\ Pick(f, Visible(f, e)) \in Seq(Byte)
  BY <1>1, LineType
<1>3. \A e \in 1..m : /\ WithoutCR(Pick(f, Span(f, e))) \in Seq(Byte)
                      /\ Reverse(Pick(f, Visible(f, e))) \in Seq(Byte)
  BY <1>2, WithoutCRType, ReverseType
<1>4. /\ RawAt(f) \in [1..m -> Seq(Byte)] /\ TextAt(f) \in [1..m -> Seq(Byte)]
      /\ VisibleAt(f) \in [1..m -> Seq(Byte)] /\ ReversedAt(f) \in [1..m -> Seq(Byte)]
  BY <1>1, <1>2, <1>3 DEF RawAt, TextAt, VisibleAt, ReversedAt
<1> QED BY <1>1, <1>4, FunctionIsSeq

LEMMA EndsType ==
    ASSUME NEW f \in Seq(Byte)
    PROVE  /\ Len(f) \in Nat /\ Len(f) + 1 \in Ends(f)
           /\ \A e \in Ends(f) : e \in 1..Len(f) + 1
           /\ \A e \in LineEnds(f) : e \in 1..Len(f) + 1 /\ e \in Ends(f)
           /\ \A e \in VisibleEnds(f) : e \in 1..Len(f) + 1 /\ e \in Ends(f)
           /\ \A p \in 0..Len(f) : \A e \in Closed(f, p) : e \in 1..Len(f) + 1 /\ e \in 1..p
           /\ \A q \in Nat : \A e \in Done(f, q) : e \in 1..Len(f) + 1 /\ e \in VisibleEnds(f)
           /\ Positions(LineEnds(f)) /\ Positions(VisibleEnds(f))
           /\ \A p \in 0..Len(f) : Positions(Closed(f, p))
           /\ \A q \in Nat : Positions(Done(f, q))
<1>1. Len(f) \in Nat /\ Len(f) + 1 \in Int
  BY LenProperties
<1>2. Len(f) + 1 \in Ends(f) /\ \A e \in Ends(f) : e \in 1..Len(f) + 1
  BY <1>1 DEF Ends
<1>3. \A e \in LineEnds(f) : e \in 1..Len(f) + 1 /\ e \in Ends(f)
  BY <1>2 DEF LineEnds
<1>4. \A e \in VisibleEnds(f) : e \in 1..Len(f) + 1 /\ e \in Ends(f)
  BY <1>2 DEF VisibleEnds
<1>5. \A p \in 0..Len(f) : \A e \in Closed(f, p) : e \in 1..Len(f) + 1 /\ e \in 1..p
  BY <1>1 DEF Closed
<1>6. \A q \in Nat : \A e \in Done(f, q) : e \in 1..Len(f) + 1 /\ e \in VisibleEnds(f)
  BY <1>4 DEF Done
<1>7. Positions(LineEnds(f)) /\ Positions(VisibleEnds(f))
  BY <1>1, <1>3, <1>4, IntervalPositions
<1>8. \A p \in 0..Len(f) : Positions(Closed(f, p))
  BY <1>1, <1>5, IntervalPositions
<1>9. \A q \in Nat : Positions(Done(f, q))
  BY <1>1, <1>6, IntervalPositions
<1> QED BY <1>1, <1>2, <1>3, <1>4, <1>5, <1>6, <1>7, <1>8, <1>9

LEMMA ScannedLinesPicked ==
    ASSUME NEW f \in Seq(Byte), NEW p \in 0..Len(f)
    PROVE  ScannedLines(f, p) = Pick(TextAt(f), Closed(f, p))
<1>1. \A k \in 1..Cardinality(Closed(f, p)) : Nth(Closed(f, p), k) \in 1..Len(f) + 1
  BY NthExists, EndsType
<1> QED BY <1>1, Zenon DEF ScannedLines, Pick, TextAt

LEMMA TextLinesPicked ==
    ASSUME NEW f \in Seq(Byte)
    PROVE  /\ LinesOf(f) = Pick(RawAt(f), LineEnds(f))
           /\ TextLines(f) = Pick(TextAt(f), LineEnds(f))
<1>1. \A k \in 1..Cardinality(LineEnds(f)) : Nth(LineEnds(f), k) \in 1..Len(f) + 1
  BY NthExists, EndsType
<1>2. LinesOf(f) = Pick(RawAt(f), LineEnds(f))
  BY <1>1, Zenon DEF LinesOf, Pick, RawAt
<1>3. /\ DOMAIN LinesOf(f) = 1..Cardinality(LineEnds(f))
      /\ \A k \in 1..Cardinality(LineEnds(f)) :
            LinesOf(f)[k] = Pick(f, Span(f, Nth(LineEnds(f), k)))
  BY Zenon DEF LinesOf
<1>4. TextLines(f) = Pick(TextAt(f), LineEnds(f))
  BY <1>1, <1>3, Zenon DEF TextLines, Pick, TextAt
<1> QED BY <1>2, <1>4

LEMMA VisibleLinesPicked ==
    ASSUME NEW f \in Seq(Byte)
    PROVE  VisibleLines(f) = Pick(VisibleAt(f), VisibleEnds(f))
<1>1. \A k \in 1..Cardinality(VisibleEnds(f)) : Nth(VisibleEnds(f), k) \in 1..Len(f) + 1
  BY NthExists, EndsType
<1> QED BY <1>1, Zenon DEF VisibleLines, Pick, VisibleAt

LEMMA CollectedLinesPicked ==
    ASSUME NEW f \in Seq(Byte), NEW q \in Nat
    PROVE  CollectedLines(f, q) = Pick(ReversedAt(f), Done(f, q))
<1>1. \A k \in 1..Cardinality(Done(f, q)) : Nth(Done(f, q), k) \in 1..Len(f) + 1
  BY NthExists, EndsType
<1> QED BY <1>1, Zenon DEF CollectedLines, Pick, ReversedAt

-----------------------------------------------------------------------------
(* Reading forward.                                                        *)

\* The next byte goes on with the line, unless it is an LF.
LEMMA SpanStep ==
    ASSUME NEW f \in Seq(Byte), NEW p \in 0..Len(f) - 1
    PROVE  /\ f[p + 1] # "LF" => /\ Span(f, p + 2) = Span(f, p + 1) \cup {p + 1}
                                 /\ Closed(f, p + 1) = Closed(f, p)
           /\ f[p + 1] = "LF" => /\ Span(f, p + 2) = {}
                                 /\ Closed(f, p + 1) = Closed(f, p) \cup {p + 1}
<1>1. ASSUME f[p + 1] # "LF" PROVE Span(f, p + 2) = Span(f, p + 1) \cup {p + 1}
  <2>1. ASSUME NEW i
        PROVE  i \in 1..p + 1 /\ (\A j \in i..p + 1 : f[j] # "LF")
               <=> (i \in 1..p /\ \A j \in i..p : f[j] # "LF") \/ i = p + 1
    <3>1. CASE i \in 1..p
      <4>1. i..p + 1 = (i..p) \cup {p + 1}
        BY <3>1
      <4> QED BY <1>1, <3>1, <4>1
    <3>2. CASE i = p + 1
      <4>1. i..p + 1 = {p + 1}
        BY <3>2
      <4> QED BY <1>1, <3>2, <4>1
    <3>3. i \in 1..p + 1 => i \in 1..p \/ i = p + 1
      OBVIOUS
    <3> QED BY <3>1, <3>2, <3>3
  <2>2. p + 2 - 1 = p + 1 /\ p + 1 - 1 = p
    OBVIOUS
  <2> QED BY <2>1, <2>2 DEF Span
<1>2. ASSUME f[p + 1] # "LF" PROVE Closed(f, p + 1) = Closed(f, p)
  <2>1. \A e : e \in 1..p + 1 /\ f[e] = "LF" <=> e \in 1..p /\ f[e] = "LF"
    BY <1>2
  <2> QED BY <2>1, Zenon DEF Closed
<1>3. ASSUME f[p + 1] = "LF" PROVE Span(f, p + 2) = {}
  <2>1. \A i \in 1..p + 1 : p + 1 \in i..p + 1
    OBVIOUS
  <2> QED BY <1>3, <2>1 DEF Span
<1>4. ASSUME f[p + 1] = "LF" PROVE Closed(f, p + 1) = Closed(f, p) \cup {p + 1}
  <2>1. \A e : e \in 1..p + 1 /\ f[e] = "LF" <=> (e \in 1..p /\ f[e] = "LF") \/ e = p + 1
    BY <1>4
  <2> QED BY <2>1 DEF Closed
<1> QED BY <1>1, <1>2, <1>3, <1>4

\* What ScanLines does with a byte is what goes from p to p + 1.
LEMMA TextStep ==
    ASSUME NEW f \in Seq(Byte), NEW p \in 0..Len(f) - 1
    PROVE  /\ f[p + 1] # "LF" =>
                 /\ Pick(f, Span(f, p + 2)) = Append(Pick(f, Span(f, p + 1)), f[p + 1])
                 /\ ScannedLines(f, p + 1) = ScannedLines(f, p)
           /\ f[p + 1] = "LF" =>
                 /\ Pick(f, Span(f, p + 2)) = <<>>
                 /\ ScannedLines(f, p + 1) =
                       Append(ScannedLines(f, p), WithoutCR(Pick(f, Span(f, p + 1))))
<1>1. Len(f) \in Nat /\ p + 1 \in 1..Len(f) /\ p + 1 \in 0..Len(f) /\ p \in 0..Len(f)
  BY LenProperties
<1>2. ASSUME f[p + 1] # "LF"
      PROVE  Pick(f, Span(f, p + 2)) = Append(Pick(f, Span(f, p + 1)), f[p + 1])
  <2>1. PICK i \in 1..Len(f) : i = p + 1
    BY <1>1
  <2>2. \A j \in Span(f, p + 1) : j \in 1..i - 1
    BY <2>1 DEF Span
  <2>3. Span(f, p + 2) = Span(f, p + 1) \cup {i}
    BY <1>2, <2>1, SpanStep
  <2>4. Pick(f, Span(f, p + 2)) = Append(Pick(f, Span(f, p + 1)), f[i])
    BY <2>2, <2>3, PickBehind
  <2> QED BY <2>1, <2>4
<1>3. ASSUME f[p + 1] # "LF" PROVE ScannedLines(f, p + 1) = ScannedLines(f, p)
  BY <1>3, SpanStep, Zenon DEF ScannedLines
<1>4. ASSUME f[p + 1] = "LF" PROVE Pick(f, Span(f, p + 2)) = <<>>
  BY <1>4, SpanStep, PickEmpty
<1>5. ASSUME f[p + 1] = "LF"
      PROVE  ScannedLines(f, p + 1) =
                Append(ScannedLines(f, p), WithoutCR(Pick(f, Span(f, p + 1))))
  <2>1. PICK i \in 1..Len(TextAt(f)) : i = p + 1
    BY <1>1, LinesType
  <2>2. TextAt(f) \in Seq(Seq(Byte)) /\ \A e \in Closed(f, p) : e \in 1..i - 1
    BY <1>1, <2>1, LinesType DEF Closed
  <2>3. Pick(TextAt(f), Closed(f, p + 1)) =
           Append(Pick(TextAt(f), Closed(f, p)), TextAt(f)[i])
    <3>1. Closed(f, p + 1) = Closed(f, p) \cup {i}
      BY <1>5, <2>1, SpanStep
    <3> QED BY <2>2, <3>1, PickBehind
  <2>4. TextAt(f)[i] = WithoutCR(Pick(f, Span(f, p + 1)))
    <3>1. i \in 1..Len(f) + 1
      BY <1>1, <2>1
    <3> QED BY <2>1, <3>1, Zenon DEF TextAt
  <2>5. ScannedLines(f, p + 1) = Pick(TextAt(f), Closed(f, p + 1))
    BY <1>1, ScannedLinesPicked
  <2>6. ScannedLines(f, p) = Pick(TextAt(f), Closed(f, p))
    BY <1>1, ScannedLinesPicked
  <2> QED BY <2>3, <2>4, <2>5, <2>6
<1> QED BY <1>2, <1>3, <1>4, <1>5

\* What is appended to a file changes nothing before it.
LEMMA SameBefore ==
    ASSUME NEW f \in Seq(Byte), NEW g \in Seq(Byte), NEW p \in 0..Len(f),
           Len(f) <= Len(g), \A i \in 1..Len(f) : g[i] = f[i]
    PROVE  /\ ScannedLines(g, p) = ScannedLines(f, p)
           /\ Pick(g, Span(g, p + 1)) = Pick(f, Span(f, p + 1))
           /\ Closed(g, p) = Closed(f, p)
           /\ \A e \in 1..Len(f) + 1 : Span(g, e) = Span(f, e)
<1>1. Len(f) \in Nat /\ Len(g) \in Nat /\ \A i \in 1..p : i \in 1..Len(f)
  BY LenProperties
<1>2. ASSUME NEW e \in 1..Len(f) + 1 PROVE Span(g, e) = Span(f, e)
  <2>1. \A i \in 1..e - 1 : \A j \in i..e - 1 : g[j] = f[j]
    BY <1>1
  <2> QED BY <2>1 DEF Span
<1>3. ASSUME NEW e \in 1..Len(f) + 1 PROVE Pick(g, Span(g, e)) = Pick(f, Span(f, e))
  <2>1. Positions(Span(f, e)) /\ \A i \in Span(f, e) : g[i] = f[i]
    BY LineType
  <2> QED BY <1>2, <2>1, PickAgrees
<1>4. Closed(g, p) = Closed(f, p)
  BY <1>1 DEF Closed
<1>5. ScannedLines(g, p) = ScannedLines(f, p)
  <2>1. \A k \in 1..Cardinality(Closed(f, p)) : Nth(Closed(f, p), k) \in 1..Len(f) + 1
    BY NthExists, EndsType
  <2> QED BY <1>3, <1>4, <2>1, Zenon DEF ScannedLines
<1>6. p + 1 \in 1..Len(f) + 1
  BY <1>1
<1> QED BY <1>2, <1>3, <1>4, <1>5, <1>6

LEMMA PickIsEmpty ==
    ASSUME NEW S, NEW f \in Seq(S), NEW P, \A i \in P : i \in 1..Len(f)
    PROVE  Pick(f, P) = <<>> <=> P = {}
<1>1. Len(Pick(f, P)) = Cardinality(P) /\ IsFiniteSet(P)
  BY PickType DEF Positions
<1>2. Pick(f, P) = <<>> => Cardinality(P) = 0
  BY <1>1
<1> QED BY <1>1, <1>2, FS_EmptySet, PickEmpty

\* What follows the last LF is a line, unless nothing follows it.
LEMMA LastEnd ==
    ASSUME NEW f \in Seq(Byte)
    PROVE  /\ Span(f, Len(f) + 1) = {} => LineEnds(f) = Closed(f, Len(f))
           /\ Span(f, Len(f) + 1) # {} => LineEnds(f) = Closed(f, Len(f)) \cup {Len(f) + 1}
<1>1. PICK m \in Nat : m = Len(f)
  BY LenProperties
<1>2. ASSUME NEW e
      PROVE  e \in LineEnds(f) <=> \/ e \in 1..m /\ f[e] = "LF"
                                   \/ e = m + 1 /\ Span(f, e) # {}
  <2>1. e \in LineEnds(f) <=> /\ e \in 1..m + 1 /\ (e = m + 1 \/ f[e] = "LF")
                              /\ e <= m \/ Span(f, e) # {}
    BY <1>1, Zenon DEF LineEnds, Ends
  <2>2. e \in 1..m + 1 <=> e \in 1..m \/ e = m + 1
    BY <1>1
  <2>3. e \in 1..m => e <= m /\ e # m + 1
    BY <1>1
  <2>4. e = m + 1 => ~(e <= m)
    BY <1>1
  <2> QED BY <2>1, <2>2, <2>3, <2>4
<1>3. \A e : e \in Closed(f, m) <=> e \in 1..m /\ f[e] = "LF"
  BY Zenon DEF Closed
<1>4. ASSUME Span(f, m + 1) = {} PROVE LineEnds(f) = Closed(f, m)
  BY <1>2, <1>3, <1>4, Zenon
<1>5. ASSUME Span(f, m + 1) # {} PROVE LineEnds(f) = Closed(f, m) \cup {m + 1}
  <2>1. \A e : e \in LineEnds(f) <=> e \in Closed(f, m) \/ e = m + 1
    BY <1>2, <1>3, <1>5, Zenon
  <2> QED BY <2>1, Zenon
<1> QED BY <1>1, <1>4, <1>5

\* At the end of the file the scanner has seen all its lines.
LEMMA AllLines ==
    ASSUME NEW f \in Seq(Byte)
    PROVE  LET last == Pick(f, Span(f, Len(f) + 1)) IN
             ScannedLines(f, Len(f)) \o (IF last = <<>> THEN <<>> ELSE <<WithoutCR(last)>>)
                = TextLines(f)
<1> DEFINE last == Pick(f, Span(f, Len(f) + 1))
<1>1. Len(f) \in Nat /\ Len(f) \in 0..Len(f) /\ Len(f) + 1 \in 1..Len(f) + 1
  BY LenProperties
<1>2. last = <<>> <=> Span(f, Len(f) + 1) = {}
  <2>1. \A i \in Span(f, Len(f) + 1) : i \in 1..Len(f)
    BY <1>1, LineType
  <2> QED BY <2>1, PickIsEmpty
<1>3. /\ TextLines(f) = Pick(TextAt(f), LineEnds(f))
      /\ ScannedLines(f, Len(f)) = Pick(TextAt(f), Closed(f, Len(f)))
  BY <1>1, TextLinesPicked, ScannedLinesPicked
<1>4. /\ TextAt(f) \in Seq(Seq(Byte)) /\ Len(TextAt(f)) = Len(f) + 1
      /\ \A e \in Closed(f, Len(f)) : e \in 1..Len(TextAt(f))
  BY <1>1, LinesType DEF Closed
<1>5. ScannedLines(f, Len(f)) \in Seq(Seq(Byte))
  BY <1>3, <1>4, PickType
<1>6. CASE last = <<>>
  <2>1. ScannedLines(f, Len(f)) = TextLines(f)
    BY <1>2, <1>3, <1>6, LastEnd
  <2>2. ScannedLines(f, Len(f)) \o <<>> = ScannedLines(f, Len(f))
    BY <1>5, ConcatEmptySeq
  <2> QED BY <1>6, <2>1, <2>2
<1>7. CASE last # <<>>
  <2>1. PICK i \in 1..Len(TextAt(f)) : i = Len(f) + 1
    BY <1>1, <1>4
  <2>2. LineEnds(f) = Closed(f, Len(f)) \cup {i}
    BY <1>2, <1>7, <2>1, LastEnd
  <2>3. \A e \in Closed(f, Len(f)) : e \in 1..i - 1
    BY <1>1, <2>1 DEF Closed
  <2>4. TextLines(f) = Append(ScannedLines(f, Len(f)), TextAt(f)[i])
    <3>1. TextAt(f) \in Seq(Seq(Byte))
      BY <1>4
    <3>2. Pick(TextAt(f), LineEnds(f)) =
             Append(Pick(TextAt(f), Closed(f, Len(f))), TextAt(f)[i])
      BY <2>2, <2>3, <3>1, PickBehind
    <3> QED BY <1>3, <3>2
  <2>5. TextAt(f)[i] = WithoutCR(last)
    BY <1>1, <2>1, Zenon DEF TextAt
  <2>6. WithoutCR(last) \in Seq(Byte)
    <3>1. last \in Seq(Byte)
      BY <1>1, LineType
    <3> HIDE DEF last
    <3> QED BY <3>1, WithoutCRType
  <2>7. Append(ScannedLines(f, Len(f)), WithoutCR(last)) =
           ScannedLines(f, Len(f)) \o <<WithoutCR(last)>>
    <3> HIDE DEF last
    <3> QED BY <1>5, <2>6, AppendIsConcat
  <2> QED BY <1>7, <2>4, <2>5, <2>7
<1> QED BY <1>6, <1>7

LEMMA LineLengths ==
    ASSUME NEW f \in Seq(Byte)
    PROVE  /\ \A k \in DOMAIN LinesOf(f) : \E e \in LineEnds(f) :
                 Len(LinesOf(f)[k]) = Cardinality(Span(f, e))
           /\ \A e \in LineEnds(f) : \E k \in DOMAIN LinesOf(f) :
                 Len(LinesOf(f)[k]) = Cardinality(Span(f, e))
<1>1. /\ DOMAIN LinesOf(f) = 1..Cardinality(LineEnds(f))
      /\ \A k \in 1..Cardinality(LineEnds(f)) :
            LinesOf(f)[k] = Pick(f, Span(f, Nth(LineEnds(f), k)))
  BY Zenon DEF LinesOf
<1>2. Positions(LineEnds(f)) /\ \A e \in LineEnds(f) : e \in 1..Len(f) + 1
  BY EndsType
<1>3. \A e \in LineEnds(f) : Len(Pick(f, Span(f, e))) = Cardinality(Span(f, e))
  BY <1>2, LineType
<1>4. ASSUME NEW k \in DOMAIN LinesOf(f)
      PROVE  \E e \in LineEnds(f) : Len(LinesOf(f)[k]) = Cardinality(Span(f, e))
  <2>1. Nth(LineEnds(f), k) \in LineEnds(f)
    BY <1>1, <1>2, NthExists
  <2> QED BY <1>1, <1>3, <2>1
<1>5. ASSUME NEW e \in LineEnds(f)
      PROVE  \E k \in DOMAIN LinesOf(f) : Len(LinesOf(f)[k]) = Cardinality(Span(f, e))
  <2>1. /\ Rank(LineEnds(f), e) \in 1..Cardinality(LineEnds(f))
        /\ Nth(LineEnds(f), Rank(LineEnds(f), e)) = e
    BY <1>2, RankOfElement, NthOfRank
  <2> QED BY <1>1, <1>3, <2>1
<1> QED BY <1>4, <1>5

\* The beginning of a line is a part of it.
LEMMA LineGoesOn ==
    ASSUME NEW f \in Seq(Byte), NEW p \in 0..Len(f), Span(f, p + 1) # {}
    PROVE  \E e \in LineEnds(f) : Cardinality(Span(f, p + 1)) <= Cardinality(Span(f, e))
<1> DEFINE T == {e \in Ends(f) : e >= p + 1}
<1>1. /\ Len(f) \in Nat /\ p + 1 \in 1..Len(f) + 1
      /\ \A e \in Ends(f) : e \in 1..Len(f) + 1
      /\ Len(f) + 1 \in T
  BY EndsType
<1>2. T \subseteq Nat
  BY <1>1
<1>3. PICK e \in T : \A y \in T : e <= y
  BY <1>1, <1>2, LeastNat
<1>4. e \in 1..Len(f) + 1 /\ e >= p + 1
  BY <1>1
<1>5. ASSUME NEW j \in p + 1..e - 1 PROVE f[j] # "LF"
  <2>1. j \notin T /\ j \in 1..Len(f) + 1 /\ j >= p + 1
    BY <1>1, <1>3, <1>4
  <2> QED BY <2>1 DEF Ends
<1>6. \A i \in Span(f, p + 1) : i \in Span(f, e)
  <2> TAKE i \in Span(f, p + 1)
  <2>1. i \in 1..p /\ \A j \in i..p : f[j] # "LF"
    BY <1>1 DEF Span
  <2>2. \A j \in i..e - 1 : j \in i..p \/ j \in p + 1..e - 1
    BY <1>4, <2>1
  <2>3. i \in 1..e - 1
    BY <1>4, <2>1
  <2> QED BY <1>5, <2>1, <2>2, <2>3 DEF Span
<1>7. Cardinality(Span(f, p + 1)) <= Cardinality(Span(f, e))
  <2>1. IsFiniteSet(Span(f, e)) /\ Span(f, p + 1) \in SUBSET Span(f, e)
    BY <1>4, <1>6, LineType DEF Positions
  <2> QED BY <2>1, FS_Subset
<1>8. e \in LineEnds(f)
  BY <1>3, <1>6 DEF LineEnds
<1> QED BY <1>7, <1>8

-----------------------------------------------------------------------------
(* Reading backward.                                                       *)

LEMMA CurrentType ==
    ASSUME NEW f \in Seq(Byte), NEW q \in 0..Len(f)
    PROVE  /\ \A i \in Current(f, q) : i \in q + 1..Len(f) /\ i \in 1..Len(f)
           /\ Pick(f, Current(f, q)) \in Seq(Byte)
           /\ Pick(f, Current(f, q)) = <<>> <=> Current(f, q) = {}
<1>1. \A i \in Current(f, q) : i \in q + 1..Len(f) /\ i \in 1..Len(f)
  BY LenProperties DEF Current
<1> QED BY <1>1, PickType, PickIsEmpty

LEMMA CurrentStep ==
    ASSUME NEW f \in Seq(Byte), NEW q \in 1..Len(f)
    PROVE  /\ f[q] = "CR" => Current(f, q - 1) = Current(f, q)
           /\ f[q] = "LF" => Current(f, q - 1) = {}
           /\ f[q] \notin {"CR", "LF"} => Current(f, q - 1) = {q} \cup Current(f, q)
           /\ f[q] # "LF" => Done(f, q - 1) = Done(f, q)
<1>1. Len(f) \in Nat /\ q - 1 + 1 = q
  BY LenProperties
<1>2. ASSUME f[q] # "LF", NEW i
      PROVE  i \in q..Len(f) /\ (\A j \in q..i : f[j] # "LF")
             <=> i = q \/ (i \in q + 1..Len(f) /\ \A j \in q + 1..i : f[j] # "LF")
  <2>1. CASE i = q
    <3>1. q \in q..Len(f) /\ \A j \in q..q : j = q
      BY <1>1
    <3> QED BY <1>2, <2>1, <3>1
  <2>2. CASE i # q
    <3>1. i \in q..Len(f) <=> i \in q + 1..Len(f)
      BY <1>1, <2>2
    <3>2. i \in q + 1..Len(f) => \A j : j \in q..i <=> j = q \/ j \in q + 1..i
      BY <1>1
    <3> QED BY <1>2, <2>2, <3>1, <3>2
  <2> QED BY <2>1, <2>2
<1>3. ASSUME f[q] # "LF", NEW i
      PROVE  i \in Current(f, q - 1) <=> (i = q /\ f[q] # "CR") \/ i \in Current(f, q)
  <2>1. i \in Current(f, q - 1) <=>
           i \in q..Len(f) /\ f[i] # "CR" /\ \A j \in q..i : f[j] # "LF"
    BY <1>1, Zenon DEF Current
  <2>2. i \in Current(f, q) <=>
           i \in q + 1..Len(f) /\ f[i] # "CR" /\ \A j \in q + 1..i : f[j] # "LF"
    BY Zenon DEF Current
  <2> QED BY <1>2, <1>3, <2>1, <2>2, Zenon
<1>4. ASSUME f[q] = "CR" PROVE Current(f, q - 1) = Current(f, q)
  BY <1>3, <1>4
<1>5. ASSUME f[q] = "LF" PROVE Current(f, q - 1) = {}
  <2>1. \A i \in q..Len(f) : q \in q..i
    BY <1>1
  <2> QED BY <1>1, <1>5, <2>1 DEF Current
<1>6. ASSUME f[q] \notin {"CR", "LF"} PROVE Current(f, q - 1) = {q} \cup Current(f, q)
  BY <1>3, <1>6
<1>7. ASSUME f[q] # "LF" PROVE Done(f, q - 1) = Done(f, q)
  <2>1. ASSUME NEW e \in VisibleEnds(f)
        PROVE  (\E i \in q..e - 1 : f[i] = "LF") <=> (\E i \in q + 1..e - 1 : f[i] = "LF")
    <3>1. e \in Int
      BY EndsType
    <3>2. \A i \in q..e - 1 : i = q \/ i \in q + 1..e - 1
      BY <3>1
    <3>3. \A i \in q + 1..e - 1 : i \in q..e - 1
      BY <3>1
    <3> QED BY <1>7, <3>2, <3>3
  <2> QED BY <1>1, <2>1, Zenon DEF Done
<1> QED BY <1>4, <1>5, <1>6, <1>7

Behind(f, q) == {e \in VisibleEnds(f) : e > q}

\* Where a line begins, the ends behind it are those of the lines that are done, and,
\* unless nothing of this one is visible, its own before them.
LEMMA LineBegins ==
    ASSUME NEW f \in Seq(Byte), NEW q \in 0..Len(f), q = 0 \/ f[q] = "LF"
    PROVE  /\ Current(f, q) = {} => Behind(f, q) = Done(f, q)
           /\ Current(f, q) # {} =>
                \E e \in 1..Len(f) + 1 : /\ Behind(f, q) = {e} \cup Done(f, q)
                                         /\ Visible(f, e) = Current(f, q)
                                         /\ \A d \in Done(f, q) : e < d
<1> DEFINE T == {e \in Ends(f) : e >= q + 1}
<1>1. /\ Len(f) \in Nat
      /\ \A e \in Ends(f) : e \in 1..Len(f) + 1
      /\ Len(f) + 1 \in T
  BY EndsType
<1>2. T \subseteq Nat
  BY <1>1
<1>3. PICK e \in T : \A y \in T : e <= y
  BY <1>1, <1>2, LeastNat
<1>4. e \in 1..Len(f) + 1 /\ e >= q + 1
  BY <1>1
<1>5. ASSUME NEW j \in q + 1..e - 1 PROVE f[j] # "LF"
  <2>1. j \notin T /\ j \in 1..Len(f) + 1 /\ j >= q + 1
    BY <1>1, <1>3, <1>4
  <2> QED BY <2>1 DEF Ends
<1>6. \A i : i \in Span(f, e) <=> i \in q + 1..e - 1
  <2> TAKE i
  <2>1. i \in q + 1..e - 1 => i \in 1..e - 1 /\ \A j \in i..e - 1 : j \in q + 1..e - 1
    BY <1>4
  <2>2. ASSUME i \in 1..e - 1, i \notin q + 1..e - 1 PROVE q # 0 /\ q \in i..e - 1
    BY <1>4, <2>2
  <2> QED BY <1>5, <2>1, <2>2 DEF Span
<1>7. e <= Len(f) => f[e] = "LF"
  BY <1>3, <1>4 DEF Ends
<1>8. \A i : i \in Current(f, q) <=> i \in q + 1..e - 1 /\ f[i] # "CR"
  <2> TAKE i
  <2>1. ASSUME i \in q + 1..e - 1
        PROVE  i \in q + 1..Len(f) /\ \A j \in q + 1..i : j \in q + 1..e - 1
    BY <1>1, <1>4, <2>1
  <2>2. ASSUME i \in q + 1..Len(f), i \notin q + 1..e - 1
        PROVE  e \in q + 1..i /\ e <= Len(f)
    BY <1>1, <1>4, <2>2
  <2> QED BY <1>5, <1>7, <2>1, <2>2 DEF Current
<1>9. Visible(f, e) = Current(f, q)
  BY <1>6, <1>8, Zenon DEF Visible
<1>10. ASSUME NEW d
       PROVE  d \in Behind(f, q) <=> d \in Done(f, q) \/ (d = e /\ Current(f, q) # {})
  <2>1. d \in Behind(f, q) => d \in VisibleEnds(f) /\ d \in T
    <3>1. \A y \in VisibleEnds(f) : y \in Ends(f) /\ y \in Int
      BY EndsType
    <3> QED BY <3>1 DEF Behind
  <2>2. d \in T => d >= e /\ d \in Int
    BY <1>1, <1>3
  <2>3. ASSUME d \in VisibleEnds(f), d \in T, d # e PROVE d \in Done(f, q)
    <3>1. e \in q + 1..d - 1 /\ e <= Len(f)
      BY <1>1, <1>4, <2>2, <2>3
    <3> QED BY <1>7, <2>3, <3>1 DEF Done
  <2>4. ASSUME d \in Done(f, q) PROVE d \in Behind(f, q)
    <3>1. d \in VisibleEnds(f) /\ d \in Int
      BY <2>4, EndsType
    <3>2. d > q
      BY <2>4, <3>1 DEF Done
    <3> QED BY <3>1, <3>2 DEF Behind
  <2>5. e \in VisibleEnds(f) <=> Current(f, q) # {}
    BY <1>3, <1>9, Zenon DEF VisibleEnds
  <2>6. e \in VisibleEnds(f) => e \in Behind(f, q)
    BY <1>4 DEF Behind
  <2> QED BY <2>1, <2>3, <2>4, <2>5, <2>6, Zenon
<1>11. ASSUME NEW d \in Done(f, q) PROVE e < d
  <2>1. PICK i \in q + 1..d - 1 : f[i] = "LF"
    BY DEF Done
  <2>2. d \in 1..Len(f) + 1
    BY EndsType
  <2>3. i \in T /\ i < d /\ i \in Int
    BY <1>1, <2>1, <2>2 DEF Ends
  <2> QED BY <1>3, <1>4, <2>2, <2>3
<1>12. ASSUME Current(f, q) = {} PROVE Behind(f, q) = Done(f, q)
  BY <1>10, <1>12, Zenon
<1>13. ASSUME Current(f, q) # {} PROVE Behind(f, q) = {e} \cup Done(f, q)
  BY <1>10, <1>13
<1> QED BY <1>4, <1>9, <1>11, <1>12, <1>13

\* At the start of the file the lines that begin there are all, and an LF ends them.
LEMMA BehindIsDone ==
    ASSUME NEW f \in Seq(Byte)
    PROVE  /\ Behind(f, 0) = VisibleEnds(f)
           /\ \A q \in 1..Len(f) : f[q] = "LF" => Behind(f, q) = Done(f, q - 1)
<1>1. \A e \in VisibleEnds(f) : e \in 1..Len(f) + 1
  BY EndsType
<1>2. Len(f) \in Nat
  BY EndsType
<1>3. Behind(f, 0) = VisibleEnds(f)
  BY <1>1 DEF Behind
<1>4. ASSUME NEW q \in 1..Len(f), f[q] = "LF" PROVE Behind(f, q) = Done(f, q - 1)
  <2>1. q - 1 + 1 = q
    OBVIOUS
  <2>2. ASSUME NEW e \in VisibleEnds(f)
        PROVE  e > q <=> \E i \in q..e - 1 : f[i] = "LF"
    <3>1. e \in Int
      BY <1>1
    <3>2. e > q => q \in q..e - 1
      BY <3>1
    <3>3. ASSUME NEW i \in q..e - 1 PROVE e > q
      BY <3>1
    <3> QED BY <1>4, <3>2, <3>3
  <2> QED BY <2>1, <2>2, Zenon DEF Behind, Done
<1> QED BY <1>3, <1>4

LEMMA PickInFront ==
    ASSUME NEW S, NEW f \in Seq(S), NEW i \in 1..Len(f), NEW P, \A j \in P : j \in i + 1..Len(f),
           NEW Q, Q = {i} \cup P
    PROVE  Pick(f, Q) = <<f[i]>> \o Pick(f, P)
<1>1. Len(f) \in Nat /\ \A j \in P : j \in 1..Len(f)
  BY LenProperties
<1>2. Positions(P) /\ i \in Nat /\ \A b \in P : i < b
  BY <1>1, IntervalPositions
<1>3. /\ Cardinality(Q) = Cardinality(P) + 1
      /\ \A k \in 1..Cardinality(P) : Nth(Q, 1 + k) = Nth(P, k)
      /\ Nth(Q, 1) = i
  BY <1>2, NthBefore
<1>4. Pick(f, P) \in Seq(S) /\ Len(Pick(f, P)) = Cardinality(P)
  BY <1>1, PickType
<1>5. Pick(f, Q) \in Seq(S) /\ Len(Pick(f, Q)) = Cardinality(P) + 1
  <2>1. \A j \in Q : j \in 1..Len(f)
    BY <1>1
  <2> QED BY <1>3, <2>1, PickType
<1>6. <<f[i]>> \in Seq(S) /\ Len(<<f[i]>>) = 1 /\ <<f[i]>>[1] = f[i]
  BY ElementOfSeq
<1>7. PICK m \in Nat : m = Cardinality(P)
  BY <1>2, FS_CardinalityType DEF Positions
<1> DEFINE t == <<f[i]>> \o Pick(f, P)
<1>8. t \in Seq(S) /\ Len(t) = m + 1 /\ t[1] = f[i] /\ \A k \in 1..m : t[1 + k] = Pick(f, P)[k]
  <2> DEFINE h == <<f[i]>>
  <2>1. h \in Seq(S) /\ Len(h) = 1 /\ h[1] = f[i]
    BY <1>6
  <2> HIDE DEF h
  <2> DEFINE s == Pick(f, P)
  <2>2. s \in Seq(S) /\ Len(s) = m
    BY <1>4, <1>7
  <2> HIDE DEF s
  <2>3. /\ h \o s \in Seq(S)
        /\ Len(h \o s) = Len(h) + Len(s)
        /\ \A k \in 1..Len(h) + Len(s) :
              (h \o s)[k] = IF k <= Len(h) THEN h[k] ELSE s[k - Len(h)]
    BY <2>1, <2>2, ConcatProperties
  <2>4. (h \o s)[1] = f[i]
    BY <2>1, <2>2, <2>3
  <2>5. ASSUME NEW k \in 1..m PROVE (h \o s)[1 + k] = s[k]
    <3>1. 1 + k \in 1..Len(h) + Len(s) /\ ~(1 + k <= Len(h)) /\ 1 + k - Len(h) = k
      BY <2>1, <2>2
    <3> QED BY <2>3, <3>1
  <2>6. Len(h \o s) = m + 1
    BY <2>1, <2>2, <2>3
  <2> QED BY <2>3, <2>4, <2>5, <2>6 DEF h, s
<1>9. /\ Pick(f, Q)[1] = f[i]
      /\ \A k \in 1..m : Pick(f, Q)[1 + k] = Pick(f, P)[k]
  <2>1. \A k \in 1..m + 1 : Pick(f, Q)[k] = f[Nth(Q, k)]
    BY <1>3, <1>7, Zenon DEF Pick
  <2>2. \A k \in 1..m : Pick(f, P)[k] = f[Nth(P, k)]
    BY <1>7, Zenon DEF Pick
  <2>3. Pick(f, Q)[1] = f[i]
    <3>1. 1 \in 1..m + 1
      OBVIOUS
    <3> QED BY <1>3, <2>1, <3>1, Zenon
  <2>4. ASSUME NEW k \in 1..m PROVE Pick(f, Q)[1 + k] = Pick(f, P)[k]
    <3>1. PICK j \in 1..m + 1 : j = 1 + k
      OBVIOUS
    <3>2. Nth(Q, j) = Nth(P, k)
      BY <1>3, <1>7, <3>1
    <3> QED BY <2>1, <2>2, <3>1, <3>2
  <2> QED BY <2>3, <2>4
<1> HIDE DEF t
<1>10. ASSUME NEW k \in 1..m + 1 PROVE Pick(f, Q)[k] = t[k]
  <2>1. k = 1 \/ (k - 1 \in 1..m /\ k = 1 + (k - 1))
    OBVIOUS
  <2> QED BY <1>8, <1>9, <2>1
<1>11. Pick(f, Q) = t
  BY <1>5, <1>7, <1>8, <1>10, SeqEqual
<1> QED BY <1>11 DEF t

LEMMA CollectedType ==
    ASSUME NEW f \in Seq(Byte), NEW q \in 0..Len(f)
    PROVE  /\ CollectedLines(f, q) \in Seq(Seq(Byte))
           /\ Len(CollectedLines(f, q)) = Cardinality(Done(f, q))
           /\ Reverse(Pick(f, Current(f, q))) \in Seq(Byte)
           /\ Reverse(Pick(f, Current(f, q))) = <<>> <=> Current(f, q) = {}
<1>1. q \in Nat /\ Len(f) \in Nat
  BY LenProperties
<1>2. /\ ReversedAt(f) \in Seq(Seq(Byte))
      /\ \A e \in Done(f, q) : e \in 1..Len(ReversedAt(f))
  BY <1>1, LinesType, EndsType
<1>3. /\ CollectedLines(f, q) \in Seq(Seq(Byte))
      /\ Len(CollectedLines(f, q)) = Cardinality(Done(f, q))
  <2>1. CollectedLines(f, q) = Pick(ReversedAt(f), Done(f, q))
    BY <1>1, CollectedLinesPicked
  <2> QED BY <1>2, <2>1, PickType
<1> DEFINE s == Pick(f, Current(f, q))
<1>4. s \in Seq(Byte) /\ (s = <<>> <=> Current(f, q) = {})
  BY CurrentType
<1> HIDE DEF s
<1>5. Reverse(s) \in Seq(Byte) /\ Len(Reverse(s)) = Len(s) /\ Len(s) \in Nat
  BY <1>4, ReverseType, LenProperties
<1>6. Reverse(s) = <<>> <=> s = <<>>
  <2>1. Len(s) = 0 <=> s = <<>>
    BY <1>4, EmptySeq
  <2>2. Len(Reverse(s)) = 0 <=> Reverse(s) = <<>>
    BY <1>5, EmptySeq
  <2> QED BY <1>5, <2>1, <2>2
<1> QED BY <1>3, <1>4, <1>5, <1>6 DEF s

\* At the beginning of a line, it is the first of the visible lines from there on.
LEMMA BehindLines ==
    ASSUME NEW f \in Seq(Byte), NEW q \in 0..Len(f), q = 0 \/ f[q] = "LF"
    PROVE  LET line == Reverse(Pick(f, Current(f, q))) IN
             Pick(ReversedAt(f), Behind(f, q)) =
                IF line = <<>> THEN CollectedLines(f, q) ELSE <<line>> \o CollectedLines(f, q)
<1> DEFINE line == Reverse(Pick(f, Current(f, q)))
<1>1. line = <<>> <=> Current(f, q) = {}
  BY CollectedType
<1>2. CollectedLines(f, q) = Pick(ReversedAt(f), Done(f, q))
  BY CollectedLinesPicked
<1>3. CASE Current(f, q) = {}
  <2>1. Behind(f, q) = Done(f, q)
    BY <1>3, LineBegins
  <2> QED BY <1>1, <1>2, <1>3, <2>1
<1>4. CASE Current(f, q) # {}
  <2>1. PICK e \in 1..Len(f) + 1 :
                 /\ Behind(f, q) = {e} \cup Done(f, q)
                 /\ Visible(f, e) = Current(f, q)
                 /\ \A d \in Done(f, q) : e < d
    BY <1>4, LineBegins
  <2>2. ReversedAt(f) \in Seq(Seq(Byte)) /\ Len(ReversedAt(f)) = Len(f) + 1 /\ Len(f) \in Nat
    BY LinesType, LenProperties
  <2>3. e \in 1..Len(ReversedAt(f))
    BY <2>2
  <2>4. \A d \in Done(f, q) : d \in e + 1..Len(ReversedAt(f))
    <3>1. \A d \in Done(f, q) : d \in 1..Len(f) + 1
      BY EndsType
    <3> QED BY <2>1, <2>2, <3>1
  <2>5. Pick(ReversedAt(f), Behind(f, q)) =
           <<ReversedAt(f)[e]>> \o Pick(ReversedAt(f), Done(f, q))
    <3>1. ReversedAt(f) \in Seq(Seq(Byte)) /\ Behind(f, q) = {e} \cup Done(f, q)
      BY <2>1, <2>2
    <3> QED BY <2>3, <2>4, <3>1, PickInFront
  <2>6. ReversedAt(f)[e] = line
    BY <2>1, Zenon DEF ReversedAt
  <2> QED BY <1>1, <1>2, <1>4, <2>5, <2>6
<1> QED BY <1>3, <1>4

\* What readLastNLines does with a byte is what goes from q to q - 1.
LEMMA CollectedStep ==
    ASSUME NEW f \in Seq(Byte), NEW q \in 1..Len(f)
    PROVE  Collect(Collected(f, q), f[q]) = Collected(f, q - 1)
<1> DEFINE line == Reverse(Pick(f, Current(f, q)))
<1>1. Len(f) \in Nat /\ q \in 0..Len(f) /\ q - 1 \in 0..Len(f)
  BY LenProperties
<1>2. line = <<>> <=> Current(f, q) = {}
  BY <1>1, CollectedType
<1>3. CASE f[q] = "CR"
  <2>1. Current(f, q - 1) = Current(f, q) /\ Done(f, q - 1) = Done(f, q)
    BY <1>3, CurrentStep
  <2>2. Collected(f, q - 1) = Collected(f, q)
    BY <2>1, Zenon DEF Collected, CollectedLines
  <2>3. Collect(Collected(f, q), f[q]) = Collected(f, q)
    BY <1>3 DEF Collect
  <2> QED BY <2>2, <2>3
<1>4. CASE f[q] = "LF"
  <2>1. Current(f, q - 1) = {} /\ Behind(f, q) = Done(f, q - 1)
    BY <1>4, CurrentStep, BehindIsDone
  <2>2. Reverse(Pick(f, Current(f, q - 1))) = <<>>
    BY <1>1, <2>1, CollectedType
  <2>3. CollectedLines(f, q - 1) =
           IF line = <<>> THEN CollectedLines(f, q) ELSE <<line>> \o CollectedLines(f, q)
    <3>1. CollectedLines(f, q - 1) = Pick(ReversedAt(f), Behind(f, q))
      BY <1>1, <2>1, CollectedLinesPicked
    <3> QED BY <1>1, <1>4, <3>1, BehindLines
  <2>4. CASE line = <<>>
    <3>1. Collect(Collected(f, q), f[q]) = Collected(f, q)
      BY <1>4, <2>4 DEF Collect, Collected
    <3>2. Collected(f, q - 1) = Collected(f, q)
      BY <2>2, <2>3, <2>4 DEF Collected
    <3> QED BY <3>1, <3>2
  <2>5. CASE line # <<>>
    <3>1. Collect(Collected(f, q), f[q]) =
             [lines |-> <<line>> \o CollectedLines(f, q), line |-> <<>>]
      BY <1>4, <2>5 DEF Collect, Collected
    <3>2. Collected(f, q - 1) = [lines |-> <<line>> \o CollectedLines(f, q), line |-> <<>>]
      BY <2>2, <2>3, <2>5 DEF Collected
    <3> QED BY <3>1, <3>2
  <2> QED BY <2>4, <2>5
<1>5. CASE f[q] \notin {"CR", "LF"}
  <2>1. Current(f, q - 1) = {q} \cup Current(f, q) /\ Done(f, q - 1) = Done(f, q)
    BY <1>5, CurrentStep
  <2>2. \A j \in Current(f, q) : j \in q + 1..Len(f)
    BY <1>1, CurrentType
  <2>3. Reverse(Pick(f, Current(f, q - 1))) = Append(line, f[q])
    BY <2>1, <2>2, PickBefore
  <2>4. CollectedLines(f, q - 1) = CollectedLines(f, q)
    BY <2>1, Zenon DEF CollectedLines
  <2>5. Collect(Collected(f, q), f[q]) =
           [lines |-> CollectedLines(f, q), line |-> Append(line, f[q])]
    BY <1>5 DEF Collect, Collected
  <2> QED BY <2>3, <2>4, <2>5, Zenon DEF Collected
<1> QED BY <1>3, <1>4, <1>5

-----------------------------------------------------------------------------
(* The types.                                                              *)

FoundType == [lines : Seq(Seq(Byte)), line : Seq(Byte)]

LEMMA Sizes ==
    /\ MaxLines \in Nat /\ BufferSize \in Nat \ {0} /\ TokenLimit \in Nat \ {0}
    /\ SmallSize \in Nat /\ MaxWrites \in Nat
    /\ \A l \in Limits : l \in Nat
BY SizesAssumption

LEMMA StateType ==
    ASSUME TypeOK
    PROVE  /\ file \in Seq(Byte) /\ opened \in Seq(Byte) /\ buffer \in Seq(Byte)
           /\ Len(file) \in Nat /\ Len(opened) \in Nat /\ Len(buffer) \in Nat
           /\ found \in FoundType /\ Len(found.lines) \in Nat /\ Len(found.line) \in Nat
           /\ n \in Nat /\ pos \in Nat /\ writes \in Nat
<1>1. file \in Seq(Byte) /\ opened \in Seq(Byte) /\ buffer \in Seq(Byte) /\ found \in FoundType
  BY DEF TypeOK, FoundType
<1>2. Len(file) \in Nat /\ Len(opened) \in Nat /\ Len(buffer) \in Nat
  BY <1>1, LenProperties
<1>3. found.lines \in Seq(Seq(Byte)) /\ found.line \in Seq(Byte)
  BY <1>1 DEF FoundType
<1>4. Len(found.lines) \in Nat /\ Len(found.line) \in Nat
  BY <1>3, LenProperties
<1>5. n \in Nat
  BY Sizes DEF TypeOK
<1>6. pos \in Nat
  <2>1. pos \in 0..Len(opened) + MaxWrites
    BY DEF TypeOK
  <2> QED BY <1>2, <2>1, Sizes
<1>7. writes \in Nat
  <2>1. writes \in 0..MaxWrites
    BY DEF TypeOK
  <2> QED BY <2>1, Sizes
<1> QED BY <1>1, <1>2, <1>4, <1>5, <1>6, <1>7

LEMMA ScanType ==
    ASSUME NEW seen \in FoundType, NEW byte \in Byte
    PROVE  Scan(seen, byte) \in FoundType
<1>1. seen.lines \in Seq(Seq(Byte)) /\ seen.line \in Seq(Byte)
  BY DEF FoundType
<1>2. WithoutCR(seen.line) \in Seq(Byte)
  BY <1>1, WithoutCRType
<1>3. Append(seen.lines, WithoutCR(seen.line)) \in Seq(Seq(Byte)) /\ <<>> \in Seq(Byte)
  BY <1>1, <1>2, AppendProperties, EmptySeq
<1>4. Append(seen.line, byte) \in Seq(Byte)
  BY <1>1, AppendProperties
<1>5. CASE byte = "LF"
  BY <1>3, <1>5 DEF Scan, FoundType
<1>6. CASE byte # "LF"
  BY <1>4, <1>6 DEF Scan, FoundType
<1> QED BY <1>5, <1>6

LEMMA LineInFront ==
    ASSUME NEW S, NEW lines \in Seq(S), NEW line \in S
    PROVE  <<line>> \o lines \in Seq(S) /\ Len(<<line>> \o lines) = Len(lines) + 1
<1>1. <<line>> \in Seq(S) /\ Len(<<line>>) = 1
  OBVIOUS
<1> DEFINE h == <<line>>
<1>2. h \in Seq(S) /\ Len(h) = 1
  BY <1>1
<1> HIDE DEF h
<1>3. h \o lines \in Seq(S) /\ Len(h \o lines) = Len(h) + Len(lines) /\ Len(lines) \in Nat
  BY <1>2, ConcatProperties, LenProperties
<1> QED BY <1>2, <1>3 DEF h

\* One byte completes at most one line, and then begins a new one.
LEMMA CollectType ==
    ASSUME NEW seen \in FoundType, NEW byte \in Byte
    PROVE  /\ Collect(seen, byte) \in FoundType
           /\ \/ Len(Collect(seen, byte).lines) = Len(seen.lines)
              \/ /\ Len(Collect(seen, byte).lines) = Len(seen.lines) + 1
                 /\ Collect(seen, byte).line = <<>>
<1>1. seen.lines \in Seq(Seq(Byte)) /\ seen.line \in Seq(Byte)
  BY DEF FoundType
<1>2. /\ <<seen.line>> \o seen.lines \in Seq(Seq(Byte))
      /\ Len(<<seen.line>> \o seen.lines) = Len(seen.lines) + 1
      /\ <<>> \in Seq(Byte)
  BY <1>1, LineInFront, EmptySeq
<1>3. Append(seen.line, byte) \in Seq(Byte)
  BY <1>1, AppendProperties
<1>4. CASE byte = "LF" /\ seen.line # <<>>
  <2>1. Collect(seen, byte) = [lines |-> <<seen.line>> \o seen.lines, line |-> <<>>]
    BY <1>4 DEF Collect
  <2> QED BY <1>2, <2>1 DEF FoundType
<1>5. CASE byte \notin {"LF", "CR"}
  <2>1. Collect(seen, byte) = [seen EXCEPT !.line = Append(@, byte)]
    BY <1>5 DEF Collect
  <2> QED BY <1>3, <2>1 DEF FoundType
<1>6. CASE ~(byte = "LF" /\ seen.line # <<>>) /\ byte \in {"LF", "CR"}
  <2>1. Collect(seen, byte) = seen
    BY <1>6 DEF Collect
  <2> QED BY <2>1
<1> QED BY <1>4, <1>5, <1>6

\* The chunks that are read.
LEMMA ForwardChunk ==
    ASSUME TypeOK, ReadForward
    PROVE  /\ pos' \in pos + 1..Len(file)
           /\ buffer' \in Seq(Byte) /\ Len(buffer') = pos' - pos /\ Len(buffer') <= BufferSize
           /\ \A i \in 1..Len(buffer') : buffer'[i] = file[pos + i]
<1>1. pos \in Nat /\ Len(file) \in Nat /\ file \in Seq(Byte) /\ BufferSize \in Nat \ {0}
  BY StateType, Sizes
<1>2. pos' \in pos + 1..Len(file) /\ pos' - pos <= BufferSize
  <2>1. CASE pos + BufferSize <= Len(file)
    BY <1>1, <2>1 DEF ReadForward
  <2>2. CASE ~(pos + BufferSize <= Len(file))
    BY <1>1, <2>2 DEF ReadForward
  <2> QED BY <2>1, <2>2
<1>3. buffer' = SubSeq(file, pos + 1, pos')
  BY DEF ReadForward
<1>4. PICK a \in 1..Len(file) + 1 : a = pos + 1
  BY <1>1, <1>2
<1>5. PICK b \in a - 1..Len(file) : b = pos'
  BY <1>1, <1>2, <1>4
<1>6. /\ SubSeq(file, a, b) \in Seq(Byte) /\ Len(SubSeq(file, a, b)) = b - a + 1
      /\ \A k \in 1..b - a + 1 : SubSeq(file, a, b)[k] = file[a + k - 1]
  BY <1>1, PartOf
<1>7. buffer' \in Seq(Byte) /\ Len(buffer') = pos' - pos
  BY <1>1, <1>2, <1>3, <1>4, <1>5, <1>6
<1>8. ASSUME NEW i \in 1..Len(buffer') PROVE buffer'[i] = file[pos + i]
  <2>1. i \in 1..b - a + 1 /\ a + i - 1 = pos + i
    <3>1. b \in Int /\ a \in Int
      OBVIOUS
    <3>2. i \in 1..b - pos
      BY <1>5, <1>7
    <3> QED BY <1>1, <1>4, <3>1, <3>2
  <2> QED BY <1>3, <1>4, <1>5, <1>6, <2>1
<1> QED BY <1>2, <1>7, <1>8

LEMMA BackwardChunk ==
    ASSUME TypeOK, ReadBackward
    PROVE  /\ pos' \in 0..pos - 1
           /\ buffer' \in Seq(Byte) /\ Len(buffer') = pos - pos' /\ Len(buffer') <= BufferSize
           /\ \A i \in 1..Len(buffer') : buffer'[i] = file[pos' + i]
<1>1. /\ pos \in Nat /\ Len(file) \in Nat /\ file \in Seq(Byte) /\ BufferSize \in Nat \ {0}
      /\ pos > 0 /\ pos <= Len(file)
  BY StateType, Sizes DEF ReadBackward, Reads
<1>2. pos' \in 0..pos - 1 /\ pos - pos' <= BufferSize
  <2>1. CASE pos < BufferSize
    BY <1>1, <2>1 DEF ReadBackward, ChunkStart
  <2>2. CASE ~(pos < BufferSize)
    BY <1>1, <2>2 DEF ReadBackward, ChunkStart
  <2> QED BY <2>1, <2>2
<1>c. PICK c \in 0..pos - 1 : c = pos'
  BY <1>2
<1>3. buffer' = SubSeq(file, pos' + 1, pos)
  BY DEF ReadBackward
<1>4. PICK a \in 1..Len(file) + 1 : a = c + 1
  BY <1>1
<1>5. pos \in a - 1..Len(file)
  BY <1>1, <1>4
<1>6. /\ SubSeq(file, a, pos) \in Seq(Byte) /\ Len(SubSeq(file, a, pos)) = pos - a + 1
      /\ \A k \in 1..pos - a + 1 : SubSeq(file, a, pos)[k] = file[a + k - 1]
  BY <1>1, <1>5, PartOf
<1>7. buffer' = SubSeq(file, a, pos) /\ pos - a + 1 = pos - c
  BY <1>1, <1>3, <1>4, <1>c
<1>8. buffer' \in Seq(Byte) /\ Len(buffer') = pos - c
  BY <1>6, <1>7
<1>9. ASSUME NEW i \in 1..Len(buffer') PROVE buffer'[i] = file[pos' + i]
  <2>1. i \in 1..pos - a + 1 /\ a + i - 1 = c + i
    <3>1. i \in 1..pos - c
      BY <1>8
    <3> QED BY <1>1, <1>4, <3>1
  <2> QED BY <1>6, <1>7, <1>c, <2>1
<1> QED BY <1>2, <1>8, <1>9, <1>c

LEMMA BufferEnds ==
    ASSUME TypeOK, buffer # <<>>
    PROVE  /\ Len(buffer) \in Nat \ {0}
           /\ Head(buffer) \in Byte /\ Head(buffer) = buffer[1]
           /\ Tail(buffer) \in Seq(Byte) /\ Len(Tail(buffer)) = Len(buffer) - 1
           /\ \A i \in 1..Len(Tail(buffer)) : Tail(buffer)[i] = buffer[i + 1]
           /\ Last(buffer) \in Byte /\ Last(buffer) = buffer[Len(buffer)]
           /\ Front(buffer) \in Seq(Byte) /\ Len(Front(buffer)) = Len(buffer) - 1
           /\ \A i \in 1..Len(Front(buffer)) : Front(buffer)[i] = buffer[i]
<1>1. buffer \in Seq(Byte) /\ Len(buffer) \in Nat \ {0}
  BY StateType, EmptySeq
<1>2. /\ Head(buffer) \in Byte
      /\ Tail(buffer) \in Seq(Byte) /\ Len(Tail(buffer)) = Len(buffer) - 1
      /\ \A i \in 1..Len(Tail(buffer)) : Tail(buffer)[i] = buffer[i + 1]
  BY <1>1, HeadTailProperties
<1>3. Head(buffer) = buffer[1]
  OBVIOUS
<1>4. Last(buffer) = buffer[Len(buffer)] /\ Last(buffer) \in Byte
  <2>1. Len(buffer) \in 1..Len(buffer)
    BY <1>1
  <2>2. buffer[Len(buffer)] \in Byte
    BY <1>1, <2>1, ElementOfSeq
  <2> QED BY <2>2 DEF Last
<1>5. /\ Front(buffer) \in Seq(Byte) /\ Len(Front(buffer)) = Len(buffer) - 1
      /\ \A i \in 1..Len(Front(buffer)) : Front(buffer)[i] = buffer[i]
  <2>1. PICK b \in 1 - 1..Len(buffer) : b = Len(buffer) - 1
    BY <1>1
  <2>2. 1 \in 1..Len(buffer) + 1
    BY <1>1
  <2>3. /\ SubSeq(buffer, 1, b) \in Seq(Byte) /\ Len(SubSeq(buffer, 1, b)) = b - 1 + 1
        /\ \A k \in 1..b - 1 + 1 : SubSeq(buffer, 1, b)[k] = buffer[1 + k - 1]
    BY <1>1, <2>2, PartOf
  <2> DEFINE t == SubSeq(buffer, 1, b)
  <2>4. Front(buffer) = t
    BY <2>1 DEF Front
  <2>5. t \in Seq(Byte) /\ Len(t) = b /\ \A k \in 1..b : t[k] = buffer[k]
    BY <2>3
  <2> HIDE DEF t
  <2> QED BY <2>1, <2>4, <2>5
<1> QED BY <1>1, <1>2, <1>3, <1>4, <1>5

\* What the two readers answer with.
AllFound ==
    found.lines \o (IF found.line = <<>> THEN <<>> ELSE <<WithoutCR(found.line)>>)
AllCollected(seen) == IF seen.line = <<>> THEN seen.lines ELSE <<seen.line>> \o seen.lines

LEMMA BytesAreLines ==
    ASSUME NEW s \in Seq(Seq(Byte))
    PROVE  s \in Seq(Line)
<1>1. Seq(Byte) \subseteq Line
  BY SeqMonotonic DEF Line
<1> QED BY <1>1, SeqMonotonic

LEMMA ForwardAnswer ==
    ASSUME TypeOK, EndOfFile
    PROVE  /\ answer' = [status |-> "ok", lines |-> LastOf(AllFound, n)]
           /\ IsLastOf(LastOf(AllFound, n), AllFound, n)
           /\ LastOf(AllFound, n) \in Seq(Line) /\ Len(LastOf(AllFound, n)) <= n
<1>1. answer' = [status |-> "ok", lines |-> LastOf(AllFound, n)]
  BY DEF EndOfFile, Answer, AllFound
<1>2. found.lines \in Seq(Seq(Byte)) /\ found.line \in Seq(Byte) /\ n \in Nat
  BY StateType DEF FoundType
<1>3. (IF found.line = <<>> THEN <<>> ELSE <<WithoutCR(found.line)>>) \in Seq(Seq(Byte))
  <2>1. WithoutCR(found.line) \in Seq(Byte)
    BY <1>2, WithoutCRType
  <2>2. <<WithoutCR(found.line)>> \in Seq(Seq(Byte)) /\ <<>> \in Seq(Seq(Byte))
    BY <2>1
  <2> QED BY <2>2, Zenon
<1>4. AllFound \in Seq(Seq(Byte))
  BY <1>2, <1>3, ConcatProperties DEF AllFound
<1>5. /\ LastOf(AllFound, n) \in Seq(Seq(Byte))
      /\ IsLastOf(LastOf(AllFound, n), AllFound, n)
  BY <1>2, <1>4, LastOfIsLast
<1>6. Len(LastOf(AllFound, n)) <= n
  <2>1. PICK m \in Nat : m = Len(AllFound)
    BY <1>4, LenProperties
  <2>2. Len(LastOf(AllFound, n)) = IF m < n THEN m ELSE n
    BY <1>5, <2>1, Zenon DEF IsLastOf
  <2>3. CASE m < n
    BY <1>2, <2>2, <2>3
  <2>4. CASE ~(m < n)
    BY <1>2, <2>2, <2>4
  <2> QED BY <2>3, <2>4
<1> QED BY <1>1, <1>5, <1>6, BytesAreLines

LEMMA BackwardAnswer ==
    ASSUME TypeOK, PlaceInv, Finish
    PROVE  /\ AllCollected(found) \in Seq(Seq(Byte)) /\ Len(AllCollected(found)) <= n
           /\ answer'.status = "ok" /\ answer'.lines \in Seq(Line)
           /\ Len(answer'.lines) = Len(AllCollected(found))
           /\ \A i \in 1..Len(AllCollected(found)) :
                 answer'.lines[i] = ReverseString(AllCollected(found)[i])
<1>1. /\ found.lines \in Seq(Seq(Byte)) /\ found.line \in Seq(Byte) /\ n \in Nat
      /\ Len(found.lines) \in Nat
  BY StateType DEF FoundType
<1>2. AllCollected(found) \in Seq(Seq(Byte)) /\ Len(AllCollected(found)) <= n
  <2>1. Len(found.lines) <= n /\ (Len(found.lines) = n => found.line = <<>>)
    BY DEF Finish, PlaceInv
  <2>2. CASE found.line = <<>>
    BY <1>1, <2>1, <2>2 DEF AllCollected
  <2>3. CASE found.line # <<>>
    <3>1. /\ <<found.line>> \o found.lines \in Seq(Seq(Byte))
          /\ Len(<<found.line>> \o found.lines) = Len(found.lines) + 1
      BY <1>1, LineInFront
    <3>2. AllCollected(found) = <<found.line>> \o found.lines
      BY <2>3 DEF AllCollected
    <3>3. Len(found.lines) + 1 <= n
      BY <1>1, <2>1, <2>3
    <3> QED BY <3>1, <3>2, <3>3
  <2> QED BY <2>2, <2>3
<1>3. answer' = [status |-> "ok",
                 lines |-> [i \in DOMAIN AllCollected(found) |->
                               ReverseString(AllCollected(found)[i])]]
  BY DEF Finish, Answer, AllCollected
<1>4. PICK m \in Nat : m = Len(AllCollected(found)) /\ DOMAIN AllCollected(found) = 1..m
  BY <1>2, LenProperties
<1> DEFINE t == [i \in 1..m |-> ReverseString(AllCollected(found)[i])]
<1>5. \A i \in 1..m : AllCollected(found)[i] \in Seq(Byte)
  BY <1>2, <1>4, ElementOfSeq
<1>6. \A i \in 1..m : ReverseString(AllCollected(found)[i]) \in Line
  BY <1>5, ReverseStringType
<1>7. t \in [1..m -> Line]
  BY <1>6
<1>8. answer' = [status |-> "ok", lines |-> t]
  BY <1>3, <1>4
<1>9. \A i \in 1..m : t[i] = ReverseString(AllCollected(found)[i])
  OBVIOUS
<1> HIDE DEF t
<1>10. t \in Seq(Line) /\ Len(t) = m
  BY <1>7, FunctionIsSeq
<1> QED BY <1>2, <1>4, <1>8, <1>9, <1>10

LEMMA AnsweredType ==
    ASSUME TypeOK
    PROVE  0 \in 0..Len(opened) + MaxWrites /\ <<>> \in Seq(Byte) /\ Len(<<>>) <= BufferSize
<1>1. Len(opened) \in Nat /\ MaxWrites \in Nat /\ BufferSize \in Nat
  BY StateType, Sizes
<1> QED BY <1>1

LEMMA AnswerType ==
    ASSUME TypeOK,
           NEW status \in {"denied", "line too long", "read error", "ok"},
           NEW lines \in Seq(Line), status = "ok" => Len(lines) <= n,
           Answer(status, lines),
           UNCHANGED <<file, n, writes, opened, reader, cut, refilled>>
    PROVE  TypeOK'
<1>1. pos' = 0 /\ opened' = opened /\ buffer' = <<>>
  BY DEF Answer
<1>2. /\ pos' \in 0..Len(opened') + MaxWrites
      /\ buffer' \in Seq(Byte) /\ Len(buffer') <= BufferSize
  BY <1>1, AnsweredType, Zenon
<1>3. found' \in [lines : Seq(Seq(Byte)), line : Seq(Byte)]
  BY EmptySeq DEF Answer, Nothing
<1>4. /\ answer'.status \in {"none", "denied", "line too long", "read error", "ok"}
      /\ answer'.lines \in Seq(Line) /\ (answer'.status = "ok" => Len(answer'.lines) <= n')
      /\ pc' = "answered"
  BY DEF Answer
<1> QED BY <1>1, <1>2, <1>3, <1>4 DEF TypeOK

LEMMA InitType == Init => TypeOK
<1> SUFFICES ASSUME Init PROVE TypeOK
  OBVIOUS
<1>1. file \in Seq(Byte) /\ n \in Limits /\ opened = <<>> /\ pos = 0 /\ writes = 0
  BY FilesAssumption DEF Init
<1>2. pos \in 0..Len(opened) + MaxWrites /\ writes \in 0..MaxWrites
  BY <1>1, Sizes
<1>3. buffer \in Seq(Byte) /\ Len(buffer) <= BufferSize
  <2>1. buffer = <<>> /\ BufferSize \in Nat
    BY Sizes DEF Init
  <2> QED BY <2>1
<1>4. found \in [lines : Seq(Seq(Byte)), line : Seq(Byte)]
  BY DEF Init, Nothing
<1>5. answer.status = "none" /\ answer.lines \in Seq(Line)
  BY DEF Init, NoAnswer
<1> QED BY <1>1, <1>2, <1>3, <1>4, <1>5 DEF TypeOK, Init

LEMMA TypeStep == TypeOK /\ PlaceInv /\ [Next]_vars => TypeOK'
<1> SUFFICES ASSUME TypeOK, PlaceInv, [Next]_vars PROVE TypeOK'
  OBVIOUS
<1>s. /\ file \in Seq(Byte) /\ opened \in Seq(Byte) /\ buffer \in Seq(Byte)
      /\ Len(file) \in Nat /\ Len(opened) \in Nat /\ Len(buffer) \in Nat
      /\ found \in FoundType /\ n \in Nat /\ pos \in Nat /\ writes \in Nat
      /\ MaxWrites \in Nat /\ BufferSize \in Nat
  BY StateType, Sizes
<1>e. <<>> \in Seq(Line) /\ Len(<<>>) = 0
  OBVIOUS
<1>1. CASE Deny
  BY <1>1, <1>e, AnswerType DEF Deny
<1>2. CASE Open
  <2>1. opened' \in Seq(Byte) /\ opened' = file /\ pc' \in {"all", "last"} /\ reader' = pc'
    BY <1>s, <1>2 DEF Open
  <2>2. pos' \in 0..Len(opened') + MaxWrites
    <3>1. pos' = 0 \/ pos' = Len(file)
      BY <1>2 DEF Open
    <3> QED BY <1>s, <2>1, <3>1
  <2> QED BY <1>2, <2>1, <2>2 DEF Open, TypeOK
<1>3. CASE ReadForward
  <2>1. pos' \in pos + 1..Len(file) /\ buffer' \in Seq(Byte) /\ Len(buffer') <= BufferSize
    BY <1>3, ForwardChunk
  <2>2. pos' \in 0..Len(opened') + MaxWrites
    <3>1. Len(file) <= Len(opened) + writes /\ opened' = opened
      BY <1>3 DEF PlaceInv, ReadForward
    <3>2. writes <= MaxWrites
      <4>1. writes \in 0..MaxWrites
        BY DEF TypeOK
      <4> QED BY <1>s, <4>1
    <3> QED BY <1>s, <2>1, <3>1, <3>2
  <2> QED BY <1>3, <2>1, <2>2 DEF ReadForward, TypeOK
<1>4. CASE ScanByte
  <2>1. /\ Head(buffer) \in Byte /\ Tail(buffer) \in Seq(Byte)
        /\ Len(Tail(buffer)) = Len(buffer) - 1
    BY <1>4, BufferEnds DEF ScanByte
  <2>2. buffer' \in Seq(Byte) /\ Len(buffer') <= BufferSize
    <3>1. Len(buffer) <= BufferSize /\ buffer' = Tail(buffer)
      BY <1>4 DEF TypeOK, ScanByte
    <3> QED BY <1>s, <2>1, <3>1
  <2>3. found' \in FoundType
    BY <1>4, <1>s, <2>1, ScanType DEF ScanByte
  <2> QED BY <1>4, <2>2, <2>3 DEF ScanByte, TypeOK, FoundType
<1>5. CASE EndOfFile
  <2>1. Answer("ok", LastOf(AllFound, n))
    BY <1>5 DEF EndOfFile, AllFound
  <2>2. LastOf(AllFound, n) \in Seq(Line) /\ Len(LastOf(AllFound, n)) <= n
    BY <1>5, ForwardAnswer
  <2> QED BY <1>5, <2>1, <2>2, AnswerType DEF EndOfFile
<1>6. CASE ScanFails
  BY <1>6, <1>e, AnswerType DEF ScanFails
<1>7. CASE ReadBackward
  <2>1. pos' \in 0..pos - 1 /\ buffer' \in Seq(Byte) /\ Len(buffer') <= BufferSize
    BY <1>7, BackwardChunk
  <2>2. pos' \in 0..Len(opened') + MaxWrites
    <3>1. pos \in 0..Len(opened) + MaxWrites /\ opened' = opened
      BY <1>7 DEF TypeOK, ReadBackward
    <3> QED BY <1>s, <2>1, <3>1
  <2> QED BY <1>7, <2>1, <2>2 DEF ReadBackward, TypeOK
<1>8. CASE ReadFails
  BY <1>8, <1>e, AnswerType DEF ReadFails
<1>9. CASE CollectByte
  <2>1. /\ Last(buffer) \in Byte /\ Front(buffer) \in Seq(Byte)
        /\ Len(Front(buffer)) = Len(buffer) - 1
    BY <1>9, BufferEnds DEF CollectByte
  <2>2. buffer' \in Seq(Byte) /\ Len(buffer') <= BufferSize
    <3>1. Len(buffer) <= BufferSize /\ buffer' = Front(buffer)
      BY <1>9 DEF TypeOK, CollectByte
    <3> QED BY <1>s, <2>1, <3>1
  <2>3. found' \in FoundType
    BY <1>9, <1>s, <2>1, CollectType DEF CollectByte
  <2> QED BY <1>9, <2>2, <2>3 DEF CollectByte, TypeOK, FoundType
<1>10. CASE Finish
  <2>1. /\ answer'.status = "ok" /\ answer'.lines \in Seq(Line)
        /\ Len(answer'.lines) <= n
    BY <1>10, BackwardAnswer
  <2>2. Answer("ok", answer'.lines)
    BY <1>10 DEF Finish, Answer
  <2> QED BY <1>10, <2>1, <2>2, AnswerType DEF Finish
<1>11. CASE AppendByte
  <2>1. file' \in Seq(Byte)
    <3>1. PICK byte \in Appended : file' = Append(file, byte)
      BY <1>11 DEF AppendByte
    <3>2. byte \in Byte
      BY FilesAssumption
    <3> QED BY <1>s, <3>1, <3>2, AppendProperties
  <2>2. writes' \in 0..MaxWrites /\ refilled' \in BOOLEAN
    <3>1. writes' = writes + 1 /\ writes < MaxWrites /\ refilled' = cut
      BY <1>11 DEF AppendByte, Reading
    <3>2. cut \in BOOLEAN
      BY DEF TypeOK
    <3> QED BY <1>s, <3>1, <3>2
  <2> QED BY <1>11, <2>1, <2>2 DEF AppendByte, TypeOK
<1>12. CASE Truncate
  <2>1. file' \in Seq(Byte)
    BY <1>12 DEF Truncate
  <2>2. writes' \in 0..MaxWrites /\ cut' \in BOOLEAN
    <3>1. writes' = writes + 1 /\ writes < MaxWrites /\ cut' = TRUE
      BY <1>12 DEF Truncate, Reading
    <3> QED BY <1>s, <3>1
  <2> QED BY <1>12, <2>1, <2>2 DEF Truncate, TypeOK
<1>13. CASE UNCHANGED vars
  BY <1>13 DEF vars, TypeOK
<1> QED BY <1>1, <1>2, <1>3, <1>4, <1>5, <1>6, <1>7, <1>8, <1>9, <1>10, <1>11, <1>12, <1>13
        DEF Next, FetchStep, Answered

-----------------------------------------------------------------------------
(* The places in the code.                                                 *)

LEMMA InitPlace == Init => PlaceInv
BY DEF Init, PlaceInv, NoAnswer

\* One step of the program, or of the owner of the file, for each part of the invariant.
LEMMA PlaceStep == TypeOK /\ PlaceInv /\ [Next]_vars => PlaceInv'
<1> SUFFICES ASSUME TypeOK, PlaceInv, [Next]_vars PROVE PlaceInv'
  OBVIOUS
<1>s. /\ Len(file) \in Nat /\ Len(opened) \in Nat /\ Len(buffer) \in Nat
      /\ Len(found.lines) \in Nat /\ found \in FoundType
      /\ n \in Nat /\ pos \in Nat /\ writes \in Nat
  BY StateType
<1>1. CASE Deny
  <2>1. PlaceInv /\ Answer("denied", <<>>)
        /\ UNCHANGED <<file, n, writes, opened, reader, cut, refilled>>
    BY <1>1 DEF Deny
  <2>2. pc' = "answered" /\ answer'.status = "denied"
    BY <2>1 DEF Answer
  <2> QED BY <2>1, <2>2 DEF PlaceInv
<1>2. CASE Open
  <2>1. /\ pc = "asked" /\ n \in 1..MaxLines /\ opened' = file /\ pc' \in {"all", "last"}
        /\ reader' = pc' /\ (pc' = "last" => pos' = Len(file))
        /\ UNCHANGED <<file, n, buffer, found, answer, writes, cut, refilled>>
    BY <1>2 DEF Open
  <2>2. answer = NoAnswer /\ found = Nothing /\ buffer = <<>> /\ writes = 0 /\ (refilled => cut)
    BY <2>1 DEF PlaceInv
  <2>3. Len(found.lines) = 0 /\ Len(buffer) = 0
    BY <2>2 DEF Nothing
  <2>4. Len(file) <= Len(opened') + writes'
    BY <1>s, <2>1, <2>2
  <2>5. pc' = "last" => pos' + Len(buffer') <= Len(opened')
    BY <1>s, <2>1, <2>3
  <2>6. n \in Nat \ {0} /\ Len(found.lines) <= n /\ Len(found.lines) # n
    BY <1>s, <2>1, <2>3, Sizes
  <2> QED BY <2>1, <2>2, <2>4, <2>5, <2>6 DEF PlaceInv, NoAnswer
<1>3. CASE ReadForward
  BY <1>3 DEF ReadForward, PlaceInv
<1>4. CASE ScanByte
  BY <1>4 DEF ScanByte, PlaceInv
<1>5. CASE EndOfFile
  <2>1. pc = "all" /\ pc' = "answered"
        /\ UNCHANGED <<file, n, writes, opened, reader, cut, refilled>>
    BY <1>5 DEF EndOfFile, Answer
  <2> QED BY <2>1 DEF PlaceInv
<1>6. CASE ScanFails
  <2>1. pc = "all" /\ pc' = "answered"
        /\ UNCHANGED <<file, n, writes, opened, reader, cut, refilled>>
    BY <1>6 DEF ScanFails, Answer
  <2> QED BY <2>1 DEF PlaceInv
<1>7. CASE ReadBackward
  <2>1. pos' \in 0..pos - 1 /\ Len(buffer') = pos - pos'
    BY <1>7, BackwardChunk
  <2>2. pos' + Len(buffer') <= Len(opened)
    <3>1. pos' + Len(buffer') = pos
      <4>1. PICK c \in 0..pos - 1 : c = pos'
        BY <2>1
      <4>2. c + (pos - c) = pos
        BY <1>s
      <4> QED BY <2>1, <4>1, <4>2, Zenon
    <3>2. pc = "last" /\ pos + Len(buffer) <= Len(opened)
      BY <1>7 DEF ReadBackward, Reads, PlaceInv
    <3> QED BY <1>s, <3>1, <3>2
  <2> QED BY <1>7, <2>2 DEF ReadBackward, Reads, PlaceInv
<1>8. CASE ReadFails
  <2>1. pc = "last" /\ pc' = "answered"
        /\ UNCHANGED <<file, n, writes, opened, reader, cut, refilled>>
    BY <1>8 DEF ReadFails, Reads, Answer
  <2> QED BY <2>1 DEF PlaceInv
<1>9. CASE CollectByte
  <2>1. /\ pc = "last" /\ Len(found.lines) < n /\ found' = Collect(found, Last(buffer))
        /\ buffer' = Front(buffer) /\ buffer # <<>>
        /\ UNCHANGED <<file, n, pc, pos, answer, writes, opened, reader, cut, refilled>>
    BY <1>9 DEF CollectByte
  <2>2. Last(buffer) \in Byte /\ Len(buffer') = Len(buffer) - 1
    BY <2>1, BufferEnds
  <2>3. /\ Len(found'.lines) <= n
        /\ Len(found'.lines) = n => found'.line = <<>>
    <3>1. \/ Len(found'.lines) = Len(found.lines)
          \/ Len(found'.lines) = Len(found.lines) + 1 /\ found'.line = <<>>
      BY <1>s, <2>1, <2>2, CollectType
    <3> QED BY <1>s, <2>1, <3>1
  <2>4. pos' + Len(buffer') <= Len(opened')
    <3>1. pos + Len(buffer) <= Len(opened) /\ pos' = pos /\ opened' = opened
      BY <2>1 DEF PlaceInv
    <3> QED BY <1>s, <2>2, <3>1
  <2> QED BY <2>1, <2>3, <2>4 DEF PlaceInv
<1>10. CASE Finish
  <2>1. pc = "last" /\ pc' = "answered"
        /\ UNCHANGED <<file, n, writes, opened, reader, cut, refilled>>
    BY <1>10 DEF Finish, Answer
  <2> QED BY <2>1 DEF PlaceInv
<1>11. CASE AppendByte
  <2>1. pc \in {"all", "last"} /\ writes' = writes + 1 /\ refilled' = cut
        /\ UNCHANGED <<n, pc, pos, buffer, found, answer, opened, reader, cut>>
    BY <1>11 DEF AppendByte, Reading
  <2>2. Len(file') = Len(file) + 1
    <3>1. PICK byte \in Byte : file' = Append(file, byte)
      BY <1>11, FilesAssumption DEF AppendByte
    <3>2. file \in Seq(Byte)
      BY StateType
    <3> QED BY <3>1, <3>2, AppendProperties
  <2>3. Len(file') <= Len(opened') + writes'
    <3>1. Len(file) <= Len(opened) + writes /\ opened' = opened
      BY <2>1 DEF PlaceInv
    <3> QED BY <1>s, <2>1, <2>2, <3>1
  <2> QED BY <2>1, <2>3 DEF PlaceInv
<1>12. CASE Truncate
  <2>1. pc \in {"all", "last"} /\ writes' = writes + 1 /\ cut' = TRUE /\ file' = <<>>
        /\ UNCHANGED <<n, pc, pos, buffer, found, answer, opened, reader, refilled>>
    BY <1>12 DEF Truncate, Reading
  <2>2. Len(file') <= Len(opened') + writes'
    <3>1. Len(file') = 0 /\ opened' = opened
      BY <2>1
    <3> QED BY <1>s, <2>1, <3>1
  <2> QED BY <2>1, <2>2 DEF PlaceInv
<1>13. CASE UNCHANGED vars
  BY <1>13 DEF vars, PlaceInv
<1> QED BY <1>1, <1>2, <1>3, <1>4, <1>5, <1>6, <1>7, <1>8, <1>9, <1>10, <1>11, <1>12, <1>13
        DEF Next, FetchStep, Answered

-----------------------------------------------------------------------------
(* What the forward reader has scanned.                                    *)

LEMMA ScanStart ==
    ASSUME NEW f \in Seq(Byte)
    PROVE  ScannedUpTo(f, 0, <<>>, Nothing)
<1>1. Len(f) \in Nat
  BY LenProperties
<1>2. Closed(f, 0) = {} /\ Span(f, 0 + 1) = {}
  BY DEF Closed, Span
<1>3. ScannedLines(f, 0) = <<>>
  <2>1. 0 \in 0..Len(f)
    BY <1>1
  <2>2. ScannedLines(f, 0) = Pick(TextAt(f), {})
    BY <1>2, <2>1, ScannedLinesPicked, Zenon
  <2> QED BY <2>2, PickEmpty
<1>4. Pick(f, Span(f, 0 + 1)) = <<>>
  BY <1>2, PickEmpty
<1>5. 0 + Len(<<>>) <= Len(f) /\ 1..Len(<<>>) = {}
  BY <1>1
<1> QED BY <1>2, <1>3, <1>4, <1>5, Zenon DEF ScannedUpTo, Nothing

LEMMA ScanRefilled ==
    ASSUME NEW f, NEW q, NEW a, NEW b, NEW seen, ScannedUpTo(f, q, a, seen),
           q + Len(b) <= Len(f), \A i \in 1..Len(b) : b[i] = f[q + i]
    PROVE  ScannedUpTo(f, q, b, seen)
BY Zenon DEF ScannedUpTo

LEMMA ScanGrown ==
    ASSUME NEW f \in Seq(Byte), NEW g \in Seq(Byte), NEW q \in Nat, NEW b \in Seq(Byte), NEW seen,
           ScannedUpTo(f, q, b, seen),
           Len(f) <= Len(g), \A i \in 1..Len(f) : g[i] = f[i]
    PROVE  ScannedUpTo(g, q, b, seen)
<1>1. Len(f) \in Nat /\ Len(g) \in Nat /\ Len(b) \in Nat /\ q + Len(b) <= Len(f)
  BY LenProperties DEF ScannedUpTo
<1>2. q \in 0..Len(f)
  BY <1>1
<1>3. /\ ScannedLines(g, q) = ScannedLines(f, q)
      /\ Pick(g, Span(g, q + 1)) = Pick(f, Span(f, q + 1))
      /\ Closed(g, q) = Closed(f, q)
      /\ \A e \in 1..Len(f) + 1 : Span(g, e) = Span(f, e)
  BY <1>2, SameBefore
<1>4. \A e \in Closed(f, q) : e \in 1..Len(f) + 1
  BY <1>2, EndsType
<1>5. \A e \in Closed(g, q) : Cardinality(Span(g, e)) < TokenLimit
  <2>1. \A e \in Closed(f, q) : Cardinality(Span(f, e)) < TokenLimit
    BY DEF ScannedUpTo
  <2> QED BY <1>3, <1>4, <2>1, Zenon
<1>6. q + Len(b) <= Len(g) /\ \A i \in 1..Len(b) : b[i] = g[q + i]
  <2>1. \A i \in 1..Len(b) : b[i] = f[q + i] /\ q + i \in 1..Len(f)
    BY <1>1 DEF ScannedUpTo
  <2>2. \A i \in 1..Len(b) : b[i] = g[q + i]
    BY <2>1
  <2>3. q + Len(b) <= Len(g)
    BY <1>1
  <2> QED BY <2>2, <2>3
<1>7. seen.lines = ScannedLines(f, q) /\ seen.line = Pick(f, Span(f, q + 1))
  BY DEF ScannedUpTo
<1> QED BY <1>3, <1>5, <1>6, <1>7, Zenon DEF ScannedUpTo

LEMMA ScanNext ==
    ASSUME NEW f \in Seq(Byte), NEW q \in Nat, NEW b \in Seq(Byte), NEW seen \in FoundType,
           ScannedUpTo(f, q, b, seen), b # <<>>, ~(Len(seen.line) >= TokenLimit)
    PROVE  ScannedUpTo(f, q + 1, Tail(b), Scan(seen, Head(b)))
<1>1. Len(f) \in Nat /\ Len(b) \in Nat \ {0} /\ q + Len(b) <= Len(f)
  BY LenProperties, EmptySeq DEF ScannedUpTo
<1>2. /\ Tail(b) \in Seq(Byte) /\ Len(Tail(b)) = Len(b) - 1 /\ Head(b) = b[1]
      /\ \A i \in 1..Len(Tail(b)) : Tail(b)[i] = b[i + 1]
  BY HeadTailProperties
<1>3. PICK p \in 0..Len(f) - 1 : p = q
  BY <1>1
<1>4. \A i \in 1..Len(b) : b[i] = f[p + i]
  BY <1>3 DEF ScannedUpTo
<1>5. Head(b) = f[p + 1]
  BY <1>1, <1>2, <1>4
<1>6. p + 1 + Len(Tail(b)) <= Len(f) /\ \A i \in 1..Len(Tail(b)) : Tail(b)[i] = f[p + 1 + i]
  <2>1. ASSUME NEW i \in 1..Len(Tail(b)) PROVE Tail(b)[i] = f[p + 1 + i]
    <3>1. i + 1 \in 1..Len(b) /\ p + (i + 1) = p + 1 + i
      BY <1>1, <1>2
    <3> QED BY <1>2, <1>4, <3>1
  <2>2. p + 1 + Len(Tail(b)) <= Len(f)
    BY <1>1, <1>2, <1>3
  <2> QED BY <2>1, <2>2
<1>7. /\ seen.lines = ScannedLines(f, p) /\ seen.line = Pick(f, Span(f, p + 1))
      /\ \A e \in Closed(f, p) : Cardinality(Span(f, e)) < TokenLimit
  BY <1>3, Zenon DEF ScannedUpTo
<1>8. p + 1 + 1 = p + 2
  BY <1>3
<1>9. CASE f[p + 1] = "LF"
  <2>1. Scan(seen, Head(b)) = [lines |-> Append(seen.lines, WithoutCR(seen.line)), line |-> <<>>]
    BY <1>5, <1>9 DEF Scan
  <2>2. /\ Pick(f, Span(f, p + 2)) = <<>>
        /\ ScannedLines(f, p + 1) =
              Append(ScannedLines(f, p), WithoutCR(Pick(f, Span(f, p + 1))))
    BY <1>9, TextStep
  <2>3. Cardinality(Span(f, p + 1)) < TokenLimit
    <3>1. p + 1 \in 1..Len(f) + 1
      BY <1>1
    <3>2. Len(seen.line) = Cardinality(Span(f, p + 1))
      BY <1>7, <3>1, LineType
    <3>3. Len(seen.line) \in Nat
      BY LenProperties DEF FoundType
    <3>4. Len(seen.line) < TokenLimit
      BY <3>3, Sizes
    <3> QED BY <3>2, <3>4
  <2>4. \A e \in Closed(f, p + 1) : Cardinality(Span(f, e)) < TokenLimit
    <3>1. Closed(f, p + 1) = Closed(f, p) \cup {p + 1}
      BY <1>9, SpanStep
    <3> QED BY <1>7, <2>3, <3>1
  <2>5. /\ Scan(seen, Head(b)).lines = ScannedLines(f, p + 1)
        /\ Scan(seen, Head(b)).line = Pick(f, Span(f, p + 1 + 1))
    BY <1>7, <1>8, <2>1, <2>2
  <2> QED BY <1>3, <1>6, <2>4, <2>5, Zenon DEF ScannedUpTo
<1>10. CASE f[p + 1] # "LF"
  <2>1. Scan(seen, Head(b)) = [seen EXCEPT !.line = Append(@, f[p + 1])]
    BY <1>5, <1>10 DEF Scan
  <2>2. /\ Pick(f, Span(f, p + 2)) = Append(Pick(f, Span(f, p + 1)), f[p + 1])
        /\ ScannedLines(f, p + 1) = ScannedLines(f, p)
    BY <1>10, TextStep
  <2>3. \A e \in Closed(f, p + 1) : Cardinality(Span(f, e)) < TokenLimit
    BY <1>7, <1>10, SpanStep
  <2>4. /\ Scan(seen, Head(b)).lines = ScannedLines(f, p + 1)
        /\ Scan(seen, Head(b)).line = Pick(f, Span(f, p + 1 + 1))
    BY <1>7, <1>8, <2>1, <2>2 DEF FoundType
  <2> QED BY <1>3, <1>6, <2>3, <2>4, Zenon DEF ScannedUpTo
<1> QED BY <1>9, <1>10

\* What is appended to the file.
LEMMA Grown ==
    ASSUME TypeOK, AppendByte
    PROVE  /\ file' \in Seq(Byte) /\ Len(file') = Len(file) + 1
           /\ \A i \in 1..Len(file) : file'[i] = file[i]
<1>1. PICK byte \in Byte : file' = Append(file, byte)
  BY FilesAssumption DEF AppendByte
<1> QED BY <1>1, StateType, AppendProperties

LEMMA ScanStep == TypeOK /\ PlaceInv /\ ScanInv /\ [Next]_vars => ScanInv'
<1> SUFFICES ASSUME TypeOK, PlaceInv, ScanInv, [Next]_vars, pc' = "all", ~cut'
             PROVE  /\ Len(buffer') <= pos'
                    /\ ScannedUpTo(file', pos' - Len(buffer'), buffer', found')
  BY DEF ScanInv
<1>s. /\ file \in Seq(Byte) /\ buffer \in Seq(Byte) /\ found \in FoundType
      /\ Len(file) \in Nat /\ Len(buffer) \in Nat /\ pos \in Nat
  BY StateType
<1>1. CASE Open
  <2>1. /\ pos' = 0 /\ buffer' = <<>> /\ found' = Nothing /\ file' = file
    BY <1>1 DEF Open, PlaceInv
  <2>2. Len(<<>>) <= 0 /\ 0 - Len(<<>>) = 0
    <3>1. Len(<<>>) = 0
      BY EmptySeq
    <3>2. 0 <= 0 /\ 0 - 0 = 0
      OBVIOUS
    <3> QED BY <3>1, <3>2, Zenon
  <2>3. ScannedUpTo(file, 0, <<>>, Nothing)
    BY <1>s, ScanStart
  <2> QED BY <2>1, <2>2, <2>3, Zenon
<1>2. CASE ReadForward
  <2>1. /\ pos' \in pos + 1..Len(file) /\ Len(buffer') = pos' - pos
        /\ \A i \in 1..Len(buffer') : buffer'[i] = file[pos + i]
    BY <1>2, ForwardChunk
  <2>2. PICK p \in pos + 1..Len(file) : p = pos'
    BY <2>1
  <2>3. Len(buffer') = p - pos
    BY <1>s, <2>1, <2>2
  <2>4. p - (p - pos) = pos /\ p - pos <= p /\ pos + (p - pos) <= Len(file)
    <3>1. \A a \in Nat, b \in Nat, c \in Nat :
              a \in b + 1..c => a - (a - b) = b /\ a - b <= a /\ b + (a - b) <= c
      OBVIOUS
    <3>2. p \in Nat
      BY <1>s, <2>2
    <3> QED BY <1>s, <2>2, <3>1, <3>2
  <2>5. ScannedUpTo(file, pos, buffer, found)
    <3>1. ScannedUpTo(file, pos - Len(buffer), buffer, found) /\ buffer = <<>>
      BY <1>2 DEF ReadForward, ScanInv
    <3>2. pos - Len(<<>>) = pos
      BY <1>s
    <3> QED BY <3>1, <3>2
  <2>6. pos + Len(buffer') <= Len(file)
    BY <2>3, <2>4
  <2>7. ScannedUpTo(file, pos, buffer', found)
    BY <2>1, <2>5, <2>6, ScanRefilled, Zenon
  <2>8. file' = file /\ found' = found
    BY <1>2 DEF ReadForward
  <2> QED BY <2>2, <2>3, <2>4, <2>7, <2>8, Zenon
<1>3. CASE ScanByte
  <2>1. /\ buffer # <<>> /\ ~(Len(found.line) >= TokenLimit)
        /\ found' = Scan(found, Head(buffer)) /\ buffer' = Tail(buffer)
        /\ pos' = pos /\ file' = file /\ pc = "all" /\ ~cut
    BY <1>3 DEF ScanByte, TooLong
  <2>2. Len(buffer) <= pos /\ ScannedUpTo(file, pos - Len(buffer), buffer, found)
    BY <2>1 DEF ScanInv
  <2>3. PICK q \in Nat : q = pos - Len(buffer)
    BY <1>s, <2>2
  <2>4. ScannedUpTo(file, q + 1, Tail(buffer), Scan(found, Head(buffer)))
    BY <1>s, <2>1, <2>2, <2>3, ScanNext
  <2>5. Len(Tail(buffer)) = Len(buffer) - 1 /\ Len(buffer) \in Nat \ {0}
    BY <2>1, BufferEnds
  <2>6. Len(Tail(buffer)) <= pos /\ pos - Len(Tail(buffer)) = q + 1
    BY <1>s, <2>2, <2>3, <2>5
  <2> QED BY <2>1, <2>4, <2>6, Zenon
<1>4. CASE AppendByte
  <2>1. pos' = pos /\ buffer' = buffer /\ found' = found /\ pc = "all" /\ ~cut
    BY <1>4 DEF AppendByte
  <2>2. Len(buffer) <= pos /\ ScannedUpTo(file, pos - Len(buffer), buffer, found)
    BY <2>1 DEF ScanInv
  <2>3. PICK q \in Nat : q = pos - Len(buffer)
    BY <1>s, <2>2
  <2>4. /\ file' \in Seq(Byte) /\ Len(file) <= Len(file')
        /\ \A i \in 1..Len(file) : file'[i] = file[i]
    BY <1>s, <1>4, Grown
  <2>5. ScannedUpTo(file', q, buffer, found)
    BY <1>s, <2>2, <2>3, <2>4, ScanGrown
  <2> QED BY <2>1, <2>2, <2>3, <2>5, Zenon
<1>5. CASE UNCHANGED vars
  BY <1>5, Zenon DEF vars, ScanInv
<1>6. ~Truncate
  BY DEF Truncate
<1>7. ~Deny /\ ~EndOfFile /\ ~ScanFails /\ ~ReadFails /\ ~Finish
  BY DEF Deny, EndOfFile, ScanFails, ReadFails, Finish, Answer
<1>8. ~ReadBackward /\ ~CollectByte
  BY DEF ReadBackward, Reads, CollectByte
<1> QED BY <1>1, <1>2, <1>3, <1>4, <1>5, <1>6, <1>7, <1>8 DEF Next, FetchStep, Answered

-----------------------------------------------------------------------------
(* What the backward reader has collected.                                 *)

LEMMA CollectStart ==
    ASSUME NEW f \in Seq(Byte)
    PROVE  CollectedDownTo(f, Len(f), <<>>, Nothing)
<1>1. Len(f) \in Nat /\ Len(f) \in 0..Len(f)
  BY LenProperties
<1>2. Current(f, Len(f)) = {}
  BY <1>1 DEF Current
<1>3. Done(f, Len(f)) = {}
  <2>1. \A e \in VisibleEnds(f) : Len(f) + 1..e - 1 = {}
    BY <1>1, EndsType
  <2> QED BY <2>1 DEF Done
<1>4. CollectedLines(f, Len(f)) = <<>>
  <2>1. CollectedLines(f, Len(f)) = Pick(ReversedAt(f), {})
    BY <1>1, <1>3, CollectedLinesPicked, Zenon
  <2> QED BY <2>1, PickEmpty
<1>5. Reverse(Pick(f, Current(f, Len(f)))) = <<>>
  BY <1>1, <1>2, CollectedType
<1>6. Len(f) <= Len(f) /\ 1..Len(<<>>) = {}
  BY <1>1
<1> QED BY <1>4, <1>5, <1>6, Zenon DEF CollectedDownTo, Collected, Nothing

LEMMA CollectRefilled ==
    ASSUME NEW f \in Seq(Byte), NEW q, NEW a, NEW b, NEW seen, CollectedDownTo(f, q, a, seen),
           \A i \in 1..Len(b) : b[i] = f[q - Len(b) + i]
    PROVE  CollectedDownTo(f, q, b, seen)
BY Zenon DEF CollectedDownTo

LEMMA CollectNext ==
    ASSUME NEW f \in Seq(Byte), NEW q \in Nat, NEW b \in Seq(Byte), NEW seen,
           CollectedDownTo(f, q, b, seen), Len(b) <= q, Len(b) \in Nat \ {0},
           NEW c \in Seq(Byte), Len(c) = Len(b) - 1, \A i \in 1..Len(c) : c[i] = b[i]
    PROVE  CollectedDownTo(f, q - 1, c, Collect(seen, b[Len(b)]))
<1>1. Len(f) \in Nat /\ q <= Len(f)
  BY LenProperties DEF CollectedDownTo
<1>2. q \in 1..Len(f)
  BY <1>1
<1>3. \A i \in 1..Len(b) : b[i] = f[q - Len(b) + i]
  BY DEF CollectedDownTo
<1>4. b[Len(b)] = f[q]
  <2>1. Len(b) \in 1..Len(b) /\ q - Len(b) + Len(b) = q
    OBVIOUS
  <2> QED BY <1>3, <2>1
<1>5. Collect(seen, b[Len(b)]) = Collected(f, q - 1)
  <2>1. seen = Collected(f, q)
    BY DEF CollectedDownTo
  <2> QED BY <1>2, <1>4, <2>1, CollectedStep
<1>6. ASSUME NEW i \in 1..Len(c) PROVE c[i] = f[q - 1 - Len(c) + i]
  <2>1. i \in 1..Len(b) /\ q - 1 - Len(c) + i = q - Len(b) + i
    OBVIOUS
  <2> QED BY <1>3, <2>1
<1>7. q - 1 <= Len(f)
  BY <1>1
<1> QED BY <1>5, <1>6, <1>7, Zenon DEF CollectedDownTo

LEMMA CollectStep == TypeOK /\ PlaceInv /\ CollectInv /\ [Next]_vars => CollectInv'
<1> SUFFICES ASSUME TypeOK, PlaceInv, CollectInv, [Next]_vars, pc' = "last", ~refilled'
             PROVE  /\ cut' => file' = <<>>
                    /\ ~cut' => /\ Len(opened') <= Len(file')
                                /\ \A i \in 1..Len(opened') : file'[i] = opened'[i]
                    /\ CollectedDownTo(opened', pos' + Len(buffer'), buffer', found')
  BY DEF CollectInv
<1>s. /\ file \in Seq(Byte) /\ opened \in Seq(Byte) /\ buffer \in Seq(Byte)
      /\ Len(file) \in Nat /\ Len(opened) \in Nat /\ Len(buffer) \in Nat /\ pos \in Nat
  BY StateType
<1>1. CASE Open
  <2>1. /\ pos' = Len(file) /\ buffer' = <<>> /\ found' = Nothing /\ file' = file
        /\ opened' = file /\ ~cut'
    BY <1>1 DEF Open, PlaceInv
  <2>2. Len(file) + Len(<<>>) = Len(file) /\ Len(file) <= Len(file)
    <3>1. Len(<<>>) = 0
      BY EmptySeq
    <3>2. Len(file) + 0 = Len(file) /\ Len(file) <= Len(file)
      BY <1>s
    <3> QED BY <3>1, <3>2, Zenon
  <2>3. CollectedDownTo(file, Len(file), <<>>, Nothing)
    BY <1>s, CollectStart
  <2> QED BY <2>1, <2>2, <2>3, Zenon
<1>2. CASE ReadBackward
  <2>1. /\ pc = "last" /\ ~refilled /\ buffer = <<>> /\ pos > 0 /\ pos <= Len(file)
        /\ file' = file /\ opened' = opened /\ cut' = cut /\ found' = found
    BY <1>2 DEF ReadBackward, Reads
  <2>2. /\ pos + Len(buffer) <= Len(opened)
        /\ cut => file = <<>>
        /\ ~cut => Len(opened) <= Len(file) /\ \A i \in 1..Len(opened) : file[i] = opened[i]
        /\ CollectedDownTo(opened, pos + Len(buffer), buffer, found)
    BY <2>1 DEF PlaceInv, CollectInv
  <2>3. pos <= Len(opened) /\ pos + Len(buffer) = pos
    <3>1. Len(buffer) = 0
      BY <2>1, EmptySeq
    <3> QED BY <1>s, <2>2, <3>1
  <2>4. ~cut
    <3>1. file = <<>> => Len(file) = 0
      BY EmptySeq
    <3> QED BY <1>s, <2>1, <2>2, <3>1
  <2>5. /\ pos' \in 0..pos - 1 /\ Len(buffer') = pos - pos'
        /\ \A i \in 1..Len(buffer') : buffer'[i] = file[pos' + i]
    BY <1>2, BackwardChunk
  <2>6. PICK p \in 0..pos - 1 : p = pos'
    BY <2>5
  <2>7. Len(buffer') = pos - p /\ p + (pos - p) = pos /\ pos - (pos - p) = p
    <3>1. p + (pos - p) = pos /\ pos - (pos - p) = p
      BY <1>s
    <3> QED BY <2>5, <2>6, <3>1, Zenon
  <2>8. ASSUME NEW i \in 1..Len(buffer')
        PROVE  buffer'[i] = opened[pos - Len(buffer') + i]
    <3>1. p + i \in 1..Len(opened)
      <4>1. i \in 1..pos - p
        BY <2>7
      <4> QED BY <1>s, <2>3, <4>1
    <3>2. buffer'[i] = file[p + i]
      BY <2>5, <2>6
    <3>3. pos - Len(buffer') + i = p + i
      BY <2>7
    <3> QED BY <2>2, <2>4, <3>1, <3>2, <3>3
  <2>9. CollectedDownTo(opened, pos, buffer, found)
    BY <2>2, <2>3
  <2>10. CollectedDownTo(opened, pos, buffer', found)
    BY <1>s, <2>8, <2>9, CollectRefilled, Zenon
  <2>11. pos' + Len(buffer') = pos
    BY <2>6, <2>7
  <2> QED BY <2>1, <2>2, <2>4, <2>10, <2>11, Zenon
<1>3. CASE CollectByte
  <2>1. /\ pc = "last" /\ ~refilled /\ buffer # <<>>
        /\ found' = Collect(found, Last(buffer)) /\ buffer' = Front(buffer)
        /\ pos' = pos /\ file' = file /\ opened' = opened /\ cut' = cut
    BY <1>3 DEF CollectByte
  <2>2. /\ cut => file = <<>>
        /\ ~cut => Len(opened) <= Len(file) /\ \A i \in 1..Len(opened) : file[i] = opened[i]
        /\ CollectedDownTo(opened, pos + Len(buffer), buffer, found)
    BY <2>1 DEF CollectInv
  <2>3. /\ Len(buffer) \in Nat \ {0} /\ Last(buffer) = buffer[Len(buffer)]
        /\ Front(buffer) \in Seq(Byte) /\ Len(Front(buffer)) = Len(buffer) - 1
        /\ \A i \in 1..Len(Front(buffer)) : Front(buffer)[i] = buffer[i]
    BY <2>1, BufferEnds
  <2>4. PICK q \in Nat : q = pos + Len(buffer)
    BY <1>s
  <2>5. Len(buffer) <= q /\ pos + Len(Front(buffer)) = q - 1
    BY <1>s, <2>3, <2>4
  <2>6. CollectedDownTo(opened, q, buffer, found)
    BY <2>2, <2>4
  <2> DEFINE c == Front(buffer)
  <2>7. c \in Seq(Byte) /\ Len(c) = Len(buffer) - 1 /\ \A i \in 1..Len(c) : c[i] = buffer[i]
    BY <2>3
  <2> HIDE DEF c
  <2>8. CollectedDownTo(opened, q - 1, c, Collect(found, buffer[Len(buffer)]))
    BY <1>s, <2>3, <2>5, <2>6, <2>7, CollectNext
  <2>9. CollectedDownTo(opened, q - 1, buffer', found')
    BY <2>1, <2>3, <2>8 DEF c
  <2>10. pos' + Len(buffer') = q - 1
    BY <2>1, <2>5
  <2> QED BY <2>1, <2>2, <2>9, <2>10, Zenon
<1>4. CASE AppendByte
  <2>1. /\ pos' = pos /\ buffer' = buffer /\ found' = found /\ opened' = opened
        /\ pc = "last" /\ ~cut /\ ~cut'
    BY <1>4 DEF AppendByte
  <2>2. ~refilled
    BY <2>1 DEF PlaceInv
  <2>3. /\ Len(opened) <= Len(file) /\ \A i \in 1..Len(opened) : file[i] = opened[i]
        /\ CollectedDownTo(opened, pos + Len(buffer), buffer, found)
    BY <2>1, <2>2 DEF CollectInv
  <2>4. Len(file') = Len(file) + 1 /\ \A i \in 1..Len(file) : file'[i] = file[i]
    BY <1>4, Grown
  <2>5. Len(opened) <= Len(file')
    BY <1>s, <2>3, <2>4
  <2>6. \A i \in 1..Len(opened) : file'[i] = opened[i]
    <3>1. \A i \in 1..Len(opened) : i \in 1..Len(file)
      BY <1>s, <2>3
    <3> QED BY <2>3, <2>4, <3>1
  <2> QED BY <2>1, <2>3, <2>5, <2>6, Zenon
<1>5. CASE Truncate
  BY <1>5 DEF Truncate, CollectInv
<1>6. CASE UNCHANGED vars
  BY <1>6, Zenon DEF vars, CollectInv
<1>7. ~Deny /\ ~EndOfFile /\ ~ScanFails /\ ~ReadFails /\ ~Finish
  BY DEF Deny, EndOfFile, ScanFails, ReadFails, Finish, Answer
<1>8. ~ReadForward /\ ~ScanByte
  BY DEF ReadForward, ScanByte
<1> QED BY <1>1, <1>2, <1>3, <1>4, <1>5, <1>6, <1>7, <1>8 DEF Next, FetchStep, Answered

-----------------------------------------------------------------------------
(* What the forward reader answers.                                        *)

LEMMA NoAnswerYet ==
    ASSUME PlaceInv,
           \/ Open \/ ReadForward \/ ScanByte \/ ReadBackward \/ CollectByte
           \/ AppendByte \/ Truncate
    PROVE  answer' = NoAnswer
<1>1. answer' = answer /\ pc # "answered"
  BY DEF Open, ReadForward, ScanByte, ReadBackward, Reads, CollectByte, AppendByte, Truncate,
         Reading
<1> QED BY <1>1 DEF PlaceInv

LEMMA ShortLines ==
    ASSUME NEW f \in Seq(Byte), NEW k \in Int,
           \A e \in Closed(f, Len(f)) : Cardinality(Span(f, e)) < k,
           Cardinality(Span(f, Len(f) + 1)) < k
    PROVE  \A i \in DOMAIN LinesOf(f) : Len(LinesOf(f)[i]) < k
<1> TAKE i \in DOMAIN LinesOf(f)
<1>1. PICK e \in LineEnds(f) : Len(LinesOf(f)[i]) = Cardinality(Span(f, e))
  BY LineLengths
<1>2. e \in Closed(f, Len(f)) \/ e = Len(f) + 1
  BY LastEnd
<1> QED BY <1>1, <1>2

LEMMA LongLine ==
    ASSUME NEW f \in Seq(Byte), NEW q \in 0..Len(f), NEW k \in Nat \ {0},
           Cardinality(Span(f, q + 1)) >= k
    PROVE  \E i \in DOMAIN LinesOf(f) : Len(LinesOf(f)[i]) >= k
<1>1. Len(f) \in Nat /\ q + 1 \in 1..Len(f) + 1
  BY LenProperties
<1>2. Cardinality(Span(f, q + 1)) \in Nat
  BY <1>1, LineType, FS_CardinalityType DEF Positions
<1>3. Span(f, q + 1) # {}
  <2>1. Cardinality({}) = 0
    BY FS_EmptySet
  <2>2. Cardinality(Span(f, q + 1)) # 0
    BY <1>2
  <2> QED BY <2>1, <2>2
<1>4. PICK e \in LineEnds(f) : Cardinality(Span(f, q + 1)) <= Cardinality(Span(f, e))
  BY <1>3, LineGoesOn
<1>5. Cardinality(Span(f, e)) \in Nat
  <2>1. e \in 1..Len(f) + 1
    BY EndsType
  <2> QED BY <2>1, LineType, FS_CardinalityType DEF Positions
<1>6. PICK i \in DOMAIN LinesOf(f) : Len(LinesOf(f)[i]) = Cardinality(Span(f, e))
  BY LineLengths
<1> QED BY <1>2, <1>4, <1>5, <1>6

LEMMA EndOfFileAnswers ==
    ASSUME TypeOK, ScanInv, EndOfFile, ~cut
    PROVE  /\ answer'.status = "ok" /\ IsLastOf(answer'.lines, TextLines(file), n)
           /\ \A i \in DOMAIN LinesOf(file) : Len(LinesOf(file)[i]) < TokenLimit
<1>s. /\ file \in Seq(Byte) /\ found \in FoundType /\ n \in Nat
      /\ Len(file) \in Nat /\ Len(buffer) \in Nat /\ pos \in Nat /\ TokenLimit \in Nat \ {0}
  BY StateType, Sizes
<1>1. /\ pc = "all" /\ ~cut /\ buffer = <<>> /\ pos >= Len(file)
      /\ ~(Len(found.line) >= TokenLimit)
  BY DEF EndOfFile, TooLong
<1>2. Len(buffer) = 0 /\ pos - Len(buffer) = pos
  <2>1. Len(buffer) = 0
    BY <1>1, EmptySeq
  <2> QED BY <1>s, <2>1
<1>3. ScannedUpTo(file, pos, buffer, found)
  BY <1>1, <1>2 DEF ScanInv
<1>4. pos = Len(file)
  <2>1. pos + Len(buffer) <= Len(file)
    BY <1>3 DEF ScannedUpTo
  <2> QED BY <1>s, <1>1, <1>2, <2>1
<1>5. /\ found.lines = ScannedLines(file, Len(file))
      /\ found.line = Pick(file, Span(file, Len(file) + 1))
      /\ \A e \in Closed(file, Len(file)) : Cardinality(Span(file, e)) < TokenLimit
  BY <1>3, <1>4, Zenon DEF ScannedUpTo
<1>6. AllFound = TextLines(file)
  BY <1>s, <1>5, AllLines, Zenon DEF AllFound
<1>7. Cardinality(Span(file, Len(file) + 1)) < TokenLimit
  <2>1. Len(file) + 1 \in 1..Len(file) + 1
    BY <1>s
  <2>2. Len(found.line) = Cardinality(Span(file, Len(file) + 1))
    BY <1>s, <1>5, <2>1, LineType
  <2>3. Len(found.line) \in Nat
    BY StateType
  <2>4. Len(found.line) < TokenLimit
    BY <1>s, <1>1, <2>3
  <2> QED BY <2>2, <2>4
<1>8. \A i \in DOMAIN LinesOf(file) : Len(LinesOf(file)[i]) < TokenLimit
  BY <1>s, <1>5, <1>7, ShortLines
<1>9. /\ answer' = [status |-> "ok", lines |-> LastOf(AllFound, n)]
      /\ IsLastOf(LastOf(AllFound, n), AllFound, n)
  BY ForwardAnswer
<1>10. answer'.status = "ok" /\ answer'.lines = LastOf(AllFound, n)
  BY <1>9
<1> QED BY <1>1, <1>6, <1>8, <1>9, <1>10

LEMMA ScanFailsAnswers ==
    ASSUME TypeOK, ScanInv, ScanFails, ~cut
    PROVE  /\ answer'.status = "line too long"
           /\ \E i \in DOMAIN LinesOf(file) : Len(LinesOf(file)[i]) >= TokenLimit
<1>s. /\ file \in Seq(Byte) /\ found \in FoundType /\ n \in Nat
      /\ Len(file) \in Nat /\ Len(buffer) \in Nat /\ pos \in Nat /\ TokenLimit \in Nat \ {0}
  BY StateType, Sizes
<1>1. /\ pc = "all" /\ ~cut /\ Len(found.line) >= TokenLimit
      /\ answer'.status = "line too long"
  BY DEF ScanFails, TooLong, Answer
<1>2. Len(buffer) <= pos /\ ScannedUpTo(file, pos - Len(buffer), buffer, found)
  BY <1>1 DEF ScanInv
<1>3. PICK q \in 0..Len(file) : q = pos - Len(buffer)
  <2>1. pos - Len(buffer) + Len(buffer) <= Len(file)
    BY <1>2 DEF ScannedUpTo
  <2> QED BY <1>s, <1>2, <2>1
<1>4. found.line = Pick(file, Span(file, q + 1))
  BY <1>2, <1>3, Zenon DEF ScannedUpTo
<1>5. Cardinality(Span(file, q + 1)) >= TokenLimit
  <2>1. q + 1 \in 1..Len(file) + 1
    BY <1>s
  <2>2. Len(found.line) = Cardinality(Span(file, q + 1))
    BY <1>s, <1>4, <2>1, LineType
  <2> QED BY <1>1, <2>2
<1>6. \E i \in DOMAIN LinesOf(file) : Len(LinesOf(file)[i]) >= TokenLimit
  BY <1>s, <1>5, LongLine
<1> QED BY <1>1, <1>6

LEMMA ScannedTailStep ==
    TypeOK /\ PlaceInv /\ ScanInv /\ ScannedTail /\ [Next]_vars => ScannedTail'
<1> SUFFICES ASSUME TypeOK, PlaceInv, ScanInv, ScannedTail, [Next]_vars,
                    answer'.status \in {"ok", "line too long"}, reader' = "all", ~cut'
             PROVE  /\ answer'.status = "ok" =>
                          /\ IsLastOf(answer'.lines, TextLines(file'), n')
                          /\ \A i \in DOMAIN LinesOf(file') : Len(LinesOf(file')[i]) < TokenLimit
                    /\ answer'.status = "line too long" =>
                          \E i \in DOMAIN LinesOf(file') : Len(LinesOf(file')[i]) >= TokenLimit
  BY Zenon DEF ScannedTail
<1>1. CASE EndOfFile
  <2>1. ~cut /\ file' = file /\ n' = n
    BY <1>1 DEF EndOfFile
  <2>2. /\ answer'.status = "ok" /\ IsLastOf(answer'.lines, TextLines(file), n)
        /\ \A i \in DOMAIN LinesOf(file) : Len(LinesOf(file)[i]) < TokenLimit
    BY <1>1, <2>1, EndOfFileAnswers, Zenon
  <2>3. "ok" # "line too long"
    OBVIOUS
  <2> QED BY <2>1, <2>2, <2>3, Zenon
<1>2. CASE ScanFails
  <2>1. ~cut /\ file' = file
    BY <1>2 DEF ScanFails
  <2>2. /\ answer'.status = "line too long"
        /\ \E i \in DOMAIN LinesOf(file) : Len(LinesOf(file)[i]) >= TokenLimit
    BY <1>2, <2>1, ScanFailsAnswers, Zenon
  <2>3. "ok" # "line too long"
    OBVIOUS
  <2> QED BY <2>1, <2>2, <2>3, Zenon
<1>3. CASE ReadFails \/ Finish
  BY <1>3 DEF ReadFails, Reads, Finish, PlaceInv
<1>4. CASE Deny
  BY <1>4 DEF Deny, Answer
<1>5. CASE UNCHANGED vars
  <2>1. /\ answer' = answer /\ reader' = reader /\ cut' = cut /\ file' = file /\ n' = n
    BY <1>5 DEF vars
  <2> QED BY <2>1, Zenon DEF ScannedTail
<1>6. CASE \/ Open \/ ReadForward \/ ScanByte \/ ReadBackward \/ CollectByte
           \/ AppendByte \/ Truncate
  <2>1. answer' = NoAnswer
    BY <1>6, NoAnswerYet, Zenon
  <2> QED BY <2>1 DEF NoAnswer
<1> QED BY <1>1, <1>2, <1>3, <1>4, <1>5, <1>6 DEF Next, FetchStep, Answered

-----------------------------------------------------------------------------
(* What the backward reader answers.                                       *)

\* The last of the visible lines are the lines at the last of their ends.
LEMMA LastVisible ==
    ASSUME NEW f \in Seq(Byte), NEW D, NEW R, VisibleEnds(f) = R \cup D,
           \A r \in R : \A d \in D : r < d
    PROVE  \A k \in Nat : Cardinality(D) = k \/ (R = {} /\ Cardinality(D) <= k) =>
              /\ Len(LastOf(VisibleLines(f), k)) = Cardinality(D)
              /\ \A i \in 1..Cardinality(D) :
                    LastOf(VisibleLines(f), k)[i] = Pick(f, Visible(f, Nth(D, i)))
<1>1. /\ Len(f) \in Nat
      /\ \A e \in VisibleEnds(f) : e \in 1..Len(f) + 1
      /\ \A e \in R : e \in 1..Len(f) + 1
      /\ \A e \in D : e \in 1..Len(f) + 1
  BY EndsType
<1>2. /\ Positions(R) /\ Positions(D) /\ Cardinality(R) \in Nat /\ Cardinality(D) \in Nat
  <2>1. PICK z \in Int : z = Len(f) + 1
    BY <1>1
  <2>2. (\A e \in R : e \in 1..z) /\ (\A e \in D : e \in 1..z)
    BY <1>1, <2>1
  <2> QED BY <2>2, IntervalPositions
<1>3. /\ Cardinality(VisibleEnds(f)) = Cardinality(R) + Cardinality(D)
      /\ \A i \in 1..Cardinality(D) : Nth(VisibleEnds(f), Cardinality(R) + i) = Nth(D, i)
  <2>1. Positions(R) /\ Positions(D)
    BY <1>2
  <2>2. ASSUME NEW V, V = R \cup D
        PROVE  /\ Cardinality(V) = Cardinality(R) + Cardinality(D)
               /\ \A i \in 1..Cardinality(D) : Nth(V, Cardinality(R) + i) = Nth(D, i)
    BY <2>1, <2>2, NthBeyond
  <2> QED BY <2>2, Zenon
<1>4. PICK r \in Nat : r = Cardinality(R)
  BY <1>2
<1>5. PICK m \in Nat : m = Cardinality(D)
  BY <1>2
<1> DEFINE v == VisibleLines(f)
<1>6. v \in Seq(Seq(Byte)) /\ Len(v) = r + m
  <2>1. VisibleAt(f) \in Seq(Seq(Byte)) /\ Len(VisibleAt(f)) = Len(f) + 1
    BY LinesType
  <2>2. v = Pick(VisibleAt(f), VisibleEnds(f))
    BY VisibleLinesPicked
  <2>3. \A e \in VisibleEnds(f) : e \in 1..Len(VisibleAt(f))
    BY <1>1, <2>1
  <2> HIDE DEF v
  <2> QED BY <1>3, <1>4, <1>5, <2>1, <2>2, <2>3, PickType
<1>7. \A i \in 1..m : v[r + i] = Pick(f, Visible(f, Nth(D, i)))
  <2> TAKE i \in 1..m
  <2>1. r + i \in 1..r + m
    OBVIOUS
  <2>2. v[r + i] = Pick(f, Visible(f, Nth(VisibleEnds(f), r + i)))
    BY <1>3, <1>4, <1>5, <2>1, Zenon DEF VisibleLines
  <2> HIDE DEF v
  <2> QED BY <1>3, <1>4, <1>5, <2>2
<1> SUFFICES ASSUME NEW k \in Nat,
                    Cardinality(D) = k \/ (R = {} /\ Cardinality(D) <= k)
             PROVE  /\ Len(LastOf(v, k)) = m
                    /\ \A i \in 1..m : LastOf(v, k)[i] = Pick(f, Visible(f, Nth(D, i)))
  BY <1>5
<1> HIDE DEF v
<1> DEFINE t == LastOf(v, k)
<1>8. t \in Seq(Seq(Byte)) /\ IsLastOf(t, v, k)
  BY <1>6, LastOfIsLast
<1> HIDE DEF t
<1>9. Len(t) = IF r + m < k THEN r + m ELSE k
  BY <1>6, <1>8, Zenon DEF IsLastOf
<1>10. Len(t) = m
  <2>1. m = k \/ (r = 0 /\ m <= k)
    BY <1>4, <1>5, FS_EmptySet
  <2>2. CASE r + m < k
    <3>1. r + m = m
      BY <2>1, <2>2
    <3> QED BY <1>9, <2>2, <3>1, Zenon
  <2>3. CASE ~(r + m < k)
    <3>1. k = m
      BY <2>1, <2>3
    <3> QED BY <1>9, <2>3, <3>1, Zenon
  <2> QED BY <2>2, <2>3
<1>11. \A i \in 1..m : t[i] = v[r + i]
  <2>1. DOMAIN t = 1..m
    BY <1>8, <1>10, LenProperties
  <2>2. \A i \in 1..m : t[i] = v[Len(v) - Len(t) + i]
    BY <1>8, <2>1, Zenon DEF IsLastOf
  <2>3. Len(v) - Len(t) = r
    BY <1>6, <1>10
  <2> QED BY <2>2, <2>3, Zenon
<1> QED BY <1>7, <1>10, <1>11 DEF t

\* With enough lines, or at the start of the file, the lines that were collected are
\* the last visible lines of the file, each of them backwards.
LEMMA CollectedIsTail ==
    ASSUME NEW f \in Seq(Byte), NEW q \in 0..Len(f), NEW k \in Nat,
           NEW all, all = AllCollected(Collected(f, q)), Len(all) <= k,
           Len(CollectedLines(f, q)) = k \/ q = 0
    PROVE  LET tail == LastOf(VisibleLines(f), k) IN
             /\ Len(all) = Len(tail)
             /\ \A i \in 1..Len(all) : all[i] = Reverse(tail[i])
<1> DEFINE line == Reverse(Pick(f, Current(f, q)))
<1>1. /\ Len(f) \in Nat /\ q \in Nat
      /\ CollectedLines(f, q) \in Seq(Seq(Byte))
      /\ line \in Seq(Byte)
  BY LenProperties, CollectedType
<1>2. all = IF line = <<>> THEN CollectedLines(f, q) ELSE <<line>> \o CollectedLines(f, q)
  BY DEF AllCollected, Collected
<1> HIDE DEF line
<1>3. ASSUME NEW D, NEW R, VisibleEnds(f) = R \cup D, \A r \in R : \A d \in D : r < d,
             Cardinality(D) = k \/ (R = {} /\ Cardinality(D) <= k),
             all = Pick(ReversedAt(f), D)
      PROVE  /\ Len(all) = Len(LastOf(VisibleLines(f), k))
             /\ \A i \in 1..Len(all) : all[i] = Reverse(LastOf(VisibleLines(f), k)[i])
  <2>1. /\ ReversedAt(f) \in Seq(Seq(Byte)) /\ Len(ReversedAt(f)) = Len(f) + 1
        /\ \A e \in D : e \in 1..Len(f) + 1
    BY <1>3, LinesType, EndsType
  <2>2. Len(all) = Cardinality(D) /\ Positions(D)
    <3>1. \A e \in D : e \in 1..Len(ReversedAt(f))
      BY <2>1
    <3> QED BY <1>3, <2>1, <3>1, PickType
  <2>3. /\ Len(LastOf(VisibleLines(f), k)) = Cardinality(D)
        /\ \A i \in 1..Cardinality(D) :
              LastOf(VisibleLines(f), k)[i] = Pick(f, Visible(f, Nth(D, i)))
    BY <1>3, LastVisible
  <2>4. \A i \in 1..Cardinality(D) : all[i] = Reverse(Pick(f, Visible(f, Nth(D, i))))
    <3>1. \A i \in 1..Cardinality(D) : Nth(D, i) \in 1..Len(f) + 1
      BY <2>1, <2>2, NthExists
    <3>2. \A i \in 1..Cardinality(D) : all[i] = ReversedAt(f)[Nth(D, i)]
      BY <1>3, Zenon DEF Pick
    <3> QED BY <3>1, <3>2, Zenon DEF ReversedAt
  <2> QED BY <2>2, <2>3, <2>4
<1>4. CASE Len(CollectedLines(f, q)) = k
  <2>1. line = <<>>
    <3> SUFFICES ASSUME line # <<>> PROVE FALSE
      OBVIOUS
    <3>1. Len(all) = Len(CollectedLines(f, q)) + 1
      BY <1>1, <1>2, LineInFront
    <3> QED BY <1>4, <3>1
  <2>2. all = Pick(ReversedAt(f), Done(f, q))
    BY <1>1, <1>2, <2>1, CollectedLinesPicked
  <2>3. Cardinality(Done(f, q)) = k
    BY <1>4, CollectedType
  <2> DEFINE R == {e \in VisibleEnds(f) : e \notin Done(f, q)}
  <2>4. VisibleEnds(f) = R \cup Done(f, q)
    BY Zenon DEF Done
  <2>5. \A r \in R : \A d \in Done(f, q) : r < d
    <3> SUFFICES ASSUME NEW r \in VisibleEnds(f), r \notin Done(f, q), NEW d \in Done(f, q)
                 PROVE  r < d
      OBVIOUS
    <3>1. r \in Nat /\ d \in Nat
      BY <1>1, EndsType
    <3>2. PICK i \in q + 1..d - 1 : f[i] = "LF"
      BY DEF Done
    <3>3. ~(i \in q + 1..r - 1)
      BY <3>2, Zenon DEF Done
    <3> QED BY <1>1, <3>1, <3>3
  <2> HIDE DEF R
  <2> QED BY <1>3, <2>2, <2>3, <2>4, <2>5
<1>5. CASE q = 0
  <2>1. all = Pick(ReversedAt(f), VisibleEnds(f))
    <3>1. Behind(f, q) = VisibleEnds(f)
      BY <1>5, BehindIsDone
    <3> QED BY <1>2, <1>5, <3>1, BehindLines DEF line
  <2>2. Cardinality(VisibleEnds(f)) <= k
    <3>1. /\ ReversedAt(f) \in Seq(Seq(Byte)) /\ Len(ReversedAt(f)) = Len(f) + 1
          /\ \A e \in VisibleEnds(f) : e \in 1..Len(f) + 1
      BY LinesType, EndsType
    <3>2. \A e \in VisibleEnds(f) : e \in 1..Len(ReversedAt(f))
      BY <3>1
    <3>3. Len(all) = Cardinality(VisibleEnds(f))
      BY <2>1, <3>1, <3>2, PickType
    <3> QED BY <3>3
  <2> DEFINE R == {}
  <2>3. /\ VisibleEnds(f) = R \cup VisibleEnds(f) /\ R = {}
        /\ \A r \in R : \A d \in VisibleEnds(f) : r < d
    OBVIOUS
  <2> HIDE DEF R
  <2> QED BY <1>3, <2>1, <2>2, <2>3
<1> QED BY <1>4, <1>5

\* Finish answers them, each turned around again.
LEMMA FinishAnswers ==
    ASSUME TypeOK, PlaceInv, CollectInv, Finish, ~refilled
    PROVE  LET tail == LastOf(VisibleLines(opened), n) IN
             /\ Len(answer'.lines) = Len(tail)
             /\ \A i \in DOMAIN tail :
                   ToSet(tail[i]) \cap {"hi", "lo"} = {} => answer'.lines[i] = tail[i]
<1> DEFINE tail == LastOf(VisibleLines(opened), n)
<1>s. /\ opened \in Seq(Byte) /\ n \in Nat /\ Len(opened) \in Nat
      /\ Len(buffer) \in Nat /\ pos \in Nat /\ Len(found.lines) \in Nat
  BY StateType
<1>1. /\ pc = "last" /\ (Len(found.lines) >= n \/ (pos = 0 /\ buffer = <<>>))
      /\ Len(found.lines) <= n
  BY DEF Finish, PlaceInv
<1>2. PICK q \in Nat : q = pos + Len(buffer)
  BY <1>s
<1>3. q <= Len(opened) /\ found = Collected(opened, q)
  BY <1>1, <1>2 DEF CollectInv, CollectedDownTo
<1>4. q \in 0..Len(opened)
  BY <1>s, <1>3
<1>5. Len(CollectedLines(opened, q)) = n \/ q = 0
  <2>1. buffer = <<>> => Len(buffer) = 0
    BY EmptySeq
  <2>2. found.lines = CollectedLines(opened, q)
    BY <1>3 DEF Collected
  <2>3. CASE Len(found.lines) >= n
    <3>1. Len(found.lines) = n
      BY <1>s, <1>1, <2>3
    <3> QED BY <2>2, <3>1
  <2>4. CASE pos = 0 /\ buffer = <<>>
    BY <1>2, <2>1, <2>4
  <2> QED BY <1>1, <2>3, <2>4
<1> DEFINE all == AllCollected(found)
<1>6. /\ all \in Seq(Seq(Byte)) /\ Len(all) <= n
      /\ Len(answer'.lines) = Len(all)
      /\ \A i \in 1..Len(all) : answer'.lines[i] = ReverseString(all[i])
  BY BackwardAnswer
<1>7. all = AllCollected(Collected(opened, q))
  BY <1>3
<1> HIDE DEF all
<1>8. Len(all) = Len(tail) /\ \A i \in 1..Len(all) : all[i] = Reverse(tail[i])
  BY <1>s, <1>4, <1>5, <1>6, <1>7, CollectedIsTail
<1>9. tail \in Seq(Seq(Byte)) /\ DOMAIN tail = 1..Len(tail)
  <2>1. VisibleLines(opened) \in Seq(Seq(Byte))
    <3>1. VisibleAt(opened) \in Seq(Seq(Byte)) /\ Len(VisibleAt(opened)) = Len(opened) + 1
      BY <1>s, LinesType
    <3>2. \A e \in VisibleEnds(opened) : e \in 1..Len(VisibleAt(opened))
      BY <1>s, <3>1, EndsType
    <3>3. VisibleLines(opened) = Pick(VisibleAt(opened), VisibleEnds(opened))
      BY <1>s, VisibleLinesPicked
    <3> QED BY <3>1, <3>2, <3>3, PickType
  <2>2. tail \in Seq(Seq(Byte))
    BY <1>s, <2>1, LastOfIsLast
  <2> HIDE DEF tail
  <2> QED BY <2>2, LenProperties
<1> HIDE DEF tail
<1>10. ASSUME NEW i \in DOMAIN tail, ToSet(tail[i]) \cap {"hi", "lo"} = {}
       PROVE  answer'.lines[i] = tail[i]
  <2>1. i \in 1..Len(all) /\ tail[i] \in Seq(Byte)
    BY <1>8, <1>9, ElementOfSeq
  <2>2. \A j \in 1..Len(tail[i]) : tail[i][j] \notin {"hi", "lo"}
    <3>1. DOMAIN tail[i] = 1..Len(tail[i])
      BY <2>1, LenProperties
    <3>2. \A j \in DOMAIN tail[i] : tail[i][j] \in ToSet(tail[i])
      BY Zenon DEF ToSet
    <3> QED BY <1>10, <3>1, <3>2
  <2>3. ReverseString(Reverse(tail[i])) = tail[i]
    BY <2>1, <2>2, ReverseStringReverses
  <2> QED BY <1>6, <1>8, <2>1, <2>3
<1> QED BY <1>6, <1>8, <1>10 DEF tail

LEMMA OtherAnswers ==
    ASSUME Deny \/ ScanFails \/ ReadFails
    PROVE  answer'.status # "ok"
<1>1. CASE Deny
  <2>1. answer'.status = "denied"
    BY <1>1 DEF Deny, Answer
  <2> QED BY <2>1
<1>2. CASE ScanFails
  <2>1. answer'.status = "line too long"
    BY <1>2 DEF ScanFails, Answer
  <2> QED BY <2>1
<1>3. CASE ReadFails
  <2>1. answer'.status = "read error"
    BY <1>3 DEF ReadFails, Answer
  <2> QED BY <2>1
<1> QED BY <1>1, <1>2, <1>3

LEMMA CollectedTailStep ==
    TypeOK /\ PlaceInv /\ CollectInv /\ CollectedTail /\ [Next]_vars => CollectedTail'
<1> SUFFICES ASSUME TypeOK, PlaceInv, CollectInv, CollectedTail, [Next]_vars,
                    answer'.status = "ok", reader' = "last", ~refilled'
             PROVE  LET tail == LastOf(VisibleLines(opened'), n') IN
                      /\ Len(answer'.lines) = Len(tail)
                      /\ \A i \in DOMAIN tail :
                            ToSet(tail[i]) \cap {"hi", "lo"} = {} => answer'.lines[i] = tail[i]
  BY Zenon DEF CollectedTail
<1>1. CASE Finish
  <2>1. ~refilled /\ opened' = opened /\ n' = n
    BY <1>1 DEF Finish
  <2> QED BY <1>1, <2>1, FinishAnswers, Zenon
<1>2. CASE EndOfFile
  BY <1>2 DEF EndOfFile, PlaceInv
<1>3. CASE Deny \/ ScanFails \/ ReadFails
  BY <1>3, OtherAnswers, Zenon
<1>4. CASE UNCHANGED vars
  <2>1. /\ answer' = answer /\ reader' = reader /\ refilled' = refilled
        /\ opened' = opened /\ n' = n
    BY <1>4 DEF vars
  <2> QED BY <2>1, Zenon DEF CollectedTail
<1>5. CASE \/ Open \/ ReadForward \/ ScanByte \/ ReadBackward \/ CollectByte
           \/ AppendByte \/ Truncate
  <2>1. answer' = NoAnswer
    BY <1>5, NoAnswerYet, Zenon
  <2> QED BY <2>1 DEF NoAnswer
<1> QED BY <1>1, <1>2, <1>3, <1>4, <1>5 DEF Next, FetchStep, Answered

-----------------------------------------------------------------------------
(* Plain text, on which both readers agree.                                *)

\* In a plain file a CR is the last byte of its line, so that dropping every CR is
\* taking that one off.
LEMMA PlainLine ==
    ASSUME NEW f \in Seq(Byte), Plain(f), NEW e \in 1..Len(f) + 1
    PROVE  WithoutCR(Pick(f, Span(f, e))) = Pick(f, Visible(f, e))
<1>1. Len(f) \in Nat /\ DOMAIN f = 1..Len(f)
  BY LenProperties
<1>2. /\ \A i \in Span(f, e) : i \in 1..Len(f) /\ i \in 1..e - 1
      /\ \A i \in Visible(f, e) : i \in 1..Len(f) /\ i \in 1..e - 1
      /\ Pick(f, Span(f, e)) \in Seq(Byte) /\ Pick(f, Visible(f, e)) \in Seq(Byte)
      /\ Len(Pick(f, Span(f, e))) = Cardinality(Span(f, e))
      /\ Positions(Span(f, e))
  BY LineType
<1>3. ASSUME NEW i \in Span(f, e), f[i] = "CR" PROVE i = e - 1
  <2>1. i \in 1..Len(f) /\ i \in 1..e - 1
    BY <1>2
  <2>2. f[i + 1] = "LF"
    BY <1>1, <1>3, <2>1, Zenon DEF Plain
  <2>3. i + 1 \notin i..e - 1
    BY <2>2 DEF Span
  <2> QED BY <1>1, <2>1, <2>3
<1>4. CASE e - 1 \in Span(f, e) /\ f[e - 1] = "CR"
  <2>1. PICK i \in 1..Len(f) : i = e - 1
    BY <1>2, <1>4
  <2>2. \A j : j \in Span(f, e) <=> j \in Visible(f, e) \/ j = i
    BY <1>3, <1>4, <2>1, Zenon DEF Visible
  <2>3. \A j \in Visible(f, e) : j \in 1..i - 1
    <3> TAKE j \in Visible(f, e)
    <3>1. j \in 1..i
      BY <1>2, <2>1
    <3>2. j # i
      BY <1>4, <2>1 DEF Visible
    <3> QED BY <1>1, <3>1, <3>2
  <2>4. Span(f, e) = Visible(f, e) \cup {i}
    BY <2>2, Zenon
  <2>5. Pick(f, Span(f, e)) = Append(Pick(f, Visible(f, e)), f[i])
    BY <2>3, <2>4, PickBehind
  <2>6. f[i] = "CR" /\ "CR" \in Byte
    BY <1>4, <2>1 DEF Byte
  <2> QED BY <1>2, <2>5, <2>6, WithoutCROfAppend
<1>5. CASE ~(e - 1 \in Span(f, e) /\ f[e - 1] = "CR")
  <2>1. \A i \in Span(f, e) : f[i] # "CR"
    BY <1>3, <1>5
  <2>2. Visible(f, e) = Span(f, e)
    BY <2>1 DEF Visible
  <2> DEFINE s == Pick(f, Span(f, e))
  <2>3. s = <<>> \/ Last(s) # "CR"
    <3> SUFFICES ASSUME s # <<>> PROVE Last(s) # "CR"
      OBVIOUS
    <3>1. PICK m \in Nat : m = Cardinality(Span(f, e))
      BY <1>2, LenProperties
    <3>2. m # 0 /\ Last(s) = s[m]
      BY <1>2, <3>1, EmptySeq DEF Last
    <3>3. m \in 1..Cardinality(Span(f, e))
      BY <3>1, <3>2
    <3>4. s[m] = f[Nth(Span(f, e), m)]
      BY <3>3, Zenon DEF Pick
    <3>5. Nth(Span(f, e), m) \in Span(f, e)
      BY <1>2, <3>3, NthExists
    <3> QED BY <2>1, <3>2, <3>4, <3>5
  <2> HIDE DEF s
  <2>4. WithoutCR(s) = s
    BY <2>3 DEF WithoutCR
  <2> QED BY <2>2, <2>4 DEF s
<1> QED BY <1>4, <1>5

\* The lines of a plain file are its visible lines.
LEMMA PlainLines ==
    ASSUME NEW f \in Seq(Byte), Plain(f)
    PROVE  TextLines(f) = VisibleLines(f)
<1>1. /\ \A e \in LineEnds(f) : e \in 1..Len(f) + 1 /\ e \in Ends(f)
      /\ \A e \in VisibleEnds(f) : e \in 1..Len(f) + 1 /\ e \in Ends(f)
      /\ Positions(LineEnds(f)) /\ Len(f) \in Nat
  BY EndsType
<1>2. \A e \in 1..Len(f) + 1 : TextAt(f)[e] = VisibleAt(f)[e]
  BY PlainLine DEF TextAt, VisibleAt
<1>3. ASSUME NEW e \in LineEnds(f) PROVE e \in VisibleEnds(f)
  <2>1. PICK k \in 1..Cardinality(LineEnds(f)) : Nth(LineEnds(f), k) = e
    BY <1>1, RankOfElement, NthOfRank
  <2>2. /\ TextLines(f) = Pick(TextAt(f), LineEnds(f))
        /\ TextAt(f) \in Seq(Seq(Byte)) /\ Len(TextAt(f)) = Len(f) + 1
    BY TextLinesPicked, LinesType
  <2>3. DOMAIN TextLines(f) = 1..Cardinality(LineEnds(f)) /\ TextLines(f)[k] = TextAt(f)[e]
    BY <2>1, <2>2, Zenon DEF Pick
  <2>4. TextAt(f)[e] # <<>>
    BY <2>3, Zenon DEF Plain
  <2>5. e \in 1..Len(f) + 1
    BY <1>1
  <2>6. TextAt(f)[e] = VisibleAt(f)[e] /\ VisibleAt(f)[e] = Pick(f, Visible(f, e))
    BY <1>2, <2>5 DEF VisibleAt
  <2>7. Visible(f, e) # {}
    BY <2>4, <2>6, PickEmpty, Zenon
  <2> QED BY <1>1, <2>7 DEF VisibleEnds
<1>4. ASSUME NEW e \in VisibleEnds(f) PROVE e \in LineEnds(f)
  <2>1. Span(f, e) # {}
    BY DEF VisibleEnds, Visible
  <2> QED BY <1>1, <2>1 DEF LineEnds
<1>5. LineEnds(f) = VisibleEnds(f)
  BY <1>3, <1>4, Zenon
<1>6. \A e \in LineEnds(f) : TextAt(f)[e] = VisibleAt(f)[e]
  BY <1>1, <1>2
<1>7. Pick(TextAt(f), LineEnds(f)) = Pick(VisibleAt(f), LineEnds(f))
  BY <1>1, <1>6, PickAgrees
<1> QED BY <1>5, <1>7, TextLinesPicked, VisibleLinesPicked, Zenon

\* The last of them have no bytes but those of the file.
LEMMA TailBytes ==
    ASSUME NEW f \in Seq(Byte), NEW k \in Nat, NEW i \in DOMAIN LastOf(VisibleLines(f), k)
    PROVE  ToSet(LastOf(VisibleLines(f), k)[i]) \subseteq ToSet(f)
<1> DEFINE all == VisibleLines(f)
           tail == LastOf(all, k)
<1>1. /\ \A e \in VisibleEnds(f) : e \in 1..Len(f) + 1
      /\ Positions(VisibleEnds(f)) /\ Len(f) \in Nat
  BY EndsType
<1>2. all \in Seq(Seq(Byte)) /\ Len(all) = Cardinality(VisibleEnds(f))
  <2>1. VisibleAt(f) \in Seq(Seq(Byte)) /\ Len(VisibleAt(f)) = Len(f) + 1
    BY LinesType
  <2>2. all = Pick(VisibleAt(f), VisibleEnds(f))
    BY VisibleLinesPicked
  <2>3. \A e \in VisibleEnds(f) : e \in 1..Len(VisibleAt(f))
    BY <1>1, <2>1
  <2> HIDE DEF all
  <2> QED BY <2>1, <2>2, <2>3, PickType
<1>3. \A j \in 1..Cardinality(VisibleEnds(f)) :
          all[j] = Pick(f, Visible(f, Nth(VisibleEnds(f), j)))
  BY Zenon DEF VisibleLines
<1> HIDE DEF all
<1>4. tail \in Seq(Seq(Byte)) /\ IsLastOf(tail, all, k)
  BY <1>2, LastOfIsLast
<1>5. i \in DOMAIN tail
  BY DEF all
<1> HIDE DEF tail
<1>6. /\ Len(all) \in Nat /\ Len(tail) \in Nat /\ DOMAIN tail = 1..Len(tail)
  BY <1>2, <1>4, LenProperties
<1>7. PICK j \in 1..Len(all) : tail[i] = all[j]
  <2>1. tail[i] = all[Len(all) - Len(tail) + i]
    BY <1>4, <1>5, Zenon DEF IsLastOf
  <2>2. Len(tail) = IF Len(all) < k THEN Len(all) ELSE k
    BY <1>4, Zenon DEF IsLastOf
  <2>3. Len(tail) <= Len(all)
    BY <1>6, <2>2
  <2>4. Len(all) - Len(tail) + i \in 1..Len(all)
    BY <1>5, <1>6, <2>3
  <2> QED BY <2>1, <2>4
<1>8. PICK e \in 1..Len(f) + 1 : tail[i] = Pick(f, Visible(f, e))
  <2>1. j \in 1..Cardinality(VisibleEnds(f))
    BY <1>2
  <2>2. Nth(VisibleEnds(f), j) \in 1..Len(f) + 1
    BY <1>1, <2>1, NthExists
  <2> QED BY <1>3, <1>7, <2>1, <2>2
<1>9. ASSUME NEW b \in ToSet(Pick(f, Visible(f, e))) PROVE b \in ToSet(f)
  <2> DEFINE P == Visible(f, e)
  <2>1. Positions(P) /\ \A p \in P : p \in 1..Len(f)
    BY LineType
  <2> HIDE DEF P
  <2>2. PICK m \in 1..Cardinality(P) : b = f[Nth(P, m)]
    BY <1>9, Zenon DEF ToSet, Pick, P
  <2>3. Nth(P, m) \in 1..Len(f)
    BY <2>1, NthExists
  <2>4. DOMAIN f = 1..Len(f)
    BY LenProperties
  <2> QED BY <2>2, <2>3, <2>4, Zenon DEF ToSet
<1> QED BY <1>8, <1>9 DEF all, tail

\* That both readers are right implies that they agree on plain text.
LEMMA BothAgree ==
    TypeOK /\ PlaceInv /\ ScannedTail /\ CollectedTail => PlainTail
<1> SUFFICES ASSUME TypeOK, PlaceInv, ScannedTail, CollectedTail, answer.status = "ok", ~cut,
                    Plain(IF reader = "all" THEN file ELSE opened)
             PROVE  IsLastOf(answer.lines,
                             TextLines(IF reader = "all" THEN file ELSE opened), n)
  BY Zenon DEF PlainTail
<1>1. CASE reader = "all"
  <2>1. IsLastOf(answer.lines, TextLines(file), n)
    BY <1>1, Zenon DEF ScannedTail
  <2> QED BY <1>1, <2>1, Zenon
<1>2. CASE reader # "all"
  <2> DEFINE all == VisibleLines(opened)
             tail == LastOf(all, n)
  <2>1. opened \in Seq(Byte) /\ n \in Nat /\ Plain(opened)
    BY <1>2, StateType, Zenon
  <2>2. reader = "last" /\ ~refilled
    <3>1. reader \in {"none", "all", "last"}
      BY DEF TypeOK
    <3>2. reader # "none" /\ ~refilled
      BY DEF PlaceInv
    <3> QED BY <1>2, <3>1, <3>2
  <2>3. /\ Len(answer.lines) = Len(tail)
        /\ \A i \in DOMAIN tail :
              ToSet(tail[i]) \cap {"hi", "lo"} = {} => answer.lines[i] = tail[i]
    BY <2>2, Zenon DEF CollectedTail
  <2>4. \A i \in DOMAIN tail : ToSet(tail[i]) \cap {"hi", "lo"} = {}
    <3>1. ToSet(opened) \cap {"hi", "lo"} = {}
      BY <2>1 DEF Plain
    <3>2. \A i \in DOMAIN tail : ToSet(tail[i]) \subseteq ToSet(opened)
      BY <2>1, TailBytes
    <3> HIDE DEF tail
    <3> QED BY <3>1, <3>2, Zenon
  <2>5. all \in Seq(Seq(Byte))
    <3>1. VisibleAt(opened) \in Seq(Seq(Byte)) /\ Len(VisibleAt(opened)) = Len(opened) + 1
      BY <2>1, LinesType
    <3>2. \A e \in VisibleEnds(opened) : e \in 1..Len(VisibleAt(opened))
      BY <2>1, <3>1, EndsType
    <3>3. all = Pick(VisibleAt(opened), VisibleEnds(opened))
      BY <2>1, VisibleLinesPicked
    <3> HIDE DEF all
    <3> QED BY <3>1, <3>2, <3>3, PickType
  <2>6. all = TextLines(opened)
    BY <2>1, PlainLines
  <2> HIDE DEF all
  <2>7. tail \in Seq(Seq(Byte)) /\ IsLastOf(tail, all, n)
    BY <2>1, <2>5, LastOfIsLast
  <2> HIDE DEF tail
  <2>8. DOMAIN answer.lines = DOMAIN tail
    <3>1. answer.lines \in Seq(Line)
      BY DEF TypeOK
    <3> QED BY <2>3, <2>7, <3>1, LenProperties
  <2>9. IsLastOf(answer.lines, all, n)
    BY <2>3, <2>4, <2>7, <2>8, Zenon DEF IsLastOf
  <2> QED BY <1>2, <2>6, <2>9, Zenon
<1> QED BY <1>1, <1>2

-----------------------------------------------------------------------------
(* The invariant, and what it implies.                                     *)

LEMMA IInvInit == Init => IInv
<1> SUFFICES ASSUME Init PROVE IInv
  OBVIOUS
<1>1. TypeOK /\ PlaceInv
  BY InitType, InitPlace
<1>2. ScanInv /\ CollectInv
  BY DEF Init, ScanInv, CollectInv
<1>3. ScannedTail /\ CollectedTail
  <2>1. answer.status = "none"
    BY DEF Init, NoAnswer
  <2>2. answer.status \notin {"ok", "line too long"}
    BY <2>1
  <2> QED BY <2>1, <2>2 DEF ScannedTail, CollectedTail
<1> QED BY <1>1, <1>2, <1>3 DEF IInv

LEMMA Invariance == Spec => []IInv
<1>1. IInv /\ [Next]_vars => IInv'
  BY TypeStep, PlaceStep, ScanStep, CollectStep, ScannedTailStep, CollectedTailStep DEF IInv
<1> QED BY IInvInit, <1>1, PTL DEF Spec

\* The variables keep their types: neither reader holds more than BufferSize bytes, no
\* answer has more lines than were asked for, and reversing them leaves bytes and
\* replacement characters.
THEOREM TypeCorrect == Spec => []TypeOK
<1>1. IInv => TypeOK
  BY DEF IInv
<1> QED BY Invariance, <1>1, PTL

\* Whatever buffers readAllLines reads it in, and whatever is appended meanwhile, a
\* small file that is not truncated is answered with the last lines it has when its end
\* is reached, or with an error for a line beyond the scanner's limit.
THEOREM ForwardIsTail == Spec => []ScannedTail
<1>1. IInv => ScannedTail
  BY DEF IInv
<1> QED BY Invariance, <1>1, PTL

\* Wherever the chunks of readLastNLines begin, and whatever is appended meanwhile, the
\* last non-empty lines the file had when its size was taken are answered, without any
\* CR; after a truncation still, unless the file is filled again.
THEOREM BackwardIsTail == Spec => []CollectedTail
<1>1. IInv => CollectedTail
  BY DEF IInv
<1> QED BY Invariance, <1>1, PTL

\* On plain text the size of the file, which decides who reads it, makes no difference
\* to what FetchLogLines answers.
THEOREM ReadersAgree == Spec => []PlainTail
<1>1. IInv => PlainTail
  BY BothAgree DEF IInv
<1> QED BY Invariance, <1>1, PTL

-----------------------------------------------------------------------------
(* The readers advance.                                                    *)

\* How much is left to be read and worked through, as a bound on the steps to come.
Ahead == IF pos <= Len(file) THEN Len(file) - pos ELSE 0
Left ==
    CASE pc = "asked" -> 2 * Len(file) + 2
      [] pc = "all" -> 2 * Ahead + Len(buffer) + 1
      [] pc = "last" -> 2 * pos + Len(buffer) + 1
      [] OTHER -> 0

LEMMA LeftType == TypeOK => Left \in Nat
<1> SUFFICES ASSUME TypeOK PROVE Left \in Nat
  OBVIOUS
<1>1. Len(file) \in Nat /\ Len(buffer) \in Nat /\ pos \in Nat
  BY StateType
<1>2. Ahead \in Nat
  BY <1>1 DEF Ahead
<1> QED BY <1>1, <1>2 DEF Left

LEMMA AnswerLeavesNothing ==
    ASSUME TypeOK, pc # "answered", Deny \/ EndOfFile \/ ScanFails \/ ReadFails \/ Finish
    PROVE  Left' < Left
<1>1. pc' = "answered"
  BY DEF Deny, EndOfFile, ScanFails, ReadFails, Finish, Answer
<1>2. Left' = 0
  BY <1>1 DEF Left
<1>3. Len(file) \in Nat /\ Len(buffer) \in Nat /\ pos \in Nat /\ Ahead \in Nat
  BY StateType DEF Ahead
<1>4. pc \in {"asked", "all", "last"}
  BY DEF TypeOK
<1> QED BY <1>2, <1>3, <1>4 DEF Left

LEMMA FetchAdvances == TypeOK /\ PlaceInv /\ FetchStep => Left' < Left
<1> SUFFICES ASSUME TypeOK, PlaceInv, FetchStep PROVE Left' < Left
  OBVIOUS
<1>s. Len(file) \in Nat /\ Len(buffer) \in Nat /\ pos \in Nat
  BY StateType
<1>1. CASE Deny \/ EndOfFile \/ ScanFails \/ ReadFails \/ Finish
  <2>1. pc # "answered"
    BY <1>1 DEF Deny, EndOfFile, ScanFails, ReadFails, Reads, Finish
  <2> QED BY <1>1, <2>1, AnswerLeavesNothing
<1>2. CASE Open
  <2>1. /\ pc = "asked" /\ file' = file /\ buffer' = <<>>
        /\ \/ pc' = "all" /\ pos' = 0
           \/ pc' = "last" /\ pos' = Len(file)
    BY <1>2 DEF Open, PlaceInv
  <2>2. Len(buffer') = 0
    BY <2>1, EmptySeq
  <2>3. Left = 2 * Len(file) + 2
    BY <2>1 DEF Left
  <2>4. Left' = 2 * Len(file) + 1
    BY <1>s, <2>1, <2>2 DEF Left, Ahead
  <2> QED BY <1>s, <2>3, <2>4
<1>3. CASE ReadForward
  <2>1. /\ pc = "all" /\ pc' = "all" /\ file' = file /\ buffer = <<>> /\ pos < Len(file)
    BY <1>3 DEF ReadForward
  <2>2. pos' \in pos + 1..Len(file) /\ Len(buffer') = pos' - pos /\ Len(buffer) = 0
    BY <1>3, <2>1, ForwardChunk, EmptySeq
  <2>3. Left = 2 * (Len(file) - pos) + 1
    BY <1>s, <2>1, <2>2 DEF Left, Ahead
  <2>4. Left' = 2 * (Len(file) - pos') + (pos' - pos) + 1
    BY <1>s, <2>1, <2>2 DEF Left, Ahead
  <2>5. \A a \in Nat, b \in Nat, c \in Nat :
            b \in a + 1..c => 2 * (c - b) + (b - a) + 1 < 2 * (c - a) + 1
    OBVIOUS
  <2>6. pos' \in Nat
    BY <1>s, <2>2
  <2>7. 2 * (Len(file) - pos') + (pos' - pos) + 1 < 2 * (Len(file) - pos) + 1
    BY <1>s, <2>2, <2>5, <2>6, Zenon
  <2> QED BY <2>3, <2>4, <2>7, Zenon
<1>4. CASE ScanByte
  <2>1. /\ pc = "all" /\ pc' = "all" /\ file' = file /\ pos' = pos
        /\ buffer # <<>> /\ buffer' = Tail(buffer)
    BY <1>4 DEF ScanByte
  <2>2. Len(buffer') = Len(buffer) - 1
    BY <2>1, BufferEnds
  <2>3. Ahead' = Ahead /\ Ahead \in Nat
    BY <1>s, <2>1 DEF Ahead
  <2>4. Left = 2 * Ahead + Len(buffer) + 1 /\ Left' = 2 * Ahead' + Len(buffer') + 1
    BY <2>1 DEF Left
  <2> QED BY <1>s, <2>2, <2>3, <2>4
<1>5. CASE ReadBackward
  <2>1. pc = "last" /\ pc' = "last" /\ buffer = <<>>
    BY <1>5 DEF ReadBackward, Reads
  <2>2. pos' \in 0..pos - 1 /\ Len(buffer') = pos - pos' /\ Len(buffer) = 0
    BY <1>5, <2>1, BackwardChunk, EmptySeq
  <2>3. Left = 2 * pos + Len(buffer) + 1 /\ Left' = 2 * pos' + Len(buffer') + 1
    BY <2>1 DEF Left
  <2>4. \A a \in Nat, b \in Nat : b \in 0..a - 1 => 2 * b + (a - b) + 1 < 2 * a + 0 + 1
    OBVIOUS
  <2>5. pos' \in Nat
    BY <2>2
  <2>6. 2 * pos' + (pos - pos') + 1 < 2 * pos + 0 + 1
    BY <1>s, <2>2, <2>4, <2>5, Zenon
  <2> QED BY <2>2, <2>3, <2>6, Zenon
<1>6. CASE CollectByte
  <2>1. /\ pc = "last" /\ pc' = "last" /\ pos' = pos
        /\ buffer # <<>> /\ buffer' = Front(buffer)
    BY <1>6 DEF CollectByte
  <2>2. Len(buffer') = Len(buffer) - 1
    BY <2>1, BufferEnds
  <2>3. Left = 2 * pos + Len(buffer) + 1 /\ Left' = 2 * pos' + Len(buffer') + 1
    BY <2>1 DEF Left
  <2> QED BY <1>s, <2>1, <2>2, <2>3
<1> QED BY <1>1, <1>2, <1>3, <1>4, <1>5, <1>6 DEF FetchStep

\* Appending gives only the forward reader more to do; truncating neither.
LEMMA WritesLeave ==
    ASSUME TypeOK, AppendByte \/ Truncate
    PROVE  /\ Left' <= Left + 2
           /\ Truncate \/ pc = "last" => Left' <= Left
<1>s. Len(file) \in Nat /\ Len(buffer) \in Nat /\ pos \in Nat /\ file \in Seq(Byte)
  BY StateType
<1>1. /\ pc' = pc /\ pos' = pos /\ buffer' = buffer /\ pc \in {"all", "last"}
  BY DEF AppendByte, Truncate, Reading
<1>2. CASE pc = "last"
  <2>1. Left = 2 * pos + Len(buffer) + 1 /\ Left' = 2 * pos + Len(buffer) + 1
    BY <1>1, <1>2 DEF Left
  <2> QED BY <1>s, <2>1
<1>3. CASE pc = "all"
  <2>1. /\ Left = 2 * Ahead + Len(buffer) + 1 /\ Left' = 2 * Ahead' + Len(buffer) + 1
        /\ pc # "last"
    BY <1>1, <1>3 DEF Left
  <2>2. CASE Truncate
    <3>1. Len(file') = 0
      BY <2>2, EmptySeq DEF Truncate
    <3>2. Ahead \in Nat /\ Ahead' = 0
      BY <1>s, <1>1, <3>1 DEF Ahead
    <3> QED BY <1>s, <2>1, <3>2
  <2>3. CASE AppendByte /\ ~Truncate
    <3>1. PICK byte \in Appended : file' = Append(file, byte)
      BY <2>3 DEF AppendByte
    <3>2. Len(file') = Len(file) + 1
      BY <1>s, <3>1, FilesAssumption, AppendProperties
    <3>3. Ahead \in Nat /\ Ahead' \in Nat /\ Ahead' <= Ahead + 1
      BY <1>s, <1>1, <3>2 DEF Ahead
    <3> QED BY <1>s, <2>1, <2>3, <3>3
  <2> QED BY <2>2, <2>3
<1> QED BY <1>1, <1>2, <1>3

\* Every step of FetchLogLines brings it nearer to its answer, by a measure that is
\* never below 0 and that the owner of the file can raise only by appending to what
\* readAllLines reads: readLastNLines ends whatever the owner does.
THEOREM ReadersAdvance ==
    Spec => [][ /\ Left \in Nat
                /\ FetchStep => Left' < Left
                /\ AppendByte => Left' <= Left + 2
                /\ Truncate \/ (AppendByte /\ pc = "last") => Left' <= Left ]_vars
<1>1. ASSUME IInv, Next
      PROVE  /\ Left \in Nat
             /\ FetchStep => Left' < Left
             /\ AppendByte => Left' <= Left + 2
             /\ Truncate \/ (AppendByte /\ pc = "last") => Left' <= Left
  <2>1. TypeOK /\ PlaceInv
    BY <1>1 DEF IInv
  <2> QED BY <2>1, LeftType, FetchAdvances, WritesLeave
<1>2. IInv /\ [Next]_vars =>
        [ /\ Left \in Nat
          /\ FetchStep => Left' < Left
          /\ AppendByte => Left' <= Left + 2
          /\ Truncate \/ (AppendByte /\ pc = "last") => Left' <= Left ]_vars
  BY <1>1
<1> QED BY <1>2, Invariance, PTL DEF Spec
=============================================================================
