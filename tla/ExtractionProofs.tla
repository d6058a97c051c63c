------------------------- MODULE ExtractionProofs --------------------------
(***************************************************************************)
(* What Extraction promises, for every document, budget and answer of the  *)
(* LLM.  The loops of the code are recursive functions on the number of    *)
(* passes made; the first lemmas carry an invariant through such a loop.   *)
(***************************************************************************)
EXTENDS Extraction, FiniteSetTheorems, SequenceTheorems, WellFoundedInduction, TLAPS

(***************************************************************************)
(* Loops                                                                   *)
(***************************************************************************)
\* A nonempty set of numbers has a least one.
LEMMA LeastNumber ==
  ASSUME NEW T, T \subseteq Nat, T # {}
  PROVE  \E x \in T : \A y \in T : x <= y
<1> DEFINE R == OpToRel(<, Nat)
<1>1. \A x, y \in Nat : <<y, x>> \in R <=> y < x
  BY DEF OpToRel
<1>2. IsWellFoundedOn(R, Nat)
  BY NatLessThanWellFounded
<1> HIDE DEF R
<1>3. PICK x \in T : \A y \in T : ~(<<y, x>> \in R)
  BY <1>2, WFMin
<1>4. \A y \in T : x <= y
  <2> SUFFICES ASSUME NEW y \in T PROVE x <= y
    OBVIOUS
  <2>1. x \in Nat /\ y \in Nat /\ ~(y < x)
    BY <1>1, <1>3
  <2>2. QED
    BY <2>1
<1>5. QED
  BY <1>4

\* What holds of 0 and is handed on from n to n + 1 holds up to N.
LEMMA Steps ==
  ASSUME NEW N \in Nat, NEW P, 0 \in P, \A n \in 0..(N - 1) : n \in P => n + 1 \in P
  PROVE  \A n \in 0..N : n \in P
<1> SUFFICES ASSUME NEW T, T = {n \in 0..N : n \notin P}, T # {} PROVE FALSE
  OBVIOUS
<1>1. PICK x \in T : \A y \in T : x <= y
  BY LeastNumber
<1>2. x \in 1..N
  OBVIOUS
<1>3. x - 1 \in 0..(N - 1) /\ x - 1 \notin T /\ x - 1 + 1 = x
  BY <1>1, <1>2
<1>4. QED
  BY <1>2, <1>3

\* What a loop of N passes over S, from b, has computed after each of them.
IsLoop(f, N, S, b, G) ==
  /\ f \in [0..N -> S]
  /\ f[0] = b
  /\ \A n \in 1..N : f[n] = G[n][f[n - 1]]

\* A loop computes something.
LEMMA Recursion ==
  ASSUME NEW N \in Nat, NEW S, NEW b \in S, NEW G, \A n \in 1..N : \A s \in S : G[n][s] \in S
  PROVE  \E f : IsLoop(f, N, S, b, G)
<1> DEFINE Is(f, m) == f[0] = b /\ \A n \in 1..m : f[n] = G[n][f[n - 1]]
           P == {m \in 0..N : \E f \in [0..m -> S] : Is(f, m)}
<1>1. 0 \in P
  <2>1. [n \in 0..0 |-> b] \in [0..0 -> S]
    OBVIOUS
  <2>2. Is([n \in 0..0 |-> b], 0)
    OBVIOUS
  <2> HIDE DEF Is
  <2>3. \E f \in [0..0 -> S] : Is(f, 0)
    BY <2>1, <2>2
  <2>4. QED
    BY <2>3
<1>2. ASSUME NEW m \in 0..(N - 1), m \in P
      PROVE  m + 1 \in P
  <2>1. PICK f \in [0..m -> S] : Is(f, m)
    BY <1>2
  <2> DEFINE g == [n \in 0..(m + 1) |-> IF n = m + 1 THEN G[m + 1][f[m]] ELSE f[n]]
  <2>2. g \in [0..(m + 1) -> S]
    OBVIOUS
  <2>3. g[0] = b
    BY <2>1
  <2>4. \A n \in 1..(m + 1) : g[n] = G[n][g[n - 1]]
    <3> SUFFICES ASSUME NEW n \in 1..(m + 1)
                 PROVE  g[n] = G[n][g[n - 1]]
      OBVIOUS
    <3>1. CASE n = m + 1
      <4>1. n # 0 /\ g[n] = G[n][f[n - 1]] /\ n - 1 \in 0..m /\ n - 1 # m + 1
        BY <3>1
      <4>2. g[n - 1] = f[n - 1]
        BY <4>1
      <4>3. QED
        BY <4>1, <4>2
    <3>2. CASE n # m + 1
      <4>1. n \in 1..m /\ g[n] = f[n]
        BY <3>2
      <4>2. g[n - 1] = f[n - 1]
        BY <4>1
      <4>3. QED
        BY <2>1, <4>1, <4>2
    <3>3. QED
      BY <3>1, <3>2
  <2> HIDE DEF g
  <2>5. Is(g, m + 1)
    BY <2>3, <2>4
  <2> HIDE DEF Is
  <2>6. \E h \in [0..(m + 1) -> S] : Is(h, m + 1)
    BY <2>2, <2>5
  <2>7. QED
    BY <2>6
<1> HIDE DEF P
<1>3. \A m \in 0..N : m \in P
  BY <1>1, <1>2, Steps
<1>4. QED
  BY <1>3 DEF P, IsLoop

(***************************************************************************)
(* Segments                                                                *)
(***************************************************************************)
TextSegment ==
  [title : Nat, heading : Headings, size : Nat, start : Nat, end : Nat, lines : SUBSET Nat]

\* A pass opens a segment with line n, or adds it to the last one.
LEMMA OnePass ==
  ASSUME lines \in Seq(Lines), NEW n \in 1..Len(lines), NEW s \in Seq(TextSegment)
  PROVE  /\ AddLine(s, n) \in Seq(TextSegment)
         /\ \/ \E x \in TextSegment : x.lines = {n} /\ AddLine(s, n) = Append(s, x)
            \/ /\ s # << >> /\ Len(AddLine(s, n)) = Len(s)
               /\ \A i \in 1..Len(s) :
                    AddLine(s, n)[i].lines = IF i = Len(s) THEN s[i].lines \cup {n} ELSE s[i].lines
<1>1. lines[n].heading \in Headings /\ lines[n].page \in Nat
      /\ lines[n].size \in Nat \ {0} /\ lines[n].first \in Nat \ {0}
  BY ConstantsOK
<1>2. Opened(n) \in TextSegment /\ Opened(n).lines = {n}
  BY <1>1 DEF Opened, TextSegment, Untitled, TitleMax, Smaller
<1>3. CASE AddLine(s, n) = Append(s, Opened(n))
  <2>1. PICK x \in TextSegment : x.lines = {n} /\ AddLine(s, n) = Append(s, x)
    BY <1>2, <1>3
  <2>2. Append(s, x) \in Seq(TextSegment)
    BY AppendProperties
  <2>3. QED
    BY <2>1, <2>2
<1>4. CASE s # << >> /\ AddLine(s, n) = AddTo(s, n)
  <2> DEFINE last == s[Len(s)]
             x == [title |-> last.title, heading |-> last.heading,
                   size |-> last.size + 1 + lines[n].size, start |-> last.start,
                   end |-> lines[n].page, lines |-> last.lines \cup {n}]
  <2>1. Len(s) \in 1..Len(s) /\ s[Len(s)] \in TextSegment
    BY <1>4
  <2>2. x \in TextSegment /\ x.lines = s[Len(s)].lines \cup {n}
    <3>1. last.title \in Nat /\ last.size \in Nat /\ last.lines \in SUBSET Nat
          /\ last.heading \in Headings /\ last.start \in Nat
      BY <2>1 DEF TextSegment
    <3> HIDE DEF last
    <3>2. last.size + 1 + lines[n].size \in Nat
      BY <1>1, <3>1
    <3>3. last.lines \cup {n} \in SUBSET Nat
      BY <3>1
    <3>4. x \in TextSegment
      BY <1>1, <3>1, <3>2, <3>3 DEF TextSegment
    <3>5. QED
      BY <3>4 DEF last
  <2>3. AddTo(s, n) = [s EXCEPT ![Len(s)] = x]
    BY DEF AddTo
  <2> HIDE DEF x
  <2>4. AddTo(s, n) \in Seq(TextSegment) /\ Len(AddTo(s, n)) = Len(s)
    BY <2>1, <2>2, <2>3, ExceptSeq
  <2>5. \A i \in 1..Len(s) : AddTo(s, n)[i] = IF i = Len(s) THEN x ELSE s[i]
    BY <2>1, <2>3
  <2>6. QED
    BY <1>4, <2>2, <2>4, <2>5
<1>5. QED
  BY <1>3, <1>4 DEF AddLine

\* The loop, unfolded.
LEMMA SegmentsAre ==
  ASSUME lines \in Seq(Lines)
  PROVE  /\ SegmentsOf[0] = << >>
         /\ \A n \in 1..Len(lines) : SegmentsOf[n] = AddLine(SegmentsOf[n - 1], n)
<1> DEFINE N == Len(lines)
           G == [n \in 1..N |-> [s \in Seq(TextSegment) |-> AddLine(s, n)]]
<1>1. N \in Nat /\ (\A n \in 1..N : \A s \in Seq(TextSegment) : G[n][s] \in Seq(TextSegment))
      /\ << >> \in Seq(TextSegment)
  BY OnePass
<1>2. PICK f : IsLoop(f, N, Seq(TextSegment), << >>, G)
  <2> HIDE DEF N, G
  <2>1. QED
    BY <1>1, Recursion
<1>3. \A n \in 1..N : f[n] = AddLine(f[n - 1], n)
  <2>1. \A n \in 1..N : n - 1 \in 0..N
    BY <1>1
  <2>2. QED
    BY <1>2, <2>1 DEF IsLoop
<1> HIDE DEF G
<1>4. f = [n \in 0..N |-> IF n = 0 THEN << >> ELSE AddLine(f[n - 1], n)]
  BY <1>1, <1>2, <1>3 DEF IsLoop
<1>5. SegmentsOf = [n \in 0..N |-> IF n = 0 THEN << >> ELSE AddLine(SegmentsOf[n - 1], n)]
  BY <1>4, Zenon DEF SegmentsOf
<1>6. \A n \in 0..N : SegmentsOf[n] = IF n = 0 THEN << >> ELSE AddLine(SegmentsOf[n - 1], n)
  BY <1>5
<1>7. QED
  BY <1>1, <1>6

\* s holds the first n lines: each is in one segment, in their order.
Holds(s, n) ==
  /\ \A m \in 1..n : \E i \in 1..Len(s) : m \in s[i].lines
  /\ \A i \in 1..Len(s) : s[i].lines # {} /\ s[i].lines \subseteq 1..n
  /\ \A i, j \in 1..Len(s) : i < j => \A a \in s[i].lines, b \in s[j].lines : a < b

LEMMA PassHolds ==
  ASSUME lines \in Seq(Lines), NEW n \in 1..Len(lines), NEW s \in Seq(TextSegment),
         Holds(s, n - 1)
  PROVE  Holds(AddLine(s, n), n)
<1> DEFINE t == AddLine(s, n)
<1>1. t \in Seq(TextSegment) /\ n \in Nat \ {0} /\ n - 1 \in Nat
  BY OnePass
<1>2. CASE \E x \in TextSegment : x.lines = {n} /\ t = Append(s, x)
  <2>1. PICK x \in TextSegment : x.lines = {n} /\ t = Append(s, x)
    BY <1>2
  <2> HIDE DEF t
  <2>2. /\ Len(t) = Len(s) + 1 /\ Len(s) \in Nat
        /\ \A i \in 1..Len(s) : t[i] = s[i]
        /\ t[Len(s) + 1] = x
    BY <2>1
  <2>3. ASSUME NEW m \in 1..n
        PROVE  \E i \in 1..Len(t) : m \in t[i].lines
    <3>1. CASE m = n
      BY <2>1, <2>2, <3>1
    <3>2. CASE m # n
      <4>1. m \in 1..(n - 1)
        BY <3>2
      <4>2. PICK i \in 1..Len(s) : m \in s[i].lines
        BY <4>1 DEF Holds
      <4>3. i \in 1..Len(t) /\ t[i] = s[i]
        BY <2>2
      <4>4. QED
        BY <4>2, <4>3
    <3>3. QED
      BY <3>1, <3>2
  <2>4. ASSUME NEW i \in 1..Len(t)
        PROVE  t[i].lines # {} /\ t[i].lines \subseteq 1..n
    <3>1. CASE i = Len(s) + 1
      <4>1. t[i].lines = {n}
        BY <2>1, <2>2, <3>1
      <4>2. QED
        BY <1>1, <4>1
    <3>2. CASE i # Len(s) + 1
      <4>1. i \in 1..Len(s) /\ t[i] = s[i]
        BY <2>2, <3>2
      <4>2. s[i].lines # {} /\ s[i].lines \subseteq 1..(n - 1)
        BY <4>1 DEF Holds
      <4>3. QED
        BY <4>1, <4>2
    <3>3. QED
      BY <3>1, <3>2
  <2>5. ASSUME NEW i \in 1..Len(t), NEW j \in 1..Len(t), i < j,
               NEW a \in t[i].lines, NEW b \in t[j].lines
        PROVE  a < b
    <3>1. i \in 1..Len(s) /\ t[i] = s[i] /\ s[i].lines \subseteq 1..(n - 1)
      BY <2>2, <2>5 DEF Holds
    <3>2. CASE j = Len(s) + 1
      BY <2>1, <2>2, <3>1, <3>2
    <3>3. CASE j # Len(s) + 1
      <4>1. j \in 1..Len(s) /\ t[j] = s[j]
        BY <2>2, <3>3
      <4>2. QED
        BY <2>5, <3>1, <4>1 DEF Holds
    <3>4. QED
      BY <3>2, <3>3
  <2>6. QED
    BY <2>3, <2>4, <2>5 DEF Holds, t
<1>3. CASE /\ s # << >> /\ Len(t) = Len(s)
           /\ \A i \in 1..Len(s) :
                t[i].lines = IF i = Len(s) THEN s[i].lines \cup {n} ELSE s[i].lines
  <2> HIDE DEF t
  <2>1. Len(s) \in 1..Len(s) /\ Len(s) \in Nat
    BY <1>3
  <2>2. \A i \in 1..Len(s) : s[i].lines # {} /\ s[i].lines \subseteq 1..(n - 1)
    BY DEF Holds
  <2>3. ASSUME NEW m \in 1..n
        PROVE  \E i \in 1..Len(t) : m \in t[i].lines
    <3>1. CASE m = n
      BY <1>3, <2>1, <3>1
    <3>2. CASE m # n
      <4>1. m \in 1..(n - 1)
        BY <3>2
      <4>2. PICK i \in 1..Len(s) : m \in s[i].lines
        BY <4>1 DEF Holds
      <4>3. QED
        BY <1>3, <4>2
    <3>3. QED
      BY <3>1, <3>2
  <2>4. ASSUME NEW i \in 1..Len(t)
        PROVE  t[i].lines # {} /\ t[i].lines \subseteq 1..n
    <3>1. s[i].lines # {} /\ s[i].lines \subseteq 1..(n - 1)
      BY <1>3, <2>2
    <3>2. t[i].lines = s[i].lines \cup {n} \/ t[i].lines = s[i].lines
      BY <1>3
    <3>3. s[i].lines \cup {n} \subseteq 1..n
      BY <1>1, <3>1
    <3>4. QED
      BY <3>1, <3>2, <3>3
  <2>5. ASSUME NEW i \in 1..Len(t), NEW j \in 1..Len(t), i < j,
               NEW a \in t[i].lines, NEW b \in t[j].lines
        PROVE  a < b
    <3>1. i \in 1..Len(s) /\ j \in 1..Len(s) /\ i # Len(s)
      BY <1>3, <2>1, <2>5
    <3>2. a \in s[i].lines /\ a \in 1..(n - 1)
      BY <1>3, <2>2, <3>1
    <3>3. b \in s[j].lines \/ b = n
      BY <1>3, <3>1
    <3>4. b \in s[j].lines => a < b
      BY <2>5, <3>1, <3>2 DEF Holds
    <3>5. QED
      BY <3>2, <3>3, <3>4
  <2>6. QED
    BY <2>3, <2>4, <2>5 DEF Holds, t
<1>4. QED
  BY <1>2, <1>3, OnePass

\* The segments of a text hold all of its lines.
LEMMA SegmentsHold ==
  ASSUME lines \in Seq(Lines)
  PROVE  LET s == SegmentsOf[Len(lines)]
         IN  s \in Seq(TextSegment) /\ Holds(s, Len(lines))
<1> DEFINE N == Len(lines)
           P == {n \in 0..N : SegmentsOf[n] \in Seq(TextSegment) /\ Holds(SegmentsOf[n], n)}
<1>1. 0 \in P
  <2>1. SegmentsOf[0] = << >>
    BY SegmentsAre
  <2>2. << >> \in Seq(TextSegment) /\ Len(<< >>) = 0
    OBVIOUS
  <2>3. Holds(<< >>, 0)
    BY <2>2 DEF Holds
  <2>4. SegmentsOf[0] \in Seq(TextSegment) /\ Holds(SegmentsOf[0], 0)
    BY <2>1, <2>2, <2>3, Zenon
  <2>5. 0 \in 0..N
    OBVIOUS
  <2>6. QED
    BY <2>4, <2>5, Zenon
<1>2. ASSUME NEW n \in 0..(N - 1), n \in P
      PROVE  n + 1 \in P
  <2>1. n + 1 \in 1..N /\ n + 1 - 1 = n
    OBVIOUS
  <2>2. SegmentsOf[n + 1] = AddLine(SegmentsOf[n], n + 1)
    BY <2>1, SegmentsAre
  <2>3. SegmentsOf[n] \in Seq(TextSegment) /\ Holds(SegmentsOf[n], n)
    BY <1>2
  <2>4. Holds(SegmentsOf[n + 1], n + 1)
    BY <2>1, <2>2, <2>3, PassHolds
  <2>5. SegmentsOf[n + 1] \in Seq(TextSegment)
    BY <2>1, <2>2, <2>3, OnePass
  <2>6. QED
    BY <2>1, <2>4, <2>5
<1>3. N \in Nat
  OBVIOUS
<1> HIDE DEF P, N
<1>4. \A n \in 0..N : n \in P
  BY <1>1, <1>2, <1>3, Steps
<1>5. N \in P
  BY <1>3, <1>4
<1>6. QED
  BY <1>5 DEF P, N

(***************************************************************************)
(* Chunks                                                                  *)
(***************************************************************************)
Cut == [full : Seq(Seq(Nat)), cur : Seq(Nat), len : Nat]

\* The chunks of a cut, the current one included.
All(c) == Append(c.full, c.cur)

LEMMA OneSegment ==
  ASSUME segs \in Seq(TextSegment), NEW i \in 1..Len(segs), NEW c \in Cut
  PROVE  /\ AddSegment(c, i) \in Cut
         /\ Estimate(i) \in Nat
<1>1. segs[i].size \in Nat
  <2>1. segs[i] \in TextSegment
    OBVIOUS
  <2>2. QED
    BY <2>1 DEF TextSegment
<1>2. Estimate(i) \in Nat
  BY <1>1 DEF Estimate, Overhead
<1>3. c.full \in Seq(Seq(Nat)) /\ c.cur \in Seq(Nat) /\ c.len \in Nat
  BY DEF Cut
<1>4. Append(c.full, c.cur) \in Seq(Seq(Nat)) /\ <<i>> \in Seq(Nat) /\ Append(c.cur, i) \in Seq(Nat)
      /\ c.len + Estimate(i) \in Nat
  BY <1>2, <1>3
<1>5. QED
  BY <1>2, <1>3, <1>4 DEF AddSegment, Cut

\* The loop, unfolded.
LEMMA CutsAre ==
  ASSUME segs \in Seq(TextSegment)
  PROVE  /\ CutOf[0] = NoChunks
         /\ \A n \in 1..Len(segs) : CutOf[n] = AddSegment(CutOf[n - 1], n)
         /\ \A n \in 0..Len(segs) : CutOf[n] \in Cut
<1> DEFINE N == Len(segs)
           G == [n \in 1..N |-> [c \in Cut |-> AddSegment(c, n)]]
<1>1. N \in Nat /\ (\A n \in 1..N : \A c \in Cut : G[n][c] \in Cut) /\ NoChunks \in Cut
  BY OneSegment DEF NoChunks, Cut
<1>2. PICK f : IsLoop(f, N, Cut, NoChunks, G)
  <2> HIDE DEF N, G
  <2>1. QED
    BY <1>1, Recursion
<1>3. \A n \in 1..N : f[n] = AddSegment(f[n - 1], n)
  <2>1. \A n \in 1..N : n - 1 \in 0..N
    BY <1>1
  <2>2. QED
    BY <1>2, <2>1 DEF IsLoop
<1> HIDE DEF G
<1>4. f = [n \in 0..N |-> IF n = 0 THEN NoChunks ELSE AddSegment(f[n - 1], n)]
  BY <1>1, <1>2, <1>3 DEF IsLoop
<1>5. CutOf = [n \in 0..N |-> IF n = 0 THEN NoChunks ELSE AddSegment(CutOf[n - 1], n)]
  BY <1>4, Zenon DEF CutOf
<1>6. \A n \in 0..N : CutOf[n] = IF n = 0 THEN NoChunks ELSE AddSegment(CutOf[n - 1], n)
  BY <1>5
<1>7. CutOf[0] = NoChunks /\ \A n \in 1..N : CutOf[n] = AddSegment(CutOf[n - 1], n)
  BY <1>1, <1>6
<1> DEFINE P == {n \in 0..N : CutOf[n] \in Cut}
<1>8. 0 \in P
  BY <1>1, <1>7
<1>9. ASSUME NEW n \in 0..(N - 1), n \in P
      PROVE  n + 1 \in P
  <2>1. n + 1 \in 1..N /\ n + 1 - 1 = n
    BY <1>1
  <2>2. QED
    BY <1>7, <1>9, <2>1, OneSegment
<1>10. \A n \in 0..N : n \in P
  <2> HIDE DEF P, N
  <2>1. QED
    BY <1>1, <1>8, <1>9, Steps
<1>11. QED
  BY <1>7, <1>10

\* s is a partition of the numbers up to n that keeps their order.
Partition(s, n) ==
  /\ \A j \in 1..n : \E k \in 1..Len(s) : \E p \in 1..Len(s[k]) : s[k][p] = j
  /\ \A k \in 1..Len(s) : \A p \in 1..Len(s[k]) : s[k][p] \in 1..n
  /\ \A k, l \in 1..Len(s) : \A p \in 1..Len(s[k]), q \in 1..Len(s[l]) :
       k < l \/ (k = l /\ p < q) => s[k][p] < s[l][q]

\* The next number goes to the end, of the last part or of a new one.
LEMMA PartitionGrows ==
  ASSUME NEW n \in Nat \ {0}, NEW full \in Seq(Seq(Nat)), NEW cur \in Seq(Nat),
         Partition(Append(full, cur), n - 1),
         NEW t, \/ t = Append(full, Append(cur, n))
                \/ t = Append(Append(full, cur), <<n>>)
  PROVE  Partition(t, n)
<1> DEFINE s == Append(full, cur)
<1>1. /\ s \in Seq(Seq(Nat)) /\ Len(s) = Len(full) + 1 /\ Len(s) \in Nat \ {0}
      /\ s[Len(s)] = cur /\ \A k \in 1..(Len(s) - 1) : s[k] = full[k]
  OBVIOUS
<1>2. \A k \in 1..Len(s) : s[k] \in Seq(Nat)
  BY <1>1
\* Every place of t is a place of s or the last place of t, which is n's.
<1> DEFINE K == Len(t)
           Q == Len(t[K])
<1>3. /\ K \in Nat \ {0} /\ Len(s) <= K /\ Q \in Nat \ {0} /\ t[K][Q] = n
      /\ \A k \in 1..Len(s) : \A p \in 1..Len(s[k]) : p \in 1..Len(t[k]) /\ t[k][p] = s[k][p]
      /\ \A k \in 1..K : \A p \in 1..Len(t[k]) :
           \/ k \in 1..Len(s) /\ p \in 1..Len(s[k])
           \/ k = K /\ p = Q
  <2>1. CASE t = Append(full, Append(cur, n))
    <3>1. /\ K = Len(s) /\ \A k \in 1..(Len(s) - 1) : t[k] = s[k]
          /\ t[K] = Append(cur, n)
      BY <1>1, <2>1
    <3>2. /\ Len(Append(cur, n)) = Len(cur) + 1 /\ Len(cur) \in Nat
          /\ Append(cur, n)[Len(cur) + 1] = n
          /\ \A p \in 1..Len(cur) : Append(cur, n)[p] = cur[p]
      OBVIOUS
    <3> HIDE DEF s, K
    <3>3. Q = Len(cur) + 1 /\ t[K][Q] = n
      BY <3>1, <3>2
    <3>4. ASSUME NEW k \in 1..Len(s), NEW p \in 1..Len(s[k])
          PROVE  p \in 1..Len(t[k]) /\ t[k][p] = s[k][p]
      <4>1. CASE k = K
        <5>1. p \in 1..Len(cur) /\ t[k] = Append(cur, n) /\ s[k] = cur
          BY <1>1, <3>1, <4>1
        <5>2. QED
          BY <3>2, <5>1
      <4>2. CASE k # K
        <5>1. k \in 1..(Len(s) - 1)
          BY <1>1, <3>1, <4>2
        <5>2. t[k] = s[k]
          BY <3>1, <5>1
        <5>3. QED
          BY <5>2
      <4>3. QED
        BY <4>1, <4>2
    <3>5. ASSUME NEW k \in 1..K, NEW p \in 1..Len(t[k])
          PROVE  \/ k \in 1..Len(s) /\ p \in 1..Len(s[k])
                 \/ k = K /\ p = Q
      <4>1. CASE k = K
        <5>1. p \in 1..(Len(cur) + 1) /\ s[k] = cur
          BY <1>1, <3>1, <3>2, <4>1
        <5>2. QED
          BY <3>1, <3>2, <3>3, <4>1, <5>1
      <4>2. CASE k # K
        <5>1. k \in 1..(Len(s) - 1) /\ k \in 1..Len(s)
          BY <1>1, <3>1, <4>2
        <5>2. t[k] = s[k]
          BY <3>1, <5>1
        <5>3. QED
          BY <5>1, <5>2
      <4>3. QED
        BY <4>1, <4>2
    <3>6. K \in Nat \ {0} /\ Len(s) <= K /\ Q \in Nat \ {0}
      BY <1>1, <3>1, <3>2, <3>3
    <3> HIDE DEF Q
    <3>7. QED
      BY <3>3, <3>4, <3>5, <3>6
  <2>2. CASE t = Append(Append(full, cur), <<n>>)
    <3>1. /\ K = Len(s) + 1 /\ \A k \in 1..Len(s) : t[k] = s[k]
          /\ t[K] = <<n>>
      BY <1>1, <2>2
    <3> HIDE DEF s, K
    <3>2. Q = 1 /\ t[K][Q] = n
      BY <3>1
    <3>3. ASSUME NEW k \in 1..K, NEW p \in 1..Len(t[k])
          PROVE  \/ k \in 1..Len(s) /\ p \in 1..Len(s[k])
                 \/ k = K /\ p = Q
      <4>1. CASE k = K
        <5>1. p \in 1..1
          BY <3>1, <4>1
        <5>2. QED
          BY <3>2, <4>1, <5>1
      <4>2. CASE k # K
        <5>1. k \in 1..Len(s)
          BY <1>1, <3>1, <4>2
        <5>2. QED
          BY <3>1, <5>1
      <4>3. QED
        BY <4>1, <4>2
    <3>4. K \in Nat \ {0} /\ Len(s) <= K /\ Q \in Nat \ {0}
      BY <1>1, <3>1, <3>2
    <3> HIDE DEF Q
    <3>5. QED
      BY <3>1, <3>2, <3>3, <3>4
  <2>3. QED
    BY <2>1, <2>2
<1>9. \A k \in 1..Len(s) : k \in 1..K
  BY <1>1, <1>3
<1> HIDE DEF s, K, Q
<1>4. Partition(s, n - 1)
  BY DEF s
<1>5. ASSUME NEW j \in 1..n
      PROVE  \E k \in 1..Len(t) : \E p \in 1..Len(t[k]) : t[k][p] = j
  <2>1. CASE j = n
    <3>1. K \in 1..Len(t) /\ Q \in 1..Len(t[K]) /\ t[K][Q] = j
      BY <1>3, <2>1 DEF K, Q
    <3>2. QED
      BY <3>1
  <2>2. CASE j # n
    <3>1. j \in 1..(n - 1)
      BY <2>2
    <3>2. PICK k \in 1..Len(s) : \E p \in 1..Len(s[k]) : s[k][p] = j
      BY <1>4, <3>1 DEF Partition
    <3>3. PICK p \in 1..Len(s[k]) : s[k][p] = j
      BY <3>2
    <3>4. k \in 1..Len(t) /\ p \in 1..Len(t[k]) /\ t[k][p] = j
      BY <1>3, <1>9, <3>3 DEF K
    <3>5. QED
      BY <3>4
  <2>3. QED
    BY <2>1, <2>2
<1>6. ASSUME NEW k \in 1..Len(t), NEW p \in 1..Len(t[k])
      PROVE  t[k][p] \in 1..n
  <2>1. CASE k \in 1..Len(s) /\ p \in 1..Len(s[k])
    <3>1. t[k][p] = s[k][p]
      BY <1>3, <2>1
    <3>2. s[k][p] \in 1..(n - 1)
      BY <1>4, <2>1 DEF Partition
    <3>3. QED
      BY <3>1, <3>2
  <2>2. CASE k = K /\ p = Q
    BY <1>3, <2>2
  <2>3. QED
    BY <1>3, <2>1, <2>2 DEF K
<1>7. ASSUME NEW k \in 1..Len(t), NEW l \in 1..Len(t), NEW p \in 1..Len(t[k]),
             NEW q \in 1..Len(t[l]), k < l \/ (k = l /\ p < q)
      PROVE  t[k][p] < t[l][q]
  <2>1. k \in 1..Len(s) /\ p \in 1..Len(s[k])
    <3>1. ~(k = K /\ p = Q)
      BY <1>3, <1>7 DEF K, Q
    <3>2. QED
      BY <1>3, <3>1 DEF K
  <2>2. t[k][p] = s[k][p] /\ s[k][p] \in 1..(n - 1)
    BY <1>3, <1>4, <2>1 DEF Partition
  <2>3. CASE l \in 1..Len(s) /\ q \in 1..Len(s[l])
    <3>1. t[l][q] = s[l][q]
      BY <1>3, <2>3
    <3>2. QED
      BY <1>4, <1>7, <2>1, <2>2, <2>3, <3>1 DEF Partition
  <2>4. CASE l = K /\ q = Q
    <3>1. t[l][q] = n
      BY <1>3, <2>4
    <3>2. \A x \in 1..(n - 1) : x < n
      OBVIOUS
    <3>3. QED
      BY <2>2, <3>1, <3>2, Zenon
  <2>5. QED
    BY <1>3, <2>3, <2>4 DEF K
<1>8. QED
  BY <1>5, <1>6, <1>7 DEF Partition

LEMMA AllGrows ==
  ASSUME NEW c, NEW i
  PROVE  \/ All(AddSegment(c, i)) = Append(c.full, Append(c.cur, i))
         \/ All(AddSegment(c, i)) = Append(Append(c.full, c.cur), <<i>>)
<1>1. CASE c.cur # << >> /\ c.len + Estimate(i) > Budget
  <2>1. AddSegment(c, i) = [full |-> Append(c.full, c.cur), cur |-> <<i>>, len |-> Estimate(i)]
    BY <1>1, Zenon DEF AddSegment
  <2>2. QED
    BY <2>1 DEF All
<1>2. CASE ~(c.cur # << >> /\ c.len + Estimate(i) > Budget)
  <2>1. AddSegment(c, i) =
          [full |-> c.full, cur |-> Append(c.cur, i), len |-> c.len + Estimate(i)]
    BY <1>2, Zenon DEF AddSegment
  <2>2. QED
    BY <2>1 DEF All
<1>3. QED
  BY <1>1, <1>2

\* The chunks of a document partition its segments.
LEMMA ChunksPartition ==
  ASSUME segs \in Seq(TextSegment)
  PROVE  ChunksOf \in Seq(Seq(Nat)) /\ ChunksOf # << >> /\ Partition(ChunksOf, Len(segs))
<1> DEFINE N == Len(segs)
           P == {n \in 0..N : Partition(All(CutOf[n]), n)}
<1>1. N \in Nat
  OBVIOUS
<1>2. 0 \in P
  <2>1. All(CutOf[0]) = << << >> >>
    <3>1. CutOf[0] = NoChunks
      BY CutsAre
    <3>2. All(NoChunks) = Append(<< >>, << >>)
      BY DEF All, NoChunks
    <3>3. Append(<< >>, << >>) = << << >> >>
      OBVIOUS
    <3>4. QED
      BY <3>1, <3>2, <3>3, Zenon
  <2>2. Partition(<< << >> >>, 0)
    <3>1. Len(<< << >> >>) = 1 /\ << << >> >>[1] = << >> /\ Len(<< >>) = 0
      OBVIOUS
    <3>2. QED
      BY <3>1 DEF Partition
  <2>3. QED
    BY <1>1, <2>1, <2>2
<1>3. ASSUME NEW n \in 0..(N - 1), n \in P
      PROVE  n + 1 \in P
  <2>1. n + 1 \in 1..N /\ n + 1 - 1 = n /\ n + 1 \in Nat \ {0} /\ n \in 0..N
    BY <1>1
  <2>2. CutOf[n + 1] = AddSegment(CutOf[n], n + 1) /\ CutOf[n] \in Cut
    BY <2>1, CutsAre
  <2> DEFINE full == CutOf[n].full
             cur  == CutOf[n].cur
             t    == All(CutOf[n + 1])
  <2>3. full \in Seq(Seq(Nat)) /\ cur \in Seq(Nat)
    BY <2>2 DEF Cut
  <2>4. t = Append(full, Append(cur, n + 1)) \/ t = Append(Append(full, cur), <<n + 1>>)
    BY <2>2, AllGrows
  <2>5. Partition(Append(full, cur), n)
    BY <1>3 DEF All
  <2> HIDE DEF full, cur, t
  <2>6. Partition(Append(full, cur), n + 1 - 1)
    BY <2>1, <2>5
  <2>7. Partition(t, n + 1)
    <3> DEFINE m == n + 1
    <3>1. m \in Nat \ {0}
      BY <2>1
    <3> HIDE DEF m
    <3>2. Partition(Append(full, cur), m - 1)
      BY <2>6 DEF m
    <3>3. t = Append(full, Append(cur, m)) \/ t = Append(Append(full, cur), <<m>>)
      BY <2>4 DEF m
    <3>4. Partition(t, m)
      BY <2>3, <3>1, <3>2, <3>3, PartitionGrows, Zenon
    <3>5. QED
      BY <3>4 DEF m
  <2>8. QED
    BY <2>1, <2>7 DEF t
<1>4. N \in P
  <2> HIDE DEF P, N
  <2>1. \A n \in 0..N : n \in P
    BY <1>1, <1>2, <1>3, Steps
  <2>2. QED
    BY <1>1, <2>1
<1>5. CASE mode = "classic"
  <2> DEFINE all == [i \in DOMAIN segs |-> i]
  <2>1. ChunksOf = <<all>>
    BY <1>5 DEF ChunksOf
  <2>2. all \in Seq(Nat) /\ Len(all) = N /\ \A i \in 1..N : all[i] = i
    OBVIOUS
  <2> HIDE DEF all, N
  <2>3. <<all>> \in Seq(Seq(Nat)) /\ <<all>> # << >> /\ Len(<<all>>) = 1 /\ <<all>>[1] = all
    BY <2>2
  <2>4. Partition(<<all>>, N)
    BY <1>1, <2>2, <2>3 DEF Partition
  <2>5. QED
    BY <2>1, <2>3, <2>4 DEF N
<1>6. CASE mode # "classic"
  <2>1. ChunksOf = All(CutOf[N])
    BY <1>6 DEF ChunksOf, All
  <2>2. CutOf[N] \in Cut
    BY <1>1, CutsAre
  <2>3. All(CutOf[N]) \in Seq(Seq(Nat)) /\ All(CutOf[N]) # << >>
    <3> DEFINE full == CutOf[N].full
               cur  == CutOf[N].cur
    <3>1. full \in Seq(Seq(Nat)) /\ cur \in Seq(Nat)
      BY <2>2 DEF Cut
    <3> HIDE DEF full, cur
    <3>2. Append(full, cur) \in Seq(Seq(Nat)) /\ Append(full, cur) # << >>
      BY <3>1, AppendProperties
    <3>3. QED
      BY <3>2 DEF All, full, cur
  <2>4. QED
    BY <1>4, <2>1, <2>3
<1>7. QED
  BY <1>5, <1>6

\* A line is in one segment and a segment at one place.
LEMMA LinesHavePlaces ==
  ASSUME lines \in Seq(Lines), segs \in Seq(TextSegment), Holds(segs, Len(lines)),
         chunks \in Seq(Seq(Nat)), Partition(chunks, Len(segs))
  PROVE  EveryLineInOneChunk
<1>1. \A c \in Places : /\ c[1] \in 1..Len(chunks) /\ c[2] \in 1..Len(chunks[c[1]])
                        /\ c = <<c[1], c[2]>>
                        /\ chunks[c[1]][c[2]] \in 1..Len(segs)
                        /\ LinesAt(c) \subseteq Nat
  <2> SUFFICES ASSUME NEW c \in Places
               PROVE  /\ c[1] \in 1..Len(chunks) /\ c[2] \in 1..Len(chunks[c[1]])
                      /\ c = <<c[1], c[2]>>
                      /\ chunks[c[1]][c[2]] \in 1..Len(segs)
                      /\ LinesAt(c) \subseteq Nat
    OBVIOUS
  <2>1. PICK k \in DOMAIN chunks : \E p \in DOMAIN chunks[k] : c = <<k, p>>
    BY DEF Places
  <2>2. PICK p \in DOMAIN chunks[k] : c = <<k, p>>
    BY <2>1
  <2>3. c[1] = k /\ c[2] = p
    BY <2>2
  <2>4. k \in 1..Len(chunks) /\ chunks[k] \in Seq(Nat) /\ p \in 1..Len(chunks[k])
    OBVIOUS
  <2>5. chunks[k][p] \in 1..Len(segs)
    BY <2>4 DEF Partition
  <2>6. segs[chunks[k][p]] \in TextSegment
    BY <2>5
  <2>7. LinesAt(c) \subseteq Nat
    BY <2>3, <2>6 DEF LinesAt, TextSegment
  <2>8. QED
    BY <2>2, <2>3, <2>4, <2>5, <2>7
<1>2. ASSUME NEW c \in Places, NEW d \in Places, Before(c, d),
             NEW m \in LinesAt(c), NEW n \in LinesAt(d)
      PROVE  m < n
  <2>1. chunks[c[1]][c[2]] < chunks[d[1]][d[2]]
    BY <1>1, <1>2 DEF Partition, Before
  <2> DEFINE i == chunks[c[1]][c[2]]
             j == chunks[d[1]][d[2]]
  <2>2. i \in 1..Len(segs) /\ j \in 1..Len(segs) /\ i < j
    BY <1>1, <2>1
  <2>3. m \in segs[i].lines /\ n \in segs[j].lines
    BY DEF LinesAt
  <2> HIDE DEF i, j
  <2>4. QED
    BY <2>2, <2>3 DEF Holds
<1>3. ASSUME NEW n \in DOMAIN lines
      PROVE  Cardinality({c \in Places : n \in LinesAt(c)}) = 1
  <2>1. PICK i \in 1..Len(segs) : n \in segs[i].lines
    <3>1. n \in 1..Len(lines)
      OBVIOUS
    <3>2. QED
      BY <3>1 DEF Holds
  <2>2. PICK k \in 1..Len(chunks) : \E p \in 1..Len(chunks[k]) : chunks[k][p] = i
    BY DEF Partition
  <2>3. PICK p \in 1..Len(chunks[k]) : chunks[k][p] = i
    BY <2>2
  <2>4. <<k, p>> \in Places /\ n \in LinesAt(<<k, p>>)
    <3>1. k \in DOMAIN chunks /\ p \in DOMAIN chunks[k]
      OBVIOUS
    <3>2. QED
      BY <2>1, <2>3, <3>1 DEF Places, LinesAt
  <2>5. ASSUME NEW c \in Places, n \in LinesAt(c)
        PROVE  c = <<k, p>>
    <3> DEFINE d == <<k, p>>
    <3>1. d \in Places /\ d[1] = k /\ d[2] = p
      BY <2>4
    <3>2. ~Before(c, d) /\ ~Before(d, c)
      <4>1. n \in LinesAt(d) /\ n \in LinesAt(c) /\ n \in Nat
        BY <1>1, <2>4, <2>5
      <4> HIDE DEF d
      <4>2. (Before(c, d) => n < n) /\ (Before(d, c) => n < n)
        BY <1>2, <3>1, <4>1, Zenon
      <4>3. ~(n < n)
        BY <4>1
      <4>4. QED
        BY <4>2, <4>3
    <3>3. c[1] \in Int /\ c[2] \in Int /\ k \in Int /\ p \in Int
      BY <1>1
    <3>4. c[1] = k /\ c[2] = p
      BY <3>1, <3>2, <3>3 DEF Before
    <3>5. QED
      BY <1>1, <3>4
  <2>6. {c \in Places : n \in LinesAt(c)} = {<<k, p>>}
    BY <2>4, <2>5
  <2>7. QED
    BY <2>6, FS_Singleton
<1>4. QED
  BY <1>2, <1>3 DEF EveryLineInOneChunk

(***************************************************************************)
(* What a prompt shows                                                     *)
(***************************************************************************)
LEMMA DigitsAreNat == \A n : Digits(n) \in Nat
<1>1. IsFiniteSet(PowersOfTen)
  <2>1. PICK N \in Nat : \A p \in PowersOfTen : p \in 0..N
    BY SMT DEF PowersOfTen
  <2>2. PowersOfTen \subseteq 0..N
    BY <2>1
  <2>3. IsFiniteSet(0..N)
    BY FS_Interval
  <2>4. QED
    BY <2>2, <2>3, FS_Subset
<1>2. ASSUME NEW n
      PROVE  Digits(n) \in Nat
  <2>1. IsFiniteSet({p \in PowersOfTen : p <= n})
    BY <1>1, FS_Subset
  <2>2. Cardinality({p \in PowersOfTen : p <= n}) \in Nat
    BY <2>1, FS_CardinalityType
  <2>3. QED
    BY <2>2 DEF Digits
<1>3. QED
  BY <1>2

LEMMA BlocksAreNat ==
  ASSUME segs \in Seq(TextSegment), NEW i \in 1..Len(segs)
  PROVE  /\ segs[i].title \in Nat /\ segs[i].size \in Nat /\ Prefix(i) \in Nat
         /\ Block(i) \in Nat /\ Block(i) = Prefix(i) + segs[i].title + segs[i].size
         /\ Priority(i) \in Nat
<1>1. segs[i] \in TextSegment
  OBVIOUS
<1>2. segs[i].title \in Nat /\ segs[i].size \in Nat /\ segs[i].heading \in Headings
  BY <1>1 DEF TextSegment
<1>3. Priority(i) \in Nat
  BY <1>2 DEF Priority, Headings
<1>4. Prefix(i) \in Nat
  BY DigitsAreNat DEF Prefix
<1>5. QED
  BY <1>2, <1>3, <1>4 DEF Block

LEMMA OrderIsStrict ==
  ASSUME segs \in Seq(TextSegment), NEW i \in 1..Len(segs), NEW j \in 1..Len(segs)
  PROVE  ~(Precedes(i, j) /\ Precedes(j, i))
BY BlocksAreNat DEF Precedes

\* There is always a next block by priority.
LEMMA FirstPrecedes ==
  ASSUME segs \in Seq(TextSegment), NEW R \in SUBSET (1..Len(segs)), R # {}
  PROVE  First(R) \in R /\ \A j \in R \ {First(R)} : Precedes(First(R), j)
<1> DEFINE T == {Priority(i) : i \in R}
<1>1. T \subseteq Nat /\ T # {}
  BY BlocksAreNat
<1>2. PICK x \in T : \A y \in T : x <= y
  <2> HIDE DEF T
  <2>1. QED
    BY <1>1, LeastNumber
<1> DEFINE U == {i \in R : Priority(i) = x}
<1>3. U \subseteq Nat /\ U # {}
  OBVIOUS
<1>4. PICK i \in U : \A j \in U : i <= j
  <2> HIDE DEF U
  <2>1. QED
    BY <1>3, LeastNumber
<1>5. ASSUME NEW j \in R \ {i}
      PROVE  Precedes(i, j)
  <2>1. Priority(i) = x /\ Priority(j) \in T /\ x <= Priority(j) /\ x \in Nat
    BY <1>1, <1>2
  <2>2. Priority(j) \in Nat /\ i \in Nat /\ j \in Nat
    <3>1. i \in Nat /\ j \in 1..Len(segs)
      BY <1>3
    <3>2. QED
      BY <3>1, BlocksAreNat
  <2>3. Priority(j) = x => i < j
    BY <1>4, <2>2
  <2>4. QED
    BY <2>1, <2>2, <2>3 DEF Precedes
<1>6. \E m \in R : \A j \in R \ {m} : Precedes(m, j)
  BY <1>5
<1>7. QED
  BY <1>6, Zenon DEF First

\* What is known after n blocks: the rest of S, and no block before it in order.
Selected(S, sel, n) ==
  /\ sel = [rest |-> sel.rest, budget |-> sel.budget, chosen |-> sel.chosen]
  /\ sel.rest \subseteq S /\ sel.chosen \subseteq S \ sel.rest
  /\ Cardinality(sel.rest) = Cardinality(S) - n
  /\ sel.budget \in Nat
  /\ \A j \in S \ sel.rest, i \in sel.rest : Precedes(j, i)
  /\ \A i \in S \ (sel.rest \cup sel.chosen) : Block(i) > sel.budget
  /\ \A i \in S \ (sel.rest \cup sel.chosen), j \in sel.chosen :
       Precedes(i, j) => Block(i) > Block(j)

LEMMA ChooseSelects ==
  ASSUME segs \in Seq(TextSegment), NEW S \in SUBSET (1..Len(segs)),
         NEW n \in 1..Cardinality(S), NEW sel, Selected(S, sel, n - 1)
  PROVE  /\ sel.rest # {}
         /\ Selected(S, Choose(sel), n)
<1> DEFINE i == First(sel.rest)
           new == Choose(sel)
<1>1. IsFiniteSet(S) /\ Cardinality(S) \in Nat
  <2>1. IsFiniteSet(1..Len(segs))
    BY FS_Interval
  <2>2. QED
    BY <2>1, FS_Subset, FS_CardinalityType
<1>2. IsFiniteSet(sel.rest) /\ Cardinality(sel.rest) = Cardinality(S) - (n - 1)
  BY <1>1, FS_Subset DEF Selected
<1>3. sel.rest # {}
  <2>1. Cardinality(sel.rest) # 0
    BY <1>1, <1>2
  <2>2. QED
    BY <2>1, FS_EmptySet
<1>4. i \in sel.rest /\ \A j \in sel.rest \ {i} : Precedes(i, j)
  <2>1. sel.rest \in SUBSET (1..Len(segs))
    BY DEF Selected
  <2>2. QED
    BY <1>3, <2>1, FirstPrecedes
<1>5. Cardinality(sel.rest \ {i}) = Cardinality(S) - n
  <2>1. Cardinality(sel.rest \ {i}) = Cardinality(sel.rest) - 1
    BY <1>2, <1>4, FS_RemoveElement
  <2>2. QED
    BY <1>1, <1>2, <2>1
<1>6. Block(i) \in Nat /\ sel.budget \in Nat /\ i \in S
  BY <1>4, BlocksAreNat DEF Selected
<1>7. \A j \in S \ (sel.rest \ {i}), k \in sel.rest \ {i} : Precedes(j, k)
  BY <1>4 DEF Selected
<1>8. CASE Block(i) <= sel.budget
  <2>1. new = [rest |-> sel.rest \ {i}, budget |-> sel.budget - Block(i),
               chosen |-> sel.chosen \cup {i}]
    BY <1>8, Zenon DEF Choose
  <2>2. new.rest = sel.rest \ {i} /\ new.budget = sel.budget - Block(i)
        /\ new.chosen = sel.chosen \cup {i}
    BY <2>1
  <2> HIDE DEF i, new
  <2>3. S \ (new.rest \cup new.chosen) = S \ (sel.rest \cup sel.chosen)
    BY <1>4, <2>2
  <2>4. new.budget \in Nat /\ new.budget <= sel.budget
    BY <1>6, <1>8, <2>2
  <2>5. \A k \in S \ (sel.rest \cup sel.chosen) : Block(k) > sel.budget /\ Block(k) \in Nat
    BY BlocksAreNat DEF Selected
  <2>6. \A k \in S \ (new.rest \cup new.chosen) : Block(k) > new.budget
    <3> SUFFICES ASSUME NEW k \in S \ (new.rest \cup new.chosen)
                 PROVE  Block(k) > new.budget
      OBVIOUS
    <3>1. Block(k) > sel.budget /\ Block(k) \in Nat
      BY <2>3, <2>5
    <3>2. QED
      BY <1>6, <2>4, <3>1
  <2>7. \A k \in S \ (new.rest \cup new.chosen), j \in new.chosen :
          Precedes(k, j) => Block(k) > Block(j)
    <3>1. \A k \in S \ (sel.rest \cup sel.chosen) : Block(k) > Block(i)
      BY <1>6, <1>8, <2>5
    <3>2. QED
      BY <2>2, <2>3, <3>1 DEF Selected
  <2>8. new.rest \subseteq S /\ new.chosen \subseteq S \ new.rest
    BY <1>4, <1>6, <2>2 DEF Selected
  <2>9. new = [rest |-> new.rest, budget |-> new.budget, chosen |-> new.chosen]
    BY <2>1
  <2>10. \A j \in S \ new.rest, k \in new.rest : Precedes(j, k)
    BY <1>7, <2>2
  <2>11. Cardinality(new.rest) = Cardinality(S) - n
    BY <1>5, <2>2
  <2>12. QED
    BY <1>3, <2>4, <2>6, <2>7, <2>8, <2>9, <2>10, <2>11 DEF Selected, new
<1>9. CASE ~(Block(i) <= sel.budget)
  <2>1. new = [rest |-> sel.rest \ {i}, budget |-> sel.budget, chosen |-> sel.chosen]
    BY <1>9, Zenon DEF Choose
  <2>2. new.rest = sel.rest \ {i} /\ new.budget = sel.budget /\ new.chosen = sel.chosen
    BY <2>1
  <2> HIDE DEF i, new
  <2>3. S \ (new.rest \cup new.chosen) = (S \ (sel.rest \cup sel.chosen)) \cup {i}
    BY <1>4, <1>6, <2>2 DEF Selected
  <2>4. \A k \in S \ (new.rest \cup new.chosen) : Block(k) > new.budget
    BY <1>6, <1>9, <2>2, <2>3 DEF Selected
  <2>5. \A j \in sel.chosen : ~Precedes(i, j)
    <3> SUFFICES ASSUME NEW j \in sel.chosen
                 PROVE  ~Precedes(i, j)
      OBVIOUS
    <3>1. Precedes(j, i) /\ j \in 1..Len(segs) /\ i \in 1..Len(segs)
      BY <1>4 DEF Selected
    <3>2. QED
      BY <3>1, OrderIsStrict
  <2>6. \A k \in S \ (new.rest \cup new.chosen), j \in new.chosen :
          Precedes(k, j) => Block(k) > Block(j)
    BY <2>2, <2>3, <2>5 DEF Selected
  <2>7. new.rest \subseteq S /\ new.chosen \subseteq S \ new.rest /\ new.budget \in Nat
    BY <1>4, <1>6, <2>2 DEF Selected
  <2>8. new = [rest |-> new.rest, budget |-> new.budget, chosen |-> new.chosen]
    BY <2>1
  <2>9. \A j \in S \ new.rest, k \in new.rest : Precedes(j, k)
    BY <1>7, <2>2
  <2>10. Cardinality(new.rest) = Cardinality(S) - n
    BY <1>5, <2>2
  <2>11. QED
    BY <1>3, <2>4, <2>6, <2>7, <2>8, <2>9, <2>10 DEF Selected, new
<1>10. QED
  BY <1>8, <1>9

\* The loop, unfolded, and its invariant.
LEMMA SelectionSelects ==
  ASSUME segs \in Seq(TextSegment), NEW S \in SUBSET (1..Len(segs)), Budget \in Nat
  PROVE  /\ Cardinality(S) \in Nat
         /\ Selection(S)[0] = [rest |-> S, budget |-> Budget, chosen |-> {}]
         /\ \A n \in 1..Cardinality(S) : Selection(S)[n] = Choose(Selection(S)[n - 1])
         /\ \A n \in 0..Cardinality(S) : Selected(S, Selection(S)[n], n)
<1> DEFINE N     == Cardinality(S)
           start == [rest |-> S, budget |-> Budget, chosen |-> {}]
           Sel   == [rest : SUBSET S, budget : Nat, chosen : SUBSET S]
           G     == [n \in 1..N |-> [sel \in Sel |->
                       IF Selected(S, sel, n - 1) THEN Choose(sel) ELSE start]]
<1>1. N \in Nat
  <2>1. IsFiniteSet(1..Len(segs))
    BY FS_Interval
  <2>2. QED
    BY <2>1, FS_Subset, FS_CardinalityType
<1>2. start \in Sel /\ Selected(S, start, 0)
  BY <1>1 DEF Selected
<1>3. ASSUME NEW n \in 1..N, NEW sel, Selected(S, sel, n - 1)
      PROVE  Choose(sel) \in Sel /\ Selected(S, Choose(sel), n)
  <2> DEFINE new == Choose(sel)
  <2>1. Selected(S, new, n)
    BY <1>3, ChooseSelects
  <2> HIDE DEF new
  <2>2. new = [rest |-> new.rest, budget |-> new.budget, chosen |-> new.chosen]
        /\ new.rest \in SUBSET S /\ new.chosen \in SUBSET S /\ new.budget \in Nat
    BY <2>1 DEF Selected
  <2>3. new \in Sel
    BY <2>2
  <2>4. QED
    BY <2>1, <2>3 DEF new
<1>4. \A n \in 1..N : \A sel \in Sel : G[n][sel] \in Sel
  BY <1>2, <1>3
<1>5. PICK f : IsLoop(f, N, Sel, start, G)
  <2> HIDE DEF N, start, Sel, G
  <2>1. QED
    BY <1>1, <1>2, <1>4, Recursion
<1>6. f \in [0..N -> Sel] /\ f[0] = start
  BY <1>5 DEF IsLoop
<1>7. \A n \in 1..N : f[n] = IF Selected(S, f[n - 1], n - 1) THEN Choose(f[n - 1]) ELSE start
  <2> SUFFICES ASSUME NEW n \in 1..N
               PROVE  f[n] = IF Selected(S, f[n - 1], n - 1) THEN Choose(f[n - 1]) ELSE start
    OBVIOUS
  <2>1. n - 1 \in 0..N /\ f[n - 1] \in Sel
    BY <1>1, <1>6
  <2>2. f[n] = G[n][f[n - 1]]
    BY <1>5 DEF IsLoop
  <2>3. QED
    BY <2>1, <2>2
<1> HIDE DEF G, start, Sel, N
<1>8. \A n \in 0..N : Selected(S, f[n], n)
  <2> DEFINE P == {n \in 0..N : Selected(S, f[n], n)}
  <2>1. 0 \in P
    BY <1>1, <1>2, <1>6
  <2>2. ASSUME NEW n \in 0..(N - 1), n \in P
        PROVE  n + 1 \in P
    <3>1. n + 1 \in 1..N /\ n + 1 - 1 = n /\ n + 1 \in 0..N
      BY <1>1
    <3>2. f[n + 1] = Choose(f[n])
      BY <1>7, <2>2, <3>1
    <3>3. Selected(S, f[n], n + 1 - 1)
      BY <2>2, <3>1
    <3>4. Selected(S, f[n + 1], n + 1)
      BY <1>3, <3>1, <3>2, <3>3
    <3>5. QED
      BY <3>1, <3>4
  <2> HIDE DEF P
  <2>3. \A n \in 0..N : n \in P
    BY <1>1, <2>1, <2>2, Steps
  <2>4. QED
    BY <2>3 DEF P
<1>9. f = [n \in 0..N |-> IF n = 0 THEN start ELSE Choose(f[n - 1])]
  <2>1. \A n \in 1..N : n - 1 \in 0..N
    BY <1>1
  <2>2. \A n \in 1..N : f[n] = Choose(f[n - 1])
    BY <1>7, <1>8, <2>1
  <2>3. QED
    BY <1>1, <1>6, <2>2
<1> DEFINE g == Selection(S)
<1>10. g = [n \in 0..N |-> IF n = 0 THEN start ELSE Choose(g[n - 1])]
  BY <1>9, Zenon DEF Selection, N, start
<1> HIDE DEF g
<1>11. \A n \in 0..N : g[n] = IF n = 0 THEN start ELSE Choose(g[n - 1])
  BY <1>10
<1>12. g[0] = start /\ \A n \in 1..N : g[n] = Choose(g[n - 1])
  BY <1>1, <1>11
<1>13. \A n \in 0..N : Selected(S, g[n], n)
  <2> DEFINE P == {n \in 0..N : Selected(S, g[n], n)}
  <2>1. 0 \in P
    BY <1>1, <1>2, <1>12
  <2>2. ASSUME NEW n \in 0..(N - 1), n \in P
        PROVE  n + 1 \in P
    <3>1. n + 1 \in 1..N /\ n + 1 - 1 = n /\ n + 1 \in 0..N
      BY <1>1
    <3>2. g[n + 1] = Choose(g[n])
      BY <1>12, <3>1
    <3>3. Selected(S, g[n], n + 1 - 1)
      BY <2>2, <3>1
    <3>4. Selected(S, g[n + 1], n + 1)
      BY <1>3, <3>1, <3>2, <3>3
    <3>5. QED
      BY <3>1, <3>4
  <2> HIDE DEF P
  <2>3. \A n \in 0..N : n \in P
    BY <1>1, <2>1, <2>2, Steps
  <2>4. QED
    BY <2>3 DEF P
<1>14. QED
  BY <1>1, <1>12, <1>13, Zenon DEF N, start, g

\* "the annexes survive": what a prompt leaves out is longer than what it
\* shows of a lower priority.
LEMMA LongerYields ==
  ASSUME segs \in Seq(TextSegment), NEW S \in SUBSET (1..Len(segs)), Budget \in Nat
  PROVE  /\ ChosenOf(S) \subseteq S
         /\ \A i \in S \ ChosenOf(S), j \in ChosenOf(S) : Precedes(i, j) => Block(i) > Block(j)
<1> DEFINE N   == Cardinality(S)
           sel == Selection(S)[N]
<1>1. N \in Nat /\ Selected(S, sel, N)
  <2>1. N \in Nat /\ \A n \in 0..N : Selected(S, Selection(S)[n], n)
    BY SelectionSelects
  <2> HIDE DEF N
  <2>2. QED
    BY <2>1
<1>2. ChosenOf(S) = sel.chosen
  BY DEF ChosenOf
<1> HIDE DEF sel
<1>3. sel.rest = {}
  <2>1. IsFiniteSet(1..Len(segs))
    BY FS_Interval
  <2>2. IsFiniteSet(sel.rest) /\ Cardinality(sel.rest) = 0
    BY <1>1, <2>1, FS_Subset DEF Selected
  <2>3. QED
    BY <2>2, FS_EmptySet
<1>4. QED
  BY <1>1, <1>2, <1>3 DEF Selected

(***************************************************************************)
(* What fits                                                               *)
(***************************************************************************)
\* The characters of the segments of S, when segment i has w[i] of them; how
\* many they are is the sum that the loops compute.
Chars(S, w) == {x \in S \X Nat : x[2] \in 1..w[x[1]]}

Counted(S, w) == IsFiniteSet(Chars(S, w))

Estimates == [i \in 1..Len(segs) |-> Estimate(i)]
BlockSizes == [i \in 1..Len(segs) |-> Block(i)]

LEMMA CountAdd ==
  ASSUME NEW S, NEW w, NEW i, i \notin S, w[i] \in Nat, Counted(S, w)
  PROVE  /\ Counted(S \cup {i}, w)
         /\ Cardinality(Chars(S \cup {i}, w)) = Cardinality(Chars(S, w)) + w[i]
<1> DEFINE A == Chars(S, w)
           B == {i} \X (1..w[i])
<1>1. Chars(S \cup {i}, w) = A \cup B
  <2>1. ASSUME NEW x \in Chars(S \cup {i}, w)
        PROVE  x \in A \cup B
    <3>1. x = <<x[1], x[2]>> /\ x[1] \in S \cup {i} /\ x[2] \in Nat /\ x[2] \in 1..w[x[1]]
      BY DEF Chars
    <3>2. CASE x[1] \in S
      BY <3>1, <3>2 DEF Chars
    <3>3. CASE x[1] = i
      BY <3>1, <3>3
    <3>4. QED
      BY <3>1, <3>2, <3>3
  <2>2. ASSUME NEW x \in A \cup B
        PROVE  x \in Chars(S \cup {i}, w)
    BY DEF Chars
  <2>3. QED
    BY <2>1, <2>2
<1>2. A \cap B = {}
  BY DEF Chars
<1>3. IsFiniteSet(A)
  BY DEF Counted
<1>4. IsFiniteSet(B) /\ Cardinality(B) = w[i]
  <2>1. IsFiniteSet(1..w[i]) /\ Cardinality(1..w[i]) = w[i]
    <3> DEFINE m == w[i]
    <3>1. m \in Nat
      OBVIOUS
    <3> HIDE DEF m
    <3>2. IsFiniteSet(1..m) /\ Cardinality(1..m) = IF 1 > m THEN 0 ELSE m - 1 + 1
      BY <3>1, FS_Interval
    <3>3. Cardinality(1..m) = m
      BY <3>1, <3>2
    <3>4. QED
      BY <3>2, <3>3 DEF m
  <2>2. IsFiniteSet({i}) /\ Cardinality({i}) = 1
    BY FS_Singleton
  <2>3. IsFiniteSet(B) /\ Cardinality(B) = Cardinality({i}) * Cardinality(1..w[i])
    BY <2>1, <2>2, FS_Product
  <2>4. QED
    BY <2>1, <2>2, <2>3
<1> HIDE DEF A, B
<1>5. IsFiniteSet(A \cup B)
      /\ Cardinality(A \cup B) = Cardinality(A) + Cardinality(B) - Cardinality(A \cap B)
  BY <1>3, <1>4, FS_Union
<1>6. Cardinality(A \cap B) = 0 /\ Cardinality(A) \in Nat
  BY <1>2, <1>3, FS_EmptySet, FS_CardinalityType
<1>7. Cardinality(A \cup B) = Cardinality(A) + w[i]
  BY <1>4, <1>5, <1>6
<1>8. QED
  BY <1>1, <1>5, <1>7, Zenon DEF Counted, A

LEMMA CountNone ==
  ASSUME NEW w
  PROVE  Counted({}, w) /\ Cardinality(Chars({}, w)) = 0
<1>1. Chars({}, w) = {}
  BY DEF Chars
<1>2. QED
  BY <1>1, FS_EmptySet DEF Counted

LEMMA CountMore ==
  ASSUME NEW T, NEW S \in SUBSET T, NEW v, NEW w, Counted(T, w),
         \A i \in S : v[i] \in Nat /\ w[i] \in Nat /\ v[i] <= w[i]
  PROVE  Counted(S, v) /\ Cardinality(Chars(S, v)) <= Cardinality(Chars(T, w))
<1>1. Chars(S, v) \subseteq Chars(T, w)
  <2> SUFFICES ASSUME NEW x \in Chars(S, v)
               PROVE  x \in Chars(T, w)
    OBVIOUS
  <2>1. x \in S \X Nat /\ x[1] \in S /\ x[2] \in 1..v[x[1]]
    BY DEF Chars
  <2>2. x[2] \in 1..w[x[1]] /\ x \in T \X Nat
    BY <2>1
  <2>3. QED
    BY <2>2 DEF Chars
<1>2. QED
  BY <1>1, FS_Subset DEF Counted

\* Of an estimated total within the budget.
Fits(S) == Counted(S, Estimates) /\ Cardinality(Chars(S, Estimates)) <= Budget

Members(s) == {s[p] : p \in 1..Len(s)}

\* When each segment fits alone, so does each chunk, and cur_len is its sum.
LEMMA ChunksFit ==
  ASSUME segs \in Seq(TextSegment), Budget \in Nat, mode # "classic",
         \A i \in 1..Len(segs) : Estimate(i) <= Budget
  PROVE  \A k \in 1..Len(ChunksOf) : Fits(Members(ChunksOf[k]))
<1> DEFINE N     == Len(segs)
           OK(c) == /\ \A k \in 1..Len(c.full) : Fits(Members(c.full[k]))
                    /\ Fits(Members(c.cur))
                    /\ c.len = Cardinality(Chars(Members(c.cur), Estimates))
           Upto(n, c) == Members(c.cur) \subseteq 1..n
           P     == {n \in 0..N : OK(CutOf[n]) /\ Upto(n, CutOf[n])}
<1>1. N \in Nat
  OBVIOUS
<1>2. 0 \in P
  <2>1. CutOf[0] = NoChunks
    BY CutsAre
  <2>2. Members(<< >>) = {}
    BY DEF Members
  <2>3. OK(NoChunks) /\ Upto(0, NoChunks)
    <3>1. NoChunks.full = << >> /\ NoChunks.cur = << >> /\ NoChunks.len = 0
      BY DEF NoChunks
    <3>2. Fits({}) /\ Cardinality(Chars({}, Estimates)) = 0
      BY CountNone DEF Fits
    <3>3. Len(NoChunks.full) = 0 /\ Members(NoChunks.cur) = {}
      BY <2>2, <3>1
    <3>4. OK(NoChunks)
      <4>1. 1..Len(NoChunks.full) = {}
        BY <3>3
      <4>2. NoChunks.len = Cardinality(Chars(Members(NoChunks.cur), Estimates))
            /\ Fits(Members(NoChunks.cur))
        BY <3>1, <3>2, <3>3, Zenon
      <4>3. QED
        BY <4>1, <4>2, Zenon
    <3>5. Upto(0, NoChunks)
      BY <3>3
    <3>6. QED
      BY <3>4, <3>5
  <2> HIDE DEF OK, Upto
  <2>4. QED
    BY <1>1, <2>1, <2>3
<1>3. ASSUME NEW n \in 0..(N - 1), n \in P
      PROVE  n + 1 \in P
  <2> DEFINE c == CutOf[n]
             i == n + 1
             d == AddSegment(c, i)
             C == Members(c.cur)
  <2>1. i \in 1..N /\ i - 1 = n /\ i \in 0..N /\ n \in 0..N
    BY <1>1
  <2>2. CutOf[i] = d /\ c \in Cut
    <3> HIDE DEF i
    <3>1. CutOf[i] = AddSegment(CutOf[i - 1], i) /\ CutOf[n] \in Cut
      BY <2>1, CutsAre
    <3>2. QED
      BY <2>1, <3>1
  <2>3. OK(c) /\ C \subseteq 1..n
    BY <1>3
  <2>4. Estimates[i] = Estimate(i) /\ Estimate(i) \in Nat /\ Estimate(i) <= Budget
    <3> HIDE DEF i, c
    <3>1. QED
      BY <2>1, <2>2, OneSegment DEF Estimates
  <2>5. c.full \in Seq(Seq(Nat)) /\ c.cur \in Seq(Nat) /\ c.len \in Nat
    BY <2>2 DEF Cut
  <2>6. i \notin C
    BY <2>1, <2>3
  <2>7. Members(<<i>>) = {i}
    BY DEF Members
  <2>8. Members(Append(c.cur, i)) = C \cup {i}
    <3> DEFINE u == c.cur
    <3> HIDE DEF u, i
    <3>1. u \in Seq(Nat)
      BY <2>5 DEF u
    <3>2. /\ Len(Append(u, i)) = Len(u) + 1 /\ Len(u) \in Nat
          /\ \A p \in 1..Len(u) : Append(u, i)[p] = u[p]
          /\ Append(u, i)[Len(u) + 1] = i
      BY <3>1
    <3>3. \A p \in 1..(Len(u) + 1) : p \in 1..Len(u) \/ p = Len(u) + 1
      BY <3>2
    <3>4. Members(Append(u, i)) = Members(u) \cup {i}
      BY <3>2, <3>3 DEF Members
    <3>5. QED
      BY <3>4 DEF u
  <2>9. Fits({i}) /\ Cardinality(Chars({i}, Estimates)) = Estimate(i)
    <3>1. Counted({} \cup {i}, Estimates)
          /\ Cardinality(Chars({} \cup {i}, Estimates)) = 0 + Estimate(i)
      <4> DEFINE w == Estimates
      <4> HIDE DEF i, w
      <4>1. i \notin {} /\ w[i] \in Nat /\ w[i] = Estimate(i)
        BY <2>4 DEF w
      <4>2. Counted({}, w) /\ Cardinality(Chars({}, w)) = 0
        BY CountNone
      <4>3. Counted({} \cup {i}, w)
            /\ Cardinality(Chars({} \cup {i}, w)) = Cardinality(Chars({}, w)) + w[i]
        BY <4>1, <4>2, CountAdd, Zenon
      <4>4. QED
        BY <4>1, <4>2, <4>3, Zenon DEF w
    <3>2. {} \cup {i} = {i}
      OBVIOUS
    <3>3. QED
      BY <2>4, <3>1, <3>2 DEF Fits
  <2>10. Counted(C \cup {i}, Estimates)
         /\ Cardinality(Chars(C \cup {i}, Estimates)) = c.len + Estimate(i)
    <3>1. Counted(C, Estimates) /\ c.len = Cardinality(Chars(C, Estimates))
      BY <2>3 DEF Fits
    <3> DEFINE w == Estimates
    <3> HIDE DEF C, i, c, w
    <3>2. w[i] \in Nat /\ w[i] = Estimate(i) /\ Counted(C, w)
      BY <2>4, <3>1 DEF w
    <3>3. Counted(C \cup {i}, w)
          /\ Cardinality(Chars(C \cup {i}, w)) = Cardinality(Chars(C, w)) + w[i]
      BY <2>6, <3>2, CountAdd, Zenon
    <3>4. QED
      BY <3>1, <3>2, <3>3, Zenon DEF w
  <2>11. CASE c.cur # << >> /\ c.len + Estimate(i) > Budget
    <3>1. d = [full |-> Append(c.full, c.cur), cur |-> <<i>>, len |-> Estimate(i)]
      BY <2>11, Zenon DEF AddSegment
    <3>2. ASSUME NEW k \in 1..Len(Append(c.full, c.cur))
          PROVE  Fits(Members(Append(c.full, c.cur)[k]))
      <4>1. \/ k \in 1..Len(c.full) /\ Append(c.full, c.cur)[k] = c.full[k]
            \/ Append(c.full, c.cur)[k] = c.cur
        <5> DEFINE full == c.full
                   cur  == c.cur
        <5>1. full \in Seq(Seq(Nat)) /\ cur \in Seq(Nat) /\ k \in 1..Len(Append(full, cur))
          BY <2>5
        <5> HIDE DEF full, cur
        <5>2. /\ Len(Append(full, cur)) = Len(full) + 1 /\ Len(full) \in Nat
              /\ Append(full, cur)[Len(full) + 1] = cur
              /\ \A p \in 1..Len(full) : Append(full, cur)[p] = full[p]
          BY <5>1
        <5>3. k \in 1..Len(full) \/ k = Len(full) + 1
          BY <5>1, <5>2
        <5>4. QED
          BY <5>2, <5>3 DEF full, cur
      <4>2. QED
        BY <2>3, <4>1
    <3>3. {i} \subseteq 1..i
      BY <2>1
    <3>4. /\ d.full = Append(c.full, c.cur) /\ Members(d.cur) = {i}
          /\ d.len = Cardinality(Chars({i}, Estimates))
      BY <2>7, <2>9, <3>1
    <3> HIDE DEF i, c, d
    <3>5. OK(d) /\ Upto(i, d)
      BY <2>9, <3>2, <3>3, <3>4
    <3> HIDE DEF OK, Upto
    <3>6. QED
      BY <2>1, <2>2, <3>5 DEF i
  <2>12. CASE ~(c.cur # << >> /\ c.len + Estimate(i) > Budget)
    <3>1. d = [full |-> c.full, cur |-> Append(c.cur, i), len |-> c.len + Estimate(i)]
      BY <2>12, Zenon DEF AddSegment
    <3>2. c.len + Estimate(i) <= Budget
      <4>1. CASE c.cur = << >>
        <5>1. C = {}
          BY <4>1 DEF Members
        <5>2. c.len = 0
          BY <2>3, <5>1, CountNone
        <5>3. QED
          BY <2>4, <5>2
      <4>2. CASE c.cur # << >>
        BY <2>4, <2>5, <2>12, <4>2, ConstantsOK
      <4>3. QED
        BY <4>1, <4>2
    <3>3. C \cup {i} \subseteq 1..i
      BY <2>1, <2>3
    <3>4. /\ d.full = c.full /\ Members(d.cur) = C \cup {i}
          /\ d.len = Cardinality(Chars(C \cup {i}, Estimates))
      <4> HIDE DEF c, i, C
      <4>1. d.full = c.full /\ d.cur = Append(c.cur, i) /\ d.len = c.len + Estimate(i)
        BY <3>1
      <4> HIDE DEF d
      <4>2. QED
        BY <2>8, <2>10, <4>1
    <3>5. Fits(C \cup {i})
      <4> HIDE DEF i, C, c
      <4>1. QED
        BY <2>10, <3>2 DEF Fits
    <3> HIDE DEF i, C, d
    <3>6. OK(d) /\ Upto(i, d)
      BY <2>3, <3>3, <3>4, <3>5
    <3> HIDE DEF OK, Upto
    <3>7. QED
      BY <2>1, <2>2, <3>6 DEF i
  <2>13. QED
    BY <2>11, <2>12
<1>4. N \in P
  <2> HIDE DEF P, N
  <2>1. \A n \in 0..N : n \in P
    BY <1>1, <1>2, <1>3, Steps
  <2>2. QED
    BY <1>1, <2>1
<1>5. QED
  <2> DEFINE c == CutOf[N]
  <2>1. ChunksOf = Append(c.full, c.cur)
    BY DEF ChunksOf
  <2>2. c \in Cut
    BY <1>1, CutsAre
  <2>3. c.full \in Seq(Seq(Nat)) /\ c.cur \in Seq(Nat)
    BY <2>2 DEF Cut
  <2>4. OK(c)
    BY <1>4
  <2> HIDE DEF c
  <2>5. SUFFICES ASSUME NEW k \in 1..Len(Append(c.full, c.cur))
                 PROVE  Fits(Members(Append(c.full, c.cur)[k]))
    BY <2>1
  <2>6. \/ k \in 1..Len(c.full) /\ Append(c.full, c.cur)[k] = c.full[k]
        \/ Append(c.full, c.cur)[k] = c.cur
    BY <2>3
  <2>7. QED
    BY <2>4, <2>6

\* What the loop has left of the budget is what the chosen blocks leave.
LEMMA BudgetIsSpent ==
  ASSUME segs \in Seq(TextSegment), NEW S \in SUBSET (1..Len(segs)), Budget \in Nat
  PROVE  LET sel == Selection(S)[Cardinality(S)]
         IN  /\ Counted(sel.chosen, BlockSizes)
             /\ sel.budget + Cardinality(Chars(sel.chosen, BlockSizes)) = Budget
<1> DEFINE N       == Cardinality(S)
           g       == Selection(S)
           OK(sel) == /\ Counted(sel.chosen, BlockSizes)
                      /\ sel.budget + Cardinality(Chars(sel.chosen, BlockSizes)) = Budget
           P       == {n \in 0..N : OK(g[n])}
<1>1. /\ N \in Nat /\ g[0] = [rest |-> S, budget |-> Budget, chosen |-> {}]
      /\ \A n \in 1..N : g[n] = Choose(g[n - 1])
      /\ \A n \in 0..N : Selected(S, g[n], n)
  BY SelectionSelects
<1> HIDE DEF N, g
<1>2. 0 \in P
  <2>1. g[0].chosen = {} /\ g[0].budget = Budget
    BY <1>1
  <2>2. Counted({}, BlockSizes) /\ Cardinality(Chars({}, BlockSizes)) = 0
    BY CountNone
  <2>3. OK(g[0])
    <3>1. Counted(g[0].chosen, BlockSizes) /\ Cardinality(Chars(g[0].chosen, BlockSizes)) = 0
      BY <2>1, <2>2, Zenon
    <3>2. QED
      BY <2>1, <3>1
  <2> HIDE DEF OK
  <2>4. QED
    BY <1>1, <2>3
<1>3. ASSUME NEW n \in 0..(N - 1), n \in P
      PROVE  n + 1 \in P
  <2> DEFINE sel == g[n]
             new == g[n + 1]
             i   == First(sel.rest)
             C   == sel.chosen
  <2>1. n + 1 \in 1..N /\ n + 1 - 1 = n /\ n \in 0..N /\ n + 1 \in 0..N
    BY <1>1
  <2>2. new = Choose(sel) /\ Selected(S, sel, n) /\ OK(sel)
    BY <1>1, <1>3, <2>1
  <2> HIDE DEF sel
  <2>3. sel.rest # {}
    <3> DEFINE m == n + 1
    <3>1. m \in 1..N /\ Selected(S, sel, m - 1)
      BY <2>1, <2>2
    <3> HIDE DEF m
    <3>2. QED
      BY <3>1, ChooseSelects DEF N
  <2>4. i \in sel.rest
    <3>1. sel.rest \in SUBSET (1..Len(segs))
      BY <2>2 DEF Selected
    <3>2. QED
      BY <2>3, <3>1, FirstPrecedes
  <2>5. i \in 1..Len(segs) /\ i \notin C /\ sel.budget \in Nat
    BY <2>2, <2>4 DEF Selected
  <2> HIDE DEF i
  <2>6. BlockSizes[i] = Block(i) /\ Block(i) \in Nat
    BY <2>5, BlocksAreNat DEF BlockSizes
  <2>7. Counted(C, BlockSizes) /\ Cardinality(Chars(C, BlockSizes)) \in Nat
        /\ sel.budget + Cardinality(Chars(C, BlockSizes)) = Budget
    BY <2>2, FS_CardinalityType DEF Counted
  <2>8. CASE Block(i) <= sel.budget
    <3>1. new = [rest |-> sel.rest \ {i}, budget |-> sel.budget - Block(i),
                 chosen |-> C \cup {i}]
      BY <2>2, <2>8, Zenon DEF Choose, i
    <3>2. Counted(C \cup {i}, BlockSizes)
          /\ Cardinality(Chars(C \cup {i}, BlockSizes)) = Cardinality(Chars(C, BlockSizes)) + Block(i)
      <4> DEFINE w == BlockSizes
      <4> HIDE DEF w, C
      <4>1. i \notin C /\ w[i] \in Nat /\ Counted(C, w) /\ w[i] = Block(i)
        BY <2>5, <2>6, <2>7 DEF w
      <4>2. Counted(C \cup {i}, w)
            /\ Cardinality(Chars(C \cup {i}, w)) = Cardinality(Chars(C, w)) + w[i]
        BY <4>1, CountAdd, Zenon
      <4>3. QED
        BY <4>1, <4>2, Zenon DEF w
    <3> HIDE DEF C
    <3>3. new.chosen = C \cup {i} /\ new.budget = sel.budget - Block(i)
      BY <3>1
    <3> HIDE DEF new
    <3>4. new.budget + Cardinality(Chars(C \cup {i}, BlockSizes)) = Budget
      BY <2>5, <2>6, <2>7, <3>2, <3>3
    <3>5. OK(new)
      BY <3>2, <3>3, <3>4
    <3>6. QED
      BY <2>1, <3>5 DEF new
  <2>9. CASE ~(Block(i) <= sel.budget)
    <3>1. new = [rest |-> sel.rest \ {i}, budget |-> sel.budget, chosen |-> C]
      BY <2>2, <2>9, Zenon DEF Choose, i
    <3>2. new.chosen = C /\ new.budget = sel.budget
      BY <3>1
    <3> HIDE DEF C, new
    <3>3. OK(new)
      BY <2>7, <3>2
    <3>4. QED
      BY <2>1, <3>3 DEF new
  <2>10. QED
    BY <2>8, <2>9
<1>4. N \in P
  <2> HIDE DEF P
  <2>1. \A n \in 0..N : n \in P
    BY <1>1, <1>2, <1>3, Steps
  <2>2. QED
    BY <1>1, <2>1
<1>5. QED
  BY <1>4 DEF N, g

\* A chunk within the budget is shown whole, if no block outgrows its estimate.
LEMMA FittingIsShown ==
  ASSUME segs \in Seq(TextSegment), NEW S \in SUBSET (1..Len(segs)), Budget \in Nat,
         Fits(S), \A i \in S : Block(i) <= Estimate(i)
  PROVE  ChosenOf(S) = S
<1> DEFINE N   == Cardinality(S)
           sel == Selection(S)[N]
           C   == sel.chosen
<1>1. N \in Nat /\ Selected(S, sel, N)
  <2>1. N \in Nat /\ \A n \in 0..N : Selected(S, Selection(S)[n], n)
    BY SelectionSelects
  <2> HIDE DEF N
  <2>2. QED
    BY <2>1
<1>2. Counted(C, BlockSizes) /\ sel.budget + Cardinality(Chars(C, BlockSizes)) = Budget
  BY BudgetIsSpent
<1>3. ChosenOf(S) = C
  BY DEF ChosenOf
<1> HIDE DEF sel
<1>4. sel.rest = {}
  <2>1. IsFiniteSet(1..Len(segs))
    BY FS_Interval
  <2>2. IsFiniteSet(sel.rest) /\ Cardinality(sel.rest) = 0
    BY <1>1, <2>1, FS_Subset DEF Selected
  <2>3. QED
    BY <2>2, FS_EmptySet
<1>5. C \subseteq S /\ sel.budget \in Nat
  BY <1>1 DEF Selected
<1> HIDE DEF C
<1>6. ASSUME NEW i \in S \ C
      PROVE  FALSE
  <2>1. Block(i) > sel.budget
    BY <1>1, <1>4, <1>6 DEF Selected, C
  <2>2. \A j \in 1..Len(segs) : BlockSizes[j] = Block(j) /\ Estimates[j] = Estimate(j)
    BY DEF BlockSizes, Estimates
  <2>3. \A j \in S : BlockSizes[j] = Block(j) /\ BlockSizes[j] \in Nat
                     /\ Estimates[j] \in Nat /\ BlockSizes[j] <= Estimates[j]
    <3> SUFFICES ASSUME NEW j \in S
                 PROVE  BlockSizes[j] = Block(j) /\ BlockSizes[j] \in Nat
                        /\ Estimates[j] \in Nat /\ BlockSizes[j] <= Estimates[j]
      OBVIOUS
    <3>1. Block(j) \in Nat /\ segs[j].size \in Nat
      BY BlocksAreNat
    <3>2. Estimate(j) \in Nat
      BY <3>1 DEF Estimate, Overhead
    <3>3. QED
      BY <2>2, <3>1, <3>2
  <2>4. Counted(C \cup {i}, BlockSizes)
        /\ Cardinality(Chars(C \cup {i}, BlockSizes)) = Cardinality(Chars(C, BlockSizes)) + BlockSizes[i]
    <3> DEFINE w == BlockSizes
    <3> HIDE DEF w
    <3>1. i \notin C /\ w[i] \in Nat /\ Counted(C, w)
      BY <1>2, <1>6, <2>3 DEF w
    <3>2. QED
      BY <3>1, CountAdd, Zenon DEF w
  <2>5. Cardinality(Chars(C \cup {i}, BlockSizes)) <= Cardinality(Chars(S, Estimates))
    <3> DEFINE v == BlockSizes
               w == Estimates
    <3>1. C \cup {i} \in SUBSET S /\ Counted(S, w)
      BY <1>5, <1>6 DEF Fits
    <3>2. \A j \in C \cup {i} : v[j] \in Nat /\ w[j] \in Nat /\ v[j] <= w[j]
      BY <2>3, <3>1
    <3> HIDE DEF v, w
    <3>3. Cardinality(Chars(C \cup {i}, v)) <= Cardinality(Chars(S, w))
      BY <3>1, <3>2, CountMore
    <3>4. QED
      BY <3>3 DEF v, w
  <2>6. Cardinality(Chars(C, BlockSizes)) \in Nat /\ Cardinality(Chars(S, Estimates)) \in Nat
        /\ Cardinality(Chars(S, Estimates)) <= Budget
    BY <1>2, FS_CardinalityType DEF Counted, Fits
  <2>7. BlockSizes[i] = Block(i) /\ Block(i) \in Nat
    BY <2>3
  <2>8. QED
    BY <1>2, <1>5, <2>1, <2>4, <2>5, <2>6, <2>7
<1>7. QED
  BY <1>3, <1>5, <1>6

(***************************************************************************)
(* The merge                                                               *)
(***************************************************************************)
LEMMA AddNewKeeps ==
  ASSUME NEW old, NEW new
  PROVE  /\ old \subseteq AddNew(old, new) /\ AddNew(old, new) \subseteq old \cup new
         /\ \A x \in new : \E y \in AddNew(old, new) : y[1] = x[1]
<1> DEFINE K      == {y[1] : y \in new}
           one(k) == CHOOSE y \in new : y[1] = k
           put(k) == IF \E x \in old : x[1] = k THEN {} ELSE {one(k)}
<1>1. AddNew(old, new) = old \cup UNION {put(k) : k \in K}
  BY DEF AddNew
<1>2. ASSUME NEW k \in K
      PROVE  one(k) \in new /\ one(k)[1] = k
  <2>1. \E y \in new : y[1] = k
    OBVIOUS
  <2>2. QED
    BY <2>1, Zenon
<1> HIDE DEF one
<1>3. \A k \in K : put(k) \subseteq new
  BY <1>2
<1>4. ASSUME NEW x \in new
      PROVE  \E y \in AddNew(old, new) : y[1] = x[1]
  <2>1. x[1] \in K
    OBVIOUS
  <2>2. CASE \E z \in old : z[1] = x[1]
    BY <1>1, <2>2
  <2>3. CASE ~\E z \in old : z[1] = x[1]
    <3>1. put(x[1]) = {one(x[1])}
      BY <2>3
    <3> HIDE DEF put, K
    <3>2. one(x[1]) \in AddNew(old, new) /\ one(x[1])[1] = x[1]
      BY <1>1, <1>2, <2>1, <3>1
    <3>3. QED
      BY <3>2
  <2>4. QED
    BY <2>2, <2>3
<1> HIDE DEF put, K
<1>5. QED
  BY <1>1, <1>3, <1>4

\* m represents all of p.
Represents(m, p) ==
  /\ p.scalar <= m.scalar
  /\ \A x \in p.items : \E y \in m.items : y[1] = x[1]
  /\ p.mentions \subseteq m.mentions
  /\ \A x \in p.routes : \E y \in m.routes : y[1] = x[1]

LEMMA MergeRepresents ==
  ASSUME NEW a, NEW b, a.scalar \in 0..100, b.scalar \in 0..100
  PROVE  /\ MergeTwo(a, b).scalar \in 0..100
         /\ Represents(MergeTwo(a, b), b)
         /\ \A p : p.scalar \in 0..100 /\ Represents(a, p) => Represents(MergeTwo(a, b), p)
<1> DEFINE m == MergeTwo(a, b)
<1>1. /\ m.scalar = (IF b.scalar > a.scalar THEN b.scalar ELSE a.scalar)
      /\ m.items = AddNew(a.items, b.items)
      /\ m.mentions = a.mentions \cup b.mentions
      /\ m.routes = AddNew(a.routes, b.routes)
  BY DEF MergeTwo
<1> HIDE DEF m
<1>2. a.items \subseteq m.items /\ a.routes \subseteq m.routes
      /\ a.mentions \subseteq m.mentions
  BY <1>1, AddNewKeeps
<1>3. m.scalar \in 0..100 /\ a.scalar <= m.scalar /\ b.scalar <= m.scalar
  <2> DEFINE x == a.scalar
             y == b.scalar
             z == m.scalar
  <2>1. x \in 0..100 /\ y \in 0..100 /\ z = (IF y > x THEN y ELSE x)
    BY <1>1
  <2> HIDE DEF x, y, z
  <2>2. z \in 0..100 /\ x <= z /\ y <= z
    BY <2>1
  <2>3. QED
    BY <2>2 DEF x, y, z
<1>4. Represents(m, b)
  BY <1>1, <1>3, AddNewKeeps DEF Represents
<1>5. ASSUME NEW p, p.scalar \in 0..100, Represents(a, p)
      PROVE  Represents(m, p)
  <2>1. p.scalar <= m.scalar
    <3> DEFINE x == a.scalar
               y == p.scalar
               z == m.scalar
    <3>1. /\ x \in 0..100 /\ y \in 0..100 /\ z \in 0..100
          /\ y <= x /\ x <= z
      BY <1>3, <1>5 DEF Represents
    <3> HIDE DEF x, y, z
    <3>2. y <= z
      BY <3>1
    <3>3. QED
      BY <3>2 DEF y, z
  <2>2. \A x \in p.items : \E y \in m.items : y[1] = x[1]
    BY <1>2, <1>5, Zenon DEF Represents
  <2>3. p.mentions \subseteq m.mentions
    BY <1>2, <1>5 DEF Represents
  <2>4. \A x \in p.routes : \E y \in m.routes : y[1] = x[1]
    BY <1>2, <1>5, Zenon DEF Represents
  <2>5. QED
    BY <2>1, <2>2, <2>3, <2>4 DEF Represents
<1>6. QED
  BY <1>3, <1>4, <1>5 DEF m

\* The loop, unfolded.
LEMMA MergesAre ==
  ASSUME Len(partials) \in Nat, \A k \in 1..Len(partials) : partials[k].scalar \in 0..100
  PROVE  /\ MergeOf[0] = Nothing
         /\ \A n \in 1..Len(partials) : MergeOf[n] = MergeTwo(MergeOf[n - 1], partials[n])
<1> DEFINE N    == Len(partials)
           I    == UNION {partials[k].items : k \in 1..N}
           M    == UNION {partials[k].mentions : k \in 1..N}
           R    == UNION {partials[k].routes : k \in 1..N}
           T    == [scalar : 0..100, items : SUBSET I, mentions : SUBSET M, routes : SUBSET R]
           G    == [n \in 1..N |-> [m \in T |-> MergeTwo(m, partials[n])]]
<1>1. Nothing \in T /\ N \in Nat
  BY DEF Nothing
<1>2. ASSUME NEW n \in 1..N, NEW m \in T
      PROVE  MergeTwo(m, partials[n]) \in T
  <2> DEFINE p == partials[n]
  <2>1. p.items \subseteq I /\ p.mentions \subseteq M /\ p.routes \subseteq R
        /\ p.scalar \in 0..100
    OBVIOUS
  <2>2. m.items \subseteq I /\ m.mentions \subseteq M /\ m.routes \subseteq R
        /\ m.scalar \in 0..100
    OBVIOUS
  <2> HIDE DEF p, I, M, R
  <2>3. /\ AddNew(m.items, p.items) \subseteq I
        /\ AddNew(m.routes, p.routes) \subseteq R
        /\ m.mentions \cup p.mentions \subseteq M
    BY <2>1, <2>2, AddNewKeeps
  <2>4. (IF p.scalar > m.scalar THEN p.scalar ELSE m.scalar) \in 0..100
    BY <2>1, <2>2
  <2>5. MergeTwo(m, p) \in T
    BY <2>3, <2>4 DEF MergeTwo
  <2>6. QED
    BY <2>5 DEF p
<1>3. \A n \in 1..N : \A m \in T : G[n][m] \in T
  <2> HIDE DEF T
  <2>1. QED
    BY <1>2
<1> HIDE DEF T
<1>4. PICK f : IsLoop(f, N, T, Nothing, G)
  <2> HIDE DEF N, G
  <2>1. QED
    BY <1>1, <1>3, Recursion
<1>5. \A n \in 1..N : f[n] = MergeTwo(f[n - 1], partials[n])
  <2>1. \A n \in 1..N : n - 1 \in 0..N
    BY <1>1
  <2>2. QED
    BY <1>4, <2>1 DEF IsLoop
<1> HIDE DEF G
<1>6. f = [n \in 0..N |-> IF n = 0 THEN Nothing ELSE MergeTwo(f[n - 1], partials[n])]
  BY <1>1, <1>4, <1>5 DEF IsLoop
<1>7. MergeOf = [n \in 0..N |-> IF n = 0 THEN Nothing ELSE MergeTwo(MergeOf[n - 1], partials[n])]
  BY <1>6, Zenon DEF MergeOf
<1>8. \A n \in 0..N : MergeOf[n] = IF n = 0 THEN Nothing ELSE MergeTwo(MergeOf[n - 1], partials[n])
  BY <1>7
<1>9. QED
  BY <1>1, <1>8

\* "Nothing a chunk found is lost."
LEMMA MergedRepresents ==
  ASSUME Len(partials) \in Nat, \A k \in 1..Len(partials) : partials[k].scalar \in 0..100
  PROVE  \A k \in 1..Len(partials) : Represents(Merged, partials[k])
<1> DEFINE N == Len(partials)
           P == {n \in 0..N : /\ MergeOf[n].scalar \in 0..100
                              /\ \A k \in 1..n : Represents(MergeOf[n], partials[k])}
<1>1. 0 \in P
  <2>1. MergeOf[0].scalar = 0
    BY MergesAre DEF Nothing
  <2>2. QED
    BY <2>1
<1>2. ASSUME NEW n \in 0..(N - 1), n \in P
      PROVE  n + 1 \in P
  <2>1. n + 1 \in 1..N /\ n + 1 - 1 = n /\ n + 1 \in 0..N
    OBVIOUS
  <2> DEFINE a == MergeOf[n]
             b == partials[n + 1]
  <2>2. MergeOf[n + 1] = MergeTwo(a, b)
    <3> DEFINE i == n + 1
    <3> HIDE DEF i
    <3>1. MergeOf[i] = MergeTwo(MergeOf[i - 1], partials[i])
      BY <2>1, MergesAre DEF i
    <3>2. QED
      BY <2>1, <3>1 DEF i
  <2>3. a.scalar \in 0..100 /\ b.scalar \in 0..100 /\ \A k \in 1..n : Represents(a, partials[k])
    BY <1>2, <2>1
  <2> HIDE DEF a, b
  <2>4. /\ MergeTwo(a, b).scalar \in 0..100
        /\ Represents(MergeTwo(a, b), b)
        /\ \A p : p.scalar \in 0..100 /\ Represents(a, p) => Represents(MergeTwo(a, b), p)
    BY <2>3, MergeRepresents
  <2>5. ASSUME NEW k \in 1..(n + 1)
        PROVE  Represents(MergeOf[n + 1], partials[k])
    <3>1. CASE k = n + 1
      BY <2>2, <2>4, <3>1 DEF b
    <3>2. CASE k # n + 1
      <4>1. k \in 1..n /\ k \in 1..N
        BY <2>1, <3>2
      <4>2. QED
        BY <2>2, <2>3, <2>4, <4>1
    <3>3. QED
      BY <3>1, <3>2
  <2>6. QED
    BY <2>1, <2>2, <2>4, <2>5
<1>3. N \in P
  <2> HIDE DEF P
  <2>1. \A n \in 0..N : n \in P
    BY <1>1, <1>2, Steps
  <2>2. QED
    BY <2>1
<1>4. CASE N = 1
  <2>1. Merged = partials[1]
    BY <1>4 DEF Merged
  <2>2. \A k \in 1..N : k = 1
    BY <1>4
  <2>3. Represents(partials[1], partials[1])
    <3> DEFINE p == partials[1]
               s == p.scalar
    <3>1. s \in 0..100
      BY <1>4
    <3> HIDE DEF s
    <3>2. s <= s
      BY <3>1
    <3>3. /\ \A x \in p.items : \E y \in p.items : y[1] = x[1]
          /\ p.mentions \subseteq p.mentions
          /\ \A x \in p.routes : \E y \in p.routes : y[1] = x[1]
      OBVIOUS
    <3> HIDE DEF p
    <3>4. Represents(p, p)
      BY <3>2, <3>3 DEF Represents, s
    <3>5. QED
      BY <3>4 DEF p
  <2>4. QED
    BY <2>1, <2>2, <2>3
<1>5. CASE N # 1
  BY <1>3, <1>5 DEF Merged
<1>6. QED
  BY <1>4, <1>5

(***************************************************************************)
(* The invariant                                                           *)
(***************************************************************************)
\* Each segment fits one request; and the first line of each is within the
\* estimate.
Estimated == \A i \in 1..Len(segs) : Estimate(i) <= Budget
Titled    == \A i \in 1..Len(segs) : Prefix(i) + segs[i].title <= Overhead

\* The text, cut into segments and the segments into chunks.
TextInv ==
  /\ mode \in {"agentic", "classic"}
  /\ lines \in Seq(Lines)
  /\ pc # "segment" => segs \in Seq(TextSegment) /\ Holds(segs, Len(lines))
  /\ pc \in {"segment", "chunk"} => chunks = << >>
  /\ pc \notin {"segment", "chunk"} =>
       /\ chunks \in Seq(Seq(Nat)) /\ chunks # << >> /\ Partition(chunks, Len(segs))
       /\ mode = "classic" => Len(chunks) = 1
       /\ mode = "agentic" /\ Estimated => \A k \in 1..Len(chunks) : Fits(Members(chunks[k]))

Records == Outputs \cup {Parsed(a) : a \in Answers}

\* Where the run is, in the agentic pipeline and in the classic one.
RunInv ==
  /\ pc \in {"segment", "chunk", "extract", "calling", "parse", "merge", "done", "raised"}
  /\ partials \in Seq(Records)
  /\ pc \in {"segment", "chunk"} => partials = << >> /\ shown = {} /\ answer = << >>
  /\ mode = "agentic" =>
       /\ pc # "parse"
       /\ pc \in {"extract", "calling"} => Len(partials) < Len(chunks)
       /\ pc \in {"merge", "done"} => Len(partials) = Len(chunks)
  /\ mode = "classic" =>
       /\ pc # "calling"
       /\ pc \notin {"merge", "done"} => partials = << >>
       /\ pc = "extract" => answer = << >> /\ shown = {}
       /\ pc \in {"parse", "merge", "done"} => answer # << >>
       /\ answer # << >> => answer[1] \in Answers
       /\ pc \in {"merge", "done"} => partials = <<Parsed(answer[1])>>
       /\ pc = "raised" /\ answer # << >> => ParseRaises(answer[1])

\* The chunks that some prompt was made from.
Asked ==
  {k \in 1..Len(chunks) : IF mode = "classic" THEN pc # "extract"
                          ELSE k <= Len(partials) \/ (pc = "calling" /\ k = Len(partials) + 1)}

Yields(k) ==
  \A i \in Members(chunks[k]) \ shown, j \in Members(chunks[k]) \cap shown :
    Precedes(i, j) => Block(i) > Block(j)

\* What the prompts have shown, while the run may still succeed.
ShownInv ==
  pc \notin {"segment", "chunk", "raised"} =>
    /\ \A i \in shown : \E k \in Asked : i \in Members(chunks[k])
    /\ \A k \in Asked : Yields(k)
    /\ mode = "agentic" /\ Estimated /\ Titled =>
         \A k \in Asked : Members(chunks[k]) \subseteq shown

ResultInv ==
  pc = "done" =>
    /\ \A k \in 1..Len(partials) : Represents(result, partials[k])
    /\ mode = "classic" => result = partials[1]

Responses == {"text", "[LLM_CALL_FAILED]", ""}
Rows      == [job : {Job, NoJob}, prompt : Nat, response : Responses]
Requests  == [prompt : Nat, outcome : Audit!Outcomes]

\* The row is what the audit should say of the request.
Tells(row, request) ==
  /\ row.prompt = request.prompt
  /\ request.outcome = "answer" => row.response = "text"
  /\ request.outcome = "error" => row.response = "[LLM_CALL_FAILED]"

Rowed(w) == {i \in DOMAIN w : w[i] # 0}

\* Of the requests c, those in K have their rows in a, where w says.
Logged(c, w, a, K) ==
  /\ \A i \in K : w[i] \in DOMAIN a /\ Tells(a[w[i]], c[i])
  /\ \A i, j \in K : i < j => w[i] < w[j]
  /\ \A r \in DOMAIN a : \E i \in K : w[i] = r

LoggedInv ==
  /\ audit \in Seq(Rows) /\ calls \in Seq(Requests) /\ writes \in Seq(Nat)
  /\ Len(writes) = Len(calls)
  /\ Logged(calls, writes, audit, Rowed(writes))

\* One call per result, and one more when the run raised or is yet to parse.
AuditInv ==
  /\ LoggedInv
  /\ pc # "calling" => DOMAIN starts = {}
  /\ pc = "calling" => DOMAIN starts = {Number} /\ starts[Number] = Number
  /\ Len(calls) = IF pc = "raised" \/ pc = "parse" THEN Len(partials) + 1 ELSE Len(partials)

IInv == TextInv /\ RunInv /\ ShownInv /\ ResultInv /\ AuditInv

LEMMA InitInv == Init => IInv
<1> SUFFICES ASSUME Init PROVE IInv
  OBVIOUS
<1>1. lines \in Seq(Lines) /\ mode \in {"agentic", "classic"}
  <2>1. PICK n \in 0..MaxLines : lines \in [1..n -> TextLines] \cup [1..n -> Blocks]
    BY DEF Init
  <2>2. lines \in [1..n -> Lines] /\ n \in Nat
    BY <2>1 DEF Lines
  <2>3. QED
    BY <2>2, ConstantsOK DEF Init
<1>2. TextInv
  BY <1>1 DEF TextInv, Init
<1>3. RunInv
  BY <1>1 DEF RunInv, Init
<1>4. ShownInv /\ ResultInv
  BY DEF ShownInv, ResultInv, Init
<1>5. AuditInv
  <2>1. /\ audit = << >> /\ starts = << >> /\ writes = << >> /\ calls = << >>
        /\ partials = << >> /\ pc = "segment"
    BY DEF Init, Audit!AuditInit
  <2>2. LoggedInv
    BY <2>1 DEF LoggedInv, Logged, Rowed
  <2>3. QED
    BY <2>1, <2>2 DEF AuditInv
<1>6. QED
  BY <1>2, <1>3, <1>4, <1>5 DEF IInv

\* What a chunk needs does not change with the run.
LEMMA NeedsStay ==
  ASSUME UNCHANGED segs
  PROVE  Estimated' = Estimated /\ Titled' = Titled /\ \A S : Fits(S)' = Fits(S)
<1>1. Estimates' = Estimates
  BY DEF Estimates, Estimate
<1>2. Estimated' = Estimated /\ Titled' = Titled
  BY DEF Estimated, Titled, Estimate, Prefix
<1>3. \A S : Fits(S)' = Fits(S)
  BY <1>1 DEF Fits
<1>4. QED
  BY <1>2, <1>3

LEMMA TextKept == IInv /\ [Next]_vars => TextInv'
<1> SUFFICES ASSUME IInv, [Next]_vars PROVE TextInv'
  OBVIOUS
<1>1. CASE Segment
  <2>1. segs' \in Seq(TextSegment) /\ Holds(segs', Len(lines))
    BY <1>1, SegmentsHold DEF Segment, IInv, TextInv
  <2>2. QED
    BY <1>1, <2>1 DEF Segment, IInv, TextInv
<1>2. CASE Chunk
  <2>1. segs \in Seq(TextSegment) /\ Holds(segs, Len(lines)) /\ mode \in {"agentic", "classic"}
    BY <1>2 DEF Chunk, IInv, TextInv
  <2>2. chunks' \in Seq(Seq(Nat)) /\ chunks' # << >> /\ Partition(chunks', Len(segs))
    BY <1>2, <2>1, ChunksPartition DEF Chunk
  <2>3. mode = "classic" => Len(chunks') = 1
    BY <1>2 DEF Chunk, ChunksOf
  <2>4. mode = "agentic" /\ Estimated => \A k \in 1..Len(chunks') : Fits(Members(chunks'[k]))
    <3> SUFFICES ASSUME mode = "agentic", Estimated
                 PROVE  \A k \in 1..Len(ChunksOf) : Fits(Members(ChunksOf[k]))
      BY <1>2 DEF Chunk
    <3>1. QED
      BY <2>1, ChunksFit, ConstantsOK DEF Estimated
  <2>5. segs' = segs /\ mode' = mode /\ lines' = lines /\ pc' = "extract"
    BY <1>2 DEF Chunk
  <2>6. Estimated' = Estimated /\ \A S : Fits(S)' = Fits(S)
    BY <2>5, NeedsStay
  <2>7. QED
    BY <2>1, <2>2, <2>3, <2>4, <2>5, <2>6 DEF TextInv, IInv
<1>3. CASE ~Segment /\ ~Chunk
  <2>1. UNCHANGED textVars
        /\ (pc \in {"segment", "chunk"} => pc' = pc)
        /\ (pc \notin {"segment", "chunk"} => pc' \notin {"segment", "chunk"})
    BY <1>3 DEF Next, Invoke, InvokeReturns, InvokeFails, InvokeMisfits, Complete, Parse, Merge,
                vars
  <2>2. Estimated' = Estimated /\ \A S : Fits(S)' = Fits(S)
    BY <2>1, NeedsStay DEF textVars
  <2>3. segs' = segs /\ mode' = mode /\ lines' = lines /\ chunks' = chunks
    BY <2>1 DEF textVars
  <2>4. QED
    BY <2>1, <2>2, <2>3 DEF TextInv, IInv
<1>4. QED
  BY <1>1, <1>2, <1>3

LEMMA RunKept == IInv /\ [Next]_vars => RunInv'
<1> SUFFICES ASSUME IInv, [Next]_vars PROVE RunInv'
  OBVIOUS
<1>1. RunInv /\ TextInv /\ partials \in Seq(Records) /\ Len(partials) \in Nat
      /\ mode \in {"agentic", "classic"}
  BY DEF IInv, RunInv, TextInv
<1>2. CASE Segment
  BY <1>1, <1>2 DEF Segment, RunInv
<1>3. CASE Chunk
  <2>1. ChunksOf # << >> /\ ChunksOf \in Seq(Seq(Nat))
    BY <1>1, <1>3, ChunksPartition DEF TextInv, Chunk
  <2>2. 0 < Len(chunks')
    BY <1>3, <2>1 DEF Chunk
  <2>3. QED
    BY <1>1, <1>3, <2>2 DEF Chunk, RunInv
<1>4. CASE Invoke
  BY <1>1, <1>4 DEF Invoke, RunInv, textVars
<1>5. CASE InvokeReturns
  <2>1. PICK found \in Outputs : partials' = Append(partials, found)
    BY <1>5 DEF InvokeReturns
  <2>2. partials' \in Seq(Records) /\ Len(partials') = Len(partials) + 1
    BY <1>1, <2>1 DEF Records
  <2>3. mode = "agentic" /\ Len(partials) < Len(chunks) /\ Len(chunks) \in Nat
    BY <1>1, <1>5 DEF InvokeReturns, RunInv, TextInv
  <2>4. pc' = (IF Len(partials') = Len(chunks) THEN "merge" ELSE "extract")
    BY <1>5, <2>2 DEF InvokeReturns, Number
  <2>5. UNCHANGED <<textVars, shown, answer, result>>
    BY <1>5 DEF InvokeReturns
  <2>6. QED
    BY <1>1, <2>2, <2>3, <2>4, <2>5 DEF RunInv, textVars
<1>6. CASE InvokeFails \/ InvokeMisfits
  BY <1>1, <1>6 DEF InvokeFails, InvokeMisfits, RunInv, textVars
<1>7. CASE Complete
  <2>1. mode = "classic" /\ pc = "extract" /\ UNCHANGED <<textVars, partials, result>>
    BY <1>7 DEF Complete
  <2>2. \/ pc' = "raised" /\ answer' = answer
        \/ pc' = "parse" /\ \E a \in Answers : answer' = <<a>>
    BY <1>7 DEF Complete
  <2>3. QED
    BY <1>1, <2>1, <2>2 DEF RunInv, textVars
<1>8. CASE Parse
  <2>1. mode = "classic" /\ pc = "parse" /\ answer # << >> /\ answer[1] \in Answers
    BY <1>1, <1>8 DEF Parse, RunInv
  <2>2. UNCHANGED <<textVars, shown, answer, result>>
    BY <1>8 DEF Parse
  <2>3. CASE ParseRaises(answer[1])
    <3>1. pc' = "raised" /\ partials' = partials
      BY <1>8, <2>3 DEF Parse
    <3>2. QED
      BY <1>1, <2>1, <2>2, <2>3, <3>1 DEF RunInv, textVars
  <2>4. CASE ~ParseRaises(answer[1])
    <3>1. pc' = "merge" /\ partials' = <<Parsed(answer[1])>>
      BY <1>8, <2>4 DEF Parse
    <3>2. partials' \in Seq(Records)
      BY <2>1, <3>1 DEF Records
    <3>3. QED
      BY <1>1, <2>1, <2>2, <3>1, <3>2 DEF RunInv, textVars
  <2>5. QED
    BY <2>3, <2>4
<1>9. CASE Merge
  BY <1>1, <1>9 DEF Merge, RunInv, textVars
<1>10. CASE UNCHANGED vars
  BY <1>1, <1>10 DEF RunInv, vars, textVars
<1>11. QED
  BY <1>2, <1>3, <1>4, <1>5, <1>6, <1>7, <1>8, <1>9, <1>10 DEF Next

\* A request that ended goes with the row written for it, or with none.
LEMMA RowIsTold ==
  ASSUME NEW c \in Seq(Requests), NEW w \in Seq(Nat), NEW a \in Seq(Rows),
         Len(w) = Len(c), Logged(c, w, a, Rowed(w)),
         NEW request \in Requests, NEW row \in Rows, Tells(row, request)
  PROVE  LET w2 == Append(w, Len(a) + 1)
         IN  Logged(Append(c, request), w2, Append(a, row), Rowed(w2))
<1> DEFINE N  == Len(c)
           M  == Len(a)
           c2 == Append(c, request)
           w2 == Append(w, M + 1)
           a2 == Append(a, row)
<1>1. /\ N \in Nat /\ M \in Nat /\ DOMAIN w = 1..N /\ DOMAIN a = 1..M
      /\ DOMAIN w2 = 1..(N + 1) /\ DOMAIN a2 = 1..(M + 1)
  OBVIOUS
<1>2. /\ c2[N + 1] = request /\ w2[N + 1] = M + 1 /\ a2[M + 1] = row
      /\ \A i \in 1..N : c2[i] = c[i] /\ w2[i] = w[i]
      /\ \A r \in 1..M : a2[r] = a[r]
  OBVIOUS
<1> HIDE DEF N, M, c2, w2, a2
<1>3. /\ \A i \in Rowed(w) : i \in 1..N /\ w[i] \in 1..M /\ Tells(a[w[i]], c[i])
      /\ \A i, j \in Rowed(w) : i < j => w[i] < w[j]
      /\ \A r \in 1..M : \E i \in Rowed(w) : w[i] = r
  BY <1>1 DEF Logged, Rowed
<1>4. \A i \in Rowed(w2) : i = N + 1 \/ (i # N + 1 /\ i \in Rowed(w))
  <2>1. \A i \in 1..(N + 1) : i = N + 1 \/ i \in 1..N
    BY <1>1
  <2>2. QED
    BY <1>1, <1>2, <2>1 DEF Rowed
<1>5. N + 1 \in Rowed(w2) /\ \A i \in Rowed(w) : i \in Rowed(w2)
  <2>1. N + 1 \in 1..(N + 1) /\ M + 1 # 0 /\ \A i \in 1..N : i \in 1..(N + 1)
    BY <1>1
  <2>2. QED
    BY <1>1, <1>2, <2>1 DEF Rowed
<1>6. ASSUME NEW i \in Rowed(w2)
      PROVE  w2[i] \in 1..(M + 1) /\ Tells(a2[w2[i]], c2[i])
  <2>1. CASE i = N + 1
    BY <1>1, <1>2, <2>1
  <2>2. CASE i \in Rowed(w)
    <3>1. i \in 1..N /\ w[i] \in 1..M /\ Tells(a[w[i]], c[i])
      BY <1>3, <2>2
    <3>2. w2[i] = w[i] /\ c2[i] = c[i] /\ a2[w[i]] = a[w[i]]
      BY <1>2, <3>1
    <3>3. w[i] \in 1..(M + 1)
      BY <1>1, <3>1
    <3>4. QED
      BY <3>1, <3>2, <3>3
  <2>3. QED
    BY <1>4, <2>1, <2>2
<1>7. ASSUME NEW i \in Rowed(w2), NEW j \in Rowed(w2), i < j
      PROVE  w2[i] < w2[j]
  <2>1. i \in 1..(N + 1) /\ j \in 1..(N + 1)
    BY <1>1 DEF Rowed
  <2>2. i # N + 1
    BY <1>1, <1>7, <2>1
  <2>3. i \in Rowed(w) /\ w2[i] = w[i] /\ w[i] \in 1..M
    BY <1>2, <1>3, <1>4, <2>2
  <2>4. CASE j = N + 1
    BY <1>1, <1>2, <2>3, <2>4
  <2>5. CASE j # N + 1
    <3>1. j \in Rowed(w) /\ w2[j] = w[j]
      BY <1>2, <1>3, <1>4, <2>5
    <3>2. QED
      BY <1>3, <1>7, <2>3, <3>1
  <2>6. QED
    BY <2>4, <2>5
<1>8. ASSUME NEW r \in 1..(M + 1)
      PROVE  \E i \in Rowed(w2) : w2[i] = r
  <2>1. CASE r = M + 1
    BY <1>2, <1>5, <2>1
  <2>2. CASE r # M + 1
    <3>1. r \in 1..M
      BY <1>1, <2>2
    <3>2. PICK i \in Rowed(w) : w[i] = r
      BY <1>3, <3>1
    <3>3. QED
      BY <1>2, <1>3, <1>5, <3>2
  <2>3. QED
    BY <2>1, <2>2
<1>9. Logged(c2, w2, a2, Rowed(w2))
  BY <1>1, <1>6, <1>7, <1>8 DEF Logged
<1>10. QED
  BY <1>9 DEF M, c2, w2, a2

LEMMA RowIsLost ==
  ASSUME NEW c \in Seq(Requests), NEW w \in Seq(Nat), NEW a,
         Len(w) = Len(c), Logged(c, w, a, Rowed(w)), NEW request \in Requests
  PROVE  LET w2 == Append(w, 0)
         IN  Logged(Append(c, request), w2, a, Rowed(w2))
<1> DEFINE N  == Len(c)
           c2 == Append(c, request)
           w2 == Append(w, 0)
<1>1. /\ N \in Nat /\ DOMAIN w = 1..N /\ DOMAIN w2 = 1..(N + 1) /\ w2[N + 1] = 0
      /\ \A i \in 1..N : c2[i] = c[i] /\ w2[i] = w[i]
  OBVIOUS
<1> HIDE DEF N, c2, w2
<1>2. \A i : i \in Rowed(w2) <=> i \in Rowed(w)
  <2>1. \A i : i \in 1..(N + 1) <=> i = N + 1 \/ i \in 1..N
    BY <1>1
  <2>2. N + 1 \notin 1..N
    BY <1>1
  <2>3. QED
    BY <1>1, <2>1, <2>2 DEF Rowed
<1>3. Rowed(w2) = Rowed(w) /\ \A i \in Rowed(w) : c2[i] = c[i] /\ w2[i] = w[i]
  <2>1. \A i \in Rowed(w) : i \in 1..N
    BY <1>1 DEF Rowed
  <2>2. QED
    BY <1>1, <1>2, <2>1
<1>4. Logged(c2, w2, a, Rowed(w2))
  BY <1>3, Zenon DEF Logged
<1>5. QED
  BY <1>4 DEF c2, w2

\* A request ends, and its row is committed or lost.
LEMMA RowKept ==
  ASSUME LoggedInv, NEW row \in Rows, NEW outcome \in Audit!Outcomes,
         Tells(row, [prompt |-> row.prompt, outcome |-> outcome]),
         Ended(row.prompt, outcome), Audit!WriteRow(row)
  PROVE  LoggedInv' /\ Len(calls') = Len(calls) + 1
<1> DEFINE request == [prompt |-> row.prompt, outcome |-> outcome]
<1>1. request \in Requests /\ Tells(row, request)
  BY DEF Rows, Requests
<1>2. calls' = Append(calls, request)
  BY DEF Ended
<1> HIDE DEF request
<1>3. /\ audit \in Seq(Rows) /\ calls \in Seq(Requests) /\ writes \in Seq(Nat)
      /\ Len(writes) = Len(calls) /\ Logged(calls, writes, audit, Rowed(writes))
  BY DEF LoggedInv
<1>4. calls' \in Seq(Requests) /\ Len(calls') = Len(calls) + 1
  BY <1>1, <1>2, <1>3, AppendProperties
<1>5. CASE audit' = Append(audit, row) /\ writes' = Append(writes, Len(audit) + 1)
  <2>1. audit' \in Seq(Rows) /\ writes' \in Seq(Nat) /\ Len(writes') = Len(calls')
    BY <1>3, <1>4, <1>5
  <2>2. Logged(calls', writes', audit', Rowed(writes'))
    BY <1>1, <1>2, <1>3, <1>5, RowIsTold
  <2>3. QED
    BY <1>4, <2>1, <2>2 DEF LoggedInv, Rowed
<1>6. CASE audit' = audit /\ writes' = Append(writes, 0)
  <2>1. audit' \in Seq(Rows) /\ writes' \in Seq(Nat) /\ Len(writes') = Len(calls')
    BY <1>3, <1>4, <1>6
  <2>2. Logged(calls', writes', audit', Rowed(writes'))
    BY <1>1, <1>2, <1>3, <1>6, RowIsLost
  <2>3. QED
    BY <1>4, <2>1, <2>2 DEF LoggedInv, Rowed
<1>7. QED
  BY <1>5, <1>6 DEF Audit!WriteRow

LEMMA AuditStays ==
  ASSUME LoggedInv, UNCHANGED <<audit, calls, writes>>
  PROVE  LoggedInv'
BY DEF LoggedInv, Rowed

\* The request that is open ends: the row has the prompt that was started.
LEMMA CallEnds ==
  ASSUME AuditInv, partials \in Seq(Records), pc = "calling",
         \/ Ended(Number, "answer") /\ Audit!OnLlmEnd(Number)
         \/ /\ \E outcome \in {"error", "interrupt"} : Ended(Number, outcome)
            /\ Audit!OnLlmError(Number)
  PROVE  LoggedInv' /\ Len(calls') = Len(calls) + 1 /\ DOMAIN starts' = {}
<1>1. Number \in Nat /\ DOMAIN starts = {Number} /\ starts[Number] = Number
  BY DEF AuditInv, Number
<1>2. Audit!Started(Number) = Number
  BY <1>1 DEF Audit!Started
<1>3. DOMAIN Audit!Popped(Number) = {}
  BY <1>1 DEF Audit!Popped
<1>4. CASE Ended(Number, "answer") /\ Audit!OnLlmEnd(Number)
  <2> DEFINE row == [job |-> NoJob, prompt |-> Number, response |-> "text"]
  <2>1. /\ row \in Rows /\ row.prompt = Number
        /\ Tells(row, [prompt |-> row.prompt, outcome |-> "answer"])
    BY <1>1 DEF Rows, Responses, Tells
  <2>2. Audit!WriteRow(row) /\ starts' = Audit!Popped(Number)
    BY <1>2, <1>4 DEF Audit!OnLlmEnd
  <2>3. "answer" \in Audit!Outcomes
    BY DEF Audit!Outcomes
  <2> HIDE DEF row
  <2>4. QED
    BY <1>3, <1>4, <2>1, <2>2, <2>3, RowKept DEF AuditInv
<1>5. CASE /\ \E outcome \in {"error", "interrupt"} : Ended(Number, outcome)
           /\ Audit!OnLlmError(Number)
  <2> PICK outcome \in {"error", "interrupt"} : Ended(Number, outcome)
    BY <1>5
  <2> DEFINE row == [job |-> NoJob, prompt |-> Number, response |-> "[LLM_CALL_FAILED]"]
  <2>1. /\ row \in Rows /\ row.prompt = Number
        /\ Tells(row, [prompt |-> row.prompt, outcome |-> outcome])
    BY <1>1 DEF Rows, Responses, Tells
  <2>2. Audit!WriteRow(row) /\ starts' = Audit!Popped(Number)
    BY <1>2, <1>5 DEF Audit!OnLlmError
  <2>3. outcome \in Audit!Outcomes
    BY DEF Audit!Outcomes
  <2> HIDE DEF row
  <2>4. QED
    BY <1>3, <2>1, <2>2, <2>3, RowKept DEF AuditInv
<1>6. QED
  BY <1>4, <1>5

LEMMA AuditKept == IInv /\ [Next]_vars => AuditInv'
<1> SUFFICES ASSUME IInv, [Next]_vars PROVE AuditInv'
  OBVIOUS
<1>1. /\ AuditInv /\ LoggedInv /\ partials \in Seq(Records) /\ Len(partials) \in Nat
      /\ mode = "classic" => pc # "calling" /\ (pc \in {"extract", "parse"} => partials = << >>)
  BY DEF IInv, RunInv, AuditInv
<1>2. CASE Segment \/ Chunk
  BY <1>1, <1>2, AuditStays DEF Segment, Chunk, AuditInv, logVars
<1>3. CASE Invoke
  <2>1. pc = "extract" /\ pc' = "calling" /\ partials' = partials /\ Number' = Number
        /\ UNCHANGED <<audit, calls, writes>>
    BY <1>3 DEF Invoke, Number, Audit!OnChatModelStart
  <2>2. starts' = [i \in DOMAIN starts \cup {Number} |-> IF i = Number THEN Number ELSE starts[i]]
    BY <1>3 DEF Invoke, Audit!OnChatModelStart
  <2>3. DOMAIN starts = {}
    BY <1>1, <2>1 DEF AuditInv
  <2>4. DOMAIN starts' = {Number} /\ starts'[Number] = Number
    BY <2>2, <2>3
  <2>5. QED
    BY <1>1, <2>1, <2>4, AuditStays DEF AuditInv
<1>4. CASE InvokeReturns
  <2>1. pc = "calling" /\ pc' \in {"merge", "extract"} /\ Ended(Number, "answer")
        /\ Audit!OnLlmEnd(Number)
    BY <1>4 DEF InvokeReturns
  <2>2. PICK found \in Outputs : partials' = Append(partials, found)
    BY <1>4 DEF InvokeReturns
  <2>3. Len(partials') = Len(partials) + 1
    BY <1>1, <2>2 DEF Records
  <2>4. LoggedInv' /\ Len(calls') = Len(calls) + 1 /\ DOMAIN starts' = {}
    BY <1>1, <2>1, CallEnds
  <2>5. QED
    BY <1>1, <2>1, <2>3, <2>4 DEF AuditInv
<1>5. CASE InvokeFails \/ InvokeMisfits
  <2>1. pc = "calling" /\ pc' = "raised" /\ partials' = partials
        /\ (\/ Ended(Number, "answer") /\ Audit!OnLlmEnd(Number)
            \/ /\ \E outcome \in {"error", "interrupt"} : Ended(Number, outcome)
               /\ Audit!OnLlmError(Number))
    BY <1>5 DEF InvokeFails, InvokeMisfits
  <2>2. LoggedInv' /\ Len(calls') = Len(calls) + 1 /\ DOMAIN starts' = {}
    BY <1>1, <2>1, CallEnds
  <2>3. QED
    BY <1>1, <2>1, <2>2 DEF AuditInv
<1>6. CASE Complete
  <2>1. PICK outcome \in {"answer", "error", "interrupt"} :
               Ended(1, outcome) /\ Audit!Complete(1, outcome)
    BY <1>6 DEF Complete
  <2>2. pc = "extract" /\ pc' \in {"parse", "raised"} /\ partials' = partials
    BY <1>6 DEF Complete
  <2> DEFINE response == Audit!ResponseOf(outcome)
             row      == [job |-> Job, prompt |-> 1, response |-> response]
  <2>3. /\ outcome \in Audit!Outcomes /\ row \in Rows /\ row.prompt = 1
        /\ Tells(row, [prompt |-> row.prompt, outcome |-> outcome])
    <3>1. /\ response \in Responses
          /\ outcome = "answer" => response = "text"
          /\ outcome = "error" => response = "[LLM_CALL_FAILED]"
      BY DEF Audit!ResponseOf, Responses
    <3> HIDE DEF response
    <3>2. QED
      BY <3>1 DEF Audit!Outcomes, Rows, Tells
  <2>4. Audit!WriteRow(row) /\ starts' = starts
    BY <2>1 DEF Audit!Complete
  <2> HIDE DEF row
  <2>5. LoggedInv' /\ Len(calls') = Len(calls) + 1
    BY <1>1, <2>1, <2>3, <2>4, RowKept
  <2>6. QED
    BY <1>1, <2>2, <2>4, <2>5 DEF AuditInv
<1>7. CASE Parse
  <2>1. /\ mode = "classic" /\ pc = "parse" /\ partials = << >>
        /\ UNCHANGED <<audit, starts, calls, writes>>
    BY <1>1, <1>7 DEF Parse, IInv, TextInv, RunInv, logVars
  <2>2. \/ pc' = "raised" /\ partials' = << >>
        \/ pc' = "merge" /\ \E r : partials' = <<r>>
    BY <1>7, <2>1 DEF Parse
  <2>3. Len(calls) = 1
    BY <1>1, <2>1 DEF AuditInv
  <2>4. QED
    BY <1>1, <2>1, <2>2, <2>3, AuditStays DEF AuditInv
<1>8. CASE Merge
  BY <1>1, <1>8, AuditStays DEF Merge, AuditInv, logVars
<1>9. CASE UNCHANGED vars
  <2>1. UNCHANGED <<pc, partials, audit, starts, calls, writes>> /\ Number' = Number
    BY <1>9 DEF vars, Number, logVars
  <2>2. QED
    BY <1>1, <2>1, AuditStays DEF AuditInv
<1>10. QED
  BY <1>2, <1>3, <1>4, <1>5, <1>6, <1>7, <1>8, <1>9 DEF Next

LEMMA OrderStays ==
  ASSUME UNCHANGED segs
  PROVE  \A i, j : (Precedes(i, j)' <=> Precedes(i, j)) /\ Block(i)' = Block(i)
<1>1. \A i : Priority(i)' = Priority(i) /\ Block(i)' = Block(i)
  BY DEF Priority, Block, Prefix
<1>2. QED
  BY <1>1 DEF Precedes

\* The chunks are disjoint parts of the segments.
LEMMA ChunksAreParts ==
  ASSUME NEW s \in Seq(Seq(Nat)), NEW n \in Nat, Partition(s, n)
  PROVE  /\ \A k \in 1..Len(s) : Members(s[k]) \subseteq 1..n
         /\ \A k, l \in 1..Len(s) : k # l => Members(s[k]) \cap Members(s[l]) = {}
<1>1. ASSUME NEW k \in 1..Len(s)
      PROVE  Members(s[k]) \subseteq 1..n
  BY DEF Partition, Members
<1>2. ASSUME NEW k \in 1..Len(s), NEW l \in 1..Len(s), k < l
      PROVE  Members(s[k]) \cap Members(s[l]) = {}
  <2> SUFFICES ASSUME NEW p \in 1..Len(s[k]), NEW q \in 1..Len(s[l]), s[k][p] = s[l][q]
               PROVE  FALSE
    BY DEF Members
  <2>1. s[k][p] < s[l][q] /\ s[k][p] \in 1..n
    BY <1>2 DEF Partition
  <2>2. QED
    BY <2>1
<1>3. QED
  <2>1. \A k, l \in 1..Len(s) : k # l => k < l \/ l < k
    OBVIOUS
  <2>2. QED
    BY <1>1, <1>2, <2>1

\* One more prompt.
LEMMA PromptShows ==
  ASSUME TextInv, ShownInv, pc = "extract", NEW n \in 1..Len(chunks), n \notin Asked,
         shown' = shown \cup ChosenOf(InChunk(n)), UNCHANGED textVars,
         pc' \notin {"segment", "chunk", "raised"} => Asked' = Asked \cup {n}
  PROVE  ShownInv'
<1> DEFINE S == Members(chunks[n])
           C == ChosenOf(S)
<1>1. /\ segs \in Seq(TextSegment) /\ chunks \in Seq(Seq(Nat)) /\ Partition(chunks, Len(segs))
      /\ Len(segs) \in Nat /\ Budget \in Nat
      /\ segs' = segs /\ chunks' = chunks /\ mode' = mode
  BY ConstantsOK DEF TextInv, textVars
<1>2. /\ \A k \in 1..Len(chunks) : Members(chunks[k]) \subseteq 1..Len(segs)
      /\ \A k, l \in 1..Len(chunks) : k # l => Members(chunks[k]) \cap Members(chunks[l]) = {}
  BY <1>1, ChunksAreParts
<1>3. S \in SUBSET (1..Len(segs)) /\ InChunk(n) = S
  <2>1. DOMAIN chunks[n] = 1..Len(chunks[n])
    BY <1>1
  <2>2. QED
    BY <1>2, <2>1 DEF InChunk, Members
<1>4. C \subseteq S /\ \A i \in S \ C, j \in C : Precedes(i, j) => Block(i) > Block(j)
  BY <1>1, <1>3, LongerYields
<1>5. shown' = shown \cup C
  BY <1>3
<1>6. /\ \A i \in shown : \E k \in Asked : i \in Members(chunks[k])
      /\ \A k \in Asked : Yields(k)
      /\ mode = "agentic" /\ Estimated /\ Titled => \A k \in Asked : Members(chunks[k]) \subseteq shown
      /\ Asked \subseteq 1..Len(chunks)
  BY DEF ShownInv, Asked
<1>7. mode = "agentic" /\ Estimated /\ Titled => C = S
  <2> SUFFICES ASSUME mode = "agentic", Estimated, Titled PROVE C = S
    OBVIOUS
  <2>1. Fits(S)
    BY DEF TextInv
  <2>2. ASSUME NEW i \in S
        PROVE  Block(i) <= Estimate(i)
    <3>1. i \in 1..Len(segs)
      BY <1>3
    <3>2. /\ segs[i].title \in Nat /\ segs[i].size \in Nat /\ Prefix(i) \in Nat
          /\ Prefix(i) + segs[i].title <= Overhead
      BY <1>1, <3>1, BlocksAreNat DEF Titled
    <3>3. QED
      BY <3>2 DEF Block, Estimate, Overhead
  <2>3. QED
    BY <1>1, <1>3, <2>1, <2>2, FittingIsShown
<1> HIDE DEF C, S
<1>8. shown \cap S = {}
  BY <1>2, <1>6 DEF S
<1>9. ASSUME NEW k \in Asked
      PROVE  Members(chunks[k]) \cap C = {}
  BY <1>2, <1>4, <1>6 DEF S
<1>10. SUFFICES ASSUME pc' \notin {"segment", "chunk", "raised"} PROVE ShownInv'
  BY DEF ShownInv
<1>11. Asked' = Asked \cup {n}
  BY <1>10
<1>12. \A i \in shown' : \E k \in Asked' : i \in Members(chunks[k])
  BY <1>4, <1>5, <1>6, <1>11 DEF S
<1>13. ASSUME NEW k \in Asked'
       PROVE  \A i \in Members(chunks[k]) \ shown', j \in Members(chunks[k]) \cap shown' :
                Precedes(i, j) => Block(i) > Block(j)
  <2>1. CASE k \in Asked
    <3>1. Members(chunks[k]) \ shown' = Members(chunks[k]) \ shown
          /\ Members(chunks[k]) \cap shown' = Members(chunks[k]) \cap shown
      BY <1>5, <1>9, <2>1
    <3>2. QED
      BY <1>6, <2>1, <3>1 DEF Yields
  <2>2. CASE k = n
    <3>1. S \ shown' = S \ C /\ S \cap shown' = C
      BY <1>4, <1>5, <1>8
    <3>2. QED
      BY <1>4, <2>2, <3>1 DEF S
  <2>3. QED
    BY <1>11, <2>1, <2>2
<1>14. \A k \in Asked' : Yields(k)'
  <2>1. \A i, j : (Precedes(i, j)' <=> Precedes(i, j)) /\ Block(i)' = Block(i)
    BY <1>1, OrderStays
  <2>2. \A k \in Asked' :
          \A i \in Members(chunks'[k]) \ shown', j \in Members(chunks'[k]) \cap shown' :
            Precedes(i, j)' => Block(i)' > Block(j)'
    BY <1>1, <1>13, <2>1
  <2>3. QED
    BY <2>2, Zenon DEF Yields
<1>15. mode = "agentic" /\ Estimated /\ Titled => \A k \in Asked' : Members(chunks[k]) \subseteq shown'
  BY <1>5, <1>6, <1>7, <1>11 DEF S
<1>16. Estimated' = Estimated /\ Titled' = Titled
  BY <1>1, NeedsStay
<1>17. QED
  BY <1>1, <1>12, <1>14, <1>15, <1>16 DEF ShownInv

LEMMA ShownStays ==
  ASSUME ShownInv, UNCHANGED <<textVars, shown>>, pc \notin {"segment", "chunk", "raised"},
         Asked' = Asked
  PROVE  ShownInv'
<1>1. segs' = segs /\ chunks' = chunks /\ mode' = mode /\ shown' = shown
  BY DEF textVars
<1>2. \A k : Yields(k)' <=> Yields(k)
  BY <1>1, OrderStays DEF Yields
<1>3. Estimated' = Estimated /\ Titled' = Titled
  BY <1>1, NeedsStay
<1>4. QED
  BY <1>1, <1>2, <1>3 DEF ShownInv

LEMMA ShownKept == IInv /\ [Next]_vars => ShownInv'
<1> SUFFICES ASSUME IInv, [Next]_vars PROVE ShownInv'
  OBVIOUS
<1>1. /\ TextInv /\ RunInv /\ ShownInv /\ mode \in {"agentic", "classic"}
      /\ partials \in Seq(Records) /\ Len(partials) \in Nat
  BY DEF IInv, TextInv, RunInv
<1>2. pc \notin {"segment", "chunk"} => chunks \in Seq(Seq(Nat)) /\ Len(chunks) \in Nat \ {0}
  <2>1. pc \notin {"segment", "chunk"} => chunks \in Seq(Seq(Nat)) /\ chunks # << >>
    BY <1>1 DEF TextInv
  <2>2. QED
    BY <2>1
<1>3. CASE Segment
  BY <1>3 DEF Segment, ShownInv
<1>4. CASE Chunk
  <2>1. pc' = "extract" /\ shown' = {} /\ partials' = << >> /\ mode' = mode
    BY <1>1, <1>4 DEF Chunk, RunInv
  <2>2. Asked' = {}
    BY <2>1 DEF Asked
  <2>3. QED
    BY <2>1, <2>2 DEF ShownInv
<1>5. CASE Invoke
  <2>1. /\ pc = "extract" /\ pc' = "calling" /\ mode = "agentic" /\ UNCHANGED <<textVars, partials>>
        /\ shown' = shown \cup ChosenOf(InChunk(Number))
    BY <1>5 DEF Invoke
  <2>2. Number \in 1..Len(chunks) /\ Number = Len(partials) + 1
    BY <1>1, <1>2, <2>1 DEF RunInv, Number
  <2>3. Number \notin Asked
    BY <1>1, <2>1, <2>2 DEF Asked
  <2>4. Asked' = Asked \cup {Number}
    BY <1>1, <2>1, <2>2 DEF Asked, textVars
  <2>5. QED
    BY <1>1, <2>1, <2>2, <2>3, <2>4, PromptShows
<1>6. CASE InvokeReturns
  <2>1. /\ pc = "calling" /\ pc' \in {"merge", "extract"} /\ UNCHANGED <<textVars, shown>>
        /\ mode = "agentic"
    BY <1>1, <1>6 DEF InvokeReturns, RunInv
  <2>2. PICK found \in Outputs : partials' = Append(partials, found)
    BY <1>6 DEF InvokeReturns
  <2>3. Len(partials') = Len(partials) + 1
    BY <1>1, <2>2 DEF Records
  <2>4. Asked' = Asked
    <3>1. \A k \in 1..Len(chunks) : k <= Len(partials') <=> k <= Len(partials) \/ k = Len(partials) + 1
      BY <1>1, <2>3
    <3>2. Asked = {k \in 1..Len(chunks) : k <= Len(partials')}
      BY <2>1, <3>1 DEF Asked
    <3>3. mode' = mode /\ chunks' = chunks /\ pc' # "calling"
      BY <2>1 DEF textVars
    <3>4. Asked' = {k \in 1..Len(chunks) : k <= Len(partials')}
      BY <2>1, <3>3 DEF Asked
    <3>5. QED
      BY <3>2, <3>4
  <2>5. QED
    BY <1>1, <2>1, <2>4, ShownStays
<1>7. CASE InvokeFails \/ InvokeMisfits
  BY <1>7 DEF InvokeFails, InvokeMisfits, ShownInv
<1>8. CASE Complete
  <2>1. /\ pc = "extract" /\ mode = "classic" /\ UNCHANGED textVars
        /\ shown' = ChosenOf(InChunk(1)) /\ pc' \in {"parse", "raised"}
    BY <1>8 DEF Complete
  <2>2. shown = {} /\ Len(chunks) = 1
    BY <1>1, <2>1 DEF RunInv, TextInv
  <2>3. Asked = {} /\ Asked' = {1}
    BY <2>1, <2>2 DEF Asked, textVars
  <2>4. QED
    BY <1>1, <2>1, <2>2, <2>3, PromptShows
<1>9. CASE Parse
  <2>1. /\ pc = "parse" /\ mode = "classic" /\ UNCHANGED <<textVars, shown>>
        /\ pc' \in {"raised", "merge"}
    BY <1>1, <1>9 DEF Parse, RunInv
  <2>2. Asked' = Asked
    BY <2>1 DEF Asked, textVars
  <2>3. QED
    BY <1>1, <2>1, <2>2, ShownStays
<1>10. CASE Merge
  <2>1. /\ pc = "merge" /\ pc' = "done" /\ UNCHANGED <<textVars, shown, partials>>
    BY <1>10 DEF Merge
  <2>2. Asked' = Asked
    BY <2>1 DEF Asked, textVars
  <2>3. QED
    BY <1>1, <2>1, <2>2, ShownStays
<1>11. CASE UNCHANGED vars
  <2>1. UNCHANGED <<textVars, shown, partials, pc>> /\ Asked' = Asked
    BY <1>11 DEF vars, Asked, textVars
  <2>2. CASE pc \notin {"segment", "chunk", "raised"}
    BY <1>1, <2>1, <2>2, ShownStays
  <2>3. CASE pc \in {"segment", "chunk", "raised"}
    BY <2>1, <2>3 DEF ShownInv
  <2>4. QED
    BY <2>2, <2>3
<1>12. QED
  BY <1>3, <1>4, <1>5, <1>6, <1>7, <1>8, <1>9, <1>10, <1>11 DEF Next

LEMMA ResultKept == IInv /\ [Next]_vars => ResultInv'
<1> SUFFICES ASSUME IInv, [Next]_vars PROVE ResultInv'
  OBVIOUS
<1>1. RunInv /\ ResultInv /\ partials \in Seq(Records) /\ Len(partials) \in Nat
  BY DEF IInv, RunInv
<1>2. CASE Merge
  <2>1. pc = "merge" /\ result' = Merged /\ UNCHANGED <<mode, partials>>
    BY <1>2 DEF Merge, textVars
  <2>2. \A k \in 1..Len(partials) : partials[k].scalar \in 0..100
    <3>1. \A r \in Records : r.scalar \in 0..100
      BY ConstantsOK DEF Records, Parsed, Nothing, ScalarOf
    <3>2. \A k \in 1..Len(partials) : partials[k] \in Records
      BY <1>1
    <3>3. QED
      BY <3>1, <3>2
  <2>3. \A k \in 1..Len(partials) : Represents(Merged, partials[k])
    BY <1>1, <2>2, MergedRepresents
  <2>4. mode = "classic" => Merged = partials[1]
    <3>1. mode = "classic" => Len(partials) = 1
      BY <1>1, <2>1 DEF RunInv
    <3>2. QED
      BY <3>1 DEF Merged
  <2>5. QED
    BY <2>1, <2>3, <2>4 DEF ResultInv
<1>3. CASE ~Merge
  <2>1. pc' # "done" \/ UNCHANGED vars
    BY <1>3 DEF Next, Segment, Chunk, Invoke, InvokeReturns, InvokeFails, InvokeMisfits, Complete,
                Parse
  <2>2. QED
    BY <1>1, <2>1 DEF ResultInv, vars, textVars
<1>4. QED
  BY <1>2, <1>3

THEOREM Invariance == Spec => []IInv
<1>1. IInv /\ [Next]_vars => IInv'
  BY TextKept, RunKept, ShownKept, ResultKept, AuditKept DEF IInv
<1>2. QED
  BY InitInv, <1>1, PTL DEF Spec

(***************************************************************************)
(* Theorems                                                                *)
(***************************************************************************)
\* No line of a document is lost, read twice or read out of order on its way
\* through the segments into the chunks.
THEOREM LinesAreReadOnce == Spec => []EveryLineInOneChunk
<1>1. IInv => EveryLineInOneChunk
  <2> SUFFICES ASSUME IInv, chunks # << >> PROVE EveryLineInOneChunk
    BY DEF EveryLineInOneChunk
  <2>1. /\ lines \in Seq(Lines) /\ segs \in Seq(TextSegment) /\ Holds(segs, Len(lines))
        /\ chunks \in Seq(Seq(Nat)) /\ Partition(chunks, Len(segs))
    BY DEF IInv, TextInv
  <2>2. QED
    BY <2>1, LinesHavePlaces
<1>2. QED
  BY Invariance, <1>1, PTL

\* A run that succeeded asked about every chunk.
LEMMA AllAsked ==
  ASSUME IInv, pc = "done"
  PROVE  /\ Asked = 1..Len(chunks) /\ DOMAIN chunks = 1..Len(chunks) /\ Len(chunks) \in Nat
         /\ segs \in Seq(TextSegment) /\ Partition(chunks, Len(segs))
         /\ chunks \in Seq(Seq(Nat)) /\ \A k \in 1..Len(chunks) : InChunk(k) = Members(chunks[k])
<1>1. chunks \in Seq(Seq(Nat)) /\ segs \in Seq(TextSegment) /\ Partition(chunks, Len(segs))
  BY DEF IInv, TextInv
<1>2. mode = "agentic" => Len(partials) = Len(chunks)
  BY DEF IInv, RunInv
<1>3. Asked = 1..Len(chunks)
  BY <1>1, <1>2 DEF Asked, IInv, TextInv
<1>4. \A k \in 1..Len(chunks) : DOMAIN chunks[k] = 1..Len(chunks[k])
  BY <1>1
<1>5. \A k \in 1..Len(chunks) : InChunk(k) = Members(chunks[k])
  BY <1>4 DEF InChunk, Members
<1>6. QED
  BY <1>1, <1>3, <1>5

\* When every segment fits a request and every first line its estimate, the
\* prompts of a run that succeeded have shown the whole document.
THEOREM NothingIsTruncated == Spec => []CoveredWhenEstimated
<1>1. IInv => CoveredWhenEstimated
  <2> SUFFICES ASSUME IInv, pc = "done", mode = "agentic",
                      \A i \in DOMAIN segs :
                        Estimate(i) <= Budget /\ Prefix(i) + segs[i].title <= Overhead
               PROVE  DOMAIN segs = shown
    BY DEF CoveredWhenEstimated, Covered
  <2>1. /\ Asked = 1..Len(chunks) /\ segs \in Seq(TextSegment) /\ chunks \in Seq(Seq(Nat))
        /\ Partition(chunks, Len(segs))
    BY AllAsked
  <2>2. DOMAIN segs = 1..Len(segs) /\ Len(segs) \in Nat
    BY <2>1
  <2>3. Estimated /\ Titled
    BY <2>2 DEF Estimated, Titled
  <2>4. /\ \A i \in shown : \E k \in 1..Len(chunks) : i \in Members(chunks[k])
        /\ \A k \in 1..Len(chunks) : Members(chunks[k]) \subseteq shown
    BY <2>1, <2>3 DEF IInv, ShownInv
  <2>5. \A k \in 1..Len(chunks) : Members(chunks[k]) \subseteq 1..Len(segs)
    BY <2>1, <2>2, ChunksAreParts
  <2>6. \A i \in 1..Len(segs) : \E k \in 1..Len(chunks) : i \in Members(chunks[k])
    BY <2>1 DEF Partition, Members
  <2>7. QED
    BY <2>2, <2>4, <2>5, <2>6
<1>2. QED
  BY Invariance, <1>1, PTL

\* A segment yields to one of a lower priority only if its block is longer.
THEOREM PriorityIsKept == Spec => []LongerYieldsFirst
<1>1. IInv => LongerYieldsFirst
  <2> SUFFICES ASSUME IInv, pc = "done",
                      NEW k \in DOMAIN chunks, NEW i \in InChunk(k) \ shown,
                      NEW j \in InChunk(k) \cap shown, Precedes(i, j)
               PROVE  Block(i) > Block(j)
    BY DEF LongerYieldsFirst
  <2>1. k \in Asked /\ InChunk(k) = Members(chunks[k])
    BY AllAsked
  <2>2. Yields(k)
    BY <2>1 DEF IInv, ShownInv
  <2>3. QED
    BY <2>1, <2>2 DEF Yields
<1>2. QED
  BY Invariance, <1>1, PTL

\* The merged record has what any chunk found.
THEOREM NothingFoundIsLost == Spec => []MergeKeepsAllKeys
<1>1. IInv => MergeKeepsAllKeys
  <2> SUFFICES ASSUME IInv, pc = "done", NEW k \in DOMAIN partials
               PROVE  /\ partials[k].scalar <= result.scalar
                      /\ \A x \in partials[k].items : \E y \in result.items : y[1] = x[1]
                      /\ partials[k].mentions \subseteq result.mentions
                      /\ \A x \in partials[k].routes : \E y \in result.routes : y[1] = x[1]
    BY DEF MergeKeepsAllKeys
  <2>1. k \in 1..Len(partials)
    BY DEF IInv, RunInv
  <2>2. Represents(result, partials[k])
    BY <2>1 DEF IInv, ResultInv
  <2>3. QED
    BY <2>2, Zenon DEF Represents
<1>2. QED
  BY Invariance, <1>1, PTL

\* An answer that came is stored, and what is sound in it survives what is not,
\* unless there is a number for a list, a null for the mentions or a value that
\* no conversion takes.
THEOREM AnswersDegrade == Spec => []OddFieldsDegrade
<1>1. IInv => OddFieldsDegrade
  <2> SUFFICES ASSUME IInv, mode = "classic", answer # << >>, pc \in {"raised", "done"}
               PROVE  OddFieldsDegrade
    BY DEF OddFieldsDegrade
  <2> DEFINE a == answer[1]
  <2>1. /\ pc = "raised" => ParseRaises(a)
        /\ pc = "done" => result = Parsed(a)
    <3>1. pc = "done" => partials = <<Parsed(a)>> /\ result = partials[1]
      BY DEF IInv, RunInv, ResultInv
    <3>2. pc = "raised" => ParseRaises(a)
      BY DEF IInv, RunInv
    <3>3. QED
      BY <3>1, <3>2
  <2> HIDE DEF a
  <2>2. pc = "raised" => \/ a.is = "unreadable" \/ FatalIn(a)
                          \/ "number" \in {a.mentions.is, a.routes.is}
                          \/ a.mentions.is = "null"
    BY <2>1 DEF ParseRaises
  <2>3. ASSUME pc = "done", a.is = "object"
        PROVE  /\ a.scalar.state = "good" => result.scalar = a.scalar.conf
               /\ \A x \in Good(a.items) : <<x[1], x[2]>> \in result.items
               /\ \A x \in Good(a.mentions) : <<x[1], x[2]>> \in result.mentions
               /\ \A x \in Good(a.routes) : <<x[1], x[2]>> \in result.routes
    <3>1. result = [scalar |-> ScalarOf(a.scalar), items |-> Kept(a.items),
                    mentions |-> Kept(a.mentions), routes |-> Kept(a.routes)]
      BY <2>1, <2>3 DEF Parsed
    <3>2. \A v : \A x \in Good(v) : <<x[1], x[2]>> \in Kept(v)
      BY DEF Kept
    <3>3. a.scalar.state = "good" => ScalarOf(a.scalar) = a.scalar.conf
      BY DEF ScalarOf
    <3>4. QED
      BY <3>1, <3>2, <3>3
  <2>4. QED
    BY <2>2, <2>3 DEF OddFieldsDegrade, a
<1>2. QED
  BY Invariance, <1>1, PTL

\* One row was written for every request that ended, those of a run that raised
\* included; each that was committed tells the prompt that was sent and what came
\* of it, and a run that succeeded made one request per chunk.
THEOREM CallsAreLogged == Spec => []EveryCallIsLogged
<1>1. IInv => EveryCallIsLogged
  <2> SUFFICES ASSUME IInv PROVE EveryCallIsLogged
    OBVIOUS
  <2>1. /\ LoggedInv
        /\ pc # "calling" => DOMAIN starts = {}
        /\ pc = "raised" => Len(calls) = Len(partials) + 1
        /\ pc \in {"merge", "done"} => Len(calls) = Len(partials)
    BY DEF IInv, AuditInv
  <2>2. pc \in {"merge", "done"} => Len(partials) = Len(chunks)
    BY DEF IInv, RunInv, TextInv
  <2>3. DOMAIN writes = DOMAIN calls
    BY <2>1 DEF LoggedInv
  <2>4. Logged(calls, writes, audit, Rowed(writes))
    BY <2>1 DEF LoggedInv
  <2>5. QED
    BY <2>1, <2>2, <2>3, <2>4, Zenon DEF EveryCallIsLogged, Logged, Tells, Rowed
<1>2. QED
  BY Invariance, <1>1, PTL
=============================================================================
