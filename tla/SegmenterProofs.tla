-------------------------- MODULE SegmenterProofs --------------------------
(***************************************************************************)
(* Theorems about Segmenter, for any files, any segment length and any     *)
(* number of workers, slots and attempts: the grid is greedy, what reaches *)
(* the muxer abuts, and the segments of a rendition tile it.               *)
(***************************************************************************)
EXTENDS Segmenter, FiniteSetTheorems, SequenceTheorems, WellFoundedInduction, TLAPS

-----------------------------------------------------------------------------
(* Least numbers, in place of induction *)

LEMMA LeastNumber ==
  ASSUME NEW T, T \subseteq Nat, T # {}
  PROVE  \E x \in T : \A y \in T : x <= y
<1>1. PICK R : R = OpToRel(<, Nat)
  OBVIOUS
<1>2. IsWellFoundedOn(R, Nat)
  BY <1>1, NatLessThanWellFounded
<1>3. PICK x \in T : \A y \in T : ~(<<y, x>> \in R)
  BY <1>2, WFMin
<1>4. R = {ss \in Nat \X Nat : ss[1] < ss[2]}
  BY <1>1 DEF OpToRel
<1>5. \A y \in T : <<y, x>> \in Nat \X Nat
  OBVIOUS
<1>6. \A y \in T : ~(y < x)
  BY <1>3, <1>4, <1>5
<1> QED BY <1>6

\* A set that has a and with every number its successor has all up to b.
LEMMA Climb ==
  ASSUME NEW a \in Nat, NEW b \in Nat, NEW G, a \in G,
         \A i \in a..(b - 1) : i \in G => i + 1 \in G
  PROVE  a..b \subseteq G
<1>1. PICK T : T = {i \in a..b : i \notin G}
  OBVIOUS
<1>2. ASSUME T # {}
      PROVE  FALSE
  <2>1. T \subseteq Nat
    BY <1>1
  <2>2. PICK x \in T : \A y \in T : x <= y
    BY <1>2, <2>1, LeastNumber
  <2>3. x \in (a + 1)..b /\ x - 1 \in a..(b - 1)
    BY <1>1, <2>2
  <2>4. x - 1 \notin T
    BY <2>2, <2>3
  <2>5. x - 1 \in G
    BY <1>1, <2>3, <2>4
  <2>6. (x - 1) + 1 \in G
    BY <2>3, <2>5
  <2> QED BY <1>1, <2>3, <2>6
<1> QED BY <1>1, <1>2

-----------------------------------------------------------------------------
(* The copy grid is greedy *)

\* The recursion of Cuts for the first n keyframes.
CutsTo(f, kfs, least, n) ==
  f = [i \in 1..n |->
         IF i = 1 THEN <<kfs[1]>>
         ELSE IF kfs[i] - f[i - 1][Len(f[i - 1])] >= least THEN Append(f[i - 1], kfs[i])
         ELSE f[i - 1]]

LEMMA CutsExist ==
  ASSUME NEW kfs, NEW least, NEW n \in Nat \ {0}
  PROVE  \E f : CutsTo(f, kfs, least, n)
<1>1. PICK G : G = {m \in 1..n : \E f : CutsTo(f, kfs, least, m)}
  OBVIOUS
<1>2. 1 \in G
  <2>1. PICK f : f = [i \in 1..1 |-> <<kfs[1]>>]
    OBVIOUS
  <2>2. CutsTo(f, kfs, least, 1)
    BY <2>1 DEF CutsTo
  <2> QED BY <1>1, <2>2
<1>3. ASSUME NEW m \in 1..(n - 1), m \in G
      PROVE  m + 1 \in G
  <2>1. PICK f : CutsTo(f, kfs, least, m)
    BY <1>1, <1>3
  <2>2. PICK c : c = IF kfs[m + 1] - f[m][Len(f[m])] >= least THEN Append(f[m], kfs[m + 1]) ELSE f[m]
    OBVIOUS
  <2>3. PICK g : g = [i \in 1..(m + 1) |-> IF i = m + 1 THEN c ELSE f[i]]
    OBVIOUS
  <2>4. \A i \in 1..m : g[i] = f[i]
    BY <2>3
  <2>5. \A i \in 1..(m + 1) :
          g[i] = IF i = 1 THEN <<kfs[1]>>
                 ELSE IF kfs[i] - g[i - 1][Len(g[i - 1])] >= least THEN Append(g[i - 1], kfs[i])
                 ELSE g[i - 1]
    <3> SUFFICES ASSUME NEW i \in 1..(m + 1)
                 PROVE  g[i] = IF i = 1 THEN <<kfs[1]>>
                               ELSE IF kfs[i] - g[i - 1][Len(g[i - 1])] >= least
                                    THEN Append(g[i - 1], kfs[i])
                               ELSE g[i - 1]
      OBVIOUS
    <3>1. CASE i = m + 1
      <4>1. g[i] = c /\ i - 1 = m /\ g[m] = f[m] /\ i # 1
        BY <2>3, <2>4, <3>1
      <4> QED BY <2>2, <3>1, <4>1
    <3>2. CASE i # m + 1
      <4>1. i \in 1..m /\ g[i] = f[i] /\ (i # 1 => g[i - 1] = f[i - 1])
        BY <2>4, <3>2
      <4> QED BY <2>1, <4>1 DEF CutsTo
    <3> QED BY <3>1, <3>2
  <2>6. CutsTo(g, kfs, least, m + 1)
    BY <2>3, <2>5 DEF CutsTo
  <2> QED BY <1>1, <2>6
<1>4. 1..n \subseteq G
  BY <1>2, <1>3, Climb
<1> QED BY <1>1, <1>4

\* c cuts the first i keyframes as the property says: at keyframes, at least least apart, and not
\* past one that would do.
GreedyTo(c, kfs, least, i) ==
  /\ c \in Seq(Int) /\ c # <<>> /\ c[1] = kfs[1]
  /\ \A m \in 1..Len(c) : \E k \in 1..i : c[m] = kfs[k]
  /\ \A m \in 1..(Len(c) - 1) :
       /\ c[m + 1] - c[m] >= least
       /\ \A k \in 1..i : kfs[k] >= c[m] + least => c[m + 1] <= kfs[k]
  /\ \A k \in 1..i : kfs[k] < c[Len(c)] + least

LEMMA GreedyStep ==
  ASSUME NEW kfs \in Seq(Int), \A i, k \in DOMAIN kfs : i < k => kfs[i] < kfs[k],
         NEW least \in Nat \ {0}, NEW i \in 1..(Len(kfs) - 1), NEW c, GreedyTo(c, kfs, least, i),
         NEW d, d = IF kfs[i + 1] - c[Len(c)] >= least THEN Append(c, kfs[i + 1]) ELSE c
  PROVE  GreedyTo(d, kfs, least, i + 1)
<1>1. /\ Len(c) \in Nat \ {0} /\ c \in Seq(Int) /\ c[Len(c)] \in Int
      /\ \A m \in 1..Len(c) : c[m] \in Int
  BY DEF GreedyTo
<1>2. /\ kfs[i + 1] \in Int /\ i + 1 \in DOMAIN kfs
      /\ \A k \in 1..i : kfs[k] \in Int /\ kfs[k] < kfs[i + 1]
      /\ \A k \in 1..(i + 1) : k \in 1..i \/ k = i + 1
  OBVIOUS
<1>3. \A m \in 1..Len(c) : c[m] < kfs[i + 1]
  BY <1>1, <1>2 DEF GreedyTo
<1>4. CASE kfs[i + 1] - c[Len(c)] >= least
  <2>1. /\ d \in Seq(Int) /\ Len(d) = Len(c) + 1 /\ d[Len(d)] = kfs[i + 1]
        /\ \A m \in 1..Len(c) : d[m] = c[m]
    BY <1>1, <1>2, <1>4
  <2>2. d # <<>> /\ d[1] = kfs[1]
    <3>1. 1 \in 1..Len(c) /\ Len(d) # 0
      BY <1>1, <2>1
    <3>2. d[1] = c[1]
      BY <2>1, <3>1
    <3>3. c[1] = kfs[1]
      BY DEF GreedyTo
    <3> QED BY <3>1, <3>2, <3>3
  <2>3. \A m \in 1..Len(d) : \E k \in 1..(i + 1) : d[m] = kfs[k]
    <3> SUFFICES ASSUME NEW m \in 1..Len(d)
                 PROVE  \E k \in 1..(i + 1) : d[m] = kfs[k]
      OBVIOUS
    <3>1. CASE m = Len(d)
      BY <2>1, <3>1
    <3>2. CASE m # Len(d)
      <4>1. m \in 1..Len(c) /\ d[m] = c[m]
        BY <1>1, <2>1, <3>2
      <4>2. PICK k \in 1..i : c[m] = kfs[k]
        BY <4>1 DEF GreedyTo
      <4> QED BY <4>1, <4>2
    <3> QED BY <3>1, <3>2
  <2>4. ASSUME NEW m \in 1..(Len(d) - 1)
        PROVE  /\ d[m + 1] - d[m] >= least
               /\ \A k \in 1..(i + 1) : kfs[k] >= d[m] + least => d[m + 1] <= kfs[k]
    <3>1. CASE m = Len(c)
      <4>1. d[m] = c[Len(c)] /\ d[m + 1] = kfs[i + 1]
        BY <1>1, <2>1, <3>1
      <4>2. \A k \in 1..i : kfs[k] < c[Len(c)] + least
        BY DEF GreedyTo
      <4>3. d[m + 1] - d[m] >= least
        BY <1>4, <4>1
      <4>4. ASSUME NEW k \in 1..(i + 1), kfs[k] >= d[m] + least
            PROVE  d[m + 1] <= kfs[k]
        <5>1. ASSUME k \in 1..i
              PROVE  FALSE
          <6>1. PICK y \in Int : y = c[Len(c)]
            BY <1>1
          <6>2. kfs[k] \in Int /\ kfs[k] < y + least
            BY <1>2, <4>2, <5>1, <6>1
          <6>3. kfs[k] >= y + least
            BY <4>1, <4>4, <6>1
          <6> QED BY <6>1, <6>2, <6>3
        <5>2. k = i + 1
          BY <1>2, <5>1
        <5> QED BY <1>2, <4>1, <5>2
      <4> QED BY <4>3, <4>4
    <3>2. CASE m # Len(c)
      <4>1. m \in 1..(Len(c) - 1) /\ m + 1 \in 1..Len(c) /\ d[m] = c[m] /\ d[m + 1] = c[m + 1]
        BY <1>1, <2>1, <3>2
      <4>2. /\ c[m + 1] - c[m] >= least
            /\ \A k \in 1..i : kfs[k] >= c[m] + least => c[m + 1] <= kfs[k]
        BY <4>1 DEF GreedyTo
      <4>3. c[m + 1] <= kfs[i + 1]
        <5>1. c[m + 1] \in Int /\ c[m + 1] < kfs[i + 1]
          BY <1>1, <1>3, <4>1
        <5> QED BY <1>2, <5>1
      <4> QED BY <1>2, <4>1, <4>2, <4>3
    <3> QED BY <3>1, <3>2
  <2>5. \A k \in 1..(i + 1) : kfs[k] < d[Len(d)] + least
    BY <1>2, <2>1
  <2> QED BY <2>1, <2>2, <2>3, <2>4, <2>5 DEF GreedyTo
<1>5. CASE ~(kfs[i + 1] - c[Len(c)] >= least)
  <2>1. d = c
    BY <1>5
  <2>2. kfs[i + 1] < c[Len(c)] + least
    BY <1>1, <1>2, <1>5
  <2>3. ASSUME NEW m \in 1..(Len(c) - 1)
        PROVE  c[m + 1] <= kfs[i + 1]
    <3>1. m + 1 \in 1..Len(c)
      BY <1>1
    <3> QED BY <1>1, <1>2, <1>3, <3>1
  <2>4. \A m \in 1..Len(c) : \E k \in 1..(i + 1) : c[m] = kfs[k]
    <3> SUFFICES ASSUME NEW m \in 1..Len(c)
                 PROVE  \E k \in 1..(i + 1) : c[m] = kfs[k]
      OBVIOUS
    <3>1. PICK k \in 1..i : c[m] = kfs[k]
      BY DEF GreedyTo
    <3> QED BY <3>1
  <2>5. ASSUME NEW m \in 1..(Len(c) - 1), NEW k \in 1..(i + 1), kfs[k] >= c[m] + least
        PROVE  c[m + 1] <= kfs[k]
    BY <1>2, <2>3, <2>5 DEF GreedyTo
  <2>6. \A k \in 1..(i + 1) : kfs[k] < c[Len(c)] + least
    BY <1>2, <2>2 DEF GreedyTo
  <2> QED BY <2>1, <2>4, <2>5, <2>6 DEF GreedyTo
<1> QED BY <1>4, <1>5

LEMMA CutsAreGreedy ==
  ASSUME NEW kfs \in Seq(Int), kfs # <<>>, \A i, k \in DOMAIN kfs : i < k => kfs[i] < kfs[k],
         NEW least \in Nat \ {0}
  PROVE  GreedyTo(Cuts(kfs, least), kfs, least, Len(kfs))
<1>1. Len(kfs) \in Nat \ {0} /\ kfs[1] \in Int
  OBVIOUS
<1>2. PICK f : f = CHOOSE g : CutsTo(g, kfs, least, Len(kfs))
  OBVIOUS
<1>3. CutsTo(f, kfs, least, Len(kfs))
  BY <1>1, <1>2, CutsExist
<1>4. Cuts(kfs, least) = f[Len(kfs)]
  BY <1>2 DEF Cuts, CutsTo
<1>5. PICK G : G = {i \in 1..Len(kfs) : GreedyTo(f[i], kfs, least, i)}
  OBVIOUS
<1>6. 1 \in G
  <2>1. f[1] = <<kfs[1]>>
    BY <1>1, <1>3 DEF CutsTo
  <2>2. PICK c : c = <<kfs[1]>>
    OBVIOUS
  <2>3. c \in Seq(Int) /\ Len(c) = 1 /\ c # <<>> /\ c[1] = kfs[1]
    BY <1>1, <2>2
  <2>4. \A k \in 1..1 : kfs[k] < c[Len(c)] + least
    BY <1>1, <2>3
  <2>5. \A m \in 1..Len(c) : \E k \in 1..1 : c[m] = kfs[k]
    BY <2>3
  <2>6. GreedyTo(c, kfs, least, 1)
    BY <2>3, <2>4, <2>5 DEF GreedyTo
  <2> QED BY <1>1, <1>5, <2>1, <2>2, <2>6
<1>7. ASSUME NEW i \in 1..(Len(kfs) - 1), i \in G
      PROVE  i + 1 \in G
  <2>1. f[i + 1] = IF kfs[i + 1] - f[i][Len(f[i])] >= least THEN Append(f[i], kfs[i + 1]) ELSE f[i]
    <3>1. i + 1 \in 1..Len(kfs) /\ i + 1 # 1 /\ (i + 1) - 1 = i
      BY <1>1
    <3> QED BY <1>3, <3>1 DEF CutsTo
  <2>2. GreedyTo(f[i], kfs, least, i)
    BY <1>5, <1>7
  <2>3. GreedyTo(f[i + 1], kfs, least, i + 1)
    BY <2>1, <2>2, GreedyStep
  <2> QED BY <1>1, <1>5, <2>3
<1>8. 1..Len(kfs) \subseteq G
  BY <1>1, <1>6, <1>7, Climb
<1> QED BY <1>1, <1>4, <1>5, <1>8

-----------------------------------------------------------------------------
(* The grid *)

\* A grid of N segments: its starts increase from zero to before its end, which is not before the
\* file's.
IsGrid(g, N, dur) ==
  /\ N \in Nat \ {0} /\ g.starts \in [0..(N - 1) -> Int] /\ g.starts[0] = 0
  /\ g.end \in Int /\ g.base \in Int /\ g.transcode \in BOOLEAN
  /\ \A n \in 0..(N - 2) : g.starts[n] < g.starts[n + 1]
  /\ g.starts[N - 1] < g.end
  /\ dur <= g.base + g.end

\* It divides the index greedily.
IsGreedy(g, N, index) ==
  \A n \in 0..(N - 1) :
    /\ \E k \in DOMAIN index : g.starts[n] + g.base = index[k]
    /\ n > 0 => g.starts[n] - g.starts[n - 1] >= Target - Eps
    /\ \A k \in DOMAIN index : index[k] >= g.starts[n] + g.base + Target - Eps =>
         n + 1 <= N - 1 /\ g.starts[n + 1] + g.base <= index[k]

LEMMA DivBounds ==
  ASSUME NEW a \in Int, NEW b \in Nat \ {0}
  PROVE  a \div b \in Int /\ (a \div b) * b <= a /\ a < ((a \div b) + 1) * b
  OBVIOUS

LEMMA UniformShape ==
  ASSUME NEW dur \in Nat \ {0}, NEW base \in Int, NEW g, g = uniformSegList(dur, base)
  PROVE  g.transcode = TRUE /\ \E N : IsGrid(g, N, dur)
<1> USE SegmenterAssumption DEF Eps
<1>1. PICK end : end = IF dur - base <= 0 THEN dur ELSE dur - base
  OBVIOUS
<1>2. end \in Nat \ {0} /\ dur <= base + end
  BY <1>1
<1>3. PICK c : c = (end - Eps + Target - 1) \div Target
  OBVIOUS
<1>4. c \in Int /\ c * Target <= end - 1 + Target - 1
  BY <1>2, <1>3, DivBounds
<1>5. PICK N : N = IF c < 1 THEN 1 ELSE c
  OBVIOUS
<1>6. N \in Nat \ {0} /\ N - 1 = IF c < 1 THEN 0 ELSE c - 1
  BY <1>4, <1>5
<1>7. g = [starts |-> [i \in 0..(N - 1) |-> i * Target], end |-> end, base |-> base, transcode |-> TRUE]
  BY <1>1, <1>3, <1>6 DEF uniformSegList
<1>8. /\ \A i \in 0..(N - 1) : i * Target \in Int
      /\ \A i \in 0..(N - 2) : i * Target < (i + 1) * Target
      /\ 0 * Target = 0
  BY <1>6
<1>9. (N - 1) * Target < end
  <2>1. CASE c < 1
    BY <1>2, <1>5, <2>1
  <2>2. CASE c >= 1
    <3>1. N = c /\ (c - 1) * Target = c * Target - Target
      BY <1>4, <1>5, <2>2
    <3> QED BY <1>2, <1>4, <3>1
  <2> QED BY <1>4, <2>1, <2>2
<1>10. /\ g.starts \in [0..(N - 1) -> Int] /\ g.starts[0] = 0 /\ g.starts[N - 1] < g.end
       /\ \A n \in 0..(N - 2) : g.starts[n] < g.starts[n + 1]
  BY <1>6, <1>7, <1>8, <1>9
<1>11. IsGrid(g, N, dur)
  BY <1>2, <1>6, <1>7, <1>10 DEF IsGrid
<1>12. g.transcode = TRUE
  BY <1>7
<1> QED BY <1>11, <1>12

LEMMA CopyShape ==
  ASSUME NEW dur \in Nat \ {0}, NEW index \in Seq(Int), index # <<>>,
         \A i, k \in DOMAIN index : i < k => index[i] < index[k],
         NEW g, g = computeSegList(index, dur)
  PROVE  /\ g.transcode = FALSE /\ g.base = index[1]
         /\ \E N : IsGrid(g, N, dur) /\ IsGreedy(g, N, index)
<1> USE SegmenterAssumption DEF Eps
<1>1. PICK least : least = Target - Eps
  OBVIOUS
<1>2. least \in Nat \ {0}
  BY <1>1
<1>3. PICK c : c = Cuts(index, least)
  OBVIOUS
<1>4. GreedyTo(c, index, least, Len(index))
  BY <1>2, <1>3, CutsAreGreedy
<1>5. PICK base : base = index[1]
  OBVIOUS
<1>6. base \in Int /\ Len(index) \in Nat \ {0} /\ DOMAIN index = 1..Len(index)
  BY <1>5
<1>7. PICK N : N = Len(c)
  OBVIOUS
<1>8. /\ N \in Nat \ {0} /\ c[1] = base /\ \A m \in 1..N : c[m] \in Int
  BY <1>4, <1>5, <1>7 DEF GreedyTo
<1>9. PICK last : last = c[N] - base
  OBVIOUS
<1>10. last \in Int
  BY <1>6, <1>8, <1>9
<1>11. PICK end : end = IF dur - base <= last THEN last + Target ELSE dur - base
  OBVIOUS
<1>12. end \in Int /\ last < end /\ dur <= base + end
  BY <1>6, <1>10, <1>11
<1>13. g = [starts |-> [i \in 0..(N - 1) |-> c[i + 1] - base], end |-> end, base |-> base, transcode |-> FALSE]
  BY <1>1, <1>3, <1>5, <1>7, <1>9, <1>11 DEF computeSegList
<1>14. \A n \in 0..(N - 1) : n + 1 \in 1..N /\ g.starts[n] = c[n + 1] - base /\ c[n + 1] \in Int
  BY <1>8, <1>13
<1>15. g.starts \in [0..(N - 1) -> Int] /\ g.starts[0] = 0 /\ g.starts[N - 1] = last
  BY <1>6, <1>8, <1>9, <1>13, <1>14
<1>16. ASSUME NEW n \in 0..(N - 2)
       PROVE  /\ g.starts[n + 1] - g.starts[n] >= least
              /\ \A k \in DOMAIN index :
                   index[k] >= c[n + 1] + least => c[(n + 1) + 1] <= index[k]
  <2>1. n + 1 \in 1..(N - 1) /\ n \in 0..(N - 1) /\ n + 1 \in 0..(N - 1)
    BY <1>8
  <2>2. c[(n + 1) + 1] - c[n + 1] >= least
    BY <1>4, <1>7, <2>1 DEF GreedyTo
  <2>3. /\ c[n + 1] \in Int /\ c[(n + 1) + 1] \in Int
        /\ g.starts[n] = c[n + 1] - base /\ g.starts[n + 1] = c[(n + 1) + 1] - base
    BY <1>14, <2>1
  <2>4. \A k \in DOMAIN index : index[k] >= c[n + 1] + least => c[(n + 1) + 1] <= index[k]
    BY <1>4, <1>6, <1>7, <2>1 DEF GreedyTo
  <2>5. g.starts[n + 1] - g.starts[n] >= least
    BY <1>2, <1>6, <2>2, <2>3
  <2> QED BY <2>4, <2>5
<1>17. \A n \in 0..(N - 2) : g.starts[n] < g.starts[n + 1]
  <2> SUFFICES ASSUME NEW n \in 0..(N - 2)
               PROVE  g.starts[n] < g.starts[n + 1]
    OBVIOUS
  <2>1. n \in 0..(N - 1) /\ n + 1 \in 0..(N - 1)
    BY <1>8
  <2>2. g.starts[n] \in Int /\ g.starts[n + 1] \in Int
    BY <1>15, <2>1
  <2> QED BY <1>2, <1>16, <2>2
<1>18. IsGrid(g, N, dur)
  <2>1. g.end = end /\ g.base = base /\ g.transcode = FALSE
    BY <1>13
  <2> QED BY <1>6, <1>8, <1>12, <1>15, <1>17, <2>1 DEF IsGrid
<1>19. ASSUME NEW n \in 0..(N - 1)
       PROVE  /\ \E k \in DOMAIN index : g.starts[n] + g.base = index[k]
              /\ n > 0 => g.starts[n] - g.starts[n - 1] >= Target - Eps
              /\ \A k \in DOMAIN index : index[k] >= g.starts[n] + g.base + Target - Eps =>
                   n + 1 <= N - 1 /\ g.starts[n + 1] + g.base <= index[k]
  <2>1. g.base = base /\ g.starts[n] + base = c[n + 1] /\ n + 1 \in 1..N /\ c[n + 1] \in Int
    <3>1. g.starts[n] = c[n + 1] - base /\ c[n + 1] \in Int /\ n + 1 \in 1..N
      BY <1>14
    <3>2. (c[n + 1] - base) + base = c[n + 1]
      BY <1>6, <3>1
    <3> QED BY <1>13, <3>1, <3>2
  <2>2. \E k \in DOMAIN index : g.starts[n] + g.base = index[k]
    BY <1>4, <1>6, <1>7, <2>1 DEF GreedyTo
  <2>3. n > 0 => g.starts[n] - g.starts[n - 1] >= Target - Eps
    <3> HAVE n > 0
    <3>1. n - 1 \in 0..(N - 2) /\ (n - 1) + 1 = n
      BY <1>8
    <3> QED BY <1>1, <1>16, <3>1
  <2>4. ASSUME NEW k \in DOMAIN index, index[k] >= g.starts[n] + g.base + Target - Eps
        PROVE  n + 1 <= N - 1 /\ g.starts[n + 1] + g.base <= index[k]
    <3>1. index[k] \in Int /\ index[k] >= c[n + 1] + least
      BY <1>1, <1>2, <2>1, <2>4
    <3>2. n # N - 1
      <4>1. index[k] < c[N] + least
        BY <1>4, <1>6, <1>7 DEF GreedyTo
      <4>2. c[N] \in Int
        BY <1>8
      <4>3. n = N - 1 => n + 1 = N
        BY <1>8
      <4> QED BY <1>2, <3>1, <4>1, <4>2, <4>3
    <3>3. n \in 0..(N - 2) /\ n + 1 \in 0..(N - 1)
      BY <1>8, <3>2
    <3>4. c[(n + 1) + 1] <= index[k]
      BY <1>16, <3>1, <3>3
    <3>5. g.starts[n + 1] = c[(n + 1) + 1] - base /\ c[(n + 1) + 1] \in Int
      BY <1>14, <3>3
    <3>6. (c[(n + 1) + 1] - base) + base = c[(n + 1) + 1]
      BY <1>6, <3>5
    <3> QED BY <1>8, <2>1, <3>3, <3>4, <3>5, <3>6
  <2> QED BY <2>2, <2>3, <2>4
<1>20. IsGreedy(g, N, index)
  BY <1>19 DEF IsGreedy
<1>21. g.transcode = FALSE /\ g.base = index[1]
  BY <1>5, <1>13
<1> QED BY <1>18, <1>20, <1>21

GridInv == src \in Source /\ grid \in buildSegList(src)

LEMMA GridShape ==
  ASSUME GridInv
  PROVE  \E N : /\ IsGrid(grid, N, src.dur)
                /\ ~grid.transcode => IsGreedy(grid, N, src.index) /\ grid.base = src.index[1]
<1>1. /\ src.dur \in Nat \ {0} /\ src.base \in Int /\ src.index \in Seq(Int) /\ src.index # <<>>
      /\ \A i, k \in DOMAIN src.index : i < k => src.index[i] < src.index[k]
  BY SourceAssumption DEF GridInv, IsSource, IsIndexed
<1>2. CASE grid = uniformSegList(src.dur, 0)
  <2>1. PICK z \in Int : z = 0
    OBVIOUS
  <2>2. grid = uniformSegList(src.dur, z)
    BY <1>2, <2>1
  <2> QED BY <1>1, <2>2, UniformShape
<1>3. CASE grid = uniformSegList(src.dur, src.base)
  BY <1>1, <1>3, UniformShape
<1>4. CASE grid = computeSegList(src.index, src.dur)
  BY <1>1, <1>4, CopyShape
<1> QED BY <1>2, <1>3, <1>4 DEF GridInv, buildSegList, tryIndexSegList

LEMMA SegFacts ==
  ASSUME NEW N, IsGrid(grid, N, src.dur)
  PROVE  /\ Seg = 0..(N - 1) /\ srcStart(0) = grid.base
         /\ \A n \in Seg : /\ srcStart(n) \in Int /\ extinf(n) \in Int /\ extinf(n) > 0
                           /\ n + 1 \in Seg => srcStart(n) + extinf(n) = srcStart(n + 1)
                           /\ n + 1 \notin Seg => n = N - 1 /\ srcStart(n) + extinf(n) = grid.base + grid.end
<1>1. Seg = 0..(N - 1)
  BY DEF IsGrid, Seg
<1>2. srcStart(0) = grid.base
  BY DEF IsGrid, srcStart
<1>3. ASSUME NEW n \in Seg
      PROVE  /\ srcStart(n) \in Int /\ extinf(n) \in Int /\ extinf(n) > 0
             /\ n + 1 \in Seg => srcStart(n) + extinf(n) = srcStart(n + 1)
             /\ n + 1 \notin Seg => n = N - 1 /\ srcStart(n) + extinf(n) = grid.base + grid.end
  <2>1. grid.starts[n] \in Int /\ n \in 0..(N - 1) /\ N \in Nat \ {0} /\ grid.base \in Int /\ grid.end \in Int
    BY <1>1, <1>3 DEF IsGrid
  <2>2. CASE n + 1 \in Seg
    <3>1. n \in 0..(N - 2) /\ grid.starts[n + 1] \in Int /\ grid.starts[n] < grid.starts[n + 1]
      BY <1>1, <2>1, <2>2 DEF IsGrid
    <3> QED BY <2>1, <2>2, <3>1 DEF srcStart, extinf
  <2>3. CASE n + 1 \notin Seg
    <3>1. n = N - 1 /\ grid.starts[n] < grid.end
      BY <1>1, <2>1, <2>3 DEF IsGrid
    <3> QED BY <2>1, <2>3, <3>1 DEF srcStart, extinf
  <2> QED BY <2>2, <2>3
<1> QED BY <1>1, <1>2, <1>3

LEMMA GridInv_Holds == Spec => []GridInv
<1>1. Init => GridInv
  BY DEF Init, GridInv
<1>2. GridInv /\ [Next]_vars => GridInv'
  <2> SUFFICES ASSUME GridInv, [Next]_vars
               PROVE  GridInv'
    OBVIOUS
  <2>1. src' = src /\ grid' = grid
    BY DEF Next, Work, vars, produceSegmentRetry, acquire, Open, ReadEnd, Skip, CopyPacket, feed,
           drainDecoder, Finish, Retry, Fail, ReopenFails, Cancel
  <2> QED BY <2>1 DEF GridInv
<1> QED BY <1>1, <1>2, PTL DEF Spec

\* Every grid a file can be given is greedy: it is cut at keyframes where the video is copied, no
\* sooner than the target length allows and never past a keyframe that would do, and no segment is
\* empty (computeSegList, uniformSegList).
THEOREM GridsAreGreedy == Spec => []GridIsGreedy
<1>1. GridInv => GridIsGreedy
  <2> SUFFICES ASSUME GridInv
               PROVE  GridIsGreedy
    OBVIOUS
  <2>1. PICK N : /\ IsGrid(grid, N, src.dur)
                 /\ ~grid.transcode => IsGreedy(grid, N, src.index)
    BY GridShape
  <2>2. Seg = 0..(N - 1) /\ \A n \in Seg : extinf(n) > 0 /\ srcStart(n) \in Int
    BY <2>1, SegFacts
  <2>3. PICK keys : keys = {src.pkts[i].pts : i \in KeyAt(src)}
    OBVIOUS
  <2>4. keys = {src.index[i] : i \in DOMAIN src.index}
    BY <2>3, SourceAssumption DEF GridInv, IsIndexed
  <2>5. ASSUME ~grid.transcode, NEW n \in Seg
        PROVE  /\ srcStart(n) \in keys
               /\ n > 0 => srcStart(n) - srcStart(n - 1) >= Target - Eps
               /\ \A k \in keys : k >= srcStart(n) + Target - Eps =>
                                  n + 1 \in Seg /\ srcStart(n + 1) <= k
    <3>1. n \in 0..(N - 1) /\ N \in Nat \ {0} /\ grid.base \in Int /\ grid.starts[n] \in Int
      BY <2>1, <2>2 DEF IsGrid
    <3>2. srcStart(n) \in keys
      BY <2>1, <2>4, <2>5, <3>1 DEF IsGreedy, srcStart
    <3>3. n > 0 => srcStart(n) - srcStart(n - 1) >= Target - Eps
      <4> HAVE n > 0
      <4>1. grid.starts[n] - grid.starts[n - 1] >= Target - Eps
        BY <2>1, <2>5, <3>1 DEF IsGreedy
      <4>2. n - 1 \in 0..(N - 1)
        BY <3>1
      <4>3. grid.starts[n - 1] \in Int
        BY <2>1, <4>2 DEF IsGrid
      <4>4. (grid.starts[n] + grid.base) - (grid.starts[n - 1] + grid.base) = grid.starts[n] - grid.starts[n - 1]
        BY <3>1, <4>3
      <4> QED BY <4>1, <4>4 DEF srcStart
    <3>4. ASSUME NEW k \in keys, k >= srcStart(n) + Target - Eps
          PROVE  n + 1 \in Seg /\ srcStart(n + 1) <= k
      <4>1. PICK i \in DOMAIN src.index : k = src.index[i]
        BY <2>4
      <4>2. n + 1 <= N - 1 /\ grid.starts[n + 1] + grid.base <= src.index[i]
        BY <2>1, <2>5, <3>1, <3>4, <4>1 DEF IsGreedy, srcStart
      <4> QED BY <2>2, <3>1, <4>1, <4>2 DEF srcStart
    <3> QED BY <3>2, <3>3, <3>4
  <2> QED BY <2>2, <2>3, <2>5 DEF GridIsGreedy
<1> QED BY <1>1, GridInv_Holds, PTL

-----------------------------------------------------------------------------
(* The inductive invariant *)

\* Of the samples written and the one held, every one is valid and lasts until the next.
Links(out, held) ==
  /\ held = None => out = <<>>
  /\ held # None => held.dts <= held.pts /\ held.dur = 0
  /\ \A k \in DOMAIN out :
       /\ out[k].dur > 0 /\ out[k].dts <= out[k].pts
       /\ out[k].dts + out[k].dur = (IF k = Len(out) THEN held ELSE out[k + 1]).dts

First(out, held) == IF out = <<>> THEN held ELSE out[1]
Ofs(out, held)   == {out[k].of : k \in DOMAIN out} \cup (IF held = None THEN {} ELSE {held.of})

\* The repair does not move a sample that is shown after the first.
Unmoved(first, s) == src.pkts[s.of].pts >= first.pts => s.pts = src.pkts[s.of].pts

\* The dts of the last sample is the packet's own, or has been counted up from the first one's pts.
Tame(r, first, held) ==
  \/ held.dts <= src.pkts[held.of].dts
  \/ held.dts <= first.pts + Cardinality(Stream(src, r) \cap ((first.of + 1)..held.of))

\* A copy begins with an entry of the stream.
CopyOK(r, out, held) ==
  held # None =>
    LET first == First(out, held) IN
    /\ first.of \in Entry(src, r) /\ first.pts = src.pkts[first.of].pts
    /\ held.of \in Stream(src, r) /\ first.of <= held.of
    /\ Tame(r, first, held)
    /\ Unmoved(first, held) /\ \A k \in DOMAIN out : Unmoved(first, out[k])

Copied(r)  == r = "audio" \/ ~grid.transcode
Plain(r)   == Copied(r) \/ src.reorder = 0
From(n)    == SeekFrame(src, startTS(n))
Window(n)  == startTS(n)..(endTS(n) - 1)

\* The packets a production of segment n is to take, of those it meets.
Takes(r, n) ==
  {m \in Stream(src, r) : \/ r = "video" /\ ~grid.transcode
                          \/ src.pkts[m].pts \in Window(n) /\ (r = "audio" \/ m \notin src.untimed)}

Working == {"read", "drain", "flush"}

\* It has taken those that it has met, up to the packet that ends the segment.
TakenOK(j) ==
  /\ From(j.n) <= j.pos
  /\ Ofs(j.out, j.held) = (Takes(j.rend, j.n) \cap (From(j.n)..(j.pos - 1))) \ j.dpb
  /\ \A m \in Stream(src, j.rend) \cap (From(j.n)..(j.pos - 1)) : src.pkts[m].pts < endTS(j.n)
  /\ j.pc = "flush" => Ends(j)
  /\ IF j.pc = "drain" THEN j.dpb = {j.pos - 1} /\ From(j.n) < j.pos ELSE j.dpb = {}
  /\ j.lastPTS # None => \E m \in Stream(src, j.rend) : /\ m < j.pos /\ m \notin j.dpb
                                                        /\ j.lastPTS = src.pkts[m].pts

JobOK(j) ==
  /\ j.n \in Seg /\ j.pos \in 1..(Len(src.pkts) + 1) /\ j.dpb \subseteq Stream(src, j.rend)
  /\ j.held = None => j.last = None
  /\ j.held # None => j.last = j.held.dts
  /\ Links(j.out, j.held)
  /\ j.pc \notin Working => j.held = None /\ j.dpb = {} /\ j.lastPTS = None
  /\ Copied(j.rend) => CopyOK(j.rend, j.out, j.held) /\ j.pc # "drain" /\ (j.fresh => j.held = None)
  /\ Plain(j.rend) /\ j.pc \in Working => TakenOK(j)

\* The packets of segment n: from where the demuxer is positioned to the one that ends it.
Covers(r, n) ==
  {m \in Takes(r, n) : /\ From(n) <= m
                       /\ \A q \in Stream(src, r) \cap (From(n)..m) : src.pkts[q].pts < endTS(n)}

Abuts(s) ==
  \A k \in DOMAIN s : /\ s[k].dur > 0 /\ s[k].pts >= s[k].dts
                      /\ k > 1 => s[k - 1].dts + s[k - 1].dur = s[k].dts

SegmentOK(r, n, s) ==
  /\ s \in Seq(Sample) /\ Abuts(s)
  /\ Copied(r) => \A k \in DOMAIN s : Unmoved(s[1], s[k])
  /\ Plain(r) => {s[k].of : k \in DOMAIN s} = Covers(r, n)

MadeOK == \A r \in Renditions, n \in Seg : made[r][n] # None => SegmentOK(r, n, made[r][n])

SegInv == TypeOK /\ MadeOK /\ \A w \in Worker : JobOK(job[w])

-----------------------------------------------------------------------------
(* The writer *)

LEMMA IdleIsJob == Idle \in Job /\ Idle.pc = "idle" /\ Idle.held = None /\ Idle.last = None /\ Idle.out = <<>>
                   /\ Idle.dpb = {} /\ Idle.lastPTS = None /\ Idle.n = 0 /\ Idle.pos = 1 /\ Idle.rend = "video"
  BY SegmenterAssumption DEF Idle, Job, Pcs, Renditions

\* What write leaves alone.
LEMMA WriteFrame ==
  ASSUME NEW j \in Job, NEW s \in Sample, NEW k, k = write(j, s)
  PROVE  /\ k.pc = j.pc /\ k.rend = j.rend /\ k.n = j.n /\ k.attempt = j.attempt /\ k.pos = j.pos
         /\ k.fresh = j.fresh /\ k.last = j.last /\ k.dpb = j.dpb /\ k.lastPTS = j.lastPTS
         /\ k.held = s
  BY DEF write, Job

LEMMA WriteFirst ==
  ASSUME NEW j \in Job, j.held = None, Links(j.out, j.held), NEW s \in Sample, s.dur = 0, s.dts <= s.pts,
         NEW k, k = write(j, s)
  PROVE  k \in Job /\ k.held = s /\ k.out = <<>> /\ Links(k.out, k.held)
<1>1. j.out = <<>> /\ s # None
  BY SegmenterAssumption DEF Links, Sample
<1>2. k = [j EXCEPT !.held = s]
  BY DEF write
<1>3. k \in Job /\ k.held = s /\ k.out = <<>>
  BY <1>1, <1>2 DEF Job
<1> QED BY <1>1, <1>3 DEF Links

LEMMA WriteNext ==
  ASSUME NEW j \in Job, j.held # None, Links(j.out, j.held), NEW s \in Sample, s.dur = 0, s.dts <= s.pts,
         s.dts > j.held.dts, NEW k, k = write(j, s)
  PROVE  /\ k \in Job /\ k.held = s /\ Links(k.out, k.held)
         /\ Len(k.out) = Len(j.out) + 1 /\ k.out \in Seq(Sample)
         /\ \A i \in 1..Len(j.out) : k.out[i] = j.out[i]
         /\ LET x == k.out[Len(j.out) + 1]
            IN x.pts = j.held.pts /\ x.dts = j.held.dts /\ x.of = j.held.of
<1>1. j.held \in Sample /\ j.out \in Seq(Sample) /\ Len(j.out) \in Nat /\ s # None
  BY SegmenterAssumption DEF Job, Sample
<1>2. PICK d : d = s.dts - j.held.dts
  OBVIOUS
<1>3. d \in Nat \ {0}
  BY <1>1, <1>2 DEF Sample
<1>4. PICK x : x = [j.held EXCEPT !.dur = d]
  OBVIOUS
<1>5. /\ x \in Sample /\ x.pts = j.held.pts /\ x.dts = j.held.dts /\ x.of = j.held.of /\ x.dur = d
  BY <1>1, <1>3, <1>4 DEF Sample
<1>6. k = [j EXCEPT !.held = s, !.out = Append(j.out, x), !.lastDur = d]
  <2>1. k = [j EXCEPT !.held = s, !.out = Append(@, IF d > 0 THEN [j.held EXCEPT !.dur = d] ELSE j.held),
                      !.lastDur = IF d > 0 THEN d ELSE @]
    BY <1>2, Zenon DEF write
  <2>2. d > 0
    BY <1>3
  <2> QED BY <1>4, <2>1, <2>2, Zenon
<1>7. PICK o : o = Append(j.out, x)
  OBVIOUS
<1>8. /\ o \in Seq(Sample) /\ Len(o) = Len(j.out) + 1 /\ o[Len(j.out) + 1] = x
      /\ \A i \in 1..Len(j.out) : o[i] = j.out[i]
  BY <1>1, <1>5, <1>7
<1>9. k \in Job /\ k.held = s /\ k.out = o
  BY <1>3, <1>6, <1>7, <1>8 DEF Job
<1>10. ASSUME NEW i \in DOMAIN o
       PROVE  /\ o[i].dur > 0 /\ o[i].dts <= o[i].pts
              /\ o[i].dts + o[i].dur = (IF i = Len(o) THEN s ELSE o[i + 1]).dts
  <2>1. i \in 1..Len(o)
    BY <1>8, <1>10
  <2>2. CASE i = Len(o)
    <3>1. o[i] = x
      BY <1>8, <2>2
    <3>2. j.held.dts <= j.held.pts /\ j.held.dts \in Int /\ s.dts \in Int
      BY <1>1 DEF Links, Sample
    <3> QED BY <1>2, <1>3, <1>5, <2>2, <3>1, <3>2
  <2>3. CASE i # Len(o)
    <3>1. i \in DOMAIN j.out /\ o[i] = j.out[i]
      BY <1>1, <1>8, <2>1, <2>3
    <3>2. /\ j.out[i].dur > 0 /\ j.out[i].dts <= j.out[i].pts
          /\ j.out[i].dts + j.out[i].dur = (IF i = Len(j.out) THEN j.held ELSE j.out[i + 1]).dts
      BY <3>1 DEF Links
    <3>3. (IF i = Len(j.out) THEN j.held ELSE j.out[i + 1]).dts = o[i + 1].dts
      <4>1. CASE i = Len(j.out)
        BY <1>5, <1>8, <4>1
      <4>2. CASE i # Len(j.out)
        <5>1. i + 1 \in 1..Len(j.out)
          BY <1>1, <3>1, <4>2
        <5> QED BY <1>8, <4>2, <5>1
      <4> QED BY <4>1, <4>2
    <3> QED BY <2>3, <3>1, <3>2, <3>3
  <2> QED BY <2>2, <2>3
<1>11. s.dts <= s.pts /\ s.dur = 0
  OBVIOUS
<1>12. Links(o, s)
  BY <1>1, <1>10, <1>11 DEF Links
<1> QED BY <1>5, <1>8, <1>9, <1>12

LEMMA WriteOfs ==
  ASSUME NEW j \in Job, Links(j.out, j.held), NEW s \in Sample, s.dur = 0, s.dts <= s.pts,
         j.held # None => s.dts > j.held.dts, NEW k, k = write(j, s)
  PROVE  Ofs(k.out, k.held) = Ofs(j.out, j.held) \cup {s.of}
<1>1. s # None
  BY SegmenterAssumption DEF Sample
<1>2. CASE j.held = None
  <2>1. k.held = s /\ k.out = <<>> /\ j.out = <<>>
    BY <1>2, WriteFirst DEF Links
  <2> QED BY <1>1, <1>2, <2>1 DEF Ofs
<1>3. CASE j.held # None
  <2>1. /\ k.held = s /\ Len(k.out) = Len(j.out) + 1 /\ k.out \in Seq(Sample)
        /\ \A i \in 1..Len(j.out) : k.out[i] = j.out[i]
        /\ k.out[Len(j.out) + 1].of = j.held.of
    BY <1>3, WriteNext
  <2>2. j.out \in Seq(Sample) /\ Len(j.out) \in Nat
    BY DEF Job
  <2>3. DOMAIN k.out = 1..(Len(j.out) + 1) /\ DOMAIN j.out = 1..Len(j.out)
    BY <2>1, <2>2
  <2>4. {k.out[i].of : i \in DOMAIN k.out} = {j.out[i].of : i \in DOMAIN j.out} \cup {j.held.of}
    <3>1. ASSUME NEW i \in DOMAIN k.out
          PROVE  k.out[i].of \in {j.out[m].of : m \in DOMAIN j.out} \cup {j.held.of}
      <4>1. CASE i = Len(j.out) + 1
        BY <2>1, <4>1
      <4>2. CASE i # Len(j.out) + 1
        <5>1. i \in DOMAIN j.out /\ k.out[i] = j.out[i]
          BY <2>1, <2>2, <2>3, <4>2
        <5> QED BY <5>1
      <4> QED BY <4>1, <4>2
    <3>2. ASSUME NEW i \in DOMAIN j.out
          PROVE  j.out[i].of \in {k.out[m].of : m \in DOMAIN k.out}
      <4>1. i \in DOMAIN k.out /\ k.out[i] = j.out[i]
        BY <2>1, <2>2, <2>3
      <4> QED BY <4>1
    <3>3. j.held.of \in {k.out[m].of : m \in DOMAIN k.out}
      <4>1. Len(j.out) + 1 \in DOMAIN k.out
        BY <2>2, <2>3
      <4> QED BY <2>1, <4>1
    <3> QED BY <3>1, <3>2, <3>3
  <2> QED BY <1>1, <1>3, <2>1, <2>4 DEF Ofs
<1> QED BY <1>2, <1>3

-----------------------------------------------------------------------------
(* The file *)

LEMMA FileFacts ==
  ASSUME GridInv
  PROVE  /\ Len(src.pkts) \in Nat \ {0} /\ DOMAIN src.pkts = 1..Len(src.pkts)
         /\ \A i \in DOMAIN src.pkts : /\ src.pkts[i].pts \in Int /\ src.pkts[i].dts \in Int
                                       /\ src.pkts[i].st \in Renditions /\ src.pkts[i].dts <= src.pkts[i].pts
         /\ \A r \in Renditions : Stream(src, r) \subseteq DOMAIN src.pkts
         /\ KeyAt(src) \subseteq Stream(src, "video") /\ KeyAt(src) # {}
         /\ src.fps \in Nat \ {0} /\ src.period \in Nat /\ src.reorder \in Nat /\ src.dur \in Nat \ {0}
<1>1. /\ src.pkts \in Seq([st : Renditions, pts : Int, dts : Int, key : BOOLEAN])
      /\ src.fps \in Nat \ {0} /\ src.period \in Nat /\ src.reorder \in Nat /\ src.dur \in Nat \ {0}
      /\ \A i \in DOMAIN src.pkts : src.pkts[i].dts <= src.pkts[i].pts
      /\ src.index \in Seq(Int) /\ src.index # <<>>
      /\ {src.index[i] : i \in DOMAIN src.index} = {src.pkts[i].pts : i \in KeyAt(src)}
  BY SourceAssumption DEF GridInv, IsSource, IsOrdered, IsIndexed
<1>2. DOMAIN src.pkts = 1..Len(src.pkts) /\ Len(src.pkts) \in Nat
  BY <1>1
<1>3. \A i \in DOMAIN src.pkts : src.pkts[i] \in [st : Renditions, pts : Int, dts : Int, key : BOOLEAN]
  BY <1>1, <1>2, ElementOfSeq
<1>4. KeyAt(src) # {}
  <2>1. 1 \in DOMAIN src.index
    BY <1>1
  <2> QED BY <1>1, <2>1
<1>5. KeyAt(src) \subseteq DOMAIN src.pkts
  BY DEF KeyAt, Stream
<1>6. Len(src.pkts) # 0
  BY <1>2, <1>4, <1>5
<1> QED BY <1>1, <1>2, <1>3, <1>4, <1>6 DEF KeyAt, Stream

LEMMA Ticks ==
  ASSUME GridInv, NEW n \in Seg
  PROVE  /\ startTS(n) \in Int /\ srcStart(n) \in Int /\ startTS(n) <= srcStart(n)
         /\ endTS(n) \in Int /\ extinf(n) \in Int
         /\ endTS(n) <= srcStart(n) + extinf(n) /\ srcStart(n) + extinf(n) - 1 <= endTS(n)
<1>1. srcStart(n) \in Int /\ extinf(n) \in Int
  BY GridShape, SegFacts
<1> QED BY <1>1 DEF startTS, endTS

\* A finite set of numbers has a greatest.
LEMMA GreatestNumber ==
  ASSUME NEW b \in Nat, NEW T, T \subseteq 0..b, T # {}
  PROVE  \E x \in T : \A y \in T : y <= x
<1>1. PICK U : U = {b - x : x \in T}
  OBVIOUS
<1>2. U \subseteq Nat /\ U # {}
  <2>1. \A x \in T : b - x \in Nat
    OBVIOUS
  <2> QED BY <1>1, <2>1
<1>3. PICK u \in U : \A v \in U : u <= v
  BY <1>2, LeastNumber
<1>4. PICK x \in T : u = b - x
  BY <1>1
<1>5. ASSUME NEW y \in T
      PROVE  y <= x
  <2>1. b - y \in U
    BY <1>1
  <2>2. x \in 0..b /\ y \in 0..b
    OBVIOUS
  <2> QED BY <1>3, <1>4, <2>1, <2>2
<1> QED BY <1>5

\* Where the demuxer is positioned: at the last keyframe that is not shown after the target, or at
\* the first packet when there is none.
LEMMA SeekFacts ==
  ASSUME GridInv, NEW ts \in Int, NEW from, from = SeekFrame(src, ts)
  PROVE  /\ from \in DOMAIN src.pkts
         /\ \A k \in KeyAt(src) : src.pkts[k].pts <= ts => k <= from
         /\ \/ from \in KeyAt(src) /\ src.pkts[from].pts <= ts
            \/ from = 1 /\ \A k \in KeyAt(src) : src.pkts[k].pts > ts
<1>1. PICK before : before = {i \in KeyAt(src) : src.pkts[i].pts <= ts}
  OBVIOUS
<1>2. from = IF before = {} THEN 1 ELSE CHOOSE i \in before : \A k \in before : k <= i
  BY <1>1 DEF SeekFrame
<1>3. \A k \in KeyAt(src) : k \in DOMAIN src.pkts /\ src.pkts[k].pts \in Int
  BY FileFacts DEF KeyAt, Stream
<1>4. CASE before = {}
  <2>1. from = 1 /\ 1 \in DOMAIN src.pkts
    BY <1>2, <1>4, FileFacts
  <2> QED BY <1>1, <1>3, <1>4, <2>1
<1>5. CASE before # {}
  <2>1. before \subseteq 0..Len(src.pkts)
    BY <1>1, <1>3, FileFacts
  <2>2. Len(src.pkts) \in Nat
    BY FileFacts
  <2>3. \E i \in before : \A k \in before : k <= i
    BY <1>5, <2>1, <2>2, GreatestNumber
  <2>4. from \in before /\ \A k \in before : k <= from
    BY <1>2, <1>5, <2>3
  <2> QED BY <1>1, <1>3, <2>4
<1> QED BY <1>4, <1>5

\* A decoder that holds pictures has one that is shown first.
LEMMA FirstShown ==
  ASSUME NEW b \in Nat, NEW f, \A i \in 1..b : f[i] \in Int, NEW D, D \subseteq 1..b, D # {}
  PROVE  \E i \in D : \A k \in D : f[i] <= f[k]
<1> DEFINE Has(n) == \A E \in SUBSET (1..n) : E # {} => \E i \in E : \A k \in E : f[i] <= f[k]
<1> HIDE DEF Has
<1>1. PICK G : G = {n \in 0..b : Has(n)}
  OBVIOUS
<1>2. 0 \in G
  <2>1. \A E \in SUBSET (1..0) : E = {}
    OBVIOUS
  <2>2. Has(0)
    BY <2>1, Zenon DEF Has
  <2>3. 0 \in 0..b
    OBVIOUS
  <2> QED BY <1>1, <2>2, <2>3
<1>3. ASSUME NEW n \in 0..(b - 1), n \in G
      PROVE  n + 1 \in G
  <2>1. ASSUME NEW E \in SUBSET (1..(n + 1)), E # {}
        PROVE  \E i \in E : \A k \in E : f[i] <= f[k]
    <3>1. PICK F : F = E \ {n + 1}
      OBVIOUS
    <3>2. F \in SUBSET (1..n)
      BY <3>1
    <3>3. \A k \in E : f[k] \in Int
      BY <2>1
    <3>4. CASE F = {}
      <4>1. \A k \in E : k = n + 1
        BY <3>1, <3>4
      <4>2. PICK i \in E : TRUE
        BY <2>1
      <4>3. \A k \in E : k = i /\ f[i] \in Int
        BY <3>3, <4>1
      <4>4. \A k \in E : f[i] <= f[k]
        BY <4>3
      <4> QED BY <4>4
    <3>5. CASE F # {}
      <4>1. PICK i \in F : \A k \in F : f[i] <= f[k]
        BY <1>1, <1>3, <3>2, <3>5 DEF Has
      <4>2. i \in E
        BY <3>1
      <4>3. CASE n + 1 \in E /\ f[n + 1] < f[i]
        <5>1. \A k \in E : f[n + 1] <= f[k]
          BY <3>1, <3>3, <4>1, <4>2, <4>3
        <5> QED BY <4>3, <5>1
      <4>4. CASE ~(n + 1 \in E /\ f[n + 1] < f[i])
        <5>1. \A k \in E : f[i] <= f[k]
          BY <3>1, <3>3, <4>1, <4>2, <4>4
        <5> QED BY <4>2, <5>1
      <4> QED BY <4>3, <4>4
    <3> QED BY <3>4, <3>5
  <2>2. Has(n + 1) /\ n + 1 \in 0..b
    BY <2>1 DEF Has
  <2> QED BY <1>1, <2>2
<1>4. 0..b \subseteq G
  BY <1>2, <1>3, Climb
<1>5. Has(b)
  BY <1>1, <1>4
<1> QED BY <1>5 DEF Has

\* One more packet of a stream.
LEMMA OneMore ==
  ASSUME GridInv, NEW r \in Renditions, NEW a \in Nat, NEW b \in Nat, NEW c \in Stream(src, r), a <= b, b < c
  PROVE  /\ Cardinality(Stream(src, r) \cap ((a + 1)..b)) \in Nat
         /\ Cardinality(Stream(src, r) \cap ((a + 1)..c)) \in Nat
         /\ Cardinality(Stream(src, r) \cap ((a + 1)..b)) + 1 <= Cardinality(Stream(src, r) \cap ((a + 1)..c))
<1>1. PICK A : A = Stream(src, r) \cap ((a + 1)..b)
  OBVIOUS
<1>2. PICK C : C = Stream(src, r) \cap ((a + 1)..c)
  OBVIOUS
<1>3. c \in Nat
  BY FileFacts
<1>4. IsFiniteSet((a + 1)..c)
  BY <1>3, FS_Interval
<1>5. IsFiniteSet(C)
  BY <1>2, <1>4, FS_Subset
<1>6. A \cup {c} \subseteq C /\ c \notin A
  BY <1>1, <1>2, <1>3
<1>7. IsFiniteSet(A) /\ IsFiniteSet(A \cup {c})
  BY <1>5, <1>6, FS_Subset
<1>8. Cardinality(A \cup {c}) = Cardinality(A) + 1
  BY <1>6, <1>7, FS_AddElement
<1>9. Cardinality(A \cup {c}) <= Cardinality(C)
  BY <1>5, <1>6, FS_Subset
<1>10. Cardinality(A) \in Nat /\ Cardinality(C) \in Nat
  BY <1>5, <1>7, FS_CardinalityType
<1> QED BY <1>1, <1>2, <1>8, <1>9, <1>10

-----------------------------------------------------------------------------
(* One step of a production *)

\* The first packet of the stream that a copy meets is an entry.
LEMMA StartsAtEntry ==
  ASSUME GridInv, NEW r \in Renditions, NEW n \in Seg, NEW p \in Stream(src, r), From(n) <= p,
         r = "video" => Stream(src, r) \cap (From(n)..(p - 1)) = {}
  PROVE  p \in Entry(src, r)
<1>1. CASE r = "audio"
  BY <1>1 DEF Entry
<1>2. CASE r = "video"
  <2>1. startTS(n) \in Int
    BY Ticks
  <2>2. /\ From(n) \in DOMAIN src.pkts
        /\ From(n) \in KeyAt(src) \/ From(n) = 1
    BY <2>1, SeekFacts DEF From
  <2>3. From(n) \in Nat /\ p \in Nat /\ \A k \in Stream(src, r) : k \in Nat /\ k >= 1
    BY <2>2, FileFacts
  <2>4. CASE From(n) \in KeyAt(src)
    <3>1. From(n) \in Stream(src, r) /\ src.pkts[From(n)].key
      BY <1>2, <2>4 DEF KeyAt
    <3>2. p = From(n)
      BY <1>2, <2>3, <3>1
    <3> QED BY <3>1, <3>2 DEF Entry
  <2>5. CASE From(n) = 1
    <3>1. ASSUME NEW k \in Stream(src, r)
          PROVE  p <= k
      BY <1>2, <2>3, <2>5
    <3> QED BY <3>1 DEF Entry
  <2> QED BY <2>2, <2>4, <2>5
<1> QED BY <1>1, <1>2 DEF Renditions

\* What the repair makes of a packet.
LEMMA Repaired ==
  ASSUME NEW j, NEW pts \in Int, NEW dts \in Int \cup {None}, j.last \in Int \cup {None},
         dts # None => dts <= pts, NEW t, t = sanitizeCopyDTS(j, pts, dts)
  PROVE  /\ t.dts \in Int /\ t.pts \in Int /\ t.dts <= t.pts
         /\ j.last # None => t.dts > j.last
         /\ t.dts <= pts => t.pts = pts
         /\ \/ dts = None /\ t.dts = pts
            \/ dts # None /\ t.dts = dts
            \/ j.last # None /\ t.dts = j.last + 1
<1>1. PICK d : d = IF dts = None THEN pts ELSE dts
  OBVIOUS
<1>2. d \in Int /\ d <= pts
  BY <1>1
<1>3. PICK e : e = IF j.last # None /\ d <= j.last THEN j.last + 1 ELSE d
  OBVIOUS
<1>4. /\ e \in Int /\ (j.last # None => e > j.last)
      /\ e = d \/ (j.last # None /\ e = j.last + 1)
  BY <1>2, <1>3
<1>5. t = [dts |-> e, pts |-> IF pts < e THEN e ELSE pts]
  BY <1>1, <1>3 DEF sanitizeCopyDTS
<1>6. t.dts = e /\ t.pts = IF pts < e THEN e ELSE pts
  BY <1>5
<1> QED BY <1>1, <1>2, <1>4, <1>6

\* What a packet is placed by is its pts, read or replaced.
LEMMA PtsOf ==
  ASSUME GridInv, NEW j, j.pos \in DOMAIN src.pkts
  PROVE  Pts(j) = src.pkts[j.pos].pts
<1>1. src.pkts[j.pos].pts \in Int /\ None \notin Int
  BY FileFacts, SegmenterAssumption
<1>2. j.pos \in src.unset => src.pkts[j.pos].pts = src.pkts[j.pos].dts
  BY SourceAssumption DEF GridInv, IsTimed
<1> QED BY <1>1, <1>2 DEF Pts, ReadPts, Pkt

\* The packet at hand is before the end of the window.
LEMMA AtHand ==
  ASSUME GridInv, NEW j \in Job, JobOK(j), ~Ends(j)
  PROVE  /\ j.pos \in DOMAIN src.pkts /\ j.pos \in Nat /\ j.pos + 1 \in 1..(Len(src.pkts) + 1)
         /\ src.pkts[j.pos].pts \in Int /\ src.pkts[j.pos].dts \in Int /\ src.pkts[j.pos].dts <= src.pkts[j.pos].pts
         /\ src.pkts[j.pos].st = j.rend => src.pkts[j.pos].pts < endTS(j.n) /\ j.pos \in Stream(src, j.rend)
         /\ Pts(j) = src.pkts[j.pos].pts
<1>1. j.pos \in 1..(Len(src.pkts) + 1) /\ j.n \in Seg
  BY DEF JobOK
<1>2. j.pos <= Len(src.pkts) /\ ~(src.pkts[j.pos].st = j.rend /\ Pts(j) >= endTS(j.n))
  BY DEF Ends, Left, Pkt
<1>3. j.pos \in DOMAIN src.pkts /\ j.pos \in Nat /\ j.pos + 1 \in 1..(Len(src.pkts) + 1)
  BY <1>1, <1>2, FileFacts
<1>6. Pts(j) = src.pkts[j.pos].pts
  BY <1>3, PtsOf
<1>4. src.pkts[j.pos].pts \in Int /\ src.pkts[j.pos].dts \in Int /\ src.pkts[j.pos].dts <= src.pkts[j.pos].pts
  BY <1>3, FileFacts
<1>5. endTS(j.n) \in Int
  BY <1>1, Ticks
<1> QED BY <1>2, <1>3, <1>4, <1>5, <1>6 DEF Stream

\* What is known of the packets met so far holds with the packet at hand.
LEMMA Further ==
  ASSUME GridInv, NEW j \in Job, JobOK(j), j.pc = "read", ~Ends(j), Plain(j.rend), NEW p, p = j.pos
  PROVE  /\ TakenOK(j) /\ From(j.n) \in Nat /\ From(j.n) <= p /\ p \in Nat
         /\ \A m : m \in From(j.n)..((p + 1) - 1) <=> m \in From(j.n)..(p - 1) \/ m = p
         /\ \A m \in Stream(src, j.rend) \cap (From(j.n)..((p + 1) - 1)) : src.pkts[m].pts < endTS(j.n)
         /\ j.lastPTS # None => \E m \in Stream(src, j.rend) : /\ m < p /\ m < p + 1 /\ m \notin j.dpb
                                                              /\ j.lastPTS = src.pkts[m].pts
<1>1. TakenOK(j)
  BY DEF JobOK, Working
<1>2. From(j.n) \in Nat
  <2>1. PICK ts : ts = startTS(j.n)
    OBVIOUS
  <2>2. ts \in Int
    BY <2>1, Ticks DEF JobOK
  <2>3. PICK from : from = SeekFrame(src, ts)
    OBVIOUS
  <2>4. from \in DOMAIN src.pkts
    BY <2>2, <2>3, SeekFacts
  <2>5. From(j.n) = from
    BY <2>1, <2>3 DEF From
  <2> QED BY <2>4, <2>5, FileFacts
<1>3. p \in Nat /\ (src.pkts[p].st = j.rend => src.pkts[p].pts < endTS(j.n))
  BY AtHand
<1>4. From(j.n) <= p
  BY <1>1 DEF TakenOK
<1>5. \A m : m \in From(j.n)..((p + 1) - 1) <=> m \in From(j.n)..(p - 1) \/ m = p
  BY <1>2, <1>3, <1>4
<1>6. ASSUME NEW m \in Stream(src, j.rend) \cap (From(j.n)..((p + 1) - 1))
      PROVE  src.pkts[m].pts < endTS(j.n)
  <2>1. CASE m = p
    BY <1>3, <2>1 DEF Stream
  <2>2. CASE m \in From(j.n)..(p - 1)
    BY <1>1, <2>2 DEF TakenOK
  <2> QED BY <1>5, <2>1, <2>2
<1>7. j.lastPTS # None => \E m \in Stream(src, j.rend) : /\ m < p /\ m < p + 1 /\ m \notin j.dpb
                                                        /\ j.lastPTS = src.pkts[m].pts
  <2> HAVE j.lastPTS # None
  <2>1. PICK m \in Stream(src, j.rend) : m < p /\ m \notin j.dpb /\ j.lastPTS = src.pkts[m].pts
    BY <1>1 DEF TakenOK
  <2>2. m < p + 1
    BY <1>3, <2>1, FileFacts DEF Stream
  <2> QED BY <2>1, <2>2
<1> QED BY <1>1, <1>2, <1>3, <1>4, <1>5, <1>6, <1>7

\* A packet that is read and not taken.
LEMMA SkipKeeps ==
  ASSUME GridInv, NEW j \in Job, JobOK(j), j.pc = "read", ~Ends(j), ~Kept(j),
         NEW k, k = [j EXCEPT !.pos = @ + 1]
  PROVE  k \in Job /\ JobOK(k)
<1>1. PICK p : p = j.pos
  OBVIOUS
<1>2. /\ p \in DOMAIN src.pkts /\ p \in Nat /\ p + 1 \in 1..(Len(src.pkts) + 1)
      /\ src.pkts[p].st = j.rend => src.pkts[p].pts < endTS(j.n)
      /\ Pts(j) = src.pkts[p].pts
  BY <1>1, AtHand
<1>3. /\ k \in Job /\ k.pc = "read" /\ k.rend = j.rend /\ k.n = j.n /\ k.pos = p + 1 /\ k.fresh = j.fresh
      /\ k.last = j.last /\ k.held = j.held /\ k.out = j.out /\ k.dpb = j.dpb /\ k.lastPTS = j.lastPTS
  BY <1>1, <1>2 DEF Job
<1>4. ASSUME Plain(j.rend)
      PROVE  TakenOK(k)
  <2>1. /\ TakenOK(j) /\ From(j.n) \in Nat /\ From(j.n) <= p
        /\ \A m : m \in From(j.n)..((p + 1) - 1) <=> m \in From(j.n)..(p - 1) \/ m = p
        /\ \A m \in Stream(src, j.rend) \cap (From(j.n)..((p + 1) - 1)) : src.pkts[m].pts < endTS(j.n)
        /\ j.lastPTS # None => \E m \in Stream(src, j.rend) : /\ m < p + 1 /\ m \notin j.dpb
                                                             /\ j.lastPTS = src.pkts[m].pts
    BY <1>1, <1>4, Further
  <2>2. p \notin Takes(j.rend, j.n)
    BY <1>1, <1>2 DEF Kept, Pkt, Takes, Stream, Window
  <2>3. Takes(j.rend, j.n) \cap (From(j.n)..((p + 1) - 1)) = Takes(j.rend, j.n) \cap (From(j.n)..(p - 1))
    BY <2>1, <2>2
  <2>4. From(k.n) <= k.pos
    BY <1>2, <1>3, <2>1
  <2>5. Ofs(k.out, k.held) = (Takes(k.rend, k.n) \cap (From(k.n)..(k.pos - 1))) \ k.dpb
    BY <1>1, <1>3, <2>1, <2>3 DEF TakenOK
  <2>6. k.dpb = {} /\ k.pc # "flush" /\ k.pc # "drain"
    BY <1>3, <2>1 DEF TakenOK
  <2> QED BY <1>3, <2>1, <2>4, <2>5, <2>6 DEF TakenOK
<1>5. /\ k.n \in Seg /\ k.pos \in 1..(Len(src.pkts) + 1) /\ k.dpb \subseteq Stream(src, k.rend)
      /\ k.held = None => k.last = None
      /\ k.held # None => k.last = k.held.dts
      /\ Links(k.out, k.held)
      /\ Copied(k.rend) => CopyOK(k.rend, k.out, k.held) /\ k.pc # "drain" /\ (k.fresh => k.held = None)
  BY <1>2, <1>3 DEF JobOK
<1> QED BY <1>3, <1>4, <1>5 DEF JobOK, Working

\* A copied packet.
LEMMA CopyKeeps ==
  ASSUME GridInv, NEW j \in Job, JobOK(j), j.pc = "read", ~Ends(j), Kept(j), ~Transcodes(j),
         NEW dts \in ReadDts(j, Pkt(j)), NEW t, t = sanitizeCopyDTS(j, Pts(j), dts),
         NEW s, s = [pts |-> t.pts, dts |-> t.dts, dur |-> 0, of |-> j.pos],
         NEW k, k = [write(j, s) EXCEPT !.pos = @ + 1, !.fresh = FALSE, !.last = t.dts]
  PROVE  k \in Job /\ JobOK(k)
<1>1. PICK p : p = j.pos
  OBVIOUS
<1>2. PICK pts : pts = src.pkts[p].pts
  OBVIOUS
<1>3. /\ p \in DOMAIN src.pkts /\ p \in Nat /\ p + 1 \in 1..(Len(src.pkts) + 1)
      /\ pts \in Int /\ src.pkts[p].dts \in Int /\ src.pkts[p].dts <= pts
      /\ p \in Stream(src, j.rend) /\ pts < endTS(j.n) /\ Pts(j) = pts
  BY <1>1, <1>2, AtHand DEF Kept, Pkt
<1>4. Copied(j.rend) /\ Plain(j.rend) /\ j.rend \in Renditions
  BY DEF Transcodes, Copied, Plain, Job, Renditions
<1>5. /\ (dts = None /\ j.held = None) \/ (dts \in Int /\ dts <= src.pkts[p].dts)
      /\ dts \in Int \cup {None}
      /\ dts # None => dts <= pts
  <2>1. src.period \in Nat
    BY FileFacts
  <2>2. (dts = None /\ j.fresh) \/ dts = src.pkts[p].dts \/ dts = src.pkts[p].dts - 2 * src.period
    BY <1>1 DEF ReadDts, Pkt
  <2>3. j.fresh => j.held = None
    BY <1>4 DEF JobOK
  <2> QED BY <1>3, <2>1, <2>2, <2>3
<1>6. /\ t.dts \in Int /\ t.pts \in Int /\ t.dts <= t.pts
      /\ j.last # None => t.dts > j.last
      /\ t.dts <= pts => t.pts = pts
      /\ \/ dts = None /\ t.dts = pts
         \/ dts # None /\ t.dts = dts
         \/ j.last # None /\ t.dts = j.last + 1
  <2>1. Pts(j) = pts
    BY <1>3
  <2>2. j.last \in Int \cup {None}
    BY DEF Job
  <2> QED BY <1>3, <1>5, <2>1, <2>2, Repaired
<1>7. s \in Sample /\ s.pts = t.pts /\ s.dts = t.dts /\ s.dur = 0 /\ s.of = p /\ s # None
  BY <1>1, <1>3, <1>6, SegmenterAssumption DEF Sample
<1>8. Links(j.out, j.held) /\ (j.held = None => j.last = None) /\ (j.held # None => j.last = j.held.dts)
  BY DEF JobOK
<1>9. PICK x : x = write(j, s)
  OBVIOUS
<1>10. x \in Job /\ x.held = s /\ Links(x.out, x.held)
  <2>1. CASE j.held = None
    BY <1>6, <1>7, <1>8, <1>9, <2>1, WriteFirst
  <2>2. CASE j.held # None
    <3>1. j.last # None /\ s.dts > j.held.dts
      BY <1>6, <1>7, <1>8, <2>2, SegmenterAssumption DEF Job, Sample
    <3> QED BY <1>6, <1>7, <1>8, <1>9, <2>2, <3>1, WriteNext
  <2> QED BY <2>1, <2>2
<1>11. /\ x.pc = "read" /\ x.rend = j.rend /\ x.n = j.n /\ x.pos = p /\ x.dpb = j.dpb /\ x.lastPTS = j.lastPTS
  BY <1>1, <1>7, <1>9, WriteFrame
<1>12. /\ k \in Job /\ k.pc = "read" /\ k.rend = j.rend /\ k.n = j.n /\ k.pos = p + 1 /\ k.fresh = FALSE
       /\ k.last = t.dts /\ k.held = s /\ k.out = x.out /\ k.dpb = j.dpb /\ k.lastPTS = j.lastPTS
  <2>1. PICK e : e = t.dts
    OBVIOUS
  <2>2. PICK q : q = p + 1
    OBVIOUS
  <2>3. k = [x EXCEPT !.pos = @ + 1, !.fresh = FALSE, !.last = e]
    BY <1>9, <2>1, Zenon
  <2>4. k = [x EXCEPT !.pos = q, !.fresh = FALSE, !.last = e]
    BY <1>11, <2>2, <2>3, Zenon
  <2>5. e \in Int \cup {None} /\ q \in Nat
    BY <1>3, <1>6, <2>1, <2>2
  <2>6. k \in Job
    BY <1>10, <2>4, <2>5 DEF Job
  <2>7. /\ k.pc = x.pc /\ k.rend = x.rend /\ k.n = x.n /\ k.pos = q /\ k.fresh = FALSE
        /\ k.last = e /\ k.held = x.held /\ k.out = x.out /\ k.dpb = x.dpb /\ k.lastPTS = x.lastPTS
    BY <1>10, <2>4 DEF Job
  <2> QED BY <1>10, <1>11, <2>1, <2>2, <2>6, <2>7
<1>13. Ofs(k.out, k.held) = Ofs(j.out, j.held) \cup {p}
  <2>1. j.held # None => s.dts > j.held.dts
    BY <1>6, <1>7, <1>8, SegmenterAssumption DEF Job, Sample
  <2> QED BY <1>6, <1>7, <1>8, <1>9, <1>10, <1>12, <2>1, WriteOfs
<1>14. TakenOK(k)
  <2>1. /\ TakenOK(j) /\ From(j.n) \in Nat /\ From(j.n) <= p
        /\ \A m : m \in From(j.n)..((p + 1) - 1) <=> m \in From(j.n)..(p - 1) \/ m = p
        /\ \A m \in Stream(src, j.rend) \cap (From(j.n)..((p + 1) - 1)) : src.pkts[m].pts < endTS(j.n)
        /\ j.lastPTS # None => \E m \in Stream(src, j.rend) : /\ m < p + 1 /\ m \notin j.dpb
                                                             /\ j.lastPTS = src.pkts[m].pts
    BY <1>1, <1>4, Further
  <2>2. p \in Takes(j.rend, j.n)
    BY <1>1, <1>2, <1>3, <1>4 DEF Kept, Pkt, Takes, Window, Copied, Renditions
  <2>3. k.dpb = {} /\ j.dpb = {}
    BY <1>12, <2>1 DEF TakenOK
  <2>4. Takes(j.rend, j.n) \cap (From(j.n)..((p + 1) - 1)) = (Takes(j.rend, j.n) \cap (From(j.n)..(p - 1))) \cup {p}
    BY <2>1, <2>2
  <2>5. Ofs(k.out, k.held) = (Takes(k.rend, k.n) \cap (From(k.n)..(k.pos - 1))) \ k.dpb
    BY <1>1, <1>12, <1>13, <2>1, <2>3, <2>4 DEF TakenOK
  <2>6. From(k.n) <= k.pos
    BY <1>3, <1>12, <2>1
  <2> QED BY <1>12, <2>1, <2>3, <2>5, <2>6 DEF TakenOK
<1>15. CopyOK(k.rend, k.out, k.held)
  <2>1. CASE j.held = None
    <3>1. k.out = <<>> /\ First(k.out, k.held) = s
      BY <1>6, <1>7, <1>8, <1>9, <1>12, <2>1, WriteFirst DEF First
    <3>2. t.dts <= pts /\ s.pts = pts
      BY <1>3, <1>5, <1>6, <1>7, <1>8, <2>1
    <3>3. p \in Entry(src, j.rend)
      <4>1. TakenOK(j) /\ From(j.n) <= p
        BY <1>1, <1>4, Further
      <4>2. Ofs(j.out, j.held) = {}
        BY <1>8, <2>1 DEF Ofs, Links
      <4>3. j.rend = "video" => Stream(src, j.rend) \cap (From(j.n)..(p - 1)) = {}
        BY <1>1, <1>4, <4>1, <4>2 DEF TakenOK, Takes, Copied
      <4>4. j.n \in Seg
        BY DEF JobOK
      <4> QED BY <1>3, <1>4, <4>1, <4>3, <4>4, StartsAtEntry
    <3>4. Cardinality(Stream(src, j.rend) \cap ((p + 1)..p)) = 0
      <4>1. Stream(src, j.rend) \cap ((p + 1)..p) = {}
        BY <1>3
      <4> QED BY <4>1, FS_EmptySet
    <3>5. Tame(j.rend, s, s)
      <4>1. s.dts <= s.pts + 0
        BY <1>3, <1>6, <1>7, <3>2
      <4>2. s.dts <= s.pts + Cardinality(Stream(src, j.rend) \cap ((s.of + 1)..s.of))
        BY <1>7, <3>4, <4>1
      <4> QED BY <4>2 DEF Tame
    <3>6. Unmoved(s, s)
      BY <1>2, <1>7, <3>2 DEF Unmoved
    <3>7. \A i \in DOMAIN k.out : Unmoved(s, k.out[i])
      BY <3>1
    <3>8. /\ s.of \in Entry(src, j.rend) /\ s.pts = src.pkts[s.of].pts
          /\ s.of \in Stream(src, j.rend) /\ s.of <= s.of
      BY <1>2, <1>3, <1>7, <3>2, <3>3
    <3>9. CopyOK(j.rend, k.out, s)
      BY <1>12, <3>1, <3>5, <3>6, <3>7, <3>8, Zenon DEF CopyOK
    <3> QED BY <1>12, <3>9
  <2>2. CASE j.held # None
    <3>1. PICK f : f = First(j.out, j.held)
      OBVIOUS
    <3>2. /\ f.of \in Entry(src, j.rend) /\ f.pts = src.pkts[f.of].pts
          /\ j.held.of \in Stream(src, j.rend) /\ f.of <= j.held.of
          /\ Tame(j.rend, f, j.held)
          /\ Unmoved(f, j.held) /\ \A i \in DOMAIN j.out : Unmoved(f, j.out[i])
      BY <1>4, <2>2, <3>1 DEF JobOK, CopyOK
    <3>3. j.held \in Sample /\ j.held.dts \in Int /\ j.last = j.held.dts /\ j.last # None
      BY <1>8, <2>2, SegmenterAssumption DEF Job, Sample
    <3>4. /\ k.out \in Seq(Sample) /\ Len(k.out) = Len(j.out) + 1 /\ Len(j.out) \in Nat
          /\ \A i \in 1..Len(j.out) : k.out[i] = j.out[i]
          /\ k.out[Len(j.out) + 1].pts = j.held.pts /\ k.out[Len(j.out) + 1].of = j.held.of
      <4>1. s.dts > j.held.dts
        BY <1>6, <1>7, <3>3
      <4>2. Len(j.out) \in Nat
        BY DEF Job
      <4> QED BY <1>6, <1>7, <1>8, <1>9, <1>12, <2>2, <4>1, <4>2, WriteNext
    <3>5. PICK g : g = First(k.out, k.held)
      OBVIOUS
    <3>6. g.of = f.of /\ g.pts = f.pts
      <4>1. k.out # <<>> /\ g = k.out[1]
        BY <3>4, <3>5 DEF First
      <4>2. CASE j.out = <<>>
        <5>1. Len(j.out) = 0 /\ f = j.held
          BY <3>1, <4>2 DEF First
        <5> QED BY <3>4, <4>1, <5>1
      <4>3. CASE j.out # <<>>
        <5>1. 1 \in 1..Len(j.out) /\ f = j.out[1]
          BY <3>1, <3>4, <4>3 DEF First, Job
        <5> QED BY <3>4, <4>1, <5>1
      <4> QED BY <4>2, <4>3
    <3>7. /\ f.of \in Stream(src, j.rend) /\ f.of \in Nat /\ j.held.of \in Nat /\ j.held.of < p
          /\ f.pts \in Int /\ src.pkts[j.held.of].dts \in Int
      <4>1. f.of \in Stream(src, j.rend)
        BY <3>2 DEF Entry
      <4>2. f.of \in DOMAIN src.pkts /\ j.held.of \in DOMAIN src.pkts
        BY <1>4, <3>2, <4>1, FileFacts
      <4>3. j.held.of \in From(j.n)..(p - 1) /\ From(j.n) \in Nat
        <5>1. TakenOK(j) /\ From(j.n) \in Nat
          BY <1>1, <1>4, Further
        <5>2. j.held.of \in Ofs(j.out, j.held)
          BY <2>2 DEF Ofs
        <5> QED BY <1>1, <5>1, <5>2 DEF TakenOK
      <4>4. f.of \in Nat /\ j.held.of \in Nat
        BY <4>2, FileFacts
      <4>5. j.held.of < p
        BY <1>3, <4>3, <4>4
      <4>6. f.pts \in Int /\ src.pkts[j.held.of].dts \in Int
        BY <3>2, <4>2, FileFacts
      <4> QED BY <4>1, <4>4, <4>5, <4>6
    <3>8. src.pkts[j.held.of].dts < src.pkts[p].dts
      BY <1>3, <1>4, <3>2, <3>7, SourceAssumption DEF GridInv, IsOrdered
    <3>9. PICK c : c = Cardinality(Stream(src, j.rend) \cap ((f.of + 1)..j.held.of))
      OBVIOUS
    <3>10. PICK d : d = Cardinality(Stream(src, j.rend) \cap ((f.of + 1)..p))
      OBVIOUS
    <3>11. c \in Nat /\ d \in Nat /\ c + 1 <= d
      BY <1>3, <1>4, <3>2, <3>7, <3>9, <3>10, OneMore
    <3>12. j.last <= src.pkts[j.held.of].dts \/ j.last <= f.pts + c
      BY <3>2, <3>3, <3>9 DEF Tame
    <3>13. t.dts <= src.pkts[p].dts \/ t.dts <= f.pts + d
      <4>1. PICK u : u = t.dts
        OBVIOUS
      <4>2. PICK v : v = src.pkts[p].dts
        OBVIOUS
      <4>3. PICK z : z = f.pts
        OBVIOUS
      <4>4. u \in Int /\ v \in Int /\ z \in Int /\ j.last \in Int
        BY <1>3, <1>6, <3>3, <3>7, <4>1, <4>2, <4>3
      <4>5. CASE dts # None /\ u = dts
        BY <1>5, <2>2, <4>1, <4>2, <4>5
      <4>6. CASE u = j.last + 1
        <5>1. CASE j.last <= src.pkts[j.held.of].dts
          <6>1. j.last < v
            BY <3>7, <3>8, <4>2, <4>4, <5>1
          <6> QED BY <4>1, <4>2, <4>4, <4>6, <6>1
        <5>2. CASE j.last <= f.pts + c
          <6>1. u <= z + d
            BY <3>11, <4>3, <4>4, <4>6, <5>2
          <6> QED BY <4>1, <4>3, <6>1
        <5> QED BY <3>12, <5>1, <5>2
      <4>7. dts # None
        BY <1>5, <2>2, SegmenterAssumption
      <4> QED BY <1>6, <4>1, <4>5, <4>6, <4>7
    <3>14. Tame(j.rend, g, s)
      BY <1>7, <3>6, <3>10, <3>13 DEF Tame
    <3>15. f.pts <= pts => d <= pts - f.pts
      <4>1. f.of < p
        BY <1>3, <3>2, <3>7
      <4> QED BY <1>2, <1>3, <1>4, <3>2, <3>10, <4>1, SourceAssumption DEF GridInv, IsSparse
    <3>16. Unmoved(g, s)
      <4> SUFFICES ASSUME pts >= f.pts
                   PROVE  t.pts = pts
        BY <1>2, <1>7, <3>6 DEF Unmoved
      <4>1. t.dts <= pts
        BY <1>3, <1>6, <3>7, <3>11, <3>13, <3>15
      <4> QED BY <1>6, <4>1
    <3>17. ASSUME NEW i \in DOMAIN k.out
           PROVE  Unmoved(g, k.out[i])
      <4>1. CASE i = Len(j.out) + 1
        BY <3>2, <3>4, <3>6, <4>1 DEF Unmoved
      <4>2. CASE i # Len(j.out) + 1
        <5>1. i \in DOMAIN j.out /\ k.out[i] = j.out[i]
          <6>1. DOMAIN k.out = 1..(Len(j.out) + 1)
            BY <3>4
          <6>2. j.out \in Seq(Sample)
            BY DEF Job
          <6>3. DOMAIN j.out = 1..Len(j.out)
            BY <6>2
          <6>4. i \in 1..Len(j.out)
            BY <3>4, <4>2, <6>1
          <6> QED BY <3>4, <6>3, <6>4
        <5> QED BY <3>2, <3>6, <5>1 DEF Unmoved
      <4> QED BY <4>1, <4>2
    <3>18. g.of \in Entry(src, j.rend) /\ g.pts = src.pkts[g.of].pts /\ g.of <= p
      BY <1>3, <3>2, <3>6, <3>7
    <3> QED BY <1>3, <1>7, <1>12, <3>5, <3>14, <3>16, <3>17, <3>18 DEF CopyOK
  <2> QED BY <2>1, <2>2
<1>16. /\ k.n \in Seg /\ k.pos \in 1..(Len(src.pkts) + 1) /\ k.dpb \subseteq Stream(src, k.rend)
       /\ k.held # None /\ k.last = k.held.dts
       /\ Links(k.out, k.held)
  BY <1>3, <1>7, <1>10, <1>12 DEF JobOK
<1> QED BY <1>12, <1>14, <1>15, <1>16 DEF JobOK, Working

\* The end of the file or of the segment is reached.
LEMMA EndKeeps ==
  ASSUME GridInv, NEW j \in Job, JobOK(j), j.pc = "read", Ends(j), NEW k, k = [j EXCEPT !.pc = "flush"]
  PROVE  k \in Job /\ JobOK(k)
<1>1. /\ k \in Job /\ k.pc = "flush" /\ k.rend = j.rend /\ k.n = j.n /\ k.pos = j.pos /\ k.fresh = j.fresh
      /\ k.last = j.last /\ k.held = j.held /\ k.out = j.out /\ k.dpb = j.dpb /\ k.lastPTS = j.lastPTS
  BY DEF Job, Pcs
<1>2. Ends(k)
  BY <1>1 DEF Ends, Left, Pkt, Pts, ReadPts
<1>3. Plain(j.rend) => TakenOK(k)
  <2> HAVE Plain(j.rend)
  <2>1. TakenOK(j)
    BY DEF JobOK, Working
  <2>2. /\ From(k.n) <= k.pos
        /\ Ofs(k.out, k.held) = (Takes(k.rend, k.n) \cap (From(k.n)..(k.pos - 1))) \ k.dpb
        /\ \A m \in Stream(src, k.rend) \cap (From(k.n)..(k.pos - 1)) : src.pkts[m].pts < endTS(k.n)
    BY <1>1, <2>1 DEF TakenOK
  <2>3. /\ k.pc # "drain" /\ k.dpb = {}
        /\ k.lastPTS # None => \E m \in Stream(src, k.rend) : /\ m < k.pos /\ m \notin k.dpb
                                                             /\ k.lastPTS = src.pkts[m].pts
    BY <1>1, <2>1 DEF TakenOK
  <2> QED BY <1>2, <2>2, <2>3 DEF TakenOK
<1>4. /\ k.n \in Seg /\ k.pos \in 1..(Len(src.pkts) + 1) /\ k.dpb \subseteq Stream(src, k.rend)
      /\ k.held = None => k.last = None
      /\ k.held # None => k.last = k.held.dts
      /\ Links(k.out, k.held)
      /\ Copied(k.rend) => CopyOK(k.rend, k.out, k.held) /\ k.pc # "drain" /\ (k.fresh => k.held = None)
  BY <1>1 DEF JobOK
<1> QED BY <1>1, <1>3, <1>4 DEF JobOK, Working

\* A packet that goes to the decoder.
LEMMA FeedKeeps ==
  ASSUME GridInv, NEW j \in Job, JobOK(j), j.pc = "read", ~Ends(j), Kept(j), Transcodes(j),
         NEW k, k = [j EXCEPT !.dpb = @ \cup {j.pos}, !.pos = @ + 1,
                              !.pc = IF Cardinality(j.dpb) < src.reorder THEN "read" ELSE "drain"]
  PROVE  k \in Job /\ JobOK(k)
<1>1. PICK p : p = j.pos
  OBVIOUS
<1>2. /\ p \in DOMAIN src.pkts /\ p \in Nat /\ p + 1 \in 1..(Len(src.pkts) + 1)
      /\ p \in Stream(src, j.rend)
  BY <1>1, AtHand DEF Kept, Pkt
<1>3. PICK c \in {"read", "drain"} : c = IF Cardinality(j.dpb) < src.reorder THEN "read" ELSE "drain"
  OBVIOUS
<1>4. /\ k \in Job /\ k.pc = c /\ k.rend = j.rend /\ k.n = j.n /\ k.pos = p + 1 /\ k.fresh = j.fresh
      /\ k.last = j.last /\ k.held = j.held /\ k.out = j.out /\ k.dpb = j.dpb \cup {p} /\ k.lastPTS = j.lastPTS
  <2>1. PICK D : D = j.dpb \cup {p}
    OBVIOUS
  <2>2. PICK q : q = p + 1
    OBVIOUS
  <2>3. k = [j EXCEPT !.dpb = D, !.pos = q, !.pc = c]
    BY <1>1, <1>3, <2>1, <2>2, Zenon
  <2>4. D \in SUBSET Nat /\ q \in Nat /\ c \in Pcs
    BY <1>2, <1>3, <2>1, <2>2 DEF Job, Pcs
  <2>5. k \in Job
    BY <2>3, <2>4 DEF Job
  <2>6. /\ k.pc = c /\ k.rend = j.rend /\ k.n = j.n /\ k.pos = q /\ k.fresh = j.fresh
        /\ k.last = j.last /\ k.held = j.held /\ k.out = j.out /\ k.dpb = D /\ k.lastPTS = j.lastPTS
    BY <2>3 DEF Job
  <2> QED BY <2>1, <2>2, <2>5, <2>6
<1>5. ~Copied(j.rend)
  BY DEF Transcodes, Copied
<1>6. ASSUME Plain(j.rend)
      PROVE  TakenOK(k)
  <2>1. /\ TakenOK(j) /\ From(j.n) \in Nat /\ From(j.n) <= p
        /\ \A m : m \in From(j.n)..((p + 1) - 1) <=> m \in From(j.n)..(p - 1) \/ m = p
        /\ \A m \in Stream(src, j.rend) \cap (From(j.n)..((p + 1) - 1)) : src.pkts[m].pts < endTS(j.n)
        /\ j.lastPTS # None => \E m \in Stream(src, j.rend) : /\ m < p /\ m < p + 1 /\ m \notin j.dpb
                                                             /\ j.lastPTS = src.pkts[m].pts
    BY <1>1, <1>6, Further
  <2>2. j.dpb = {}
    BY <2>1 DEF TakenOK
  <2>3. c = "drain"
    <3>1. src.reorder = 0 /\ Cardinality(j.dpb) = 0
      BY <1>5, <1>6, <2>2, FS_EmptySet DEF Plain
    <3> QED BY <1>3, <3>1
  <2>4. k.dpb = {p} /\ (p + 1) - 1 = p /\ From(j.n) < p + 1
    <3>1. k.dpb = {p}
      BY <1>4, <2>2
    <3>2. p \in Nat /\ From(j.n) \in Nat /\ From(j.n) <= p
      BY <1>2, <2>1
    <3> QED BY <3>1, <3>2
  <2>5. p \notin From(j.n)..(p - 1)
    BY <1>2, <2>1
  <2>6. (Takes(j.rend, j.n) \cap (From(j.n)..((p + 1) - 1))) \ {p} = Takes(j.rend, j.n) \cap (From(j.n)..(p - 1))
    BY <2>1, <2>5
  <2>7. Ofs(k.out, k.held) = (Takes(k.rend, k.n) \cap (From(k.n)..(k.pos - 1))) \ k.dpb
    BY <1>1, <1>4, <2>1, <2>2, <2>4, <2>6 DEF TakenOK
  <2>8. ASSUME k.lastPTS # None
        PROVE  \E m \in Stream(src, k.rend) : /\ m < k.pos /\ m \notin k.dpb /\ k.lastPTS = src.pkts[m].pts
    <3>1. PICK m \in Stream(src, j.rend) : m < p /\ m < p + 1 /\ j.lastPTS = src.pkts[m].pts
      BY <1>4, <2>1, <2>8
    <3>2. m # p
      BY <1>2, <3>1
    <3> QED BY <1>4, <2>4, <3>1, <3>2
  <2>9. /\ From(k.n) <= k.pos /\ From(k.n) < k.pos /\ k.dpb = {k.pos - 1} /\ k.pc = "drain"
        /\ \A m \in Stream(src, k.rend) \cap (From(k.n)..(k.pos - 1)) : src.pkts[m].pts < endTS(k.n)
    BY <1>2, <1>4, <2>1, <2>3, <2>4
  <2> QED BY <2>7, <2>8, <2>9 DEF TakenOK
<1>7. /\ k.n \in Seg /\ k.pos \in 1..(Len(src.pkts) + 1) /\ k.dpb \subseteq Stream(src, k.rend)
      /\ k.held = None => k.last = None
      /\ k.held # None => k.last = k.held.dts
      /\ Links(k.out, k.held)
  BY <1>2, <1>4 DEF JobOK
<1> QED BY <1>3, <1>4, <1>5, <1>6, <1>7 DEF JobOK, Working

\* A job that has nothing in hand.
LEMMA FreshOK ==
  ASSUME NEW k \in Job, k.n \in Seg, k.pos \in 1..(Len(src.pkts) + 1), k.pc \notin Working,
         k.held = None, k.last = None, k.out = <<>>, k.dpb = {}, k.lastPTS = None
  PROVE  JobOK(k)
<1>1. Links(k.out, k.held)
  BY DEF Links
<1>2. CopyOK(k.rend, k.out, k.held)
  BY DEF CopyOK
<1> QED BY <1>1, <1>2 DEF JobOK, Working

\* The demuxer is positioned.
LEMMA OpenKeeps ==
  ASSUME GridInv, NEW j \in Job, JobOK(j), j.pc = "open",
         NEW k, k = [j EXCEPT !.pc = "read", !.pos = SeekFrame(src, startTS(j.n))]
  PROVE  k \in Job /\ JobOK(k)
<1>1. PICK p : p = From(j.n)
  OBVIOUS
<1>2. p \in DOMAIN src.pkts
  <2>1. PICK ts : ts = startTS(j.n)
    OBVIOUS
  <2>2. ts \in Int
    BY <2>1, Ticks DEF JobOK
  <2>3. p = SeekFrame(src, ts)
    BY <1>1, <2>1 DEF From
  <2> QED BY <2>2, <2>3, SeekFacts
<1>3. p \in Nat /\ p \in 1..(Len(src.pkts) + 1)
  BY <1>2, FileFacts
<1>4. k = [j EXCEPT !.pc = "read", !.pos = p]
  BY <1>1 DEF From
<1>5. /\ k \in Job /\ k.pc = "read" /\ k.rend = j.rend /\ k.n = j.n /\ k.pos = p /\ k.fresh = j.fresh
      /\ k.last = j.last /\ k.held = j.held /\ k.out = j.out /\ k.dpb = j.dpb /\ k.lastPTS = j.lastPTS
  BY <1>3, <1>4 DEF Job, Pcs
<1>6. /\ j.held = None /\ j.last = None /\ j.out = <<>> /\ j.dpb = {} /\ j.lastPTS = None /\ j.n \in Seg
  BY DEF JobOK, Working, Links
<1>7. TakenOK(k)
  <2>1. p..(p - 1) = {} /\ p <= p
    BY <1>3
  <2>2. Ofs(k.out, k.held) = {}
    BY <1>5, <1>6 DEF Ofs
  <2>3. From(k.n) = p
    BY <1>1, <1>5
  <2> QED BY <1>5, <1>6, <2>1, <2>2, <2>3 DEF TakenOK
<1>8. Links(k.out, k.held) /\ CopyOK(k.rend, k.out, k.held)
  BY <1>5, <1>6 DEF Links, CopyOK
<1> QED BY <1>3, <1>5, <1>6, <1>7, <1>8 DEF JobOK, Working

\* A picture that is encoded.
LEMMA EncodeKeeps ==
  ASSUME GridInv, NEW j \in Job, JobOK(j), NEW i \in DOMAIN src.pkts, NEW k, k = encode(j, i)
  PROVE  /\ k \in Job /\ k.pc = j.pc /\ k.rend = j.rend /\ k.n = j.n /\ k.pos = j.pos /\ k.dpb = j.dpb
         /\ k.held # None /\ k.last = k.held.dts /\ k.lastPTS = src.pkts[i].pts
         /\ Links(k.out, k.held) /\ Ofs(k.out, k.held) = Ofs(j.out, j.held) \cup {i}
<1>1. PICK pts : pts = src.pkts[i].pts
  OBVIOUS
<1>2. pts \in Int /\ i \in Nat
  BY <1>1, FileFacts
<1>3. PICK out : out = Rescale(pts)
  OBVIOUS
<1>4. out \in Int
  <2>1. src.fps \in Nat \ {0}
    BY FileFacts
  <2>2. PICK a : a = 2 * pts + src.fps
    OBVIOUS
  <2>3. PICK b : b = 2 * src.fps
    OBVIOUS
  <2>4. a \in Int /\ b \in Nat \ {0}
    BY <1>2, <2>1, <2>2, <2>3
  <2>5. a \div b \in Int
    BY <2>4
  <2>6. out = (a \div b) * src.fps
    BY <1>3, <2>2, <2>3 DEF Rescale
  <2> QED BY <2>1, <2>5, <2>6
<1>5. PICK dts : dts = IF j.last # None /\ out <= j.last THEN j.last + 1 ELSE out
  OBVIOUS
<1>6. dts \in Int /\ (j.last # None => dts > j.last)
  <2>1. j.last \in Int \cup {None}
    BY DEF Job
  <2> QED BY <1>4, <1>5, <2>1
<1>7. PICK s : s = [pts |-> dts, dts |-> dts, dur |-> 0, of |-> i]
  OBVIOUS
<1>8. s \in Sample /\ s.pts = dts /\ s.dts = dts /\ s.dur = 0 /\ s.of = i /\ s # None /\ s.dts <= s.pts
  BY <1>2, <1>6, <1>7, SegmenterAssumption DEF Sample
<1>9. PICK x : x = write(j, s)
  OBVIOUS
<1>10. k = [x EXCEPT !.last = dts, !.lastPTS = pts]
  <2>1. k = [write(j, [pts |-> dts, dts |-> dts, dur |-> 0, of |-> i]) EXCEPT !.last = dts, !.lastPTS = pts]
    BY <1>1, <1>3, <1>5, Zenon DEF encode
  <2> QED BY <1>7, <1>9, <2>1, Zenon
<1>11. Links(j.out, j.held) /\ (j.held # None => s.dts > j.held.dts)
  <2>1. Links(j.out, j.held) /\ (j.held # None => j.last = j.held.dts)
    BY DEF JobOK
  <2>2. j.held # None => j.held.dts \in Int
    BY DEF Job, Sample
  <2> QED BY <1>6, <1>8, <2>1, <2>2, SegmenterAssumption
<1>12. x \in Job /\ Links(x.out, x.held)
  <2>1. CASE j.held = None
    BY <1>8, <1>9, <1>11, <2>1, WriteFirst
  <2>2. CASE j.held # None
    BY <1>8, <1>9, <1>11, <2>2, WriteNext
  <2> QED BY <2>1, <2>2
<1>13. /\ x.pc = j.pc /\ x.rend = j.rend /\ x.n = j.n /\ x.pos = j.pos /\ x.dpb = j.dpb /\ x.held = s
  BY <1>8, <1>9, WriteFrame
<1>14. k \in Job
  BY <1>2, <1>6, <1>10, <1>12 DEF Job
<1>15. /\ k.pc = x.pc /\ k.rend = x.rend /\ k.n = x.n /\ k.pos = x.pos /\ k.dpb = x.dpb
       /\ k.held = x.held /\ k.out = x.out /\ k.last = dts /\ k.lastPTS = pts
  BY <1>10, <1>12 DEF Job
<1>16. Ofs(x.out, x.held) = Ofs(j.out, j.held) \cup {i}
  BY <1>8, <1>9, <1>11, WriteOfs
<1> QED BY <1>1, <1>8, <1>12, <1>13, <1>14, <1>15, <1>16

\* The next picture is one that the decoder holds.
LEMMA PictureHeld ==
  ASSUME GridInv, NEW j \in Job, JobOK(j), j.dpb # {}
  PROVE  Picture(j) \in j.dpb /\ Picture(j) \in DOMAIN src.pkts
<1>1. PICK b : b = Len(src.pkts)
  OBVIOUS
<1>2. b \in Nat /\ DOMAIN src.pkts = 1..b
  BY <1>1, FileFacts
<1>3. PICK f : f = [i \in 1..b |-> src.pkts[i].pts]
  OBVIOUS
<1>4. \A i \in 1..b : f[i] = src.pkts[i].pts /\ f[i] \in Int
  BY <1>2, <1>3, FileFacts
<1>5. j.dpb \subseteq 1..b
  <2>1. j.rend \in Renditions /\ j.dpb \subseteq Stream(src, j.rend)
    BY DEF Job, JobOK
  <2> QED BY <1>2, <2>1 DEF Stream
<1>6. \E i \in j.dpb : \A k \in j.dpb : f[i] <= f[k]
  BY <1>2, <1>4, <1>5, FirstShown
<1>7. \E i \in j.dpb : \A k \in j.dpb : src.pkts[i].pts <= src.pkts[k].pts
  BY <1>4, <1>5, <1>6
<1>8. Picture(j) \in j.dpb
  BY <1>7 DEF Picture
<1> QED BY <1>2, <1>5, <1>8

\* A picture that the decoder gives.
LEMMA DrainKeeps ==
  ASSUME GridInv, NEW j \in Job, JobOK(j), j.pc \in {"drain", "flush"}, j.dpb # {}, NEW i, i = Picture(j),
         NEW k, k = [(IF Placed(j, i) THEN encode(j, i) ELSE j)
                       EXCEPT !.dpb = @ \ {i}, !.pc = IF @ = "drain" THEN "read" ELSE @]
  PROVE  k \in Job /\ JobOK(k)
<1>1. i \in j.dpb /\ i \in DOMAIN src.pkts
  BY PictureHeld
<1>2. PICK x : x = IF Placed(j, i) THEN encode(j, i) ELSE j
  OBVIOUS
<1>3. /\ x \in Job /\ x.pc = j.pc /\ x.rend = j.rend /\ x.n = j.n /\ x.pos = j.pos /\ x.dpb = j.dpb
      /\ x.held = None => x.last = None
      /\ x.held # None => x.last = x.held.dts
      /\ Links(x.out, x.held)
  <2>1. CASE x = encode(j, i)
    BY <1>1, <2>1, EncodeKeeps
  <2>2. CASE x = j
    BY <2>2 DEF JobOK
  <2> QED BY <1>2, <2>1, <2>2
<1>4. PICK c : c = IF j.pc = "drain" THEN "read" ELSE j.pc
  OBVIOUS
<1>5. /\ k \in Job /\ k.pc = c /\ k.rend = j.rend /\ k.n = j.n /\ k.pos = j.pos /\ k.dpb = j.dpb \ {i}
      /\ k.held = x.held /\ k.last = x.last /\ k.out = x.out /\ k.lastPTS = x.lastPTS
  <2>1. PICK D : D = j.dpb \ {i}
    OBVIOUS
  <2>2. k = [x EXCEPT !.dpb = @ \ {i}, !.pc = IF @ = "drain" THEN "read" ELSE @]
    BY <1>2, Zenon
  <2>3. k = [x EXCEPT !.dpb = D, !.pc = c]
    BY <1>3, <1>4, <2>1, <2>2, Zenon
  <2>4. D \in SUBSET Nat /\ c \in Pcs
    BY <1>4, <2>1 DEF Job, Pcs
  <2>5. k \in Job
    BY <1>3, <2>3, <2>4 DEF Job
  <2>6. /\ k.pc = c /\ k.rend = x.rend /\ k.n = x.n /\ k.pos = x.pos /\ k.dpb = D
        /\ k.held = x.held /\ k.last = x.last /\ k.out = x.out /\ k.lastPTS = x.lastPTS
    BY <1>3, <2>3 DEF Job
  <2> QED BY <1>3, <2>1, <2>5, <2>6
<1>6. Plain(j.rend) => TakenOK(j)
  BY DEF JobOK, Working
<1>7. ~Copied(j.rend)
  <2> SUFFICES ASSUME Copied(j.rend)
               PROVE  FALSE
    OBVIOUS
  <2>1. Plain(j.rend) /\ j.pc # "drain"
    BY DEF Plain, JobOK
  <2> QED BY <1>6, <2>1 DEF TakenOK
<1>8. ASSUME Plain(j.rend)
      PROVE  TakenOK(k)
  <2>1. TakenOK(j) /\ src.reorder = 0
    BY <1>6, <1>7, <1>8 DEF Plain
  <2>2. j.pc = "drain" /\ j.dpb = {i} /\ i = j.pos - 1 /\ c = "read"
    BY <1>1, <1>4, <2>1 DEF TakenOK
  <2>3. PICK from : from = From(j.n)
    OBVIOUS
  <2>4. from \in Nat /\ from < j.pos /\ j.pos \in Nat /\ i \in from..(j.pos - 1)
    <3>1. PICK ts : ts = startTS(j.n)
      OBVIOUS
    <3>2. ts \in Int
      BY <3>1, Ticks DEF JobOK
    <3>3. from = SeekFrame(src, ts)
      BY <2>3, <3>1 DEF From
    <3>4. from \in DOMAIN src.pkts
      BY <3>2, <3>3, SeekFacts
    <3>5. from < j.pos
      BY <2>1, <2>2, <2>3 DEF TakenOK
    <3>6. j.pos \in Nat /\ from \in Nat
      BY <3>4, FileFacts DEF Job
    <3> QED BY <2>2, <3>5, <3>6
  <2>5. i \in Stream(src, j.rend) /\ j.rend \in Renditions
    BY <1>1 DEF JobOK, Job
  <2>6. Placed(j, i) <=> i \in Takes(j.rend, j.n)
    <3>1. i \in Takes(j.rend, j.n) <=> src.pkts[i].pts \in Window(j.n) /\ i \notin src.untimed
      BY <1>7, <2>5 DEF Takes, Copied
    <3>2. ASSUME j.lastPTS # None
          PROVE  src.pkts[i].pts > j.lastPTS
      <4>1. PICK m \in Stream(src, j.rend) : m < j.pos /\ m \notin j.dpb /\ j.lastPTS = src.pkts[m].pts
        BY <2>1, <3>2 DEF TakenOK
      <4>2. m \in DOMAIN src.pkts
        BY <2>5, FileFacts
      <4>3. m \in Nat
        BY <4>2, FileFacts
      <4>4. m # i
        BY <2>2, <4>1
      <4>5. m < i
        BY <2>2, <2>4, <4>1, <4>3, <4>4
      <4>6. src.pkts[m].pts < src.pkts[i].pts
        BY <2>1, <2>5, <4>5, SourceAssumption DEF GridInv, IsOrdered
      <4>7. src.pkts[m].pts \in Int /\ src.pkts[i].pts \in Int
        BY <1>1, <4>2, FileFacts
      <4> QED BY <4>1, <4>6, <4>7
    <3> QED BY <3>1, <3>2 DEF Placed, Window
  <2>7. Ofs(j.out, j.held) = (Takes(j.rend, j.n) \cap (from..(j.pos - 1))) \ {i}
    BY <2>1, <2>2, <2>3 DEF TakenOK
  <2>8. Ofs(k.out, k.held) = Takes(j.rend, j.n) \cap (from..(j.pos - 1))
    <3>1. CASE Placed(j, i)
      <4>1. Ofs(k.out, k.held) = Ofs(j.out, j.held) \cup {i}
        BY <1>1, <1>2, <1>5, <3>1, EncodeKeeps
      <4> QED BY <2>4, <2>6, <2>7, <3>1, <4>1
    <3>2. CASE ~Placed(j, i)
      <4>1. Ofs(k.out, k.held) = Ofs(j.out, j.held)
        BY <1>2, <1>5, <3>2
      <4> QED BY <2>6, <2>7, <3>2, <4>1
    <3> QED BY <3>1, <3>2
  <2>9. k.dpb = {} /\ k.pc = "read"
    BY <1>5, <2>2
  <2>10. ASSUME k.lastPTS # None
         PROVE  \E m \in Stream(src, j.rend) : m < j.pos /\ k.lastPTS = src.pkts[m].pts
    <3>1. CASE Placed(j, i)
      <4>1. k.lastPTS = src.pkts[i].pts
        BY <1>1, <1>2, <1>5, <3>1, EncodeKeeps
      <4>2. i < j.pos
        BY <2>4
      <4> QED BY <2>5, <4>1, <4>2
    <3>2. CASE ~Placed(j, i)
      <4>1. k.lastPTS = j.lastPTS
        BY <1>2, <1>5, <3>2
      <4> QED BY <2>1, <2>10, <4>1 DEF TakenOK
    <3> QED BY <3>1, <3>2
  <2>11. /\ from <= j.pos
         /\ \A m \in Stream(src, j.rend) \cap (from..(j.pos - 1)) : src.pkts[m].pts < endTS(j.n)
    BY <2>1, <2>3 DEF TakenOK
  <2> QED BY <1>5, <2>3, <2>8, <2>9, <2>10, <2>11 DEF TakenOK
<1>9. /\ k.n \in Seg /\ k.pos \in 1..(Len(src.pkts) + 1) /\ k.dpb \subseteq Stream(src, k.rend)
      /\ k.held = None => k.last = None
      /\ k.held # None => k.last = k.held.dts
      /\ Links(k.out, k.held)
  BY <1>3, <1>5 DEF JobOK
<1>10. k.pc \in Working
  BY <1>4, <1>5 DEF Working
<1> QED BY <1>5, <1>7, <1>8, <1>9, <1>10 DEF JobOK

\* A finished segment holds what its window covers.
LEMMA FinishMakes ==
  ASSUME GridInv, NEW j \in Job, JobOK(j), j.pc = "flush", j.dpb = {}, NEW s, s = finish(j)
  PROVE  s \in Seq(Sample) /\ SegmentOK(j.rend, j.n, s)
<1>1. /\ Links(j.out, j.held) /\ j.out \in Seq(Sample) /\ Len(j.out) \in Nat /\ DOMAIN j.out = 1..Len(j.out)
      /\ j.rend \in Renditions
  <2>1. Links(j.out, j.held) /\ j.out \in Seq(Sample) /\ j.rend \in Renditions
    BY DEF JobOK, Job
  <2> QED BY <2>1
<1>2. Plain(j.rend) => Ofs(j.out, j.held) = Covers(j.rend, j.n)
  <2> HAVE Plain(j.rend)
  <2>1. TakenOK(j) /\ j.n \in Seg
    BY DEF JobOK, Working
  <2>2. PICK from : from = From(j.n)
    OBVIOUS
  <2>3. from \in Nat
    <3>1. PICK ts : ts = startTS(j.n)
      OBVIOUS
    <3>2. ts \in Int
      BY <2>1, <3>1, Ticks
    <3>3. from = SeekFrame(src, ts)
      BY <2>2, <3>1 DEF From
    <3>4. from \in DOMAIN src.pkts
      BY <3>2, <3>3, SeekFacts
    <3> QED BY <3>4, FileFacts
  <2>4. /\ from <= j.pos /\ Ofs(j.out, j.held) = Takes(j.rend, j.n) \cap (from..(j.pos - 1))
        /\ \A m \in Stream(src, j.rend) \cap (from..(j.pos - 1)) : src.pkts[m].pts < endTS(j.n)
        /\ Ends(j)
    BY <2>1, <2>2 DEF TakenOK
  <2>5. j.pos \in Nat /\ endTS(j.n) \in Int
    BY <2>1, Ticks DEF Job
  <2>6. \A m \in Takes(j.rend, j.n) : m \in Stream(src, j.rend) /\ m \in DOMAIN src.pkts /\ m \in Nat
    BY <1>1, FileFacts DEF Takes
  <2>7. ASSUME NEW m \in Takes(j.rend, j.n) \cap (from..(j.pos - 1))
        PROVE  m \in Covers(j.rend, j.n)
    <3>1. from <= m /\ \A q \in Stream(src, j.rend) \cap (from..m) : q \in from..(j.pos - 1)
      BY <2>3, <2>5
    <3> QED BY <2>2, <2>4, <3>1 DEF Covers
  <2>8. ASSUME NEW m \in Covers(j.rend, j.n)
        PROVE  m \in Takes(j.rend, j.n) \cap (from..(j.pos - 1))
    <3>1. /\ m \in Takes(j.rend, j.n) /\ from <= m
          /\ \A q \in Stream(src, j.rend) \cap (from..m) : src.pkts[q].pts < endTS(j.n)
      BY <2>2 DEF Covers
    <3>2. m \in Nat /\ m \in DOMAIN src.pkts
      BY <2>6, <3>1
    <3>3. CASE j.pos <= m
      <4>1. j.pos <= Len(src.pkts) /\ j.pos \in from..m
        BY <2>3, <2>4, <2>5, <3>2, <3>3, FileFacts
      <4>3. j.pos \in DOMAIN src.pkts
        BY <2>3, <2>5, <3>2, <3>3, <4>1, FileFacts DEF JobOK
      <4>2. src.pkts[j.pos].st = j.rend /\ src.pkts[j.pos].pts >= endTS(j.n)
        BY <2>4, <4>1, <4>3, PtsOf DEF Ends, Left, Pkt
      <4>4. j.pos \in Stream(src, j.rend)
        BY <4>2, <4>3 DEF Stream
      <4>5. src.pkts[j.pos].pts < endTS(j.n) /\ src.pkts[j.pos].pts \in Int
        BY <3>1, <4>1, <4>3, <4>4, FileFacts
      <4> QED BY <2>5, <4>2, <4>5
    <3>4. CASE ~(j.pos <= m)
      BY <2>3, <2>5, <3>1, <3>2, <3>4
    <3> QED BY <3>3, <3>4
  <2> QED BY <2>4, <2>7, <2>8
<1>3. Copied(j.rend) => CopyOK(j.rend, j.out, j.held)
  BY DEF JobOK
<1>4. CASE j.held = None
  <2>1. s = <<>>
    BY <1>1, <1>4 DEF finish, Links
  <2>2. Ofs(j.out, j.held) = {}
    BY <1>1, <1>4 DEF Ofs, Links
  <2>3. s \in Seq(Sample) /\ DOMAIN s = {}
    BY <2>1
  <2>4. {s[k].of : k \in DOMAIN s} = {}
    BY <2>3
  <2> QED BY <1>2, <2>2, <2>3, <2>4 DEF SegmentOK, Abuts
<1>5. CASE j.held # None
  <2>1. PICK d : d = IF j.lastDur > 0 THEN j.lastDur ELSE IF j.held.dur > 0 THEN j.held.dur ELSE 1
    OBVIOUS
  <2>2. j.held \in Sample /\ j.held.dur \in Int /\ j.lastDur \in Nat
    BY <1>5 DEF Job, Sample
  <2>3. d \in Nat \ {0}
    BY <2>1, <2>2
  <2>4. PICK x : x = [j.held EXCEPT !.dur = d]
    OBVIOUS
  <2>5. x \in Sample /\ x.dur = d /\ x.dts = j.held.dts /\ x.pts = j.held.pts /\ x.of = j.held.of
    BY <2>2, <2>3, <2>4 DEF Sample
  <2>6. s = Append(j.out, x)
    BY <1>5, <2>1, <2>4, Zenon DEF finish
  <2>7. PICK n : n = Len(j.out)
    OBVIOUS
  <2>8. /\ s \in Seq(Sample) /\ Len(s) = n + 1 /\ DOMAIN s = 1..(n + 1) /\ s[n + 1] = x
        /\ \A k \in 1..n : s[k] = j.out[k]
    BY <1>1, <2>5, <2>6, <2>7
  <2>9. /\ \A k \in 1..n : /\ j.out[k] \in Sample /\ j.out[k].dur > 0 /\ j.out[k].dts <= j.out[k].pts
                          /\ j.out[k].dts + j.out[k].dur = (IF k = n THEN j.held ELSE j.out[k + 1]).dts
        /\ j.held.dts <= j.held.pts
    BY <1>1, <1>5, <2>7, ElementOfSeq DEF Links
  <2>10. ASSUME NEW k \in DOMAIN s
         PROVE  /\ s[k].dur > 0 /\ s[k].pts >= s[k].dts
                /\ k > 1 => s[k - 1].dts + s[k - 1].dur = s[k].dts
    <3>1. s[k].dur > 0 /\ s[k].pts >= s[k].dts
      <4>1. CASE k = n + 1
        BY <2>2, <2>3, <2>5, <2>8, <2>9, <4>1 DEF Sample
      <4>2. CASE k # n + 1
        <5>1. k \in 1..n
          BY <1>1, <2>7, <2>8, <4>2
        <5> QED BY <2>8, <2>9, <5>1 DEF Sample
      <4> QED BY <4>1, <4>2
    <3>2. ASSUME k > 1
          PROVE  s[k - 1].dts + s[k - 1].dur = s[k].dts
      <4>1. k - 1 \in 1..n /\ k \in Nat
        BY <1>1, <2>7, <2>8, <3>2
      <4>2. s[k - 1] = j.out[k - 1]
        BY <2>8, <4>1
      <4>3. (IF k - 1 = n THEN j.held ELSE j.out[(k - 1) + 1]).dts = s[k].dts
        <5>1. CASE k - 1 = n
          <6>1. k = n + 1
            BY <4>1, <5>1
          <6> QED BY <2>5, <2>8, <5>1, <6>1
        <5>2. CASE k - 1 # n
          <6>1. (k - 1) + 1 = k /\ k \in 1..n
            BY <1>1, <2>7, <4>1, <5>2
          <6> QED BY <2>8, <5>2, <6>1
        <5> QED BY <5>1, <5>2
      <4> QED BY <2>9, <4>1, <4>2, <4>3
    <3> QED BY <3>1, <3>2
  <2>11. Abuts(s)
    BY <2>10 DEF Abuts
  <2>12. {s[k].of : k \in DOMAIN s} = Ofs(j.out, j.held)
    <3>1. Ofs(j.out, j.held) = {j.out[k].of : k \in 1..n} \cup {j.held.of}
      BY <1>1, <1>5, <2>7 DEF Ofs
    <3>2. \A k \in DOMAIN s : k \in 1..n \/ k = n + 1
      BY <1>1, <2>7, <2>8
    <3>3. n + 1 \in DOMAIN s /\ \A k \in 1..n : k \in DOMAIN s
      BY <1>1, <2>7, <2>8
    <3>4. ASSUME NEW k \in DOMAIN s
          PROVE  s[k].of \in {j.out[m].of : m \in 1..n} \cup {j.held.of}
      BY <2>5, <2>8, <3>2
    <3>5. j.held.of \in {s[m].of : m \in DOMAIN s}
      BY <2>5, <2>8, <3>3
    <3>6. ASSUME NEW k \in 1..n
          PROVE  j.out[k].of \in {s[m].of : m \in DOMAIN s}
      BY <2>8, <3>3
    <3> QED BY <3>1, <3>4, <3>5, <3>6
  <2>13. ASSUME Copied(j.rend), NEW k \in DOMAIN s
         PROVE  Unmoved(s[1], s[k])
    <3>1. PICK f : f = First(j.out, j.held)
      OBVIOUS
    <3>2. Unmoved(f, j.held) /\ \A m \in DOMAIN j.out : Unmoved(f, j.out[m])
      BY <1>3, <1>5, <2>13, <3>1 DEF CopyOK
    <3>3. s[1].pts = f.pts
      <4>1. CASE n = 0
        <5>1. j.out = <<>>
          <6>1. j.out \in Seq(Sample) /\ Len(j.out) = 0
            BY <1>1, <2>7, <4>1
          <6> QED BY <6>1, EmptySeq
        <5>2. s[1] = x
          BY <2>8, <4>1
        <5> QED BY <2>5, <3>1, <5>1, <5>2 DEF First
      <4>2. CASE n # 0
        <5>1. j.out # <<>> /\ 1 \in 1..n
          BY <1>1, <2>7, <4>2
        <5> QED BY <2>8, <3>1, <5>1 DEF First
      <4> QED BY <4>1, <4>2
    <3>4. CASE k = n + 1
      BY <2>5, <2>8, <3>2, <3>3, <3>4 DEF Unmoved
    <3>5. CASE k # n + 1
      <4>1. k \in 1..n /\ k \in DOMAIN j.out
        BY <1>1, <2>7, <2>8, <3>5
      <4> QED BY <2>8, <3>2, <3>3, <4>1 DEF Unmoved
    <3> QED BY <3>4, <3>5
  <2> QED BY <1>2, <2>8, <2>11, <2>12, <2>13 DEF SegmentOK
<1> QED BY <1>4, <1>5

-----------------------------------------------------------------------------
(* The file and its grid do not change, nor does anything that is said of them. *)

LEMMA SameWindow ==
  ASSUME src' = src, grid' = grid, NEW n
  PROVE  /\ Seg' = Seg /\ startTS(n)' = startTS(n) /\ endTS(n)' = endTS(n)
         /\ From(n)' = From(n) /\ Window(n)' = Window(n)
<1>1. startTS(n)' = startTS(n)
  BY DEF startTS, srcStart
<1>2. endTS(n)' = endTS(n)
  BY DEF endTS, srcStart, extinf, Seg
<1>3. From(n)' = From(n)
  BY <1>1 DEF From
<1> QED BY <1>1, <1>2, <1>3 DEF Seg, Window

LEMMA SameTakes ==
  ASSUME src' = src, grid' = grid, NEW r, NEW n
  PROVE  /\ (Copied(r)' <=> Copied(r)) /\ (Plain(r)' <=> Plain(r))
         /\ Takes(r, n)' = Takes(r, n) /\ Covers(r, n)' = Covers(r, n)
<1>1. (Copied(r)' <=> Copied(r)) /\ (Plain(r)' <=> Plain(r))
  BY DEF Copied, Plain
<1>2. Window(n)' = Window(n) /\ From(n)' = From(n) /\ endTS(n)' = endTS(n)
  BY SameWindow
<1>3. Takes(r, n)' = Takes(r, n)
  BY <1>2 DEF Takes
<1>4. Covers(r, n)' = Covers(r, n)
  BY <1>2, <1>3 DEF Covers
<1> QED BY <1>1, <1>3, <1>4

LEMMA SameCopy ==
  ASSUME src' = src, grid' = grid, NEW r, NEW out, NEW held
  PROVE  CopyOK(r, out, held)' <=> CopyOK(r, out, held)
<1>1. ASSUME NEW f, NEW s
      PROVE  Unmoved(f, s)' <=> Unmoved(f, s)
  BY DEF Unmoved
<1>2. ASSUME NEW f, NEW s
      PROVE  Tame(r, f, s)' <=> Tame(r, f, s)
  BY DEF Tame
<1> QED BY <1>1, <1>2 DEF CopyOK

LEMMA SameJob ==
  ASSUME src' = src, grid' = grid, NEW j
  PROVE  JobOK(j)' <=> JobOK(j)
<1>1. /\ Seg' = Seg /\ endTS(j.n)' = endTS(j.n) /\ From(j.n)' = From(j.n)
  BY SameWindow
<1>2. /\ Copied(j.rend)' <=> Copied(j.rend)
      /\ Plain(j.rend)' <=> Plain(j.rend)
      /\ Takes(j.rend, j.n)' = Takes(j.rend, j.n)
  BY SameTakes
<1>3. CopyOK(j.rend, j.out, j.held)' <=> CopyOK(j.rend, j.out, j.held)
  BY SameCopy
<1>4. Ends(j)' <=> Ends(j)
  BY <1>1 DEF Ends, Left, Pkt, Pts, ReadPts
<1>5. TakenOK(j)' <=> TakenOK(j)
  BY <1>1, <1>2, <1>4 DEF TakenOK
<1> QED BY <1>1, <1>2, <1>3, <1>5 DEF JobOK

LEMMA SameSegment ==
  ASSUME src' = src, grid' = grid, NEW r, NEW n, NEW s
  PROVE  SegmentOK(r, n, s)' <=> SegmentOK(r, n, s)
<1>1. ASSUME NEW f, NEW x
      PROVE  Unmoved(f, x)' <=> Unmoved(f, x)
  BY DEF Unmoved
<1>2. /\ Copied(r)' <=> Copied(r)
      /\ Plain(r)' <=> Plain(r)
      /\ Covers(r, n)' = Covers(r, n)
  BY SameTakes
<1> QED BY <1>1, <1>2 DEF SegmentOK

-----------------------------------------------------------------------------
(* The invariant is inductive *)

LEMMA OneJob ==
  ASSUME SegInv, src' = src, grid' = grid, NEW w \in Worker, NEW k \in Job, JobOK(k),
         job' = [job EXCEPT ![w] = k], slots' \subseteq Worker,
         made' \in [Renditions -> [Seg -> Seq(Sample) \cup {None}]],
         \A r \in Renditions, n \in Seg : made'[r][n] # None => SegmentOK(r, n, made'[r][n])
  PROVE  SegInv'
<1>1. Seg' = Seg
  BY DEF Seg
<1>2. job' \in [Worker -> Job] /\ \A v \in Worker : JobOK(job'[v])
  BY DEF SegInv, TypeOK
<1>3. ASSUME NEW v \in Worker
      PROVE  JobOK(job[v])'
  <2>1. PICK j : j = job'[v]
    OBVIOUS
  <2>2. JobOK(j)
    BY <1>2, <2>1
  <2>3. JobOK(j)'
    BY <2>2, SameJob
  <2> QED BY <2>1, <2>3
<1>4. ASSUME NEW v \in Worker
      PROVE  /\ job'[v].n \in Seg /\ job'[v].pos \in 1..(Len(src.pkts) + 1)
             /\ job'[v].dpb \subseteq Stream(src, job'[v].rend)
  BY <1>2 DEF JobOK
<1>5. TypeOK'
  <2>1. src \in Source /\ grid \in buildSegList(src)
    BY DEF SegInv, TypeOK
  <2>2. src' \in Source /\ grid' \in buildSegList(src')
    BY <2>1
  <2> QED BY <1>1, <1>2, <1>4, <2>2 DEF TypeOK
<1>6. MadeOK'
  <2>1. ASSUME NEW r \in Renditions, NEW n \in Seg', made'[r][n] # None
        PROVE  SegmentOK(r, n, made[r][n])'
    <3>1. PICK s : s = made'[r][n]
      OBVIOUS
    <3>2. SegmentOK(r, n, s)
      BY <1>1, <2>1, <3>1
    <3>3. SegmentOK(r, n, s)'
      BY <3>2, SameSegment
    <3> QED BY <3>1, <3>3
  <2> QED BY <2>1 DEF MadeOK
<1> QED BY <1>3, <1>5, <1>6 DEF SegInv

LEMMA SegInit == Init => SegInv
<1> SUFFICES ASSUME Init
             PROVE  SegInv
  OBVIOUS
<1>1. GridInv
  BY DEF Init, GridInv
<1>2. 0 \in Seg
  <2>1. PICK N : IsGrid(grid, N, src.dur)
    BY <1>1, GridShape
  <2>2. Seg = 0..(N - 1) /\ N \in Nat \ {0}
    BY <2>1, SegFacts DEF IsGrid
  <2> QED BY <2>2
<1>3. 1 \in 1..(Len(src.pkts) + 1)
  BY <1>1, FileFacts
<1>4. Idle \in Job /\ JobOK(Idle)
  <2>1. Idle.pc \notin Working
    BY IdleIsJob DEF Working
  <2> QED BY <1>2, <1>3, <2>1, IdleIsJob, FreshOK
<1>5. \A w \in Worker : job[w] = Idle
  BY DEF Init
<1>6. job \in [Worker -> Job]
  BY <1>4 DEF Init
<1>7. \A r \in Renditions, n \in Seg : made[r][n] = None
  BY DEF Init
<1>8. made \in [Renditions -> [Seg -> Seq(Sample) \cup {None}]]
  BY DEF Init
<1>9. TypeOK
  BY <1>1, <1>4, <1>5, <1>6, <1>8 DEF TypeOK, GridInv, Init, JobOK
<1>10. MadeOK
  BY <1>7 DEF MadeOK
<1> QED BY <1>4, <1>5, <1>9, <1>10 DEF SegInv

LEMMA SegStep == SegInv /\ [Next]_vars => SegInv'
<1> SUFFICES ASSUME SegInv, [Next]_vars
             PROVE  SegInv'
  OBVIOUS
<1>1. GridInv
  BY DEF SegInv, TypeOK, GridInv
<1>2. CASE UNCHANGED vars
  <2>1. src' = src /\ grid' = grid /\ slots' = slots /\ job' = job /\ made' = made
    BY <1>2 DEF vars
  <2>2. ASSUME NEW w \in Worker
        PROVE  SegInv'
    <3>1. job[w] \in Job /\ JobOK(job[w]) /\ job' = [job EXCEPT ![w] = job[w]]
      BY <2>1 DEF SegInv, TypeOK
    <3>2. /\ slots' \subseteq Worker /\ made' \in [Renditions -> [Seg -> Seq(Sample) \cup {None}]]
          /\ \A r \in Renditions, n \in Seg : made'[r][n] # None => SegmentOK(r, n, made'[r][n])
      BY <2>1 DEF SegInv, TypeOK, MadeOK
    <3> QED BY <2>1, <3>1, <3>2, OneJob
  <2>3. CASE Worker = {}
    <3>1. TypeOK'
      BY <2>1, <2>3 DEF SegInv, TypeOK, Seg
    <3>2. MadeOK'
      <4>1. ASSUME NEW r \in Renditions, NEW n \in Seg', made'[r][n] # None
            PROVE  SegmentOK(r, n, made[r][n])'
        <5>1. PICK s : s = made[r][n]
          OBVIOUS
        <5>2. SegmentOK(r, n, s)
          BY <2>1, <4>1, <5>1 DEF SegInv, MadeOK, Seg
        <5>3. SegmentOK(r, n, s)'
          BY <2>1, <5>2, SameSegment
        <5> QED BY <2>1, <5>1, <5>3
      <4> QED BY <4>1 DEF MadeOK
    <3> QED BY <2>3, <3>1, <3>2 DEF SegInv
  <2> QED BY <2>2, <2>3
<1>3. ASSUME NEW w \in Worker,
             \/ \E r \in Renditions, n \in Seg : produceSegmentRetry(w, r, n)
             \/ Work(w) \/ Fail(w) \/ ReopenFails(w) \/ Cancel(w)
      PROVE  SegInv'
  <2>1. PICK j : j = job[w]
    OBVIOUS
  <2>2. j \in Job /\ JobOK(j) /\ job \in [Worker -> Job]
    BY <1>3, <2>1 DEF SegInv, TypeOK
  <2>3. src' = src /\ grid' = grid
    BY <1>3 DEF Work, produceSegmentRetry, acquire, Open, ReadEnd, Skip, CopyPacket, feed,
                drainDecoder, Finish, Retry, Fail, ReopenFails, Cancel
  <2>4. slots' \subseteq Worker
    <3>1. slots \subseteq Worker
      BY DEF SegInv, TypeOK
    <3> QED BY <1>3, <3>1 DEF Work, produceSegmentRetry, acquire, Open, ReadEnd, Skip, CopyPacket, feed,
                              drainDecoder, Finish, Retry, Fail, ReopenFails, Cancel
  <2>5. /\ made \in [Renditions -> [Seg -> Seq(Sample) \cup {None}]]
        /\ \A r \in Renditions, n \in Seg : made[r][n] # None => SegmentOK(r, n, made[r][n])
    BY DEF SegInv, TypeOK, MadeOK
  <2>6. 1 \in 1..(Len(src.pkts) + 1) /\ 0 \in Seg
    <3>1. PICK N : IsGrid(grid, N, src.dur)
      BY <1>1, GridShape
    <3>2. Seg = 0..(N - 1) /\ N \in Nat \ {0}
      BY <3>1, SegFacts DEF IsGrid
    <3> QED BY <1>1, <3>2, FileFacts
  <2>7. Idle \in Job /\ JobOK(Idle)
    BY <2>6, IdleIsJob, FreshOK DEF Working
  <2>8. ASSUME NEW k \in Job, JobOK(k), job' = [job EXCEPT ![w] = k], made' = made
        PROVE  SegInv'
    BY <1>3, <2>3, <2>4, <2>5, <2>8, OneJob
  <2>9. ASSUME NEW r \in Renditions, NEW n \in Seg, produceSegmentRetry(w, r, n)
        PROVE  SegInv'
    <3>1. PICK c \in {"gate", "open"} : c = IF r = "video" /\ grid.transcode THEN "gate" ELSE "open"
      OBVIOUS
    <3>2. PICK k : k = [Idle EXCEPT !.rend = r, !.n = n, !.pc = c]
      OBVIOUS
    <3>3. job' = [job EXCEPT ![w] = k] /\ made' = made
      BY <2>9, <3>1, <3>2 DEF produceSegmentRetry
    <3>4. n \in Nat
      <4>1. PICK N : IsGrid(grid, N, src.dur)
        BY <1>1, GridShape
      <4>2. Seg = 0..(N - 1) /\ N \in Nat \ {0}
        BY <4>1, SegFacts DEF IsGrid
      <4> QED BY <4>2
    <3>5. k \in Job /\ k.pc = c /\ k.n = n /\ k.held = Idle.held /\ k.last = Idle.last /\ k.out = Idle.out
          /\ k.dpb = Idle.dpb /\ k.lastPTS = Idle.lastPTS /\ k.pos = Idle.pos
      BY <2>7, <3>1, <3>2, <3>4 DEF Job, Pcs
    <3>6. JobOK(k)
      BY <2>6, <3>1, <3>5, IdleIsJob, FreshOK DEF Working
    <3> QED BY <2>8, <3>3, <3>5, <3>6
  <2>10. ASSUME j.pc \notin Working, NEW c \in {"gate", "open"}, NEW a \in 1..MaxAttempts,
                NEW k, k = [j EXCEPT !.pc = c, !.attempt = a]
         PROVE  k \in Job /\ JobOK(k)
    <3>1. /\ k \in Job /\ k.pc = c /\ k.n = j.n /\ k.held = j.held /\ k.last = j.last /\ k.out = j.out
          /\ k.dpb = j.dpb /\ k.lastPTS = j.lastPTS /\ k.pos = j.pos
      BY <2>2, <2>10 DEF Job, Pcs
    <3>2. /\ j.n \in Seg /\ j.pos \in 1..(Len(src.pkts) + 1) /\ j.held = None /\ j.last = None /\ j.out = <<>>
          /\ j.dpb = {} /\ j.lastPTS = None
      BY <2>2, <2>10 DEF JobOK, Links
    <3> QED BY <3>1, <3>2, FreshOK DEF Working
  <2>11. ASSUME acquire(w)
         PROVE  SegInv'
    <3>1. PICK a : a = j.attempt
      OBVIOUS
    <3>2. PICK k : k = [j EXCEPT !.pc = "open", !.attempt = a]
      OBVIOUS
    <3>3. a \in 1..MaxAttempts /\ j.pc \notin Working
      BY <2>1, <2>2, <2>11, <3>1 DEF acquire, Job, Working
    <3>4. k \in Job /\ JobOK(k)
      BY <2>10, <3>2, <3>3
    <3>5. k = [j EXCEPT !.pc = "open"]
      BY <2>2, <3>1, <3>2 DEF Job
    <3>6. job' = [job EXCEPT ![w] = k] /\ made' = made
      BY <2>1, <2>2, <2>11, <3>5 DEF acquire
    <3> QED BY <2>8, <3>4, <3>6
  <2>12. ASSUME Retry(w)
         PROVE  SegInv'
    <3>1. made' = made /\ j.pc = "backoff"
      BY <2>1, <2>12 DEF Retry
    <3>2. CASE job' = [job EXCEPT ![w] = Idle]
      BY <2>7, <2>8, <3>1, <3>2
    <3>3. CASE j.attempt < MaxAttempts /\ job' # [job EXCEPT ![w] = Idle]
      <4>1. PICK a : a = j.attempt + 1
        OBVIOUS
      <4>2. PICK c \in {"gate", "open"} : c = IF Transcodes(j) THEN "gate" ELSE "open"
        OBVIOUS
      <4>3. PICK k : k = [j EXCEPT !.pc = c, !.attempt = a]
        OBVIOUS
      <4>4. a \in 1..MaxAttempts /\ j.pc \notin Working
        <5>1. j.attempt \in 1..MaxAttempts /\ MaxAttempts \in Nat
          BY <2>2, SegmenterAssumption DEF Job
        <5>2. a \in 1..MaxAttempts
          BY <3>3, <4>1, <5>1
        <5> QED BY <3>1, <5>2 DEF Working
      <4>5. k \in Job /\ JobOK(k)
        BY <2>10, <4>3, <4>4
      <4>6. job' = [job EXCEPT ![w] = k]
        <5>1. job' = [job EXCEPT ![w].attempt = @ + 1, ![w].pc = IF Transcodes(j) THEN "gate" ELSE "open"]
          BY <2>1, <2>12, <3>3, Zenon DEF Retry
        <5>2. job' = [job EXCEPT ![w].attempt = a, ![w].pc = c]
          BY <2>1, <4>1, <4>2, <5>1, Zenon
        <5>3. k = [j EXCEPT !.attempt = a, !.pc = c]
          BY <2>2, <4>3 DEF Job
        <5> QED BY <1>3, <2>1, <2>2, <5>2, <5>3
      <4> QED BY <2>8, <3>1, <4>5, <4>6
    <3> QED BY <2>1, <2>12, <3>2, <3>3 DEF Retry
  <2>13. ASSUME Open(w)
         PROVE  SegInv'
    <3>1. PICK k : k = [j EXCEPT !.pc = "read", !.pos = SeekFrame(src, startTS(j.n))]
      OBVIOUS
    <3>2. j.pc = "open" /\ made' = made /\ job' = [job EXCEPT ![w] = k]
      BY <2>1, <2>2, <2>13, <3>1 DEF Open
    <3> QED BY <1>1, <2>2, <2>8, <3>1, <3>2, OpenKeeps
  <2>14. ASSUME ReadEnd(w)
         PROVE  SegInv'
    <3>1. PICK k : k = [j EXCEPT !.pc = "flush"]
      OBVIOUS
    <3>2. j.pc = "read" /\ Ends(j) /\ made' = made /\ job' = [job EXCEPT ![w] = k]
      BY <2>1, <2>2, <2>14, <3>1 DEF ReadEnd
    <3> QED BY <1>1, <2>2, <2>8, <3>1, <3>2, EndKeeps
  <2>15. ASSUME Skip(w)
         PROVE  SegInv'
    <3>1. PICK k : k = [j EXCEPT !.pos = @ + 1]
      OBVIOUS
    <3>2. j.pc = "read" /\ ~Ends(j) /\ ~Kept(j) /\ made' = made /\ job' = [job EXCEPT ![w] = k]
      BY <2>1, <2>2, <2>15, <3>1 DEF Skip
    <3> QED BY <1>1, <2>2, <2>8, <3>1, <3>2, SkipKeeps
  <2>16. ASSUME CopyPacket(w)
         PROVE  SegInv'
    <3>1. j.pc = "read" /\ ~Ends(j) /\ Kept(j) /\ ~Transcodes(j) /\ made' = made
      BY <2>1, <2>16 DEF CopyPacket
    <3>2. PICK dts \in ReadDts(j, Pkt(j)) :
            job' = [job EXCEPT ![w] = [write(j, [pts |-> sanitizeCopyDTS(j, Pts(j), dts).pts,
                                                 dts |-> sanitizeCopyDTS(j, Pts(j), dts).dts,
                                                 dur |-> 0, of |-> j.pos])
                                        EXCEPT !.pos = @ + 1, !.fresh = FALSE,
                                               !.last = sanitizeCopyDTS(j, Pts(j), dts).dts]]
      BY <2>1, <2>16, Zenon DEF CopyPacket
    <3>3. PICK t : t = sanitizeCopyDTS(j, Pts(j), dts)
      OBVIOUS
    <3>4. PICK s : s = [pts |-> t.pts, dts |-> t.dts, dur |-> 0, of |-> j.pos]
      OBVIOUS
    <3>5. PICK k : k = [write(j, s) EXCEPT !.pos = @ + 1, !.fresh = FALSE, !.last = t.dts]
      OBVIOUS
    <3>6. job' = [job EXCEPT ![w] = k]
      BY <3>2, <3>3, <3>4, <3>5, Zenon
    <3>7. k \in Job /\ JobOK(k)
      BY <1>1, <2>2, <3>1, <3>3, <3>4, <3>5, CopyKeeps
    <3> QED BY <2>8, <3>1, <3>6, <3>7
  <2>17. ASSUME feed(w)
         PROVE  SegInv'
    <3>1. j.pc = "read" /\ ~Ends(j) /\ Kept(j) /\ Transcodes(j) /\ made' = made
      BY <2>1, <2>17 DEF feed
    <3>2. PICK k : k = [j EXCEPT !.dpb = @ \cup {j.pos}, !.pos = @ + 1,
                                 !.pc = IF Cardinality(j.dpb) < src.reorder THEN "read" ELSE "drain"]
      OBVIOUS
    <3>3. job' = [job EXCEPT ![w] = k]
      BY <2>1, <2>2, <2>17, <3>2 DEF feed
    <3>4. k \in Job /\ JobOK(k)
      BY <1>1, <2>2, <3>1, <3>2, FeedKeeps
    <3> QED BY <2>8, <3>1, <3>3, <3>4
  <2>18. ASSUME drainDecoder(w)
         PROVE  SegInv'
    <3>1. j.pc \in {"drain", "flush"} /\ j.dpb # {} /\ made' = made
      BY <2>1, <2>18 DEF drainDecoder
    <3>2. PICK i : i = Picture(j)
      OBVIOUS
    <3>3. PICK k : k = [(IF Placed(j, i) THEN encode(j, i) ELSE j)
                          EXCEPT !.dpb = @ \ {i}, !.pc = IF @ = "drain" THEN "read" ELSE @]
      OBVIOUS
    <3>4. job' = [job EXCEPT ![w] = k]
      BY <2>1, <2>18, <3>2, <3>3, Zenon DEF drainDecoder
    <3>5. k \in Job /\ JobOK(k)
      BY <1>1, <2>2, <3>1, <3>2, <3>3, DrainKeeps
    <3> QED BY <2>8, <3>1, <3>4, <3>5
  <2>19. ASSUME Finish(w)
         PROVE  SegInv'
    <3>1. PICK s : s = finish(j)
      OBVIOUS
    <3>2. /\ j.pc = "flush" /\ j.dpb = {} /\ job' = [job EXCEPT ![w] = Idle]
          /\ made' = [made EXCEPT ![j.rend][j.n] = s]
      BY <2>1, <2>19, <3>1 DEF Finish
    <3>3. s \in Seq(Sample) /\ SegmentOK(j.rend, j.n, s)
      BY <1>1, <2>2, <3>1, <3>2, FinishMakes
    <3>4. j.rend \in Renditions /\ j.n \in Seg
      BY <2>2 DEF Job, JobOK
    <3>5. made' \in [Renditions -> [Seg -> Seq(Sample) \cup {None}]]
      BY <2>5, <3>2, <3>3, <3>4
    <3>6. ASSUME NEW r \in Renditions, NEW n \in Seg, made'[r][n] # None
          PROVE  SegmentOK(r, n, made'[r][n])
      <4>1. CASE r = j.rend /\ n = j.n
        BY <2>5, <3>2, <3>3, <3>4, <4>1
      <4>2. CASE ~(r = j.rend /\ n = j.n)
        <5>1. made'[r][n] = made[r][n]
          BY <2>5, <3>2, <3>4, <4>2
        <5> QED BY <2>5, <3>6, <5>1
      <4> QED BY <4>1, <4>2
    <3> QED BY <1>3, <2>3, <2>4, <2>7, <3>2, <3>5, <3>6, OneJob
  <2>20. ASSUME Fail(w)
         PROVE  SegInv'
    <3>1. PICK k : k = [Idle EXCEPT !.rend = j.rend, !.n = j.n, !.attempt = j.attempt, !.pc = "backoff"]
      OBVIOUS
    <3>2. job' = [job EXCEPT ![w] = k] /\ made' = made
      BY <2>1, <2>20, <3>1 DEF Fail
    <3>3. k \in Job /\ k.pc = "backoff" /\ k.n = j.n /\ k.held = Idle.held /\ k.last = Idle.last
          /\ k.out = Idle.out /\ k.dpb = Idle.dpb /\ k.lastPTS = Idle.lastPTS /\ k.pos = Idle.pos
      BY <2>2, <2>7, <3>1 DEF Job, Pcs
    <3>4. j.n \in Seg
      BY <2>2 DEF JobOK
    <3>5. JobOK(k)
      BY <2>6, <3>3, <3>4, IdleIsJob, FreshOK DEF Working
    <3> QED BY <2>8, <3>2, <3>3, <3>5
  <2>21. ASSUME Cancel(w)
         PROVE  SegInv'
    <3>1. job' = [job EXCEPT ![w] = Idle] /\ made' = made
      BY <2>21 DEF Cancel
    <3> QED BY <2>7, <2>8, <3>1
  <2>22. ASSUME ReopenFails(w)
         PROVE  SegInv'
    <3>1. job' = [job EXCEPT ![w] = Idle] /\ made' = made
      BY <2>22 DEF ReopenFails
    <3> QED BY <2>7, <2>8, <3>1
  <2> QED BY <1>3, <2>9, <2>11, <2>12, <2>13, <2>14, <2>15, <2>16, <2>17, <2>18, <2>19, <2>20, <2>21, <2>22
          DEF Work
<1> QED BY <1>2, <1>3 DEF Next

LEMMA SegInv_Holds == Spec => []SegInv
  BY SegInit, SegStep, PTL DEF Spec

\* Whatever the demuxer leaves unset or misreads, every segment reaches the muxer with strictly
\* increasing dts, none after its pts, and with samples that abut; and a copied picture keeps its
\* pts unless it is shown before the keyframe its segment starts with (sanitizeCopyDTS, encode,
\* fragWriter).
THEOREM SamplesAlwaysAbut == Spec => []SamplesAbut
<1>1. SegInv => SamplesAbut
  <2> SUFFICES ASSUME SegInv, NEW r \in Renditions, NEW n \in Seg, made[r][n] # None,
                      NEW k \in DOMAIN made[r][n]
               PROVE  LET s == made[r][n] IN
                      /\ s[k].dur > 0 /\ s[k].pts >= s[k].dts
                      /\ k > 1 => s[k - 1].dts + s[k - 1].dur = s[k].dts
                      /\ LET pts == src.pkts[s[k].of].pts
                         IN (r = "audio" \/ ~grid.transcode) /\ pts >= s[1].pts => s[k].pts = pts
    BY DEF SamplesAbut
  <2>1. SegmentOK(r, n, made[r][n])
    BY DEF SegInv, MadeOK
  <2> QED BY <2>1 DEF SegmentOK, Abuts, Copied, Unmoved
<1> QED BY <1>1, SegInv_Holds, PTL

-----------------------------------------------------------------------------
(* The segments tile the rendition *)

\* Among increasing boundaries a value that is not before the first lies between exactly one and its
\* successor.
LEMMA OneCell ==
  ASSUME NEW N \in Nat \ {0}, NEW f, \A n \in 0..(N - 1) : f[n] \in Int,
         \A n \in 0..(N - 2) : f[n] < f[n + 1], NEW x \in Int, f[0] <= x
  PROVE  \E n \in 0..(N - 1) :
           /\ f[n] <= x /\ (n + 1 \in 0..(N - 1) => x < f[n + 1])
           /\ \A m \in 0..(N - 1) : f[m] <= x /\ (m + 1 \in 0..(N - 1) => x < f[m + 1]) => m = n
<1>1. ASSUME NEW a \in 0..(N - 1), NEW b \in 0..(N - 1), a <= b
      PROVE  f[a] <= f[b]
  <2>1. PICK G : G = {n \in a..(N - 1) : f[a] <= f[n]}
    OBVIOUS
  <2>2. a \in G
    BY <1>1, <2>1
  <2>3. ASSUME NEW n \in a..((N - 1) - 1), n \in G
        PROVE  n + 1 \in G
    <3>1. n \in 0..(N - 2) /\ n \in 0..(N - 1) /\ n + 1 \in 0..(N - 1) /\ n + 1 \in a..(N - 1)
      BY <1>1
    <3>2. f[a] <= f[n] /\ f[n] < f[n + 1] /\ f[a] \in Int /\ f[n] \in Int /\ f[n + 1] \in Int
      BY <1>1, <2>1, <2>3, <3>1
    <3>3. f[a] <= f[n + 1]
      BY <3>2
    <3> QED BY <2>1, <3>1, <3>3
  <2>4. a \in Nat /\ N - 1 \in Nat
    OBVIOUS
  <2>5. a..(N - 1) \subseteq G
    BY <2>2, <2>3, <2>4, Climb
  <2>6. b \in a..(N - 1)
    BY <1>1
  <2> QED BY <2>1, <2>5, <2>6
<1>2. PICK T : T = {n \in 0..(N - 1) : f[n] <= x}
  OBVIOUS
<1>3. 0 \in T /\ N - 1 \in Nat
  BY <1>2
<1>4. PICK n \in T : \A m \in T : m <= n
  BY <1>2, <1>3, GreatestNumber
<1>5. n \in 0..(N - 1) /\ f[n] <= x
  BY <1>2, <1>4
<1>6. n + 1 \in 0..(N - 1) => x < f[n + 1]
  <2> HAVE n + 1 \in 0..(N - 1)
  <2>1. n + 1 \notin T
    BY <1>4, <1>5
  <2>2. ~(f[n + 1] <= x) /\ f[n + 1] \in Int
    BY <1>2, <2>1
  <2> QED BY <2>2
<1>7. ASSUME NEW m \in 0..(N - 1), f[m] <= x, m + 1 \in 0..(N - 1) => x < f[m + 1]
      PROVE  m = n
  <2>1. m <= n
    BY <1>2, <1>4, <1>7
  <2>2. CASE m < n
    <3>1. m + 1 \in 0..(N - 1) /\ m + 1 <= n
      BY <1>5, <1>7, <2>2
    <3>2. f[m + 1] <= f[n] /\ x < f[m + 1] /\ f[m + 1] \in Int /\ f[n] \in Int
      BY <1>1, <1>5, <1>7, <3>1
    <3> QED BY <1>5, <3>2
  <2> QED BY <1>5, <1>7, <2>1, <2>2
<1> QED BY <1>5, <1>6, <1>7

\* What a segment carries is what its window covers.
LEMMA CarriersCover ==
  ASSUME SegInv, NEW r \in Renditions, Made(r), Plain(r), NEW i, NEW n \in Seg
  PROVE  n \in Carriers(r, i) <=> i \in Covers(r, n)
<1>1. PICK s : s = made[r][n]
  OBVIOUS
<1>2. s # None
  BY <1>1 DEF Made
<1>3. SegmentOK(r, n, s)
  BY <1>1, <1>2 DEF SegInv, MadeOK
<1>4. {s[k].of : k \in DOMAIN s} = Covers(r, n)
  BY <1>3 DEF SegmentOK
<1>5. n \in Carriers(r, i) <=> \E k \in DOMAIN s : s[k].of = i
  BY <1>1 DEF Carriers
<1>6. (\E k \in DOMAIN s : s[k].of = i) <=> i \in {s[k].of : k \in DOMAIN s}
  OBVIOUS
<1> QED BY <1>4, <1>5, <1>6

\* The audio that is copied, and the video that is transcoded in display order: a segment covers
\* the packets that are shown in its window.
LEMMA WindowCovers ==
  ASSUME GridInv, NEW r \in Renditions, r = "audio" \/ (grid.transcode /\ src.reorder = 0),
         NEW n \in Seg, NEW i \in Stream(src, r), r = "audio" \/ i \notin src.untimed
  PROVE  i \in Covers(r, n) <=> src.pkts[i].pts \in Window(n)
<1>1. i \in Covers(r, n) => src.pkts[i].pts \in Window(n)
  BY DEF Covers, Takes, Renditions
<1>2. ASSUME src.pkts[i].pts \in Window(n)
      PROVE  i \in Covers(r, n)
  <2>1. PICK p : p = src.pkts[i].pts
    OBVIOUS
  <2>2. PICK a : a = startTS(n)
    OBVIOUS
  <2>3. PICK e : e = endTS(n)
    OBVIOUS
  <2>4. a \in Int /\ e \in Int
    BY <2>2, <2>3, Ticks
  <2>5. p \in Int /\ a <= p /\ p < e
    BY <1>2, <2>1, <2>2, <2>3, <2>4 DEF Window
  <2>6. PICK from : from = SeekFrame(src, a)
    OBVIOUS
  <2>7. /\ from \in DOMAIN src.pkts /\ From(n) = from
        /\ (from \in KeyAt(src) /\ src.pkts[from].pts <= a) \/ from = 1
    BY <2>2, <2>4, <2>6, SeekFacts DEF From
  <2>8. i \in DOMAIN src.pkts /\ i \in Nat /\ i >= 1 /\ from \in Nat /\ src.pkts[from].pts \in Int
    BY <2>7, FileFacts
  <2>9. from <= i
    <3>1. CASE from = 1
      BY <2>8, <3>1
    <3>2. CASE from \in KeyAt(src) /\ src.pkts[from].pts <= a
      <4>1. src.pkts[from].pts <= p
        BY <2>4, <2>5, <2>8, <3>2
      <4>2. CASE r = "audio"
        <5>1. from < i
          BY <2>1, <3>2, <4>1, <4>2, SourceAssumption DEF GridInv, IsInterleaved
        <5> QED BY <2>8, <5>1
      <4>3. CASE r = "video" /\ src.reorder = 0
        <5>1. from \in Stream(src, r)
          BY <3>2, <4>3 DEF KeyAt
        <5>2. i < from => p < src.pkts[from].pts
          BY <2>1, <4>3, <5>1, SourceAssumption DEF GridInv, IsOrdered
        <5> QED BY <2>5, <2>8, <4>1, <5>2
      <4> QED BY <4>2, <4>3 DEF Renditions
    <3> QED BY <2>7, <3>1, <3>2
  <2>10. ASSUME NEW q \in Stream(src, r) \cap (from..i)
         PROVE  src.pkts[q].pts < e
    <3>1. q \in DOMAIN src.pkts /\ src.pkts[q].pts \in Int
      BY FileFacts
    <3>2. CASE q = i
      BY <2>1, <2>5, <3>2
    <3>3. CASE q < i
      <4>1. src.pkts[q].pts < p
        BY <2>1, <3>3, SourceAssumption DEF GridInv, IsOrdered
      <4> QED BY <2>4, <2>5, <3>1, <4>1
    <3> QED BY <2>8, <3>2, <3>3
  <2>11. i \in Takes(r, n)
    BY <1>2 DEF Takes
  <2> QED BY <2>3, <2>7, <2>9, <2>10, <2>11 DEF Covers
<1> QED BY <1>1, <1>2

\* The keyframe a segment of copied video starts at.
StartKey(n) == CHOOSE k \in KeyAt(src) : src.pkts[k].pts = srcStart(n)

LEMMA StartKeys ==
  ASSUME GridInv, ~grid.transcode, NEW n \in Seg
  PROVE  /\ StartKey(n) \in KeyAt(src) /\ src.pkts[StartKey(n)].pts = srcStart(n)
         /\ StartKey(n) \in DOMAIN src.pkts /\ StartKey(n) \in Nat
<1>1. PICK N : IsGrid(grid, N, src.dur) /\ IsGreedy(grid, N, src.index)
  BY GridShape
<1>2. n \in 0..(N - 1)
  BY <1>1, SegFacts
<1>3. PICK x \in DOMAIN src.index : srcStart(n) = src.index[x]
  BY <1>1, <1>2 DEF IsGreedy, srcStart
<1>4. {src.index[i] : i \in DOMAIN src.index} = {src.pkts[i].pts : i \in KeyAt(src)}
  BY SourceAssumption DEF GridInv, IsIndexed
<1>5. \E k \in KeyAt(src) : src.pkts[k].pts = srcStart(n)
  BY <1>3, <1>4
<1>6. StartKey(n) \in KeyAt(src) /\ src.pkts[StartKey(n)].pts = srcStart(n)
  BY <1>5 DEF StartKey
<1>7. StartKey(n) \in DOMAIN src.pkts
  BY <1>6 DEF KeyAt, Stream
<1> QED BY <1>6, <1>7, FileFacts

\* Keyframes that are shown later are stored later.
LEMMA KeysInOrder ==
  ASSUME GridInv, NEW a \in KeyAt(src), NEW b \in KeyAt(src), src.pkts[a].pts < src.pkts[b].pts
  PROVE  a < b
<1>1. a \in Stream(src, "video") /\ b \in Stream(src, "video")
  BY DEF KeyAt
<1>2. a \in DOMAIN src.pkts /\ b \in DOMAIN src.pkts
  BY <1>1 DEF Stream
<1>3. a \in Nat /\ b \in Nat /\ src.pkts[a].pts \in Int /\ src.pkts[b].pts \in Int
  BY <1>2, FileFacts
<1>4. b < a => src.pkts[b].pts + 2 <= src.pkts[a].pts
  BY <1>1, SourceAssumption DEF GridInv, IsGrouped
<1>5. a # b
  BY <1>3
<1> QED BY <1>3, <1>4, <1>5

\* A segment of copied video covers what is stored from its keyframe up to the next one's.
LEMMA KeyCovers ==
  ASSUME GridInv, ~grid.transcode, NEW n \in Seg, NEW i \in Stream(src, "video"), src.pkts[i].pts < src.dur,
         StartKey(n) <= i, n + 1 \in Seg => i < StartKey(n + 1)
  PROVE  i \in Covers("video", n)
<1>1. PICK N : IsGrid(grid, N, src.dur)
  BY GridShape
<1>2. /\ srcStart(n) \in Int /\ extinf(n) \in Int
      /\ n + 1 \in Seg => srcStart(n) + extinf(n) = srcStart(n + 1)
      /\ n + 1 \notin Seg => srcStart(n) + extinf(n) = grid.base + grid.end
  BY <1>1, SegFacts
<1>3. /\ startTS(n) \in Int /\ startTS(n) <= srcStart(n)
      /\ endTS(n) \in Int /\ srcStart(n) + extinf(n) - 1 <= endTS(n)
  BY Ticks
<1>4. /\ StartKey(n) \in KeyAt(src) /\ src.pkts[StartKey(n)].pts = srcStart(n) /\ StartKey(n) \in Nat
      /\ StartKey(n) \in DOMAIN src.pkts
  BY StartKeys
<1>5. PICK from : from = SeekFrame(src, startTS(n))
  OBVIOUS
<1>6. /\ from \in DOMAIN src.pkts /\ From(n) = from
      /\ (from \in KeyAt(src) /\ src.pkts[from].pts <= startTS(n)) \/ from = 1
  BY <1>3, <1>5, SeekFacts DEF From
<1>7. from \in Nat /\ src.pkts[from].pts \in Int
  BY <1>6, FileFacts
<1>8. from <= StartKey(n)
  <2>1. CASE from = 1
    BY <1>4, <2>1, FileFacts
  <2>2. CASE from \in KeyAt(src) /\ src.pkts[from].pts <= startTS(n)
    <3>1. src.pkts[from].pts <= src.pkts[StartKey(n)].pts
      BY <1>2, <1>3, <1>4, <1>7, <2>2
    <3>2. from \in KeyAt(src) /\ StartKey(n) \in Stream(src, "video")
      BY <1>4, <2>2 DEF KeyAt
    <3>3. StartKey(n) < from => src.pkts[StartKey(n)].pts + 2 <= src.pkts[from].pts
      BY <3>2, SourceAssumption DEF GridInv, IsGrouped
    <3> QED BY <1>2, <1>4, <1>7, <3>1, <3>3
  <2> QED BY <1>6, <2>1, <2>2
<1>9. "video" \in Renditions
  BY DEF Renditions
<1>10. i \in DOMAIN src.pkts /\ i \in Nat /\ src.pkts[i].pts \in Int
  BY <1>9, FileFacts
<1>11. from <= i
  BY <1>4, <1>7, <1>8, <1>10
<1>12. ASSUME NEW q \in Stream(src, "video") \cap (from..i)
       PROVE  src.pkts[q].pts < endTS(n)
  <2>1. q \in DOMAIN src.pkts /\ q \in Nat /\ src.pkts[q].pts \in Int /\ q <= i
    BY <1>7, <1>9, <1>10, FileFacts
  <2>2. CASE n + 1 \in Seg
    <3>1. /\ StartKey(n + 1) \in KeyAt(src) /\ src.pkts[StartKey(n + 1)].pts = srcStart(n + 1)
          /\ StartKey(n + 1) \in Nat
      BY <2>2, StartKeys
    <3>2. q < StartKey(n + 1)
      BY <1>10, <2>1, <2>2, <3>1
    <3>3. src.pkts[q].pts + 2 <= srcStart(n + 1)
      BY <3>1, <3>2, SourceAssumption DEF GridInv, IsGrouped
    <3> QED BY <1>2, <1>3, <2>1, <2>2, <3>3
  <2>3. CASE n + 1 \notin Seg
    <3>1. src.pkts[q].pts + 2 <= src.dur
      BY <2>1, SourceAssumption DEF GridInv, IsGrouped
    <3>2. src.dur <= grid.base + grid.end /\ src.dur \in Int
      BY <1>1, FileFacts DEF IsGrid
    <3> QED BY <1>2, <1>3, <2>1, <2>3, <3>1, <3>2
  <2> QED BY <2>2, <2>3
<1>13. i \in Takes("video", n)
  BY DEF Takes
<1> QED BY <1>6, <1>11, <1>12, <1>13 DEF Covers

\* And nothing else where the boundaries convert exactly.
LEMMA KeyCoversOnly ==
  ASSUME GridInv, Exact, ~grid.transcode, NEW n \in Seg, NEW i \in Covers("video", n)
  PROVE  StartKey(n) <= i /\ (n + 1 \in Seg => i < StartKey(n + 1))
<1>1. PICK N : IsGrid(grid, N, src.dur)
  BY GridShape
<1>2. /\ srcStart(n) \in Int /\ extinf(n) \in Int
      /\ n + 1 \in Seg => srcStart(n) + extinf(n) = srcStart(n + 1)
  BY <1>1, SegFacts
<1>3. startTS(n) = srcStart(n) /\ endTS(n) = srcStart(n) + extinf(n)
  BY DEF startTS, endTS, Exact
<1>4. /\ StartKey(n) \in KeyAt(src) /\ src.pkts[StartKey(n)].pts = srcStart(n) /\ StartKey(n) \in Nat
  BY StartKeys
<1>5. PICK from : from = SeekFrame(src, startTS(n))
  OBVIOUS
<1>6. /\ from \in DOMAIN src.pkts /\ From(n) = from
      /\ \A k \in KeyAt(src) : src.pkts[k].pts <= startTS(n) => k <= from
  BY <1>2, <1>3, <1>5, SeekFacts DEF From
<1>7. StartKey(n) <= from
  BY <1>2, <1>3, <1>4, <1>6
<1>8. /\ i \in Stream(src, "video") /\ from <= i
      /\ \A q \in Stream(src, "video") \cap (from..i) : src.pkts[q].pts < endTS(n)
  BY <1>6 DEF Covers, Takes
<1>9. from \in Nat /\ i \in Nat
  BY <1>6, <1>8, FileFacts DEF Renditions
<1>10. ASSUME n + 1 \in Seg
       PROVE  i < StartKey(n + 1)
  <2>1. /\ StartKey(n + 1) \in KeyAt(src) /\ src.pkts[StartKey(n + 1)].pts = srcStart(n + 1)
        /\ StartKey(n + 1) \in Nat /\ StartKey(n + 1) \in Stream(src, "video")
    BY <1>10, StartKeys DEF KeyAt
  <2>2. srcStart(n + 1) \in Int /\ endTS(n) = srcStart(n + 1)
    BY <1>1, <1>2, <1>3, <1>10, SegFacts
  <2>3. StartKey(n + 1) \notin from..i
    <3> SUFFICES ASSUME StartKey(n + 1) \in from..i
                 PROVE  FALSE
      OBVIOUS
    <3>1. src.pkts[StartKey(n + 1)].pts < endTS(n)
      BY <1>8, <2>1
    <3> QED BY <2>1, <2>2, <3>1
  <2>4. from < StartKey(n + 1)
    <3>1. srcStart(n) < srcStart(n + 1)
      BY <1>1, <1>2, <1>10, <2>2, SegFacts
    <3>2. from \in KeyAt(src) /\ src.pkts[from].pts <= startTS(n)
      <4>1. \/ from \in KeyAt(src) /\ src.pkts[from].pts <= startTS(n)
            \/ \A k \in KeyAt(src) : src.pkts[k].pts > startTS(n)
        BY <1>2, <1>3, <1>5, SeekFacts
      <4> QED BY <1>2, <1>3, <1>4, <4>1
    <3>3. src.pkts[from].pts \in Int
      BY <1>6, FileFacts
    <3>4. src.pkts[from].pts < src.pkts[StartKey(n + 1)].pts
      BY <1>2, <1>3, <2>1, <2>2, <3>1, <3>2, <3>3
    <3> QED BY <2>1, <3>2, <3>4, KeysInOrder
  <2> QED BY <1>9, <2>1, <2>3, <2>4
<1> QED BY <1>4, <1>7, <1>8, <1>9, <1>10

\* The segments of a rendition tile it: a copied video loses no packet at a boundary, not even when
\* the boundary is converted a tick short, and where the boundaries convert exactly and decoding
\* order is display order or the grid is keyframe-aligned, every frame that has a time is in exactly
\* one segment
\* (the end test of Segment, the audio trim, the window of drainDecoder).
THEOREM SegmentsAlwaysTile == Spec => []SegmentsTile
<1>1. SegInv => SegmentsTile
  <2> SUFFICES ASSUME SegInv, NEW r \in Renditions, Made(r), NEW i \in Of(r)
               PROVE  /\ r = "video" /\ ~grid.transcode => Carriers(r, i) # {}
                      /\ Exact /\ (\/ r = "audio" \/ ~grid.transcode
                                   \/ src.reorder = 0 /\ i \notin src.untimed) =>
                           Cardinality(Carriers(r, i)) = 1
    BY DEF SegmentsTile
  <2>1. GridInv
    BY DEF SegInv, TypeOK, GridInv
  <2>2. PICK N : IsGrid(grid, N, src.dur)
    BY <2>1, GridShape
  <2>3. N \in Nat \ {0} /\ Seg = 0..(N - 1)
    BY <2>2, SegFacts DEF IsGrid
  <2>4. /\ \A n \in Seg : /\ srcStart(n) \in Int /\ extinf(n) \in Int /\ extinf(n) > 0
                          /\ n + 1 \in Seg => srcStart(n) + extinf(n) = srcStart(n + 1)
                          /\ n + 1 \notin Seg => srcStart(n) + extinf(n) = grid.base + grid.end
    BY <2>2, SegFacts
  <2>5. /\ i \in Stream(src, r) /\ i \in DOMAIN src.pkts /\ i \in Nat /\ src.pkts[i].pts \in Int
        /\ srcStart(0) <= src.pkts[i].pts /\ src.pkts[i].pts < src.dur
    <3>1. i \in DOMAIN src.pkts /\ src.pkts[i].st = r /\ src.pkts[i].pts \in srcStart(0)..(src.dur - 1)
      BY DEF Of
    <3>2. srcStart(0) \in Int /\ src.dur \in Int
      BY <2>1, <2>3, <2>4, FileFacts
    <3>3. i \in Stream(src, r) /\ i \in Nat
      BY <2>1, <3>1, FileFacts DEF Stream
    <3> QED BY <3>1, <3>2, <3>3
  <2>6. PICK p : p = src.pkts[i].pts
    OBVIOUS
  <2>7. ASSUME Plain(r), NEW n \in Seg, \A m \in Seg : i \in Covers(r, m) <=> m = n
        PROVE  Cardinality(Carriers(r, i)) = 1
    <3>1. \A m \in Seg : m \in Carriers(r, i) <=> m = n
      BY <2>7, CarriersCover
    <3>2. Carriers(r, i) \subseteq Seg
      BY DEF Carriers
    <3>3. Carriers(r, i) = {n}
      BY <2>7, <3>1, <3>2
    <3> QED BY <3>3, FS_Singleton
  <2>8. CASE r = "video" /\ ~grid.transcode
    <3>1. Plain(r)
      BY <2>8 DEF Plain, Copied
    <3>2. PICK K : K = [n \in 0..(N - 1) |-> StartKey(n)]
      OBVIOUS
    <3>3. \A n \in 0..(N - 1) : /\ K[n] = StartKey(n) /\ K[n] \in Int /\ K[n] \in KeyAt(src)
                                /\ src.pkts[K[n]].pts = srcStart(n)
      BY <2>1, <2>3, <2>8, <3>2, StartKeys
    <3>4. ASSUME NEW n \in 0..(N - 2)
          PROVE  K[n] < K[n + 1]
      <4>1. n \in 0..(N - 1) /\ n + 1 \in 0..(N - 1)
        BY <2>3
      <4>2. srcStart(n) < srcStart(n + 1)
        BY <2>3, <2>4, <4>1
      <4>3. src.pkts[K[n]].pts < src.pkts[K[n + 1]].pts
        BY <3>3, <4>1, <4>2
      <4> QED BY <2>1, <3>3, <4>1, <4>3, KeysInOrder
    <3>5. K[0] <= i
      <4>1. 0 \in 0..(N - 1)
        BY <2>3
      <4>2. K[0] \in KeyAt(src) /\ src.pkts[K[0]].pts = srcStart(0) /\ K[0] \in Int
        BY <3>3, <4>1
      <4>3. i \in Stream(src, "video")
        BY <2>5, <2>8
      <4>4. i < K[0] => src.pkts[i].pts + 2 <= src.pkts[K[0]].pts
        BY <2>1, <4>2, <4>3, SourceAssumption DEF GridInv, IsGrouped
      <4>5. srcStart(0) \in Int
        BY <2>3, <2>4, <4>1
      <4> QED BY <2>5, <4>2, <4>4, <4>5
    <3>6. PICK n \in 0..(N - 1) :
            /\ K[n] <= i /\ (n + 1 \in 0..(N - 1) => i < K[n + 1])
            /\ \A m \in 0..(N - 1) : K[m] <= i /\ (m + 1 \in 0..(N - 1) => i < K[m + 1]) => m = n
      <4>1. i \in Int /\ \A n \in 0..(N - 1) : K[n] \in Int
        BY <2>5, <3>3
      <4> QED BY <2>3, <3>4, <3>5, <4>1, OneCell
    <3>7. i \in Covers(r, n)
      <4>1. StartKey(n) <= i /\ (n + 1 \in Seg => i < StartKey(n + 1))
        BY <2>3, <3>3, <3>6
      <4> QED BY <2>1, <2>3, <2>5, <2>8, <3>6, <4>1, KeyCovers
    <3>8. n \in Carriers(r, i)
      BY <2>3, <3>1, <3>6, <3>7, CarriersCover
    <3>9. ASSUME Exact, NEW m \in Seg, i \in Covers(r, m)
          PROVE  m = n
      <4>1. StartKey(m) <= i /\ (m + 1 \in Seg => i < StartKey(m + 1))
        BY <2>1, <2>8, <3>9, KeyCoversOnly
      <4>2. K[m] <= i /\ (m + 1 \in 0..(N - 1) => i < K[m + 1])
        BY <2>3, <3>3, <4>1
      <4> QED BY <2>3, <3>6, <4>2
    <3>10. Exact => Cardinality(Carriers(r, i)) = 1
      BY <2>3, <2>7, <3>1, <3>6, <3>7, <3>9
    <3> QED BY <3>8, <3>10
  <2>9. CASE /\ ~(r = "video" /\ ~grid.transcode) /\ Exact
             /\ r = "audio" \/ ~grid.transcode \/ (src.reorder = 0 /\ i \notin src.untimed)
    <3>1. r = "audio" \/ (grid.transcode /\ src.reorder = 0 /\ i \notin src.untimed)
      BY <2>9 DEF Renditions
    <3>2. Plain(r)
      BY <3>1 DEF Plain, Copied
    <3>3. PICK f : f = [n \in 0..(N - 1) |-> srcStart(n)]
      OBVIOUS
    <3>4. \A n \in 0..(N - 1) : f[n] = srcStart(n) /\ f[n] \in Int
      BY <2>3, <2>4, <3>3
    <3>5. ASSUME NEW n \in 0..(N - 2)
          PROVE  f[n] < f[n + 1]
      <4>1. n \in 0..(N - 1) /\ n + 1 \in 0..(N - 1)
        BY <2>3
      <4>2. srcStart(n) < srcStart(n + 1)
        BY <2>3, <2>4, <4>1
      <4> QED BY <3>4, <4>1, <4>2
    <3>6. PICK n \in 0..(N - 1) :
            /\ f[n] <= p /\ (n + 1 \in 0..(N - 1) => p < f[n + 1])
            /\ \A m \in 0..(N - 1) : f[m] <= p /\ (m + 1 \in 0..(N - 1) => p < f[m + 1]) => m = n
      <4>1. p \in Int /\ f[0] <= p
        BY <2>3, <2>5, <2>6, <3>4
      <4> QED BY <2>3, <3>4, <3>5, <4>1, OneCell
    <3>7. ASSUME NEW m \in 0..(N - 1)
          PROVE  p \in Window(m) <=> (f[m] <= p /\ (m + 1 \in 0..(N - 1) => p < f[m + 1]))
      <4>1. startTS(m) = srcStart(m) /\ endTS(m) = srcStart(m) + extinf(m)
        BY <2>9 DEF startTS, endTS, Exact
      <4>2. srcStart(m) \in Int /\ extinf(m) \in Int /\ p \in Int
        BY <2>3, <2>4, <2>5, <2>6
      <4>3. p \in Window(m) <=> srcStart(m) <= p /\ p < srcStart(m) + extinf(m)
        BY <4>1, <4>2 DEF Window
      <4>4. CASE m + 1 \in Seg
        BY <2>3, <2>4, <3>4, <4>3, <4>4
      <4>5. CASE m + 1 \notin Seg
        <5>1. srcStart(m) + extinf(m) = grid.base + grid.end
          BY <2>3, <2>4, <4>5
        <5>2. src.dur <= grid.base + grid.end /\ grid.base \in Int /\ grid.end \in Int /\ src.dur \in Int
          BY <2>1, <2>2, FileFacts DEF IsGrid
        <5>3. p < srcStart(m) + extinf(m)
          BY <2>5, <2>6, <4>2, <5>1, <5>2
        <5> QED BY <2>3, <3>4, <4>3, <4>5, <5>3
      <4> QED BY <4>4, <4>5
    <3>8. \A m \in Seg : i \in Covers(r, m) <=> p \in Window(m)
      BY <2>1, <2>5, <2>6, <3>1, WindowCovers
    <3>9. \A m \in Seg : i \in Covers(r, m) <=> m = n
      BY <2>3, <3>6, <3>7, <3>8
    <3> QED BY <2>3, <2>7, <2>9, <3>2, <3>6, <3>9
  <2> QED BY <2>8, <2>9
<1> QED BY <1>1, SegInv_Holds, PTL

=============================================================================
