----------------------------- MODULE HlsProofs -----------------------------
(***************************************************************************)
(* What the HLS handlers promise of the segment cache, of the grids and of *)
(* the continuous audio transcoders, for any files, requests, transcoders, *)
(* track lengths, keyframes, grids and limits.                             *)
(***************************************************************************)
EXTENDS Hls, FiniteSetTheorems, SequenceTheorems, WellFoundedInduction, TLAPS

(* The inductive invariant of the transcoders *)

\* A transcoder that has its config has every frame from its first to its position: Free takes both
\* away together, and a config is never published again.
TranscoderOK(t) ==
  /\ t.first <= t.pos /\ t.producedTo <= t.pos
  /\ t.config => t.frames = t.first..(t.pos - 1)
  /\ t.complete => t.pc = "ended" /\ t.pos = Length
  /\ t.pc = "open" => t.pos = 0 /\ t.first = 0 /\ t.frames = {}
  /\ t.pc = "read" => t.pos < Length

TranscodersOK == \A t \in Tc : TranscoderOK(tc[t])

\* It is past the window.
PastWindow(t, w) == t.complete \/ t.producedTo >= w.hi

\* A call has a track, and a transcoder from where it was given one.  Who runs the function of a
\* flight leads it, and while it does nobody else stores a transcoder.  Who has stopped waiting
\* finds the transcoder past its window, and who was served has what the property says.
CallerOK(r) ==
  /\ call[r].pc # "out" => call[r].track \in Track
  /\ call[r].pc \in {"look", "replace", "raise", "wait", "slice", "ok"} => call[r].cont \in Tc
  /\ call[r].pc \in {"recheck", "cap", "start", "raise"} => contFlight[call[r].track] = r
  /\ call[r].pc \in {"cap", "start"} => audioCont[call[r].track] = None
  /\ call[r].pc = "slice" /\ call[r].win # None => PastWindow(tc[call[r].cont], call[r].win)
  /\ call[r].pc = "ok" /\ call[r].win # None =>
       /\ call[r].got # {} /\ tc[call[r].cont].pc # "open"
       /\ call[r].got = {p \in Frames(call[r].win) : p >= tc[call[r].cont].first}

CallersOK == \A r \in Req : CallerOK(r)

\* The transcoders stored, and the increments and decrements on their way.
Stored   == {k \in Track : audioCont[k] # None}
Raising  == {r \in Req : call[r].pc = "raise"}
Lowering == {r \in Req : call[r].pc = "lower"} \cup (IF dropLowers THEN {None} ELSE {})

CountOK ==
  /\ IsFiniteSet(Raising) /\ IsFiniteSet(Lowering)
  /\ audioContCount + Cardinality(Raising) <= Cardinality(Stored) + Cardinality(Lowering)

AudioInv == ContTypeOK /\ CallersOK /\ TranscodersOK /\ CountOK

-----------------------------------------------------------------------------
(* The inductive invariant of the requests and the cache *)

InLookup(q) == q.pc \in {"load", "fly", "follow", "recheck", "probe"}

\* The artifact is in the grid.
Fits(q) == q.grid \in Grid /\ (isInit(q.art) \/ q.art.n < count(q.grid))

\* A request produces only what its grid has, and who asks for the layout first has the grid or is
\* about to build it.
ReqOK(r) ==
  /\ req[r].pc # "idle" => req[r].art \in Artifact
  /\ req[r].pc = "idle" => req[r].grid = None /\ req[r].data = None
  /\ req[r].again => req[r].art.kind = "vinit"
  /\ req[r].pc = "leaf" => req[r].grid \in Grid
  /\ req[r].pc \in {"produce", "cont", "put"} => Fits(req[r])
  /\ InLookup(req[r]) /\ req[r].what = "layout" => Fits(req[r]) \/ Leads(r, "grid")
  /\ req[r].pc = "put" => req[r].data \in Data
  /\ req[r].pc = "cont" /\ call[r].win = None => isInit(req[r].art)
  /\ req[r].data # None => req[r].grid \in Grid

\* Who is to build a grid leads its flight ...
BuilderLeads(r) ==
  (req[r].pc \in {"index", "uniform"} \/ (req[r].pc \in {"recheck", "probe"} /\ req[r].what = "grid"))
    => Leads(r, "grid")

\* ... and who leads it is to build the grid, which is not there unless it has yet to look.
Builds(q) ==
  \/ q.pc \in {"recheck", "probe"} /\ q.what = "grid"
  \/ InLookup(q) /\ q.what = "layout"
  \/ q.pc \in {"index", "uniform"}

LeaderBuilds(r) ==
  \A f \in File : flight[<<"grid", f>>] = r =>
    /\ req[r].art \in Artifact /\ req[r].art.file = f
    /\ Builds(req[r])
    /\ (drops = 0 /\ segList[f] # None) => req[r].pc = "recheck" /\ req[r].what = "grid"

\* The keys of an external audio file do not tell whose grid its segments were cut by.
OfVideo(kind) == kind \notin {"xa", "xinit"}

\* Until the first drop there is one grid a file, everything in a request was cut by it ...
OneGrid(r) ==
  drops = 0 =>
    /\ req[r].grid # None => req[r].grid = segList[req[r].art.file]
    /\ (req[r].data # None /\ OfVideo(req[r].art.kind)) => req[r].data.grid = segList[req[r].art.file]

RequestOK(r) == ReqOK(r) /\ BuilderLeads(r) /\ LeaderBuilds(r) /\ OneGrid(r)

RequestsOK == \A r \in Req : RequestOK(r)

\* ... and everything in the cache.
EntryOK(e) ==
  OfVideo(e.key.kind) => e.key.file \in File /\ (drops = 0 => e.data.grid = segList[e.key.file])

CacheOneGrid == \A i \in 1..Len(cache) : EntryOK(cache[i])

HlsInv == TypeOK /\ AudioInv /\ RequestsOK /\ CacheOneGrid /\ CacheExact

-----------------------------------------------------------------------------
(* Naturals and sums.  The provers cannot instantiate the library's induction
   rules; that strict inclusion of finite sets is well-founded, they can. *)

\* A nonempty set of naturals has a least element: the least 0..m for m in the set.
LEMMA LeastNatural ==
  ASSUME NEW T, T \subseteq Nat, T # {}
  PROVE  \E x \in T : \A y \in T : x <= y
<1>1. PICK n \in T : TRUE
  OBVIOUS
<1>2. PICK S : S = 0..n
  OBVIOUS
<1>3. PICK U : U = {0..m : m \in {k \in T : k <= n}}
  OBVIOUS
<1>4. \A u \in U : u \in FiniteSubsetsOf(S)
  <2> SUFFICES ASSUME NEW u \in U
               PROVE  u \in FiniteSubsetsOf(S)
    OBVIOUS
  <2>1. PICK m \in T : m <= n /\ u = 0..m
    BY <1>3
  <2>2. IsFiniteSet(u)
    BY <2>1, FS_Interval
  <2>3. u \subseteq S
    BY <1>2, <2>1
  <2> QED BY <2>2, <2>3 DEF FiniteSubsetsOf
<1>5. 0..n \in U
  <2>1. n \in {k \in T : k <= n}
    OBVIOUS
  <2> QED BY <1>3, <2>1
<1>6. IsWellFoundedOn(StrictSubsetOrdering(S), FiniteSubsetsOf(S))
  BY FS_StrictSubsetOrderingWellFounded
<1>7. PICK u \in U : \A v \in U : ~(<<v, u>> \in StrictSubsetOrdering(S))
  BY <1>4, <1>5, <1>6, WFMin
<1>8. PICK x \in T : x <= n /\ u = 0..x
  BY <1>3
<1>9. ASSUME NEW y \in T, y < x
      PROVE  FALSE
  <2>1. 0..y \in U
    BY <1>3, <1>8, <1>9
  <2>2. 0..y \subseteq 0..x /\ x \in 0..x /\ x \notin 0..y
    BY <1>9
  <2>3. u \in SUBSET S /\ 0..y \in SUBSET S
    BY <1>4, <2>1 DEF FiniteSubsetsOf
  <2> QED BY <1>7, <1>8, <2>1, <2>2, <2>3 DEF StrictSubsetOrdering
<1> QED BY <1>9

\* A nonempty bounded one has a greatest.
LEMMA GreatestNatural ==
  ASSUME NEW T, T \subseteq Nat, T # {}, NEW b \in Nat, \A x \in T : x <= b
  PROVE  \E x \in T : \A y \in T : y <= x
<1>1. PICK U : U = {b - x : x \in T}
  OBVIOUS
<1>2. U \subseteq Nat /\ U # {}
  <2>1. \A x \in T : b - x \in Nat
    OBVIOUS
  <2> QED BY <1>1, <2>1
<1>3. PICK u \in U : \A v \in U : u <= v
  BY <1>2, LeastNatural
<1>4. PICK x \in T : u = b - x
  BY <1>1
<1> QED BY <1>1, <1>3, <1>4

\* f grows by size[i] at i.
Sums(f, size, n) == \A i \in 1..n : f[i] = f[i - 1] + size[i]

\* The running sums of n sizes exist.
LEMMA SumsExist ==
  ASSUME NEW n \in Nat, NEW size \in [1..n -> Nat]
  PROVE  \E f \in [0..n -> Nat] : f[0] = 0 /\ Sums(f, size, n)
<1> DEFINE Good(m) == \E f \in [0..m -> Nat] : f[0] = 0 /\ Sums(f, size, m)
<1> HIDE DEF Good
<1>1. PICK T : T = {m \in 0..n : ~Good(m)}
  OBVIOUS
<1>2. CASE T = {}
  <2>1. Good(n)
    BY <1>1, <1>2
  <2> QED BY <2>1 DEF Good
<1>3. ASSUME T # {}
      PROVE  FALSE
  <2>0. T \subseteq Nat
    BY <1>1
  <2>1. PICK m \in T : \A k \in T : m <= k
    BY <1>3, <2>0, LeastNatural
  <2>2. m # 0
    <3>1. PICK f : f = [i \in 0..0 |-> 0]
      OBVIOUS
    <3>2. f \in [0..0 -> Nat] /\ f[0] = 0 /\ Sums(f, size, 0)
      BY <3>1 DEF Sums
    <3>3. Good(0)
      BY <3>2 DEF Good
    <3> QED BY <1>1, <3>3
  <2>3. m - 1 \in 0..n /\ m \in 1..n
    BY <1>1, <2>2
  <2>4. Good(m - 1)
    <3>1. m - 1 \notin T
      BY <1>1, <2>1, <2>3
    <3> QED BY <1>1, <2>3, <3>1
  <2>5. PICK f \in [0..(m - 1) -> Nat] : f[0] = 0 /\ Sums(f, size, m - 1)
    BY <2>4 DEF Good
  <2>6. PICK g : g = [i \in 0..m |-> IF i = m THEN f[m - 1] + size[m] ELSE f[i]]
    OBVIOUS
  <2>7. g \in [0..m -> Nat]
    BY <2>3, <2>6
  <2>8. g[0] = 0 /\ Sums(g, size, m)
    BY <2>3, <2>5, <2>6 DEF Sums
  <2>9. Good(m)
    BY <2>7, <2>8 DEF Good
  <2> QED BY <1>1, <2>9
<1> QED BY <1>2, <1>3

\* ... and are unique.
LEMMA SumsUnique ==
  ASSUME NEW n \in Nat, NEW size, NEW f, NEW g, f[0] = g[0], Sums(f, size, n), Sums(g, size, n)
  PROVE  \A i \in 0..n : f[i] = g[i]
<1>1. PICK T : T = {m \in 0..n : f[m] # g[m]}
  OBVIOUS
<1>2. CASE T = {}
  BY <1>1, <1>2
<1>3. ASSUME T # {}
      PROVE  FALSE
  <2>1. T \subseteq Nat
    BY <1>1
  <2>2. PICK m \in T : \A k \in T : m <= k
    BY <1>3, <2>1, LeastNatural
  <2>3. m \in 1..n /\ m - 1 \in 0..n
    BY <1>1, <2>2
  <2>4. m - 1 \notin T
    BY <2>2, <2>3
  <2>5. f[m - 1] = g[m - 1]
    BY <1>1, <2>3, <2>4
  <2>6. f[m] = f[m - 1] + size[m] /\ g[m] = g[m - 1] + size[m]
    BY <2>3 DEF Sums
  <2> QED BY <1>1, <2>5, <2>6
<1> QED BY <1>2, <1>3

\* Two functions that start alike and grow alike are alike.
LEMMA SameGrowth ==
  ASSUME NEW n \in Nat, NEW f \in [0..n -> Int], NEW g \in [0..n -> Int], f[0] = g[0],
         \A i \in 1..n : f[i] - f[i - 1] = g[i] - g[i - 1]
  PROVE  f[n] = g[n]
<1>1. PICK size : size = [i \in 1..n |-> f[i] - f[i - 1]]
  OBVIOUS
<1>2. Sums(f, size, n) /\ Sums(g, size, n)
  <2> SUFFICES ASSUME NEW i \in 1..n
               PROVE  f[i] = f[i - 1] + size[i] /\ g[i] = g[i - 1] + size[i]
    BY DEF Sums
  <2>1. i \in 0..n /\ i - 1 \in 0..n
    OBVIOUS
  <2>2. f[i] \in Int /\ f[i - 1] \in Int /\ g[i] \in Int /\ g[i - 1] \in Int
    BY <2>1
  <2>3. f[i] - f[i - 1] = g[i] - g[i - 1] /\ size[i] = f[i] - f[i - 1]
    BY <1>1
  <2> QED BY <2>2, <2>3
<1>3. \A i \in 0..n : f[i] = g[i]
  BY <1>2, SumsUnique
<1> QED BY <1>3

\* What BytesTo computes.
LEMMA BytesToDef ==
  ASSUME NEW s \in Seq(CacheEntry)
  PROVE  /\ BytesTo(s) \in [0..Len(s) -> Nat]
         /\ BytesTo(s)[0] = 0
         /\ \A i \in 1..Len(s) : BytesTo(s)[i] = BytesTo(s)[i - 1] + s[i].data.size
<1> DEFINE n == Len(s)
           Recurs(f) == f = [i \in 0..n |-> IF i = 0 THEN 0 ELSE f[i - 1] + s[i].data.size]
<1>1. n \in Nat
  OBVIOUS
<1>2. \A i \in 1..n : s[i].data.size \in Nat
  <2> SUFFICES ASSUME NEW i \in 1..n
               PROVE  s[i].data.size \in Nat
    OBVIOUS
  <2>1. s[i] \in CacheEntry
    BY ElementOfSeq
  <2> QED BY <2>1, AudioContAssumption DEF CacheEntry, Data
<1>3. PICK size : size = [i \in 1..n |-> s[i].data.size]
  OBVIOUS
<1>4. size \in [1..n -> Nat]
  BY <1>2, <1>3
<1>5. PICK f \in [0..n -> Nat] : f[0] = 0 /\ Sums(f, size, n)
  BY <1>1, <1>4, SumsExist
<1>6. Recurs(f)
  BY <1>1, <1>3, <1>5 DEF Sums
<1>7. BytesTo(s) = CHOOSE g : Recurs(g)
  BY DEF BytesTo
<1>8. Recurs(BytesTo(s))
  BY <1>6, <1>7
<1>9. PICK g : g = BytesTo(s)
  OBVIOUS
<1>10. g = [i \in 0..n |-> IF i = 0 THEN 0 ELSE g[i - 1] + s[i].data.size]
  BY <1>8, <1>9
<1>11. \A i \in 0..n : g[i] = IF i = 0 THEN 0 ELSE g[i - 1] + s[i].data.size
  BY <1>10
<1>12. g[0] = 0
  BY <1>1, <1>11
<1>13. \A i \in 1..n : g[i] = g[i - 1] + s[i].data.size
  BY <1>1, <1>11
<1>14. Sums(g, size, n)
  BY <1>3, <1>13 DEF Sums
<1>15. \A i \in 0..n : f[i] = g[i]
  BY <1>1, <1>5, <1>12, <1>14, SumsUnique
<1>16. g = [i \in 0..n |-> g[i]]
  BY <1>10
<1>17. g \in [0..n -> Nat]
  BY <1>15, <1>16
<1> QED BY <1>9, <1>12, <1>13, <1>17

-----------------------------------------------------------------------------
(* What put and get do to the list *)

\* PushFront.
LEMMA FrontShape ==
  ASSUME NEW s \in Seq(CacheEntry), NEW e \in CacheEntry
  PROVE  /\ <<e>> \o s \in Seq(CacheEntry)
         /\ Len(<<e>> \o s) = Len(s) + 1
         /\ \A i \in 1..(Len(s) + 1) : (<<e>> \o s)[i] = IF i = 1 THEN e ELSE s[i - 1]
<1>1. <<e>> \in Seq(CacheEntry) /\ Len(<<e>>) = 1 /\ <<e>>[1] = e
  OBVIOUS
<1> QED BY <1>1, ConcatProperties

\* Remove.
LEMMA RemoveShape ==
  ASSUME NEW s \in Seq(CacheEntry), NEW i \in 1..Len(s)
  PROVE  /\ RemoveAt(s, i) \in Seq(CacheEntry)
         /\ Len(RemoveAt(s, i)) = Len(s) - 1
         /\ \A j \in 1..(Len(s) - 1) : RemoveAt(s, i)[j] = IF j < i THEN s[j] ELSE s[j + 1]
<1> DEFINE a == SubSeq(s, 1, i - 1)
           b == SubSeq(s, i + 1, Len(s))
<1>1. a \in Seq(CacheEntry) /\ Len(a) = i - 1 /\ \A j \in 1..(i - 1) : a[j] = s[j]
  BY SubSeqProperties
<1>2. /\ b \in Seq(CacheEntry) /\ Len(b) = Len(s) - i
      /\ \A j \in 1..(Len(s) - i) : b[j] = s[i + j]
  BY SubSeqProperties
<1>3. RemoveAt(s, i) = a \o b
  BY DEF RemoveAt
<1>4. /\ a \o b \in Seq(CacheEntry)
      /\ Len(a \o b) = Len(a) + Len(b)
      /\ \A j \in 1..(Len(a) + Len(b)) : (a \o b)[j] = IF j <= Len(a) THEN a[j] ELSE b[j - Len(a)]
  BY <1>1, <1>2, ConcatProperties
<1> HIDE DEF a, b
<1> QED BY <1>1, <1>2, <1>3, <1>4

\* What is left after evictions from the back.
LEMMA PrefixShape ==
  ASSUME NEW s \in Seq(CacheEntry), NEW n \in 1..Len(s)
  PROVE  /\ SubSeq(s, 1, n) \in Seq(CacheEntry)
         /\ Len(SubSeq(s, 1, n)) = n
         /\ \A i \in 1..n : SubSeq(s, 1, n)[i] = s[i]
BY SubSeqProperties

\* The bytes of a list whose sizes are known up to a shift.
LEMMA SizeFromGrowth ==
  ASSUME NEW s \in Seq(CacheEntry), NEW g \in [0..Len(s) -> Int], g[0] = 0,
         \A i \in 1..Len(s) : g[i] - g[i - 1] = s[i].data.size
  PROVE  Size(s) = g[Len(s)]
<1>1. PICK f : f = BytesTo(s)
  OBVIOUS
<1>2. f \in [0..Len(s) -> Nat] /\ f[0] = 0 /\ \A i \in 1..Len(s) : f[i] = f[i - 1] + s[i].data.size
  BY <1>1, BytesToDef
<1>3. f \in [0..Len(s) -> Int] /\ Len(s) \in Nat
  BY <1>2
<1>4. \A i \in 1..Len(s) : f[i] - f[i - 1] = g[i] - g[i - 1]
  <2> SUFFICES ASSUME NEW i \in 1..Len(s)
               PROVE  f[i] - f[i - 1] = g[i] - g[i - 1]
    OBVIOUS
  <2>1. i \in 0..Len(s) /\ i - 1 \in 0..Len(s)
    BY <1>3
  <2>2. f[i] \in Nat /\ f[i - 1] \in Nat /\ g[i] \in Int /\ g[i - 1] \in Int
    BY <1>2, <2>1
  <2>3. f[i] = f[i - 1] + s[i].data.size /\ g[i] - g[i - 1] = s[i].data.size
    BY <1>2
  <2>4. s[i].data.size \in Int
    BY <2>2, <2>3
  <2> QED BY <2>2, <2>3, <2>4
<1>5. f[0] = g[0]
  BY <1>2
<1>6. f[Len(s)] = g[Len(s)]
  BY <1>3, <1>4, <1>5, SameGrowth
<1> QED BY <1>1, <1>6 DEF Size

\* One step of the running sum.
LEMMA BytesToStep ==
  ASSUME NEW s \in Seq(CacheEntry), NEW i \in 1..Len(s)
  PROVE  /\ s[i] \in CacheEntry /\ s[i].data.size \in Nat
         /\ BytesTo(s)[i] \in Nat /\ BytesTo(s)[i - 1] \in Nat
         /\ BytesTo(s)[i] = BytesTo(s)[i - 1] + s[i].data.size
<1>1. s[i] \in CacheEntry
  BY ElementOfSeq
<1>2. s[i].data.size \in Nat
  BY <1>1, AudioContAssumption DEF CacheEntry, Data
<1>3. i \in 0..Len(s) /\ i - 1 \in 0..Len(s)
  OBVIOUS
<1>4. BytesTo(s)[i] \in Nat /\ BytesTo(s)[i - 1] \in Nat
  BY <1>3, BytesToDef
<1>5. BytesTo(s)[i] = BytesTo(s)[i - 1] + s[i].data.size
  BY BytesToDef
<1> QED BY <1>1, <1>2, <1>4, <1>5

LEMMA FrontSize ==
  ASSUME NEW s \in Seq(CacheEntry), NEW e \in CacheEntry
  PROVE  Size(<<e>> \o s) = e.data.size + Size(s)
<1>1. PICK t : t = <<e>> \o s
  OBVIOUS
<1>2. /\ t \in Seq(CacheEntry) /\ Len(t) = Len(s) + 1
      /\ \A i \in 1..(Len(s) + 1) : t[i] = IF i = 1 THEN e ELSE s[i - 1]
  BY <1>1, FrontShape
<1>3. PICK f : f = BytesTo(s)
  OBVIOUS
<1>4. f \in [0..Len(s) -> Nat] /\ f[0] = 0 /\ \A i \in 1..Len(s) : f[i] = f[i - 1] + s[i].data.size
  BY <1>3, BytesToDef
<1>5. e.data.size \in Nat /\ Len(s) \in Nat
  BY AudioContAssumption DEF CacheEntry, Data
<1>6. PICK g : g = [i \in 0..Len(t) |-> IF i = 0 THEN 0 ELSE e.data.size + f[i - 1]]
  OBVIOUS
<1>7. g \in [0..Len(t) -> Int] /\ g[0] = 0
  BY <1>2, <1>4, <1>5, <1>6
<1>8. \A i \in 1..Len(t) : g[i] - g[i - 1] = t[i].data.size
  <2> SUFFICES ASSUME NEW i \in 1..Len(t)
               PROVE  g[i] - g[i - 1] = t[i].data.size
    OBVIOUS
  <2>1. CASE i = 1
    BY <1>2, <1>4, <1>5, <1>6, <2>1
  <2>2. CASE i > 1
    <3>1. i - 1 \in 1..Len(s) /\ i - 2 \in 0..Len(s) /\ i - 1 # 0
      BY <1>2, <1>5, <2>2
    <3>2. PICK j \in 1..Len(s) : j = i - 1
      BY <3>1
    <3>3. f[j] = f[j - 1] + s[j].data.size /\ f[j] \in Nat /\ f[j - 1] \in Nat
          /\ s[j].data.size \in Nat
      BY <1>3, BytesToStep
    <3>4. g[i] = e.data.size + f[j] /\ g[i - 1] = e.data.size + f[j - 1]
      BY <1>2, <1>5, <1>6, <2>2, <3>2
    <3>5. t[i] = s[j]
      BY <1>2, <2>2, <3>2
    <3> QED BY <1>5, <3>3, <3>4, <3>5
  <2> QED BY <1>2, <1>5, <2>1, <2>2
<1>9. Size(t) = g[Len(t)]
  BY <1>2, <1>7, <1>8, SizeFromGrowth
<1>10. g[Len(t)] = e.data.size + f[Len(s)]
  BY <1>2, <1>5, <1>6
<1> QED BY <1>1, <1>3, <1>9, <1>10 DEF Size

LEMMA RemoveSize ==
  ASSUME NEW s \in Seq(CacheEntry), NEW k \in 1..Len(s)
  PROVE  Size(RemoveAt(s, k)) = Size(s) - s[k].data.size
<1>1. PICK t : t = RemoveAt(s, k)
  OBVIOUS
<1>2. /\ t \in Seq(CacheEntry) /\ Len(t) = Len(s) - 1
      /\ \A i \in 1..(Len(s) - 1) : t[i] = IF i < k THEN s[i] ELSE s[i + 1]
  BY <1>1, RemoveShape
<1>3. PICK f : f = BytesTo(s)
  OBVIOUS
<1>4. f \in [0..Len(s) -> Nat] /\ f[0] = 0 /\ \A i \in 1..Len(s) : f[i] = f[i - 1] + s[i].data.size
  BY <1>3, BytesToDef
<1>5. \A i \in 1..Len(s) : s[i].data.size \in Nat
  BY BytesToStep
<1>6. Len(s) \in Nat /\ Len(t) \in Nat /\ k \in 1..Len(s)
  BY <1>2
<1>7. PICK g : g = [i \in 0..Len(t) |-> IF i < k THEN f[i] ELSE f[i + 1] - s[k].data.size]
  OBVIOUS
<1>8. g \in [0..Len(t) -> Int] /\ g[0] = 0
  <2>1. \A i \in 0..Len(t) : i \in 0..Len(s) /\ i + 1 \in 0..Len(s)
    BY <1>2, <1>6
  <2>2. \A i \in 0..Len(t) : f[i] \in Nat /\ f[i + 1] \in Nat
    BY <1>4, <2>1
  <2> QED BY SMTT(20), <1>4, <1>5, <1>6, <1>7, <2>2
<1>9. \A i \in 1..Len(t) : g[i] - g[i - 1] = t[i].data.size
  <2> SUFFICES ASSUME NEW i \in 1..Len(t)
               PROVE  g[i] - g[i - 1] = t[i].data.size
    OBVIOUS
  <2>1. i \in 1..Len(s) /\ i + 1 \in 1..Len(s) /\ i - 1 \in 0..Len(s) /\ i - 1 \in 0..Len(t)
        /\ i \in 0..Len(t)
    BY <1>2, <1>6
  <2>2. /\ f[i] = f[i - 1] + s[i].data.size /\ f[i + 1] = f[i] + s[i + 1].data.size
        /\ f[i] \in Nat /\ f[i - 1] \in Nat /\ f[i + 1] \in Nat
        /\ s[i].data.size \in Nat /\ s[i + 1].data.size \in Nat /\ s[k].data.size \in Nat
    <3>1. PICK j \in 1..Len(s) : j = i + 1
      BY <2>1
    <3>2. f[j] = f[j - 1] + s[j].data.size /\ f[j] \in Nat
      BY <1>3, BytesToStep
    <3>4. j - 1 = i
      BY <2>1, <3>1
    <3>3. f[i] = f[i - 1] + s[i].data.size /\ f[i] \in Nat /\ f[i - 1] \in Nat
      BY <1>3, <2>1, BytesToStep
    <3> QED BY <1>5, <1>6, <2>1, <3>1, <3>2, <3>3, <3>4
  <2>3. t[i] = IF i < k THEN s[i] ELSE s[i + 1]
    BY <1>2
  <2>4. CASE i < k
    <3>1. g[i] = f[i] /\ g[i - 1] = f[i - 1]
      BY <1>6, <1>7, <2>1, <2>4
    <3> QED BY SMTT(20), <2>2, <2>3, <2>4, <3>1
  <2>5. CASE i = k
    <3>1. g[i] = f[i + 1] - s[k].data.size /\ g[i - 1] = f[i - 1]
      BY <1>6, <1>7, <2>1, <2>5
    <3>2. s[k] = s[i] /\ t[i] = s[i + 1]
      BY <1>6, <2>3, <2>5
    <3>3. PICK a \in Nat, b \in Nat, c \in Nat :
            a = s[i].data.size /\ b = s[i + 1].data.size /\ c = f[i - 1]
      BY <2>2
    <3>4. f[i + 1] = (c + a) + b
      BY <2>2, <3>3
    <3>5. g[i] = ((c + a) + b) - a /\ g[i - 1] = c /\ t[i].data.size = b
      BY <3>1, <3>2, <3>3, <3>4
    <3> QED BY <3>5
  <2>6. CASE i > k
    <3>1. g[i] = f[i + 1] - s[k].data.size
      BY <1>6, <1>7, <2>1, <2>6
    <3>2. PICK j \in 0..Len(t) : j = i - 1
      BY <2>1
    <3>3. g[j] = f[j + 1] - s[k].data.size /\ j + 1 = i
      BY <1>6, <1>7, <2>1, <2>6, <3>2
    <3>4. t[i] = s[i + 1] /\ g[i - 1] = f[i] - s[k].data.size
      BY <1>6, <2>1, <2>3, <2>6, <3>2, <3>3
    <3>5. PICK b \in Nat, c \in Nat, d \in Nat :
            b = s[i + 1].data.size /\ c = f[i] /\ d = s[k].data.size
      BY <2>2
    <3>6. g[i] = (c + b) - d /\ g[i - 1] = c - d /\ t[i].data.size = b
      BY <2>2, <3>1, <3>4, <3>5
    <3> QED BY <3>6
  <2> QED BY <1>6, <2>4, <2>5, <2>6
<1>10. Size(t) = g[Len(t)]
  BY <1>2, <1>8, <1>9, SizeFromGrowth
<1>11. g[Len(t)] = f[Len(s)] - s[k].data.size
  <2>1. CASE k = Len(s)
    <3>1. f[Len(s)] = f[Len(s) - 1] + s[k].data.size /\ f[Len(s)] \in Nat /\ f[Len(s) - 1] \in Nat
          /\ s[k].data.size \in Nat
      BY <1>4, <1>5, <1>6, <2>1
    <3>2. g[Len(t)] = f[Len(s) - 1]
      BY <1>2, <1>6, <1>7, <2>1
    <3> QED BY <3>1, <3>2
  <2>2. CASE k < Len(s)
    BY <1>2, <1>6, <1>7, <2>2
  <2> QED BY <1>6, <2>1, <2>2
<1> QED BY <1>1, <1>3, <1>10, <1>11 DEF Size

LEMMA PrefixSize ==
  ASSUME NEW s \in Seq(CacheEntry), NEW n \in 1..Len(s)
  PROVE  Size(SubSeq(s, 1, n)) = BytesTo(s)[n]
<1>1. PICK t : t = SubSeq(s, 1, n)
  OBVIOUS
<1>2. t \in Seq(CacheEntry) /\ Len(t) = n /\ \A i \in 1..n : t[i] = s[i]
  BY <1>1, PrefixShape
<1>3. PICK f : f = BytesTo(s)
  OBVIOUS
<1>4. f \in [0..Len(s) -> Nat] /\ f[0] = 0 /\ \A i \in 1..Len(s) : f[i] = f[i - 1] + s[i].data.size
  BY <1>3, BytesToDef
<1>5. Len(s) \in Nat /\ n \in Nat /\ n <= Len(s)
  OBVIOUS
<1>6. PICK g : g = [i \in 0..Len(t) |-> f[i]]
  OBVIOUS
<1>7. g \in [0..Len(t) -> Int] /\ g[0] = 0
  <2>1. \A i \in 0..Len(t) : i \in 0..Len(s)
    BY <1>2, <1>5
  <2>2. \A i \in 0..Len(t) : f[i] \in Nat
    BY <1>4, <2>1
  <2> QED BY <1>2, <1>4, <1>5, <1>6, <2>2
<1>8. \A i \in 1..Len(t) : g[i] - g[i - 1] = t[i].data.size
  <2> SUFFICES ASSUME NEW i \in 1..Len(t)
               PROVE  g[i] - g[i - 1] = t[i].data.size
    OBVIOUS
  <2>1. i \in 1..Len(s) /\ i - 1 \in 0..Len(s) /\ i - 1 \in 0..Len(t) /\ i \in 0..Len(t)
    BY <1>2, <1>5
  <2>2. f[i] = f[i - 1] + s[i].data.size /\ f[i] \in Nat /\ f[i - 1] \in Nat
    BY <1>3, <2>1, BytesToStep
  <2>3. s[i].data.size \in Nat /\ t[i] = s[i]
    BY <1>2, <2>1, BytesToStep
  <2> QED BY <1>6, <2>1, <2>2, <2>3
<1>9. Size(t) = g[Len(t)]
  BY <1>2, <1>7, <1>8, SizeFromGrowth
<1> QED BY <1>1, <1>2, <1>3, <1>5, <1>6, <1>9

-----------------------------------------------------------------------------
(* The segment cache *)

UniqueKeys(s) == \A i, j \in 1..Len(s) : s[i].key = s[j].key => i = j

\* Every entry of s is an entry of t.
From(s, t) == \A i \in 1..Len(s) : \E j \in 1..Len(t) : s[i] = t[j]

LEMMA RemoveKeys ==
  ASSUME NEW s \in Seq(CacheEntry), UniqueKeys(s), NEW k \in 1..Len(s)
  PROVE  /\ UniqueKeys(RemoveAt(s, k))
         /\ \A i \in 1..Len(RemoveAt(s, k)) : RemoveAt(s, k)[i].key # s[k].key
         /\ From(RemoveAt(s, k), s)
<1>1. PICK t : t = RemoveAt(s, k)
  OBVIOUS
<1>2. Len(t) = Len(s) - 1 /\ \A i \in 1..(Len(s) - 1) : t[i] = IF i < k THEN s[i] ELSE s[i + 1]
  BY <1>1, RemoveShape
<1>3. Len(s) \in Nat /\ k \in Nat
  OBVIOUS
<1>4. PICK at : at = [i \in 1..Len(t) |-> IF i < k THEN i ELSE i + 1]
  OBVIOUS
<1>5. \A i \in 1..Len(t) : at[i] \in 1..Len(s) /\ at[i] # k /\ t[i] = s[at[i]]
  BY <1>2, <1>3, <1>4
<1>6. \A i, j \in 1..Len(t) : at[i] = at[j] => i = j
  BY <1>2, <1>3, <1>4
<1>7. UniqueKeys(t)
  <2> SUFFICES ASSUME NEW i \in 1..Len(t), NEW j \in 1..Len(t), t[i].key = t[j].key
               PROVE  i = j
    BY DEF UniqueKeys
  <2>1. PICK a \in 1..Len(s) : a = at[i] /\ t[i] = s[a]
    BY <1>5
  <2>2. PICK b \in 1..Len(s) : b = at[j] /\ t[j] = s[b]
    BY <1>5
  <2>3. s[a].key = s[b].key
    BY <2>1, <2>2
  <2>4. a = b
    BY <2>3 DEF UniqueKeys
  <2> QED BY <1>6, <2>1, <2>2, <2>4
<1>8. \A i \in 1..Len(t) : t[i].key # s[k].key
  <2>1. \A j \in 1..Len(s) : s[j].key = s[k].key => j = k
    BY DEF UniqueKeys
  <2> QED BY <1>5, <2>1
<1>9. From(t, s)
  BY <1>5 DEF From
<1> QED BY <1>1, <1>7, <1>8, <1>9

LEMMA FrontKeys ==
  ASSUME NEW s \in Seq(CacheEntry), UniqueKeys(s), NEW e \in CacheEntry,
         \A i \in 1..Len(s) : s[i].key # e.key
  PROVE  UniqueKeys(<<e>> \o s)
<1>1. PICK t : t = <<e>> \o s
  OBVIOUS
<1>2. Len(t) = Len(s) + 1 /\ \A i \in 1..(Len(s) + 1) : t[i] = IF i = 1 THEN e ELSE s[i - 1]
  BY <1>1, FrontShape
<1>3. Len(s) \in Nat
  OBVIOUS
<1>4. SUFFICES ASSUME NEW i \in 1..Len(t), NEW j \in 1..Len(t), t[i].key = t[j].key
               PROVE  i = j
  BY <1>1 DEF UniqueKeys
<1>5. i = 1 \/ (i > 1 /\ i - 1 \in 1..Len(s) /\ t[i] = s[i - 1])
  BY <1>2, <1>3
<1>6. j = 1 \/ (j > 1 /\ j - 1 \in 1..Len(s) /\ t[j] = s[j - 1])
  BY <1>2, <1>3
<1>7. t[1] = e
  BY <1>2, <1>3
<1>8. CASE i > 1 /\ j > 1
  <2>1. i - 1 = j - 1
    BY <1>4, <1>5, <1>6, <1>8 DEF UniqueKeys
  <2> QED BY <1>2, <1>3, <2>1
<1>9. CASE ~(i > 1 /\ j > 1)
  BY <1>4, <1>5, <1>6, <1>7, <1>9
<1> QED BY <1>8, <1>9

\* put keeps a prefix of the list, and its count follows.
LEMMA EvictShape ==
  ASSUME NEW s \in Seq(CacheEntry), s # <<>>, UniqueKeys(s), NEW bytes, bytes = Size(s)
  PROVE  /\ Evict(s, bytes)[1] \in Seq(CacheEntry)
         /\ Evict(s, bytes)[2] = Size(Evict(s, bytes)[1])
         /\ Evict(s, bytes)[2] <= MaxBytes \/ Len(Evict(s, bytes)[1]) = 1
         /\ UniqueKeys(Evict(s, bytes)[1])
         /\ From(Evict(s, bytes)[1], s)
<1> DEFINE L == Len(s)
           kept(n) == bytes - (Size(s) - BytesTo(s)[n])
           Fit(i) == i = 1 \/ kept(i) <= MaxBytes
           Latest(i) == Fit(i) /\ \A j \in (i + 1)..L : kept(j) > MaxBytes
           n == CHOOSE i \in 1..L : Latest(i)
<1>1. L \in Nat /\ L >= 1
  BY EmptySeq
<1>2. \A i \in 1..L : BytesTo(s)[i] \in Nat
  BY BytesToStep
<1>3. Size(s) \in Nat
  BY <1>1, <1>2 DEF Size
<1>4. \A i \in 1..L : kept(i) = BytesTo(s)[i] /\ kept(i) \in Nat
  BY <1>2, <1>3
<1>5. \E i \in 1..L : Latest(i)
  <2> HIDE DEF kept
  <2>1. PICK T : T = {i \in 1..L : Fit(i)}
    OBVIOUS
  <2>2. T \subseteq Nat /\ 1 \in T /\ \A x \in T : x <= L
    BY <1>1, <2>1
  <2>3. PICK x \in T : \A y \in T : y <= x
    BY <1>1, <2>2, GreatestNatural
  <2>4. \A j \in (x + 1)..L : kept(j) > MaxBytes
    <3> SUFFICES ASSUME NEW j \in (x + 1)..L
                 PROVE  kept(j) > MaxBytes
      OBVIOUS
    <3>1. j \in 1..L /\ ~(j <= x)
      BY <1>1, <2>1
    <3>2. j \notin T
      BY <2>3, <3>1
    <3>3. ~(kept(j) <= MaxBytes) /\ kept(j) \in Nat
      BY <1>4, <2>1, <3>1, <3>2
    <3> QED BY <3>3, HlsAssumption
  <2> QED BY <2>1, <2>4
<1>6. n \in 1..L /\ Fit(n)
  <2> HIDE DEF kept
  <2> QED BY <1>5
<1>7. Evict(s, bytes) = <<SubSeq(s, 1, n), kept(n)>>
  BY DEF Evict
<1>8. PICK m \in 1..L : m = n
  BY <1>6
<1>9. PICK t : t = SubSeq(s, 1, m)
  OBVIOUS
<1>10. t \in Seq(CacheEntry) /\ Len(t) = m /\ \A i \in 1..m : t[i] = s[i]
  BY <1>9, PrefixShape
<1>11. Size(t) = BytesTo(s)[m] /\ BytesTo(s)[m] = kept(m)
  BY <1>4, <1>9, PrefixSize
<1>12. m = 1 \/ kept(m) <= MaxBytes
  BY <1>6, <1>8
<1>13. UniqueKeys(t) /\ From(t, s)
  BY <1>1, <1>10 DEF UniqueKeys, From
<1>14. Evict(s, bytes) = <<t, kept(m)>>
  BY <1>7, <1>8, <1>9
<1> HIDE DEF kept, n, L, Fit, Latest
<1> QED BY <1>10, <1>11, <1>12, <1>13, <1>14

\* get: the same entries in another order.
LEMMA HitKeepsExact ==
  ASSUME TypeOK, CacheExact, NEW r \in Req, Hit(r)
  PROVE  /\ cache' \in Seq(CacheEntry)
         /\ Size(cache') = Size(cache) /\ Len(cache') = Len(cache)
         /\ UniqueKeys(cache') /\ From(cache', cache)
<1>1. PICK i \in 1..Len(cache) : cache' = <<cache[i]>> \o RemoveAt(cache, i)
  BY DEF Hit, At
<1>2. cache \in Seq(CacheEntry) /\ UniqueKeys(cache)
  BY DEF TypeOK, CacheExact, UniqueKeys
<1>3. cache[i] \in CacheEntry /\ cache[i].data.size \in Nat
  BY <1>2, BytesToStep
<1>4. PICK s : s = RemoveAt(cache, i)
  OBVIOUS
<1>5. s \in Seq(CacheEntry) /\ Len(s) = Len(cache) - 1 /\ Size(s) = Size(cache) - cache[i].data.size
  BY <1>2, <1>4, RemoveShape, RemoveSize
<1>6. UniqueKeys(s) /\ From(s, cache) /\ \A j \in 1..Len(s) : s[j].key # cache[i].key
  BY <1>2, <1>4, RemoveKeys
<1>7. PICK t : t = <<cache[i]>> \o s
  OBVIOUS
<1>8. /\ t \in Seq(CacheEntry) /\ Len(t) = Len(s) + 1
      /\ \A j \in 1..(Len(s) + 1) : t[j] = IF j = 1 THEN cache[i] ELSE s[j - 1]
  BY <1>3, <1>5, <1>7, FrontShape
<1>9. Size(t) = cache[i].data.size + Size(s)
  BY <1>3, <1>5, <1>7, FrontSize
<1>10. UniqueKeys(t)
  BY <1>3, <1>5, <1>6, <1>7, FrontKeys
<1>11. Len(cache) \in Nat /\ Size(cache) \in Nat
  <2>1. BytesTo(cache)[Len(cache)] \in Nat
    BY <1>2, BytesToStep
  <2> QED BY <1>2, <2>1 DEF Size
<1>12. From(t, cache)
  <2> SUFFICES ASSUME NEW j \in 1..Len(t)
               PROVE  \E m \in 1..Len(cache) : t[j] = cache[m]
    BY DEF From
  <2>1. CASE j = 1
    BY <1>8, <2>1
  <2>2. CASE j # 1
    <3>1. j - 1 \in 1..Len(s) /\ t[j] = s[j - 1]
      BY <1>5, <1>8, <1>11, <2>2
    <3> QED BY <1>6, <3>1 DEF From
  <2> QED BY <2>1, <2>2
<1>13. cache' = t
  BY <1>1, <1>4, <1>7
<1> QED BY <1>3, <1>5, <1>8, <1>9, <1>10, <1>11, <1>12, <1>13

\* put: the new entry in front of the others, and as many of them as fit.
LEMMA PutKeepsExact ==
  ASSUME TypeOK, CacheExact, NEW r \in Req, req[r].art \in Artifact, req[r].data \in Data, Put(r)
  PROVE  /\ cache' \in Seq(CacheEntry)
         /\ curBytes' = Size(cache')
         /\ curBytes' <= MaxBytes \/ Len(cache') = 1
         /\ UniqueKeys(cache')
         /\ \A i \in 1..Len(cache') :
              \/ \E j \in 1..Len(cache) : cache'[i] = cache[j]
              \/ cache'[i] = [key |-> cacheKey(req[r].art), data |-> req[r].data]
<1>1. PICK k, d, e : k = cacheKey(req[r].art) /\ d = req[r].data /\ e = [key |-> k, data |-> d]
  OBVIOUS
<1>2. k \in Key
  <2>1. req[r].art \in [kind : Kind, file : File, n : Nat]
    BY HlsAssumption
  <2>2. Source(req[r].art) \in Track
    BY <2>1, HlsAssumption DEF Source
  <2> QED BY <1>1, <2>1, <2>2 DEF cacheKey, Key
<1>3. e \in CacheEntry /\ d.size \in Nat /\ e.key = k /\ e.data = d
  BY <1>1, <1>2, AudioContAssumption DEF CacheEntry, Data
<1>4. cache \in Seq(CacheEntry) /\ UniqueKeys(cache) /\ curBytes = Size(cache)
  BY DEF TypeOK, CacheExact, UniqueKeys
<1>5. Size(cache) \in Nat
  BY <1>4 DEF TypeOK
<1>6. PICK s : s = Without(k)
  OBVIOUS
<1>7. /\ s \in Seq(CacheEntry) /\ UniqueKeys(s) /\ From(s, cache)
      /\ Size(s) = curBytes - Old(k) /\ Old(k) \in Nat
      /\ \A i \in 1..Len(s) : s[i].key # k
  <2>1. CASE At(k) = {}
    <3>1. s = cache /\ Old(k) = 0
      BY <1>6, <2>1 DEF Without, Old
    <3>2. \A i \in 1..Len(s) : s[i].key # k
      BY <2>1, <3>1 DEF At
    <3>3. From(s, cache)
      BY <3>1 DEF From
    <3> QED BY <1>4, <1>5, <3>1, <3>2, <3>3
  <2>2. CASE At(k) # {}
    <3>1. Item(k) \in At(k)
      BY <2>2 DEF Item
    <3>2. PICK i \in 1..Len(cache) : i = Item(k) /\ cache[i].key = k
      BY <3>1 DEF At
    <3>3. s = RemoveAt(cache, i) /\ Old(k) = cache[i].data.size
      BY <1>6, <2>2, <3>2 DEF Without, Old
    <3>4. cache[i].data.size \in Nat
      BY <1>4, BytesToStep
    <3>5. s \in Seq(CacheEntry) /\ Size(s) = Size(cache) - cache[i].data.size
      BY <1>4, <3>3, RemoveShape, RemoveSize
    <3>6. UniqueKeys(s) /\ From(s, cache) /\ \A j \in 1..Len(s) : s[j].key # cache[i].key
      BY <1>4, <3>3, RemoveKeys
    <3> QED BY <1>4, <3>2, <3>3, <3>4, <3>5, <3>6
  <2> QED BY <2>1, <2>2
<1>8. PICK t : t = <<e>> \o s
  OBVIOUS
<1>9. /\ t \in Seq(CacheEntry) /\ Len(t) = Len(s) + 1
      /\ \A j \in 1..(Len(s) + 1) : t[j] = IF j = 1 THEN e ELSE s[j - 1]
  BY <1>3, <1>7, <1>8, FrontShape
<1>10. UniqueKeys(t)
  BY <1>3, <1>7, <1>8, FrontKeys
<1>11. PICK bytes : bytes = curBytes + d.size - Old(k)
  OBVIOUS
<1>12. bytes = Size(t)
  <2>1. Size(t) = d.size + Size(s)
    BY <1>3, <1>7, <1>8, FrontSize
  <2> QED BY <1>3, <1>4, <1>5, <1>7, <1>11, <2>1
<1>13. Len(s) \in Nat /\ t # <<>>
  BY <1>7, <1>9
<1>14. cache' = Evict(t, bytes)[1] /\ curBytes' = Evict(t, bytes)[2]
  BY <1>1, <1>6, <1>8, <1>11 DEF Put
<1>15. From(cache', t)
  BY <1>9, <1>10, <1>12, <1>13, <1>14, EvictShape
<1>16. \A i \in 1..Len(cache') : (\E j \in 1..Len(cache) : cache'[i] = cache[j]) \/ cache'[i] = e
  <2> SUFFICES ASSUME NEW i \in 1..Len(cache')
               PROVE  (\E j \in 1..Len(cache) : cache'[i] = cache[j]) \/ cache'[i] = e
    OBVIOUS
  <2>1. PICK m \in 1..Len(t) : cache'[i] = t[m]
    BY <1>15 DEF From
  <2>2. CASE m = 1
    BY <1>9, <2>1, <2>2
  <2>3. CASE m # 1
    <3>1. m - 1 \in 1..Len(s) /\ t[m] = s[m - 1]
      BY <1>9, <1>13, <2>3
    <3> QED BY <1>7, <2>1, <3>1 DEF From
  <2> QED BY <2>2, <2>3
<1>17. /\ cache' \in Seq(CacheEntry) /\ curBytes' = Size(cache') /\ UniqueKeys(cache')
       /\ curBytes' <= MaxBytes \/ Len(cache') = 1
  BY <1>9, <1>10, <1>12, <1>13, <1>14, EvictShape
<1> QED BY <1>1, <1>16, <1>17

\* The list is empty, and so is the count.
LEMMA EmptySize ==
  <<>> \in Seq(CacheEntry) /\ Size(<<>>) = 0 /\ UniqueKeys(<<>>)
<1>1. <<>> \in Seq(CacheEntry) /\ Len(<<>>) = 0
  BY EmptySeq
<1>2. PICK s : s = <<>>
  OBVIOUS
<1>3. s \in Seq(CacheEntry) /\ Len(s) = 0
  BY <1>1, <1>2
<1>4. BytesTo(s)[0] = 0
  BY <1>3, BytesToDef
<1>5. Size(s) = 0 /\ UniqueKeys(s)
  BY <1>3, <1>4 DEF Size, UniqueKeys
<1> QED BY <1>1, <1>2, <1>5

LEMMA SizeNat ==
  ASSUME NEW s \in Seq(CacheEntry)
  PROVE  Size(s) \in Nat
<1>1. CASE s = <<>>
  BY <1>1, EmptySize
<1>2. CASE s # <<>>
  <2>1. Len(s) \in 1..Len(s)
    BY <1>2, EmptySeq
  <2> QED BY <2>1, BytesToStep DEF Size
<1> QED BY <1>1, <1>2

-----------------------------------------------------------------------------
(* The transcoders: calls *)

\* The goroutine goes on, and what it has done stays done.
Later(t, u) ==
  /\ t.pc # "open" => u.pc # "open" /\ u.first = t.first
  /\ t.complete => u.complete
  /\ t.producedTo <= u.producedTo

\* A step leaves a request alone that it does not move, if it leaves alone what the request builds
\* on.
LEMMA Bystander ==
  ASSUME ContTypeOK, ContTypeOK', NEW q \in Req, CallerOK(q), call'[q] = call[q],
         call[q].pc \in {"recheck", "cap", "start", "raise"} => contFlight'[call[q].track] = q,
         call[q].pc \in {"cap", "start"} => audioCont'[call[q].track] = None,
         call[q].pc \in {"slice", "ok"} => Later(tc[call[q].cont], tc'[call[q].cont])
  PROVE  CallerOK(q)'
<1>1. call[q].pc \in {"slice", "ok"} =>
        call[q].cont \in Tc /\ tc[call[q].cont].producedTo \in Nat /\ tc'[call[q].cont].producedTo \in Nat
  BY AudioContAssumption DEF CallerOK, ContTypeOK, TcRec
<1>2. call[q].win # None => call[q].win.hi \in Nat
  BY AudioContAssumption DEF ContTypeOK, CallRec, Win
<1>3. call[q].pc = "slice" /\ call[q].win # None => PastWindow(tc'[call[q].cont], call[q].win)
  BY <1>1, <1>2 DEF CallerOK, PastWindow, Later
<1> QED BY <1>3 DEF CallerOK, Later

\* A request that neither raises nor lowers the count.
Counts(q) == call[q].pc \in {"raise", "lower"}

\* Nothing of the count changes unless the count, what is stored, or who is about to change it does.
LEMMA CountSame ==
  ASSUME CountOK, UNCHANGED <<audioCont, audioContCount, dropLowers>>,
         \A q \in Req : call'[q].pc = call[q].pc \/ (~Counts(q) /\ ~Counts(q)')
  PROVE  CountOK'
<1>1. Raising' = Raising /\ Lowering' = Lowering /\ Stored' = Stored
  BY DEF Raising, Lowering, Stored, Counts
<1> QED BY <1>1 DEF CountOK

\* Goto moves the program counter of its request.
LEMMA GotoFacts ==
  ASSUME call \in [Req -> CallRec], NEW r \in Req, NEW pc \in ContPcs, Goto(r, pc)
  PROVE  /\ call' \in [Req -> CallRec]
         /\ call'[r].pc = pc
         /\ call'[r].track = call[r].track /\ call'[r].win = call[r].win
         /\ call'[r].cont = call[r].cont /\ call'[r].got = call[r].got
         /\ \A q \in Req \ {r} : call'[q] = call[q]
<1>1. [call[r] EXCEPT !.pc = pc] \in CallRec
  BY DEF CallRec
<1>2. call' = [call EXCEPT ![r] = [call[r] EXCEPT !.pc = pc]]
  BY DEF Goto
<1> QED BY <1>1, <1>2 DEF CallRec

\* Steps that move one request and touch nothing else of the transcoders.
QuietBut(r) ==
  /\ call' \in [Req -> CallRec]
  /\ \A q \in Req \ {r} : call'[q] = call[q]
  /\ ~Counts(r) /\ ~Counts(r)'
  /\ UNCHANGED <<audioCont, audioContCount, contFlight, tc, dropVars>>

LEMMA LaterReflexive ==
  ASSUME ContTypeOK, NEW t \in Tc
  PROVE  Later(tc[t], tc[t])
BY AudioContAssumption DEF Later, ContTypeOK, TcRec

LEMMA QuietStep ==
  ASSUME AudioInv, NEW r \in Req, QuietBut(r), CallerOK(r)'
  PROVE  AudioInv'
<1>1. UNCHANGED <<audioCont, audioContCount, contFlight, tc, dropKeys, dropSees, dropLowers>>
  BY DEF QuietBut, dropVars
<1>2. ContTypeOK'
  BY <1>1 DEF AudioInv, ContTypeOK, QuietBut
<1>3. ASSUME NEW q \in Req
      PROVE  CallerOK(q)'
  <2>1. CASE q = r
    BY <2>1
  <2>2. CASE q # r
    <3>1. call'[q] = call[q] /\ CallerOK(q) /\ ContTypeOK
      BY <2>2 DEF QuietBut, AudioInv, CallersOK
    <3>2. call[q].pc \in {"slice", "ok"} => Later(tc[call[q].cont], tc'[call[q].cont])
      BY <1>1, <3>1, LaterReflexive DEF CallerOK
    <3>3. call[q].pc \in {"recheck", "cap", "start", "raise"} => contFlight'[call[q].track] = q
      BY <1>1, <3>1 DEF CallerOK
    <3>4. call[q].pc \in {"cap", "start"} => audioCont'[call[q].track] = None
      BY <1>1, <3>1 DEF CallerOK
    <3> QED BY <1>2, <3>1, <3>2, <3>3, <3>4, Bystander
  <2> QED BY <2>1, <2>2
<1>4. CountOK'
  BY <1>1, CountSame DEF AudioInv, QuietBut
<1>5. TranscodersOK'
  BY <1>1 DEF AudioInv, TranscodersOK
<1> QED BY <1>2, <1>3, <1>4, <1>5 DEF AudioInv, CallersOK

LEMMA CallInv ==
  ASSUME AudioInv, NEW r \in Req, NEW k \in Track, NEW w \in Win \cup {None},
         NEW from \in 0..(Length - 1), Call(r, k, w, from)
  PROVE  AudioInv'
<1>1. PICK a : a = [NoCall EXCEPT !.pc = "load", !.track = k, !.win = w, !.from = from]
  OBVIOUS
<1>2. a \in CallRec /\ a.pc = "load" /\ a.track = k
  BY <1>1 DEF NoCall, CallRec, ContPcs
<1>3. QuietBut(r) /\ call'[r] = a
  BY <1>1, <1>2 DEF Call, QuietBut, Counts, AudioInv, ContTypeOK
<1>4. CallerOK(r)'
  BY <1>2, <1>3 DEF CallerOK
<1> QED BY <1>3, <1>4, QuietStep

LEMMA ReturnInv ==
  ASSUME AudioInv, NEW r \in Req, Return(r)
  PROVE  AudioInv'
<1>1. NoCall \in CallRec /\ NoCall.pc = "out"
  BY AudioContAssumption DEF NoCall, CallRec, ContPcs
<1>2. QuietBut(r) /\ call'[r] = NoCall
  BY <1>1 DEF Return, QuietBut, Counts, AudioInv, ContTypeOK
<1>3. CallerOK(r)'
  BY <1>1, <1>2 DEF CallerOK
<1> QED BY <1>2, <1>3, QuietStep

LEMMA LoadInv ==
  ASSUME AudioInv, NEW r \in Req, Load(r)
  PROVE  AudioInv'
<1>1. call[r].pc = "load" /\ call[r].track \in Track /\ call[r] \in CallRec
  BY DEF Load, AudioInv, CallersOK, CallerOK, ContTypeOK
<1>2. PICK t \in Tc \cup {None} : t = audioCont[call[r].track]
  BY <1>1 DEF AudioInv, ContTypeOK
<1>3. PICK pc \in {"fly", "look", "wait"} :
        pc = IF t = None THEN "fly" ELSE IF call[r].win = None THEN "wait" ELSE "look"
  OBVIOUS
<1>4. PICK a : a = [call[r] EXCEPT !.cont = t, !.pc = pc]
  OBVIOUS
<1>5. a \in CallRec /\ a.pc = pc /\ a.track = call[r].track /\ a.cont = t
  BY <1>1, <1>4 DEF CallRec, ContPcs
<1>6. call' = [call EXCEPT ![r] = a]
  BY <1>2, <1>3, <1>4 DEF Load
<1>7. QuietBut(r) /\ call'[r] = a
  BY <1>5, <1>6 DEF Load, QuietBut, Counts, AudioInv, ContTypeOK
<1>8. CallerOK(r)'
  BY <1>1, <1>3, <1>5, <1>7 DEF CallerOK
<1> QED BY <1>7, <1>8, QuietStep

LEMMA LookInv ==
  ASSUME AudioInv, NEW r \in Req, Look(r)
  PROVE  AudioInv'
<1>1. call \in [Req -> CallRec] /\ call[r].pc = "look" /\ CallerOK(r)
  BY DEF Look, AudioInv, CallersOK, ContTypeOK
<1>2. PICK pc \in {"replace", "wait"} : Goto(r, pc)
  BY DEF Look
<1>3. UNCHANGED <<audioCont, audioContCount, contFlight, tc, dropVars>>
  BY DEF Look
<1>4. QuietBut(r) /\ call'[r].pc = pc /\ call'[r].track = call[r].track
      /\ call'[r].cont = call[r].cont
  BY <1>1, <1>2, <1>3, GotoFacts DEF QuietBut, Counts, ContPcs
<1>5. CallerOK(r)'
  BY <1>1, <1>4 DEF CallerOK
<1> QED BY <1>4, <1>5, QuietStep

LEMMA WaitInv ==
  ASSUME AudioInv, NEW r \in Req, Poll(r) \/ GiveUp(r)
  PROVE  AudioInv'
<1>1. call \in [Req -> CallRec] /\ call[r].pc = "wait" /\ CallerOK(r)
  BY DEF Poll, GiveUp, AudioInv, CallersOK, ContTypeOK
<1>2. call[r].track \in Track /\ call[r].cont \in Tc
  BY <1>1 DEF CallerOK
<1>3. UNCHANGED <<audioCont, audioContCount, contFlight, tc, dropVars>>
  BY DEF Poll, GiveUp
<1>4. CASE Goto(r, "err")
  <2>1. QuietBut(r) /\ call'[r].pc = "err" /\ call'[r].track = call[r].track
    BY <1>1, <1>3, <1>4, GotoFacts DEF QuietBut, Counts, ContPcs
  <2>2. CallerOK(r)'
    BY <1>2, <2>1 DEF CallerOK
  <2> QED BY <2>1, <2>2, QuietStep
<1>5. CASE Ready(r) /\ Goto(r, "slice")
  <2>1. QuietBut(r) /\ call'[r].pc = "slice" /\ call'[r].track = call[r].track
        /\ call'[r].cont = call[r].cont /\ call'[r].win = call[r].win
    BY <1>1, <1>3, <1>5, GotoFacts DEF QuietBut, Counts, ContPcs
  <2>2. call[r].win # None => PastWindow(tc[call[r].cont], call[r].win)
    BY <1>5 DEF Ready, PastWindow
  <2>3. CallerOK(r)'
    BY <1>2, <1>3, <2>1, <2>2 DEF CallerOK
  <2> QED BY <2>1, <2>3, QuietStep
<1> QED BY <1>4, <1>5 DEF Poll, GiveUp

\* A transcoder past the window, with its config, has the frames of the window from its first on.
LEMMA SliceFrames ==
  ASSUME NEW t \in TcRec, NEW w \in Win, TranscoderOK(t), PastWindow(t, w), t.config
  PROVE  t.frames \cap Frames(w) = {p \in Frames(w) : p >= t.first}
<1>1. /\ t.first \in Nat /\ t.pos \in Nat /\ t.producedTo \in Nat
      /\ w.lo \in Nat /\ w.hi \in Nat /\ w.hi <= Length /\ Length \in Nat
  BY AudioContAssumption DEF TcRec, Win
<1>2. t.pos >= w.hi
  BY <1>1 DEF TranscoderOK, PastWindow
<1>3. t.frames = t.first..(t.pos - 1)
  BY DEF TranscoderOK
<1> QED BY <1>1, <1>2, <1>3 DEF Frames

LEMMA SliceInv ==
  ASSUME AudioInv, NEW r \in Req, Slice(r)
  PROVE  AudioInv'
<1>1. /\ call[r] \in CallRec /\ call[r].pc = "slice"
      /\ call[r].track \in Track /\ call[r].cont \in Tc
  BY DEF Slice, AudioInv, CallersOK, CallerOK, ContTypeOK
<1>2. tc[call[r].cont] \in TcRec /\ TranscoderOK(tc[call[r].cont])
  BY <1>1 DEF AudioInv, ContTypeOK, TranscodersOK
<1>3. PICK t : t = tc[call[r].cont]
  OBVIOUS
<1>4. PICK got : got = IF call[r].win = None THEN {} ELSE t.frames \cap Frames(call[r].win)
  OBVIOUS
<1>5. got \subseteq 0..(Length - 1)
  BY <1>2, <1>3, <1>4 DEF TcRec
<1>6. PICK pc \in {"ok", "err"} :
        pc = IF t.config /\ (call[r].win # None => got # {}) THEN "ok" ELSE "err"
  OBVIOUS
<1>7. PICK a : a = [call[r] EXCEPT !.got = got, !.pc = pc]
  OBVIOUS
<1>8. a \in CallRec /\ a.pc = pc /\ a.got = got
      /\ a.track = call[r].track /\ a.cont = call[r].cont /\ a.win = call[r].win
  BY <1>1, <1>5, <1>7 DEF CallRec, ContPcs
<1>9. call' = [call EXCEPT ![r] = a]
  BY <1>3, <1>4, <1>6, <1>7 DEF Slice
<1>10. QuietBut(r) /\ call'[r] = a /\ tc' = tc
  BY ZenonT(40), <1>8, <1>9 DEF Slice, QuietBut, Counts, AudioInv, ContTypeOK
<1>11. pc = "ok" /\ call[r].win # None => got # {} /\ got = {p \in Frames(call[r].win) : p >= t.first}
  <2> SUFFICES ASSUME pc = "ok", call[r].win # None
               PROVE  got # {} /\ got = {p \in Frames(call[r].win) : p >= t.first}
    OBVIOUS
  <2>1. call[r].win \in Win /\ t.config /\ got # {}
    BY <1>1, <1>6 DEF CallRec
  <2>2. PastWindow(t, call[r].win)
    BY <1>1, <1>3 DEF AudioInv, CallersOK, CallerOK
  <2> QED BY <1>2, <1>3, <1>4, <2>1, <2>2, SliceFrames
<1>12. call[r].win # None => t.pc # "open"
  <2> SUFFICES ASSUME call[r].win # None, t.pc = "open"
               PROVE  FALSE
    OBVIOUS
  <2>1. call[r].win \in Win /\ PastWindow(t, call[r].win)
    BY <1>1, <1>3 DEF CallRec, AudioInv, CallersOK, CallerOK
  <2>2. call[r].win.hi \in Nat /\ call[r].win.hi > 0 /\ t.producedTo \in Nat
    BY <1>2, <1>3, <2>1, AudioContAssumption DEF Win, TcRec
  <2> QED BY <1>2, <1>3, <2>1, <2>2 DEF PastWindow, TranscoderOK
<1>13. CallerOK(r)'
  BY <1>1, <1>3, <1>6, <1>8, <1>10, <1>11, <1>12 DEF CallerOK
<1> QED BY <1>10, <1>13, QuietStep

-----------------------------------------------------------------------------
(* The transcoders: the flight *)

\* A step that moves some requests and a flight: those it moves are well, and nobody else is in the
\* flight.
LEMMA FlightStep ==
  ASSUME AudioInv, NEW k \in Track, NEW M \in SUBSET Req,
         call' \in [Req -> CallRec], contFlight' \in [Track -> Req \cup {None}],
         \A q \in Req \ M : call'[q] = call[q],
         \A q \in M : CallerOK(q)',
         \A j \in Track \ {k} : contFlight'[j] = contFlight[j],
         \A q \in Req \ M : call[q].pc \in {"recheck", "cap", "start", "raise"} => call[q].track # k,
         UNCHANGED <<audioCont, tc, dropVars>>, audioContCount' \in Int, CountOK'
  PROVE  AudioInv'
<1>1. ContTypeOK'
  BY DEF AudioInv, ContTypeOK, dropVars
<1>2. ASSUME NEW q \in Req
      PROVE  CallerOK(q)'
  <2>1. CASE q \in M
    BY <2>1
  <2>2. CASE q \notin M
    <3>1. call'[q] = call[q] /\ CallerOK(q) /\ ContTypeOK
      BY <2>2 DEF AudioInv, CallersOK
    <3>2. call[q].pc \in {"slice", "ok"} => Later(tc[call[q].cont], tc'[call[q].cont])
      BY <3>1, LaterReflexive DEF CallerOK
    <3>3. call[q].pc \in {"recheck", "cap", "start", "raise"} => contFlight'[call[q].track] = q
      BY <2>2, <3>1 DEF CallerOK
    <3>4. call[q].pc \in {"cap", "start"} => audioCont'[call[q].track] = None
      BY <3>1 DEF CallerOK
    <3> QED BY <1>1, <3>1, <3>2, <3>3, <3>4, Bystander
  <2> QED BY <2>1, <2>2
<1>3. TranscodersOK'
  BY DEF AudioInv, TranscodersOK
<1> QED BY <1>1, <1>2, <1>3 DEF AudioInv, CallersOK

LEMMA FlyInv ==
  ASSUME AudioInv, NEW r \in Req, Fly(r)
  PROVE  AudioInv'
<1>1. call \in [Req -> CallRec] /\ call[r].pc = "fly" /\ CallerOK(r)
  BY DEF Fly, AudioInv, CallersOK, ContTypeOK
<1>2. PICK k \in Track : k = call[r].track
  BY <1>1 DEF CallerOK
<1>3. CASE contFlight[k] = None
  <2>1. contFlight' = [contFlight EXCEPT ![k] = r] /\ Goto(r, "recheck")
        /\ UNCHANGED <<audioCont, audioContCount, tc, dropVars>>
    BY <1>2, <1>3 DEF Fly
  <2>2. call' \in [Req -> CallRec] /\ call'[r].pc = "recheck" /\ call'[r].track = k
        /\ \A q \in Req \ {r} : call'[q] = call[q]
    BY <1>1, <1>2, <2>1, GotoFacts DEF ContPcs
  <2>3. contFlight' \in [Track -> Req \cup {None}] /\ contFlight'[k] = r
        /\ \A j \in Track \ {k} : contFlight'[j] = contFlight[j]
    BY <2>1 DEF AudioInv, ContTypeOK
  <2>4. CallerOK(r)'
    BY <2>2, <2>3 DEF CallerOK
  <2>5. \A q \in Req \ {r} : call[q].pc \in {"recheck", "cap", "start", "raise"} => call[q].track # k
    BY <1>3, AudioContAssumption DEF AudioInv, CallersOK, CallerOK
  <2>6. PICK M \in SUBSET Req : M = {r}
    OBVIOUS
  <2>7. CountOK' /\ audioContCount' \in Int
    <3>1. ~Counts(r) /\ ~Counts(r)'
      BY <1>1, <2>2 DEF Counts
    <3> QED BY <2>1, <2>2, <3>1, CountSame DEF AudioInv, ContTypeOK, dropVars
  <2> QED BY SMTT(20), <2>1, <2>2, <2>3, <2>4, <2>5, <2>6, <2>7, FlightStep
<1>4. CASE contFlight[k] # None
  <2>1. Goto(r, "follow") /\ UNCHANGED <<audioCont, audioContCount, contFlight, tc, dropVars>>
    BY <1>2, <1>4 DEF Fly
  <2>2. QuietBut(r) /\ call'[r].pc = "follow" /\ call'[r].track = k
    BY <1>1, <1>2, <2>1, GotoFacts DEF QuietBut, Counts, ContPcs
  <2>3. CallerOK(r)'
    BY <2>2 DEF CallerOK
  <2> QED BY <2>2, <2>3, QuietStep
<1> QED BY <1>3, <1>4

\* Who lands, and with what.
Lands(r) == {q \in Req : q = r \/ (call[q].pc = "follow" /\ call[q].track = call[r].track)}

LEMMA LandFacts ==
  ASSUME AudioInv, NEW r \in Req, NEW t \in Tc \cup {None}, Land(r, t), call[r].track \in Track
  PROVE  /\ call' \in [Req -> CallRec]
         /\ contFlight' \in [Track -> Req \cup {None}]
         /\ \A j \in Track \ {call[r].track} : contFlight'[j] = contFlight[j]
         /\ \A q \in Req \ Lands(r) : call'[q] = call[q]
         /\ \A q \in Lands(r) : /\ call'[q].pc = IF t = None THEN "err" ELSE "wait"
                                /\ call'[q].track \in Track
                                /\ call'[q].cont = t
<1>1. PICK pc \in {"err", "wait"} : pc = IF t = None THEN "err" ELSE "wait"
  OBVIOUS
<1>2. call \in [Req -> CallRec] /\ contFlight \in [Track -> Req \cup {None}]
  BY DEF AudioInv, ContTypeOK
<1>3. \A q \in Req : [call[q] EXCEPT !.cont = t, !.pc = pc] \in CallRec
  BY <1>2 DEF CallRec, ContPcs
<1>4. call' = [q \in Req |-> IF q \in Lands(r) THEN [call[q] EXCEPT !.cont = t, !.pc = pc] ELSE call[q]]
  BY <1>1 DEF Land, Lands
<1>5. call' \in [Req -> CallRec]
  BY <1>2, <1>3, <1>4
<1>6. \A q \in Req \ Lands(r) : call'[q] = call[q]
  BY <1>4
<1>7. ASSUME NEW q \in Lands(r)
      PROVE  call'[q].pc = pc /\ call'[q].track \in Track /\ call'[q].cont = t
  <2>1. q \in Req /\ call[q] \in CallRec /\ call[q].track \in Track
    BY <1>2 DEF Lands
  <2>2. call'[q] = [call[q] EXCEPT !.cont = t, !.pc = pc]
    BY <1>4, <2>1
  <2> QED BY <2>1, <2>2 DEF CallRec
<1>8. contFlight' = [contFlight EXCEPT ![call[r].track] = None]
  BY DEF Land
<1> QED BY <1>1, <1>2, <1>5, <1>6, <1>7, <1>8

LEMMA LandInv ==
  ASSUME AudioInv, NEW r \in Req, NEW t \in Tc \cup {None}, Land(r, t),
         call[r].pc \in {"recheck", "cap", "raise"},
         UNCHANGED <<audioCont, tc, dropVars>>, audioContCount' \in Int, CountOK'
  PROVE  AudioInv'
<1>1. PICK k \in Track : k = call[r].track
  BY DEF AudioInv, CallersOK, CallerOK
<1>2. contFlight[k] = r
  BY <1>1 DEF AudioInv, CallersOK, CallerOK
<1>3. \A q \in Lands(r) : CallerOK(q)'
  BY <1>1, LandFacts DEF CallerOK
<1>4. \A q \in Req \ Lands(r) : call[q].pc \in {"recheck", "cap", "start", "raise"} => call[q].track # k
  BY <1>2 DEF AudioInv, CallersOK, CallerOK, Lands
<1>5. PICK M \in SUBSET Req : M = Lands(r)
  BY DEF Lands
<1>6. /\ call' \in [Req -> CallRec] /\ contFlight' \in [Track -> Req \cup {None}]
      /\ \A j \in Track \ {k} : contFlight'[j] = contFlight[j]
      /\ \A q \in Req \ M : call'[q] = call[q]
  BY <1>1, <1>5, LandFacts
<1> QED BY <1>3, <1>4, <1>5, <1>6, FlightStep

\* Who lands after a look only does not touch the count.
LEMMA LandCounts ==
  ASSUME AudioInv, NEW r \in Req, NEW t \in Tc \cup {None}, Land(r, t),
         call[r].pc \in {"recheck", "cap"},
         UNCHANGED <<audioCont, audioContCount, tc, dropVars>>
  PROVE  AudioInv'
<1>1. call[r].track \in Track
  BY DEF AudioInv, CallersOK, CallerOK
<1>2. ASSUME NEW q \in Req
      PROVE  call'[q].pc = call[q].pc \/ (~Counts(q) /\ ~Counts(q)')
  <2>1. CASE q \in Lands(r)
    <3>1. call'[q].pc \in {"err", "wait"}
      BY <1>1, <2>1, LandFacts
    <3> QED BY <2>1, <3>1 DEF Lands, Counts
  <2>2. CASE q \notin Lands(r)
    BY <1>1, <2>2, LandFacts
  <2> QED BY <2>1, <2>2
<1>3. CountOK' /\ audioContCount' \in Int
  BY <1>2, CountSame DEF AudioInv, ContTypeOK, dropVars
<1> QED BY <1>3, LandInv

LEMMA RecheckInv ==
  ASSUME AudioInv, NEW r \in Req, Recheck(r)
  PROVE  AudioInv'
<1>1. call \in [Req -> CallRec] /\ call[r].pc = "recheck" /\ CallerOK(r) /\ call[r].track \in Track
  BY DEF Recheck, AudioInv, CallersOK, CallerOK, ContTypeOK
<1>2. PICK t \in Tc \cup {None} : t = audioCont[call[r].track]
  BY <1>1 DEF AudioInv, ContTypeOK
<1>3. CASE t # None
  <2>1. Land(r, t) /\ UNCHANGED <<audioCont, audioContCount, tc, dropVars>>
    BY <1>2, <1>3 DEF Recheck
  <2> QED BY <1>1, <2>1, LandCounts
<1>4. CASE t = None
  <2>1. Goto(r, "cap") /\ UNCHANGED <<audioCont, audioContCount, contFlight, tc, dropVars>>
    BY <1>2, <1>4 DEF Recheck
  <2>2. QuietBut(r) /\ call'[r].pc = "cap" /\ call'[r].track = call[r].track
    BY <1>1, <2>1, GotoFacts DEF QuietBut, Counts, ContPcs
  <2>3. CallerOK(r)'
    BY <1>1, <1>2, <1>4, <2>1, <2>2 DEF CallerOK
  <2> QED BY <2>2, <2>3, QuietStep
<1> QED BY <1>3, <1>4

LEMMA CapInv ==
  ASSUME AudioInv, NEW r \in Req, Cap(r)
  PROVE  AudioInv'
<1>1. call \in [Req -> CallRec] /\ call[r].pc = "cap" /\ CallerOK(r)
  BY DEF Cap, AudioInv, CallersOK, ContTypeOK
<1>2. CASE Land(r, None)
  BY <1>1, <1>2, LandCounts DEF Cap
<1>3. CASE Goto(r, "start") /\ UNCHANGED contFlight
  <2>1. UNCHANGED <<audioCont, audioContCount, contFlight, tc, dropVars>>
    BY <1>3 DEF Cap
  <2>2. QuietBut(r) /\ call'[r].pc = "start" /\ call'[r].track = call[r].track
    BY <1>1, <1>3, <2>1, GotoFacts DEF QuietBut, Counts, ContPcs
  <2>3. CallerOK(r)'
    BY <1>1, <2>1, <2>2 DEF CallerOK
  <2> QED BY <2>2, <2>3, QuietStep
<1> QED BY <1>2, <1>3 DEF Cap

-----------------------------------------------------------------------------
(* The transcoders: storing, running and freeing *)

LEMMA StoredFinite ==
  IsFiniteSet(Stored) /\ Cardinality(Stored) \in Nat
<1>1. Stored \in SUBSET Track
  BY DEF Stored
<1>2. IsFiniteSet(Stored)
  BY <1>1, AudioContAssumption, FS_Subset
<1> QED BY <1>2, FS_CardinalityType

LEMMA CountFacts ==
  ASSUME AudioInv
  PROVE  /\ audioContCount \in Int
         /\ Cardinality(Raising) \in Nat /\ Cardinality(Lowering) \in Nat /\ Cardinality(Stored) \in Nat
         /\ audioContCount + Cardinality(Raising) <= Cardinality(Stored) + Cardinality(Lowering)
BY StoredFinite, FS_CardinalityType DEF AudioInv, ContTypeOK, CountOK

\* Who deletes a key is about to lower the count: by one, and what is stored has lost at most one.
LEMMA DeleteCounts ==
  ASSUME AudioInv, NEW k \in Track, audioCont' = [audioCont EXCEPT ![k] = None],
         audioContCount' = audioContCount, Raising' = Raising,
         NEW x, x \notin Lowering, Lowering' = Lowering \cup {x}
  PROVE  CountOK'
<1>1. Stored' = Stored \ {k}
  BY DEF Stored, AudioInv, ContTypeOK
<1>2. Cardinality(Stored \ {k}) = IF k \in Stored THEN Cardinality(Stored) - 1 ELSE Cardinality(Stored)
  BY StoredFinite, FS_RemoveElement
<1>3. IsFiniteSet(Lowering \cup {x}) /\ Cardinality(Lowering \cup {x}) = Cardinality(Lowering) + 1
  BY FS_AddElement DEF AudioInv, CountOK
<1>4. IsFiniteSet(Raising)
  BY DEF AudioInv, CountOK
<1>5. audioContCount + Cardinality(Raising) <= Cardinality(Stored \ {k}) + Cardinality(Lowering \cup {x})
  BY <1>2, <1>3, CountFacts
<1> QED BY <1>1, <1>3, <1>4, <1>5 DEF CountOK

\* ... and lowers it.
LEMMA LowerCounts ==
  ASSUME AudioInv, audioCont' = audioCont, audioContCount' = audioContCount - 1, Raising' = Raising,
         NEW x \in Lowering, Lowering' = Lowering \ {x}
  PROVE  CountOK'
<1>1. Stored' = Stored
  BY DEF Stored
<1>2. IsFiniteSet(Lowering \ {x}) /\ Cardinality(Lowering \ {x}) = Cardinality(Lowering) - 1
  BY FS_RemoveElement DEF AudioInv, CountOK
<1>3. IsFiniteSet(Raising)
  BY DEF AudioInv, CountOK
<1>4. (audioContCount - 1) + Cardinality(Raising) <= Cardinality(Stored) + Cardinality(Lowering \ {x})
  BY <1>2, CountFacts
<1> QED BY <1>1, <1>2, <1>3, <1>4 DEF CountOK

\* Who stores a transcoder where none was is about to raise the count ...
LEMMA StoreCounts ==
  ASSUME AudioInv, NEW k \in Track, audioCont[k] = None, NEW t \in Tc,
         audioCont' = [audioCont EXCEPT ![k] = t], audioContCount' = audioContCount,
         Lowering' = Lowering, NEW x, x \notin Raising, Raising' = Raising \cup {x}
  PROVE  CountOK'
<1>1. Stored' = Stored \cup {k} /\ k \notin Stored
  BY AudioContAssumption DEF Stored, AudioInv, ContTypeOK
<1>2. Cardinality(Stored \cup {k}) = Cardinality(Stored) + 1
  BY <1>1, StoredFinite, FS_AddElement
<1>3. IsFiniteSet(Raising \cup {x}) /\ Cardinality(Raising \cup {x}) = Cardinality(Raising) + 1
  BY FS_AddElement DEF AudioInv, CountOK
<1>4. IsFiniteSet(Lowering)
  BY DEF AudioInv, CountOK
<1>5. audioContCount + Cardinality(Raising \cup {x}) <= Cardinality(Stored \cup {k}) + Cardinality(Lowering)
  BY <1>2, <1>3, CountFacts
<1> QED BY <1>1, <1>3, <1>4, <1>5 DEF CountOK

\* ... and raises it.
LEMMA RaiseCounts ==
  ASSUME AudioInv, audioCont' = audioCont, audioContCount' = audioContCount + 1, Lowering' = Lowering,
         NEW x \in Raising, Raising' = Raising \ {x}
  PROVE  CountOK'
<1>1. Stored' = Stored
  BY DEF Stored
<1>2. IsFiniteSet(Raising \ {x}) /\ Cardinality(Raising \ {x}) = Cardinality(Raising) - 1
  BY FS_RemoveElement DEF AudioInv, CountOK
<1>3. IsFiniteSet(Lowering)
  BY DEF AudioInv, CountOK
<1>4. (audioContCount + 1) + Cardinality(Raising \ {x}) <= Cardinality(Stored) + Cardinality(Lowering)
  BY <1>2, CountFacts
<1> QED BY <1>1, <1>2, <1>3, <1>4 DEF CountOK

\* Transcoders go on or are freed, and some are no longer stored.
LEMMA WorkStep ==
  ASSUME AudioInv, ContTypeOK', TranscodersOK', CountOK', contFlight' = contFlight,
         \A k \in Track : audioCont'[k] \in {audioCont[k], None},
         \A t \in Tc : Later(tc[t], tc'[t]),
         NEW M \in SUBSET Req, \A q \in Req \ M : call'[q] = call[q], \A q \in M : CallerOK(q)'
  PROVE  AudioInv'
<1>1. ASSUME NEW q \in Req
      PROVE  CallerOK(q)'
  <2>1. CASE q \in M
    BY <2>1
  <2>2. CASE q \notin M
    <3>1. call'[q] = call[q] /\ CallerOK(q) /\ ContTypeOK
      BY <2>2 DEF AudioInv, CallersOK
    <3>2. call[q].pc \in {"slice", "ok"} => Later(tc[call[q].cont], tc'[call[q].cont])
      BY <3>1 DEF CallerOK
    <3>3. call[q].pc \in {"recheck", "cap", "start", "raise"} => contFlight'[call[q].track] = q
      BY <3>1 DEF CallerOK
    <3>4. call[q].pc \in {"cap", "start"} => audioCont'[call[q].track] = None
      BY <3>1 DEF CallerOK
    <3> QED BY <3>1, <3>2, <3>3, <3>4, Bystander
  <2> QED BY <2>1, <2>2
<1> QED BY <1>1 DEF AudioInv, CallersOK

LEMMA FreedFacts ==
  ASSUME NEW t \in TcRec, TranscoderOK(t)
  PROVE  /\ Freed(Cancelled(t)) \in TcRec
         /\ TranscoderOK(Freed(Cancelled(t)))
         /\ Later(t, Freed(Cancelled(t)))
<1>1. PICK u : u = Freed(Cancelled(t))
  OBVIOUS
<1>2. u \in TcRec
  BY <1>1 DEF Freed, Cancelled, TcRec
<1>3. /\ u.first = t.first /\ u.pos = t.pos /\ u.producedTo = t.producedTo
      /\ u.complete = t.complete /\ u.pc = t.pc /\ u.frames = {} /\ u.config = FALSE
  BY <1>1 DEF Freed, Cancelled, TcRec
<1>4. t.producedTo \in Nat
  BY AudioContAssumption DEF TcRec
<1>5. TranscoderOK(u) /\ Later(t, u)
  BY <1>3, <1>4 DEF TranscoderOK, Later
<1> QED BY <1>1, <1>2, <1>5

\* One transcoder changes.
LEMMA OneTranscoder ==
  ASSUME AudioInv, NEW t \in Tc, NEW u \in TcRec, TranscoderOK(u), Later(tc[t], u),
         tc' = [tc EXCEPT ![t] = u]
  PROVE  tc' \in [Tc -> TcRec] /\ TranscodersOK' /\ \A v \in Tc : Later(tc[v], tc'[v])
BY LaterReflexive DEF AudioInv, ContTypeOK, TranscodersOK

LEMMA ReplaceInv ==
  ASSUME AudioInv, NEW r \in Req, Replace(r)
  PROVE  AudioInv'
<1>1. call \in [Req -> CallRec] /\ call[r].pc = "replace" /\ CallerOK(r)
  BY DEF Replace, AudioInv, CallersOK, ContTypeOK
<1>2. PICK t \in Tc : t = call[r].cont
  BY <1>1 DEF CallerOK
<1>3. PICK u : u = Freed(Cancelled(tc[t]))
  OBVIOUS
<1>4. tc' = [tc EXCEPT ![t] = u]
  BY <1>2, <1>3 DEF Replace
<1>5. u \in TcRec /\ TranscoderOK(u) /\ Later(tc[t], u)
  BY <1>3, FreedFacts DEF AudioInv, ContTypeOK, TranscodersOK
<1>6. tc' \in [Tc -> TcRec] /\ TranscodersOK' /\ \A v \in Tc : Later(tc[v], tc'[v])
  BY <1>4, <1>5, OneTranscoder
<1>7. Goto(r, "delete") /\ UNCHANGED <<audioCont, audioContCount, contFlight, dropKeys, dropSees, dropLowers>>
  BY DEF Replace, dropVars
<1>8. call' \in [Req -> CallRec] /\ call'[r].pc = "delete" /\ call'[r].track = call[r].track
      /\ \A q \in Req \ {r} : call'[q] = call[q]
  BY <1>1, <1>7, GotoFacts DEF ContPcs
<1>9. ContTypeOK' /\ CountOK'
  <2>1. ContTypeOK'
    BY <1>6, <1>7, <1>8 DEF AudioInv, ContTypeOK
  <2>2. ~Counts(r) /\ ~Counts(r)'
    BY <1>1, <1>8 DEF Counts
  <2> QED BY <1>7, <1>8, <2>1, <2>2, CountSame DEF AudioInv
<1>10. CallerOK(r)'
  BY <1>1, <1>8 DEF CallerOK
<1>11. PICK M \in SUBSET Req : M = {r}
  OBVIOUS
<1> QED BY <1>6, <1>7, <1>8, <1>9, <1>10, <1>11, WorkStep

LEMMA DeleteInv ==
  ASSUME AudioInv, NEW r \in Req, Delete(r)
  PROVE  AudioInv'
<1>1. call \in [Req -> CallRec] /\ call[r].pc = "delete" /\ CallerOK(r)
  BY DEF Delete, AudioInv, CallersOK, ContTypeOK
<1>2. PICK k \in Track : k = call[r].track
  BY <1>1 DEF CallerOK
<1>3. audioCont' = [audioCont EXCEPT ![k] = None] /\ audioContCount' = audioContCount
      /\ UNCHANGED <<contFlight, tc, dropKeys, dropSees, dropLowers>>
  BY <1>2 DEF Delete, dropVars
<1>4. PICK a : a = [call[r] EXCEPT !.pc = "lower", !.cont = None]
  OBVIOUS
<1>5. a \in CallRec /\ a.pc = "lower" /\ a.track = k
  BY <1>1, <1>2, <1>4 DEF CallRec, ContPcs
<1>6. call' = [call EXCEPT ![r] = a]
  BY <1>4 DEF Delete
<1>7. call' \in [Req -> CallRec] /\ call'[r] = a /\ \A q \in Req \ {r} : call'[q] = call[q]
  BY <1>1, <1>5, <1>6
<1>8. CountOK'
  <2>1. Raising' = Raising
    BY <1>1, <1>5, <1>7 DEF Raising
  <2>2. r \notin Lowering /\ Lowering' = Lowering \cup {r}
    BY <1>1, <1>3, <1>5, <1>7, AudioContAssumption DEF Lowering
  <2> QED BY <1>3, <2>1, <2>2, DeleteCounts
<1>9. ContTypeOK' /\ TranscodersOK'
  BY <1>3, <1>7 DEF AudioInv, ContTypeOK, TranscodersOK
<1>10. \A t \in Tc : Later(tc[t], tc'[t])
  BY <1>3, LaterReflexive DEF AudioInv
<1>11. \A j \in Track : audioCont'[j] \in {audioCont[j], None}
  BY <1>3 DEF AudioInv, ContTypeOK
<1>12. CallerOK(r)'
  BY <1>5, <1>7 DEF CallerOK
<1>13. PICK M \in SUBSET Req : M = {r}
  OBVIOUS
<1> QED BY <1>3, <1>7, <1>8, <1>9, <1>10, <1>11, <1>12, <1>13, WorkStep

LEMMA LowerInv ==
  ASSUME AudioInv, NEW r \in Req, Lower(r)
  PROVE  AudioInv'
<1>1. call \in [Req -> CallRec] /\ call[r].pc = "lower" /\ CallerOK(r)
  BY DEF Lower, AudioInv, CallersOK, ContTypeOK
<1>2. audioContCount' = audioContCount - 1 /\ Goto(r, "fly")
      /\ UNCHANGED <<audioCont, contFlight, tc, dropKeys, dropSees, dropLowers>>
  BY DEF Lower, dropVars
<1>3. call' \in [Req -> CallRec] /\ call'[r].pc = "fly" /\ call'[r].track = call[r].track
      /\ \A q \in Req \ {r} : call'[q] = call[q]
  BY <1>1, <1>2, GotoFacts DEF ContPcs
<1>4. CountOK'
  <2>1. Raising' = Raising
    BY <1>1, <1>3 DEF Raising
  <2>2. r \in Lowering /\ Lowering' = Lowering \ {r}
    BY <1>1, <1>2, <1>3, AudioContAssumption DEF Lowering
  <2> QED BY <1>2, <2>1, <2>2, LowerCounts
<1>5. ContTypeOK' /\ TranscodersOK'
  BY <1>2, <1>3 DEF AudioInv, ContTypeOK, TranscodersOK
<1>6. \A t \in Tc : Later(tc[t], tc'[t])
  BY <1>2, LaterReflexive DEF AudioInv
<1>7. \A j \in Track : audioCont'[j] \in {audioCont[j], None}
  BY <1>2
<1>8. CallerOK(r)'
  BY <1>1, <1>3 DEF CallerOK
<1>9. PICK M \in SUBSET Req : M = {r}
  OBVIOUS
<1> QED BY <1>2, <1>3, <1>4, <1>5, <1>6, <1>7, <1>8, <1>9, WorkStep

\* The head of the loop ends the transcode or goes on below the end.
LEMMA LoopHeadFacts ==
  ASSUME NEW v \in TcRec, ~v.complete, v.first <= v.pos, v.producedTo <= v.pos,
         v.config => v.frames = v.first..(v.pos - 1)
  PROVE  /\ LoopHead(v) \in TcRec
         /\ TranscoderOK(LoopHead(v))
         /\ LoopHead(v).first = v.first /\ LoopHead(v).producedTo = v.producedTo
         /\ LoopHead(v).pc # "open"
<1>1. PICK u : u = LoopHead(v)
  OBVIOUS
<1>2. u \in TcRec
  BY <1>1 DEF LoopHead, Ends, TcRec
<1>3. /\ u.first = v.first /\ u.pos = v.pos /\ u.producedTo = v.producedTo
      /\ u.config = v.config /\ u.frames = v.frames
      /\ \/ u.pc = "ended" /\ (u.complete => v.pos = Length)
         \/ u.pc = "read" /\ v.pos # Length /\ ~u.complete
  BY <1>1 DEF LoopHead, Ends, TcRec
<1>4. v.pos \in 0..Length /\ Length \in Nat
  BY AudioContAssumption DEF TcRec
<1>5. TranscoderOK(u)
  BY <1>3, <1>4 DEF TranscoderOK
<1> QED BY <1>1, <1>2, <1>3, <1>5

LEMMA EndsFacts ==
  ASSUME NEW t \in TcRec, TranscoderOK(t), ~t.complete
  PROVE  Ends(t, TRUE) \in TcRec /\ TranscoderOK(Ends(t, TRUE)) /\ Later(t, Ends(t, TRUE))
<1>1. PICK u : u = Ends(t, TRUE)
  OBVIOUS
<1>2. u \in TcRec
  BY <1>1 DEF Ends, TcRec
<1>3. /\ u.first = t.first /\ u.pos = t.pos /\ u.producedTo = t.producedTo
      /\ u.config = t.config /\ u.frames = t.frames /\ u.pc = "ended" /\ ~u.complete
  BY <1>1 DEF Ends, TcRec
<1>4. t.producedTo \in Nat
  BY AudioContAssumption DEF TcRec
<1>5. TranscoderOK(u) /\ Later(t, u)
  BY <1>3, <1>4 DEF TranscoderOK, Later
<1> QED BY <1>1, <1>2, <1>5

\* The transcode begins at a keyframe that is not after the asked position.
LEMMA FirstPosFacts ==
  ASSUME NEW start \in 0..(Length - 1)
  PROVE  FirstPos(start) \in 0..(Length - 1)
<1>1. Length \in Nat /\ start \in Nat /\ KeyPos \subseteq Nat /\ 0 \in KeyPos
  BY AudioContAssumption
<1>2. PICK T : T = {p \in KeyPos : p <= start}
  OBVIOUS
<1>3. T \subseteq Nat /\ T # {} /\ \A x \in T : x <= start
  <2>1. 0 \in T
    BY <1>1, <1>2
  <2>2. T \subseteq Nat
    BY <1>1, <1>2
  <2> QED BY <1>2, <2>1, <2>2
<1>4. PICK x \in T : \A y \in T : y <= x
  BY <1>1, <1>3, GreatestNatural
<1>5. x \in KeyPos /\ x <= start /\ \A q \in KeyPos : q <= start => q <= x
  BY <1>2, <1>4
<1>6. FirstPos(start) \in KeyPos /\ FirstPos(start) <= start
  BY <1>5 DEF FirstPos
<1>7. PICK p \in Nat : p = FirstPos(start)
  BY <1>1, <1>6
<1>8. p <= start /\ start <= Length - 1
  BY <1>6, <1>7
<1> QED BY <1>1, <1>7, <1>8

\* What the goroutine makes of its transcoder.
LEMMA RunFacts ==
  ASSUME AudioInv, NEW t \in Tc, Run(t)
  PROVE  \E u \in TcRec : TranscoderOK(u) /\ Later(tc[t], u) /\ tc' = [tc EXCEPT ![t] = u]
<1>1. PICK x \in TcRec : x = tc[t]
  BY DEF AudioInv, ContTypeOK
<1>2. TranscoderOK(x) /\ x.pc \in {"open", "read"} /\ ~x.complete
  BY <1>1 DEF Run, Open, AppendFrame, AudioInv, TranscodersOK, TranscoderOK
<1>3. x.pos \in 0..Length /\ x.first \in 0..(Length - 1) /\ x.producedTo \in 0..Length /\ Length \in Nat
  BY AudioContAssumption DEF TcRec
<1>4. CASE tc' = [tc EXCEPT ![t] = Ends(@, TRUE)]
  BY <1>1, <1>2, <1>4, EndsFacts
<1>5. CASE Open(t) /\ ~(tc' = [tc EXCEPT ![t] = Ends(@, TRUE)])
  <2>0. x.start \in 0..(Length - 1)
    BY DEF TcRec
  <2>1. PICK p \in 0..(Length - 1) :
          tc' = [tc EXCEPT ![t] = LoopHead([x EXCEPT !.first = p, !.pos = p, !.config = TRUE, !.rate = TRUE])]
    <3>1. PICK p \in {0, FirstPos(x.start)} :
            tc' = [tc EXCEPT ![t] = LoopHead([x EXCEPT !.first = p, !.pos = p, !.config = TRUE, !.rate = TRUE])]
      BY <1>1, <1>5 DEF Open
    <3>2. p \in 0..(Length - 1)
      BY <1>3, <2>0, FirstPosFacts
    <3> QED BY <3>1, <3>2
  <2>7. PICK v : v = [x EXCEPT !.first = p, !.pos = p, !.config = TRUE, !.rate = TRUE]
    OBVIOUS
  <2>2. tc' = [tc EXCEPT ![t] = LoopHead(v)] /\ x.pc = "open"
    BY <1>1, <1>5, <2>1, <2>7 DEF Open
  <2>3. v \in TcRec /\ v.first = p /\ v.pos = p /\ v.producedTo = x.producedTo
        /\ v.frames = x.frames /\ v.complete = x.complete
    <3>1. p \in 0..Length
      BY <1>3
    <3> QED BY <2>7, <3>1 DEF TcRec
  <2>4. v.frames = v.first..(v.pos - 1) /\ v.first <= v.pos /\ v.producedTo <= v.pos
    <3>1. x.frames = {} /\ x.producedTo = 0
      BY <1>2, <1>3, <2>2 DEF TranscoderOK
    <3>2. p..(p - 1) = {} /\ p \in Nat
      BY <1>3
    <3> QED BY <2>3, <3>1, <3>2
  <2>5. LoopHead(v) \in TcRec /\ TranscoderOK(LoopHead(v))
        /\ LoopHead(v).producedTo = v.producedTo
    BY <1>2, <2>3, <2>4, LoopHeadFacts
  <2>6. Later(x, LoopHead(v))
    BY <1>2, <1>3, <2>2, <2>3, <2>5 DEF Later
  <2> QED BY <1>1, <2>2, <2>5, <2>6
<1>6. CASE AppendFrame(t) /\ ~(tc' = [tc EXCEPT ![t] = Ends(@, TRUE)])
  <2>1. PICK v : v = Appended(x)
    OBVIOUS
  <2>2. tc' = [tc EXCEPT ![t] = LoopHead(v)] /\ x.pc = "read"
    BY <1>1, <1>6, <2>1 DEF AppendFrame
  <2>3. x.pos < Length
    BY <1>2, <2>2 DEF TranscoderOK
  <2>4. v \in TcRec /\ v.first = x.first /\ v.pos = x.pos + 1 /\ v.producedTo = x.pos + 1
        /\ v.frames = x.frames \cup {x.pos} /\ v.complete = x.complete /\ v.config = x.config
    <3>1. PICK p : p = x.pos
      OBVIOUS
    <3>2. PICK fr : fr = x.frames \cup {p}
      OBVIOUS
    <3>3. PICK n : n = p + 1
      OBVIOUS
    <3>4. n \in 0..Length /\ p \in 0..(Length - 1)
      BY <1>3, <2>3, <3>1, <3>3
    <3>5. fr \in SUBSET (0..(Length - 1))
      BY <3>2, <3>4 DEF TcRec
    <3>6. v = [x EXCEPT !.frames = fr, !.producedTo = n, !.pos = n]
      BY <2>1, <3>1, <3>2, <3>3 DEF Appended
    <3>7. v \in TcRec
      BY <3>4, <3>5, <3>6 DEF TcRec
    <3>8. v.first = x.first /\ v.pos = n /\ v.producedTo = n /\ v.frames = fr
          /\ v.complete = x.complete /\ v.config = x.config
      BY <3>6 DEF TcRec
    <3> QED BY <3>1, <3>2, <3>3, <3>7, <3>8
  <2>5. (v.config => v.frames = v.first..(v.pos - 1)) /\ v.first <= v.pos /\ v.producedTo <= v.pos
    BY SMTT(20), <1>2, <1>3, <2>4 DEF TranscoderOK
  <2>6. LoopHead(v) \in TcRec /\ TranscoderOK(LoopHead(v))
        /\ LoopHead(v).first = v.first /\ LoopHead(v).producedTo = v.producedTo
        /\ LoopHead(v).pc # "open"
    BY <1>2, <2>4, <2>5, LoopHeadFacts
  <2>7. Later(x, LoopHead(v))
    BY <1>2, <1>3, <2>4, <2>6 DEF Later, TranscoderOK
  <2> QED BY <1>1, <2>2, <2>6, <2>7
<1> QED BY <1>4, <1>5, <1>6 DEF Run

LEMMA RunInv ==
  ASSUME AudioInv, NEW t \in Tc, Run(t)
  PROVE  AudioInv'
<1>1. PICK u \in TcRec : TranscoderOK(u) /\ Later(tc[t], u) /\ tc' = [tc EXCEPT ![t] = u]
  BY RunFacts
<1>2. UNCHANGED <<audioCont, audioContCount, contFlight, call, dropKeys, dropSees, dropLowers>>
  BY DEF Run, Open, AppendFrame, dropVars
<1>3. tc' \in [Tc -> TcRec] /\ TranscodersOK' /\ \A v \in Tc : Later(tc[v], tc'[v])
  BY <1>1, OneTranscoder
<1>4. ContTypeOK' /\ CountOK'
  BY <1>2, <1>3, CountSame DEF AudioInv, ContTypeOK
<1>5. PICK M \in SUBSET Req : M = {}
  OBVIOUS
<1> QED BY <1>2, <1>3, <1>4, <1>5, WorkStep

\* What a transcoder is created as.
Created(k, start) ==
  [NoTc EXCEPT !.pc = "open", !.track = k, !.start = start, !.cancelled = FALSE, !.err = FALSE]

LEMMA CreatedFacts ==
  ASSUME NEW k \in Track, NEW start \in 0..(Length - 1)
  PROVE  Created(k, start) \in TcRec /\ TranscoderOK(Created(k, start))
<1>1. PICK u : u = Created(k, start)
  OBVIOUS
<1>2. 0 \in 0..(Length - 1) /\ 0 \in 0..Length
  BY AudioContAssumption
<1>3. u = [NoTc EXCEPT !.pc = "open", !.track = k, !.start = start, !.cancelled = FALSE, !.err = FALSE]
  BY <1>1 DEF Created
<1>4. u \in TcRec
  BY <1>2, <1>3 DEF TcRec, NoTc
<1>5. u.pc = "open" /\ u.first = 0 /\ u.pos = 0 /\ u.producedTo = 0 /\ u.frames = {} /\ ~u.config
      /\ ~u.complete
  BY <1>3 DEF NoTc
<1>6. TranscoderOK(u)
  BY <1>5 DEF TranscoderOK
<1> QED BY <1>1, <1>4, <1>6

LEMMA StartInv ==
  ASSUME AudioInv, NEW r \in Req, Start(r)
  PROVE  AudioInv'
<1>1. call \in [Req -> CallRec] /\ call[r].pc = "start" /\ CallerOK(r)
  BY DEF Start, AudioInv, CallersOK, ContTypeOK
<1>2. PICK k \in Track : k = call[r].track
  BY <1>1 DEF CallerOK
<1>3. contFlight[k] = r /\ audioCont[k] = None
  BY <1>1, <1>2 DEF CallerOK
<1>4. PICK start \in 0..(Length - 1) : start = call[r].from
  BY <1>1 DEF CallRec
<1>5. PICK t \in Tc : t = (CHOOSE u \in Tc : Collectable(u)) /\ Collectable(t)
  BY DEF Start
<1>6. PICK u \in TcRec : u = Created(k, start) /\ TranscoderOK(u)
  BY CreatedFacts
<1>7. PICK a : a = [call[r] EXCEPT !.cont = t, !.pc = "raise"]
  OBVIOUS
<1>8. a \in CallRec /\ a.pc = "raise" /\ a.track = k /\ a.cont = t
  BY <1>1, <1>2, <1>7 DEF CallRec, ContPcs
<1>9. tc' = [tc EXCEPT ![t] = u] /\ audioCont' = [audioCont EXCEPT ![k] = t]
      /\ call' = [call EXCEPT ![r] = a]
      /\ UNCHANGED <<audioContCount, contFlight, dropKeys, dropSees, dropLowers>>
  BY <1>2, <1>4, <1>5, <1>6, <1>7 DEF Start, Created, dropVars
<1>10. call' \in [Req -> CallRec] /\ call'[r] = a /\ \A q \in Req \ {r} : call'[q] = call[q]
  BY <1>1, <1>8, <1>9
<1>11. ContTypeOK' /\ TranscodersOK'
  <2>1. tc' \in [Tc -> TcRec] /\ \A v \in Tc : TranscoderOK(tc'[v])
    BY <1>6, <1>9 DEF AudioInv, ContTypeOK, TranscodersOK
  <2>2. audioCont' \in [Track -> Tc \cup {None}]
    BY <1>9 DEF AudioInv, ContTypeOK
  <2>3. ContTypeOK'
    BY <1>9, <1>10, <2>1, <2>2 DEF AudioInv, ContTypeOK
  <2> QED BY <2>1, <2>3 DEF TranscodersOK
<1>12. CountOK'
  <2>1. Lowering' = Lowering
    BY <1>1, <1>8, <1>9, <1>10 DEF Lowering
  <2>2. r \notin Raising /\ Raising' = Raising \cup {r}
    BY <1>1, <1>8, <1>10 DEF Raising
  <2> QED BY <1>3, <1>9, <2>1, <2>2, StoreCounts
<1>13. CallerOK(r)'
  BY <1>3, <1>8, <1>9, <1>10 DEF CallerOK
<1>14. ASSUME NEW q \in Req \ {r}
       PROVE  CallerOK(q)'
  <2>1. CallerOK(q) /\ ContTypeOK /\ call'[q] = call[q]
    BY <1>10 DEF AudioInv, CallersOK
  <2>2. call[q].pc \in {"recheck", "cap", "start", "raise"} => call[q].track \in Track \ {k}
    BY <1>3, <2>1 DEF CallerOK
  <2>3. call[q].pc \in {"recheck", "cap", "start", "raise"} => contFlight'[call[q].track] = q
    BY <1>9, <2>1 DEF CallerOK
  <2>4. call[q].pc \in {"cap", "start"} => audioCont'[call[q].track] = None
    BY <1>9, <2>1, <2>2 DEF CallerOK, ContTypeOK
  <2>5. call[q].pc \in {"slice", "ok"} => Later(tc[call[q].cont], tc'[call[q].cont])
    <3>1. call[q].pc \in {"slice", "ok"} => call[q].cont \in Tc /\ call[q].cont # t
      BY <1>5, <2>1 DEF CallerOK, Collectable
    <3> QED BY <1>9, <3>1, LaterReflexive DEF AudioInv, ContTypeOK
  <2> QED BY <1>11, <2>1, <2>3, <2>4, <2>5, Bystander
<1> QED BY <1>11, <1>12, <1>13, <1>14 DEF AudioInv, CallersOK

LEMMA RaiseInv ==
  ASSUME AudioInv, NEW r \in Req, Raise(r)
  PROVE  AudioInv'
<1>1. call \in [Req -> CallRec] /\ call[r].pc = "raise" /\ CallerOK(r)
  BY DEF Raise, AudioInv, CallersOK, ContTypeOK
<1>2. PICK t \in Tc : t = call[r].cont
  BY <1>1 DEF CallerOK
<1>3. call[r].track \in Track
  BY <1>1 DEF CallerOK
<1>4. Land(r, t) /\ audioContCount' = audioContCount + 1 /\ UNCHANGED <<audioCont, tc, dropVars>>
  BY <1>2 DEF Raise
<1>5. /\ \A q \in Req \ Lands(r) : call'[q] = call[q]
      /\ \A q \in Lands(r) : call'[q].pc = "wait"
  <2>1. t # None
    BY AudioContAssumption
  <2> QED BY <1>3, <1>4, <2>1, LandFacts
<1>6. CountOK'
  <2>1. \A q \in Lands(r) : q = r \/ call[q].pc = "follow"
    BY DEF Lands
  <2>2. Lowering' = Lowering
    <3>1. \A q \in Req : call'[q].pc = "lower" <=> call[q].pc = "lower"
      BY <1>1, <1>5, <2>1
    <3> QED BY <1>4, <3>1 DEF Lowering, dropVars
  <2>3. r \in Raising /\ Raising' = Raising \ {r}
    <3>1. r \in Lands(r)
      BY DEF Lands
    <3>2. \A q \in Req : call'[q].pc = "raise" <=> (call[q].pc = "raise" /\ q # r)
      BY <1>1, <1>5, <2>1, <3>1
    <3> QED BY <1>1, <3>2 DEF Raising
  <2> QED BY <1>4, <2>2, <2>3, RaiseCounts
<1>7. audioContCount' \in Int
  BY <1>4 DEF AudioInv, ContTypeOK
<1> QED BY <1>1, <1>4, <1>6, <1>7, LandInv

\* A step of dropAudioCont.
LEMMA DropInv ==
  ASSUME AudioInv, NEW k \in Track, DropCont(k)
  PROVE  AudioInv'
<1>1. PICK t \in Tc : t = dropSees
  BY DEF DropCont, AudioInv, ContTypeOK
<1>2. PICK u \in TcRec : u = Freed(Cancelled(tc[t])) /\ TranscoderOK(u) /\ Later(tc[t], u)
  BY FreedFacts DEF AudioInv, ContTypeOK, TranscodersOK
<1>3. tc' = [tc EXCEPT ![t] = u] /\ audioCont' = [audioCont EXCEPT ![k] = None]
      /\ dropKeys' = dropKeys \ {k} /\ dropSees' = None /\ ~dropLowers /\ dropLowers' = TRUE
      /\ UNCHANGED <<audioContCount, contFlight, call>>
  BY <1>1, <1>2 DEF DropCont
<1>4. tc' \in [Tc -> TcRec] /\ TranscodersOK' /\ \A v \in Tc : Later(tc[v], tc'[v])
  BY <1>2, <1>3, OneTranscoder
<1>5. ContTypeOK'
  BY <1>3, <1>4 DEF AudioInv, ContTypeOK
<1>6. CountOK'
  <2>1. Raising' = Raising
    BY <1>3 DEF Raising
  <2>2. None \notin Lowering /\ Lowering' = Lowering \cup {None}
    BY <1>3, AudioContAssumption DEF Lowering
  <2> QED BY <1>3, <2>1, <2>2, DeleteCounts
<1>7. \A j \in Track : audioCont'[j] \in {audioCont[j], None}
  BY <1>3 DEF AudioInv, ContTypeOK
<1>8. PICK M \in SUBSET Req : M = {}
  OBVIOUS
<1> QED BY <1>3, <1>4, <1>5, <1>6, <1>7, <1>8, WorkStep

LEMMA DropLowerInv ==
  ASSUME AudioInv, DropLower
  PROVE  AudioInv'
<1>1. dropLowers /\ dropLowers' = FALSE /\ audioContCount' = audioContCount - 1
      /\ UNCHANGED <<audioCont, contFlight, tc, call, dropKeys, dropSees>>
  BY DEF DropLower
<1>2. CountOK'
  <2>1. Raising' = Raising
    BY <1>1 DEF Raising
  <2>2. None \in Lowering /\ Lowering' = Lowering \ {None}
    BY <1>1, AudioContAssumption DEF Lowering
  <2> QED BY <1>1, <2>1, <2>2, LowerCounts
<1>3. ContTypeOK' /\ TranscodersOK'
  <2>1. audioContCount' \in Int
    <3>1. audioContCount' = audioContCount - 1
      BY <1>1
    <3> QED BY <3>1 DEF AudioInv, ContTypeOK
  <2>2. dropLowers' \in BOOLEAN
    BY Zenon, <1>1
  <2>3. UNCHANGED <<audioCont, contFlight, tc, call, dropKeys, dropSees>>
    BY <1>1
  <2> QED BY <2>1, <2>2, <2>3 DEF AudioInv, ContTypeOK, TranscodersOK
<1>4. \A t \in Tc : Later(tc[t], tc'[t])
  BY <1>1, LaterReflexive DEF AudioInv
<1>5. PICK M \in SUBSET Req : M = {}
  OBVIOUS
<1> QED BY <1>1, <1>2, <1>3, <1>4, <1>5, WorkStep

\* dropAudioCont's own variables bear on nothing else.
LEMMA DropVarsInv ==
  ASSUME AudioInv, UNCHANGED <<audioCont, audioContCount, contFlight, tc, call, dropLowers>>,
         dropKeys' \subseteq Track, dropSees' \in Tc \cup {None}
  PROVE  AudioInv'
<1>1. ContTypeOK' /\ TranscodersOK' /\ CallersOK'
  BY DEF AudioInv, ContTypeOK, CallersOK, CallerOK, TranscodersOK, PastWindow
<1>2. CountOK'
  BY CountSame DEF AudioInv
<1> QED BY <1>1, <1>2 DEF AudioInv

LEMMA StepAudio ==
  ASSUME AudioInv, NEW r \in Req, Step(r)
  PROVE  AudioInv'
BY LoadInv, LookInv, ReplaceInv, DeleteInv, LowerInv, FlyInv, RecheckInv, CapInv, StartInv, RaiseInv,
   WaitInv, SliceInv DEF Step

-----------------------------------------------------------------------------
(* The requests *)

\* What the constants say of an artifact.
LEMMA ArtifactFacts ==
  ASSUME NEW a \in Artifact
  PROVE  /\ a.kind \in Kind /\ a.file \in File /\ a.file \in Track /\ a.n \in Nat
         /\ Source(a) \in Track
         /\ OfVideo(a.kind) => Source(a) = a.file
<1>1. a \in [kind : Kind, file : File, n : Nat] /\ Track = File \cup {Ext}
  BY HlsAssumption
<1> QED BY <1>1 DEF Source, OfVideo

\* A segment of a grid lies in the track.
LEMMA WindowFacts ==
  ASSUME NEW g \in Grid, NEW n \in Nat, n < count(g)
  PROVE  extinf(g, n) \in 1..Length /\ window(g, n) \in Win
<1>1. /\ Cut[g] \in Seq(0..(Length - 1))
      /\ \A i \in 2..Len(Cut[g]) : Cut[g][i - 1] < Cut[g][i]
  BY HlsAssumption
<1>2. Length \in Nat
  BY AudioContAssumption
<1>3. PICK c : c = Cut[g]
  OBVIOUS
<1>4. c \in Seq(0..(Length - 1)) /\ Len(c) \in Nat /\ n < Len(c)
      /\ \A i \in 2..Len(c) : c[i - 1] < c[i]
  BY <1>1, <1>3 DEF count
<1>5. PICK lo \in 0..(Length - 1) : lo = c[n + 1]
  <2>1. n + 1 \in 1..Len(c)
    BY <1>4
  <2> QED BY <1>4, <2>1, ElementOfSeq
<1>6. PICK hi \in 1..Length : hi = (IF n + 1 < Len(c) THEN c[n + 2] ELSE Length) /\ lo < hi
  <2>1. CASE n + 1 < Len(c)
    <3>1. n + 2 \in 1..Len(c) /\ n + 2 \in 2..Len(c) /\ (n + 2) - 1 = n + 1
      BY <1>4, <2>1
    <3>2. PICK hi \in 0..(Length - 1) : hi = c[n + 2]
      BY <1>4, <3>1, ElementOfSeq
    <3>3. lo < hi
      BY <1>4, <1>5, <3>1, <3>2
    <3> QED BY <1>2, <2>1, <3>2, <3>3
  <2>2. CASE ~(n + 1 < Len(c))
    <3>1. Length \in 1..Length /\ lo < Length
      BY <1>2, <1>5
    <3> QED BY <2>2, <3>1
  <2> QED BY <2>1, <2>2
<1>7. extinf(g, n) = hi - lo
  BY <1>3, <1>5, <1>6 DEF extinf, count
<1>8. hi - lo \in 1..Length /\ lo + (hi - lo) = hi
  BY <1>2, <1>6
<1>9. window(g, n) = [lo |-> lo, hi |-> hi]
  BY <1>3, <1>5, <1>7, <1>8 DEF window
<1>10. [lo |-> lo, hi |-> hi] \in Win
  BY <1>6 DEF Win
<1> QED BY <1>7, <1>8, <1>9, <1>10

\* A step leaves a request alone that it does not move, if it leaves alone the flights it leads and
\* the grids that are there.
LEMMA RequestBystander ==
  ASSUME NEW q \in Req, RequestOK(q), req'[q] = req[q],
         req \in [Req -> ReqRec], None \notin Grid,
         req[q].pc = "cont" => call'[q].win = call[q].win,
         \A f \in File : (flight'[<<"grid", f>>] = q) <=> (flight[<<"grid", f>>] = q),
         drops' = 0 => drops = 0,
         drops' = 0 => \A f \in File : \/ segList'[f] = segList[f]
                                       \/ segList[f] = None /\ flight[<<"grid", f>>] # q
  PROVE  RequestOK(q)'
<1> DEFINE f == req[q].art.file
<1>1. req[q].pc # "idle" => req[q].art \in Artifact /\ f \in File
  BY ArtifactFacts DEF RequestOK, ReqOK
<1>2. req[q].data # None => req[q].data.grid \in Grid
  BY DEF ReqRec, Data
<1>3. ReqOK(q)'
  BY <1>1 DEF RequestOK, ReqOK, Fits, InLookup, Leads
<1>4. BuilderLeads(q)'
  BY <1>1 DEF RequestOK, BuilderLeads, Leads
<1>5. LeaderBuilds(q)'
  BY DEF RequestOK, LeaderBuilds, Builds, InLookup
<1>6. OneGrid(q)'
  <2> SUFFICES ASSUME drops' = 0
               PROVE  OneGrid(q)'
    BY DEF OneGrid
  <2>1. (req[q].grid # None \/ req[q].data # None) => f \in File
    BY <1>1 DEF RequestOK, ReqOK
  <2>2. req[q].grid # None => req[q].grid = segList[f] /\ segList'[f] = segList[f]
    BY <2>1 DEF RequestOK, OneGrid
  <2>3. (req[q].data # None /\ OfVideo(req[q].art.kind))
          => req[q].data.grid = segList[f] /\ segList'[f] = segList[f]
    BY <1>2, <2>1 DEF RequestOK, OneGrid
  <2> QED BY <2>2, <2>3 DEF OneGrid
<1> QED BY <1>3, <1>4, <1>5, <1>6 DEF RequestOK

\* A step of the lookups: only requests, flights, grids and layouts change, and every request of M
\* is moved to where it may be.
LEMMA LookupStep ==
  ASSUME HlsInv, NEW M \in SUBSET Req,
         req' \in [Req -> ReqRec], segList' \in [File -> Grid \cup {None}],
         layout' \in [Track -> BOOLEAN], flight' \in [Lookup \X Track -> Req \cup {None}],
         UNCHANGED <<contVars, cache, curBytes, worldVars>>,
         \A q \in Req \ M : req'[q] = req[q],
         \A q \in M : RequestOK(q)',
         \A f \in File, q \in Req \ M : (flight'[<<"grid", f>>] = q) <=> (flight[<<"grid", f>>] = q),
         drops = 0 => \A f \in File : \/ segList'[f] = segList[f]
                                      \/ segList[f] = None /\ flight[<<"grid", f>>] \in M
  PROVE  HlsInv'
<1>1. AudioInv'
  <2>1. UNCHANGED <<audioCont, audioContCount, contFlight, tc, call, dropKeys, dropSees, dropLowers>>
    BY DEF contVars
  <2> QED BY <2>1, DropVarsInv DEF HlsInv, AudioInv, ContTypeOK
<1>2. TypeOK'
  BY <1>1 DEF HlsInv, TypeOK, AudioInv, worldVars
<1>3. CacheExact'
  BY DEF HlsInv, CacheExact
<1>4. UNCHANGED <<drops, call, cache>>
  BY DEF worldVars, contVars
<1>5. CacheOneGrid'
  <2> SUFFICES ASSUME NEW i \in 1..Len(cache)
               PROVE  EntryOK(cache[i])'
    BY <1>4 DEF CacheOneGrid
  <2>1. PICK e \in CacheEntry : e = cache[i]
    BY ElementOfSeq DEF HlsInv, TypeOK
  <2>2. EntryOK(e)
    BY <2>1 DEF HlsInv, CacheOneGrid
  <2>3. e.data.grid \in Grid /\ None \notin Grid
    BY HlsAssumption DEF CacheEntry, Data
  <2>4. EntryOK(e)'
    BY <1>4, <2>2, <2>3 DEF EntryOK
  <2> QED BY <1>4, <2>1, <2>4
<1>6. ASSUME NEW q \in Req \ M
      PROVE  RequestOK(q)'
  <2>1. RequestOK(q) /\ req \in [Req -> ReqRec] /\ None \notin Grid
    BY HlsAssumption DEF HlsInv, RequestsOK, TypeOK
  <2>2. drops' = 0 => \A f \in File : \/ segList'[f] = segList[f]
                                      \/ segList[f] = None /\ flight[<<"grid", f>>] # q
    BY <1>4
  <2> QED BY <1>4, <2>1, <2>2, RequestBystander
<1> QED BY <1>1, <1>2, <1>3, <1>5, <1>6 DEF HlsInv, RequestsOK

\* Where a request goes when a lookup ends.
LEMMA MoveTypes ==
  ASSUME NEW x \in ReqRec
  PROVE  /\ \A g \in Grid : GotGrid(x, g) \in ReqRec
         /\ Failed(x) \in ReqRec
         /\ [x EXCEPT !.what = "grid"] \in ReqRec
         /\ [x EXCEPT !.pc = "load", !.what = "grid", !.again = TRUE] \in ReqRec
         /\ [x EXCEPT !.what = "layout", !.pc = "load"] \in ReqRec
         /\ \A pc \in {"fly", "follow", "recheck", "probe", "index", "uniform", "produce", "reply"} :
              [x EXCEPT !.pc = pc] \in ReqRec
<1>1. \A g \in Grid : GotGrid(x, g) \in ReqRec
  BY DEF GotGrid, ReqRec
<1>2. Failed(x) \in ReqRec
  BY DEF Failed, ReqRec
<1>3. [x EXCEPT !.what = "grid"] \in ReqRec
  BY DEF ReqRec, Lookup
<1>4. [x EXCEPT !.pc = "load", !.what = "grid", !.again = TRUE] \in ReqRec
  BY DEF ReqRec, Lookup
<1>5. [x EXCEPT !.what = "layout", !.pc = "load"] \in ReqRec
  BY DEF ReqRec, Lookup
<1>6. \A pc \in {"fly", "follow", "recheck", "probe", "index", "uniform", "produce", "reply"} :
        [x EXCEPT !.pc = pc] \in ReqRec
  BY DEF ReqRec
<1> QED BY <1>1, <1>2, <1>3, <1>4, <1>5, <1>6

\* A request that has failed and leads no flight of a grid.
LEMMA FailedOK ==
  ASSUME HlsInv, NEW q \in Req, req[q].pc # "idle", req'[q] = Failed(req[q]),
         \A f \in File : flight'[<<"grid", f>>] # q, drops' = drops,
         drops = 0 => segList'[req[q].art.file] = segList[req[q].art.file]
  PROVE  RequestOK(q)'
<1>1. PICK x \in ReqRec : x = req[q]
  BY DEF HlsInv, TypeOK
<1>2. PICK y : y = req'[q]
  OBVIOUS
<1>3. y.pc = "reply" /\ y.data = None /\ y.art = x.art /\ y.grid = x.grid /\ y.again = x.again
  BY <1>1, <1>2 DEF Failed, ReqRec
<1>4. RequestOK(q)
  BY DEF HlsInv, RequestsOK
<1>5. ReqOK(q)'
  BY <1>1, <1>2, <1>3, <1>4 DEF RequestOK, ReqOK, InLookup
<1>6. BuilderLeads(q)' /\ LeaderBuilds(q)'
  BY <1>2, <1>3 DEF BuilderLeads, LeaderBuilds
<1>7. OneGrid(q)'
  BY <1>1, <1>2, <1>3, <1>4 DEF RequestOK, OneGrid
<1> QED BY <1>5, <1>6, <1>7 DEF RequestOK

\* A request that got the grid that is there now, and leads no flight of a grid.
LEMMA GotGridOK ==
  ASSUME HlsInv, NEW q \in Req, NEW x \in ReqRec, NEW g \in Grid, req'[q] = GotGrid(x, g),
         req[q].pc # "idle", x.art = req[q].art, x.again = req[q].again, x.data = req[q].data,
         \A f \in File : flight'[<<"grid", f>>] # q, drops' = drops,
         drops = 0 => segList'[x.art.file] = g /\ segList[x.art.file] \in {g, None}
  PROVE  RequestOK(q)'
<1>1. RequestOK(q) /\ None \notin Grid
  BY HlsAssumption DEF HlsInv, RequestsOK
<1>2. PICK y : y = req'[q]
  OBVIOUS
<1>3. /\ y.pc = (IF x.again THEN "produce" ELSE "leaf") /\ y.grid = g
      /\ y.art = x.art /\ y.data = x.data /\ y.again = x.again
  BY <1>2 DEF GotGrid, ReqRec
<1>4. y.art \in Artifact /\ (y.again => isInit(y.art))
  BY <1>1, <1>3 DEF RequestOK, ReqOK, isInit
<1>5. ReqOK(q)'
  BY <1>1, <1>2, <1>3, <1>4 DEF RequestOK, ReqOK, InLookup, Fits
<1>6. BuilderLeads(q)' /\ LeaderBuilds(q)'
  BY <1>2, <1>3 DEF BuilderLeads, LeaderBuilds
<1>7. OneGrid(q)'
  <2>1. x.data # None => x.data.grid \in Grid
    BY DEF ReqRec, Data
  <2> QED BY <1>1, <1>2, <1>3, <2>1 DEF RequestOK, OneGrid
<1> QED BY <1>5, <1>6, <1>7 DEF RequestOK

\* A request that leads the flight of a grid, or of none, is told about its layout.
LEMMA LayoutToldOK ==
  ASSUME HlsInv, NEW q \in Req, InLookup(req[q]), req[q].what = "layout",
         req'[q] = GotLayout(q) \/ req'[q] = NoLayout(q),
         \A f \in File : flight'[<<"grid", f>>] = flight[<<"grid", f>>],
         UNCHANGED <<segList, drops>>
  PROVE  RequestOK(q)'
<1>1. PICK x \in ReqRec : x = req[q]
  BY DEF HlsInv, TypeOK
<1>2. RequestOK(q)
  BY DEF HlsInv, RequestsOK
<1>3. PICK f \in File : f = x.art.file /\ x.art \in Artifact
  BY <1>1, <1>2, ArtifactFacts DEF RequestOK, ReqOK, InLookup
<1>4. PICK y : y = req'[q]
  OBVIOUS
<1>5. CASE Leads(q, "grid")
  <2>1. y.pc \in {"index", "uniform"} /\ y.art = x.art /\ y.grid = x.grid /\ y.data = x.data
        /\ y.again = x.again
    BY <1>1, <1>4, <1>5 DEF GotLayout, NoLayout, ReqRec
  <2>2. Leads(q, "grid")'
    BY <1>1, <1>3, <1>4, <1>5, <2>1 DEF Leads
  <2>3. ReqOK(q)'
    BY <1>1, <1>2, <1>3, <1>4, <2>1 DEF RequestOK, ReqOK, InLookup
  <2>4. BuilderLeads(q)'
    BY <2>2 DEF BuilderLeads
  <2>5. LeaderBuilds(q)'
    BY <1>1, <1>2, <1>4, <2>1 DEF RequestOK, LeaderBuilds, Builds
  <2>6. OneGrid(q)'
    BY <1>1, <1>2, <1>4, <2>1 DEF RequestOK, OneGrid
  <2> QED BY <2>3, <2>4, <2>5, <2>6 DEF RequestOK
<1>6. CASE ~Leads(q, "grid")
  <2>1. \A j \in File : flight'[<<"grid", j>>] # q
    BY <1>1, <1>2, <1>6 DEF RequestOK, LeaderBuilds, Leads
  <2>2. Fits(x)
    BY <1>1, <1>2, <1>6 DEF RequestOK, ReqOK
  <2>3. CASE req'[q] = Failed(req[q])
    BY <2>1, <2>3, FailedOK DEF InLookup
  <2>4. CASE req'[q] # Failed(req[q])
    <3>1. /\ y.pc \in {"load", "produce"} /\ y.art = x.art /\ y.grid = x.grid /\ y.data = x.data
          /\ y.again => (x.again \/ x.art.kind = "vinit")
          /\ y.pc = "load" => y.what = "grid"
      BY <1>1, <1>4, <1>6, <2>4 DEF GotLayout, NoLayout, ReqRec
    <3>2. ReqOK(q)'
      BY <1>1, <1>2, <1>3, <1>4, <2>2, <3>1 DEF RequestOK, ReqOK, InLookup, Fits
    <3>3. BuilderLeads(q)' /\ LeaderBuilds(q)'
      BY <1>4, <2>1, <3>1 DEF BuilderLeads, LeaderBuilds
    <3>4. OneGrid(q)'
      BY <1>1, <1>2, <1>4, <3>1 DEF RequestOK, OneGrid
    <3> QED BY <3>2, <3>3, <3>4 DEF RequestOK
  <2> QED BY <2>3, <2>4
<1> QED BY <1>5, <1>6

\* A request in a lookup has a key.
LEMMA KeyFacts ==
  ASSUME HlsInv, NEW q \in Req, InLookup(req[q])
  PROVE  /\ req[q].art \in Artifact /\ req[q].art.file \in File
         /\ req[q].what \in Lookup /\ LookupFile(req[q]) \in Track
         /\ LookupKey(req[q]) \in Lookup \X Track
         /\ req[q].what = "grid" => LookupFile(req[q]) = req[q].art.file
<1>1. req[q].art \in Artifact /\ req[q] \in ReqRec
  BY DEF HlsInv, TypeOK, RequestsOK, RequestOK, ReqOK, InLookup
<1>2. req[q].what \in Lookup
  BY <1>1 DEF ReqRec
<1>3. LookupFile(req[q]) \in Track /\ (req[q].what = "grid" => LookupFile(req[q]) = req[q].art.file)
  BY <1>1, ArtifactFacts DEF LookupFile
<1> QED BY <1>1, <1>2, <1>3, ArtifactFacts DEF LookupKey

\* Everybody on the flight of r.
LandsOn(r) == {q \in Req : q = r \/ (req[q].pc = "follow" /\ LookupKey(req[q]) = LookupKey(req[r]))}

LEMMA LandLookupFacts ==
  ASSUME HlsInv, NEW r \in Req, InLookup(req[r]), NEW after, LandLookup(r, after),
         \A q \in LandsOn(r) : after[q] \in ReqRec
  PROVE  /\ req' \in [Req -> ReqRec]
         /\ \A q \in LandsOn(r) : req'[q] = after[q]
         /\ \A q \in Req \ LandsOn(r) : req'[q] = req[q]
         /\ flight' \in [Lookup \X Track -> Req \cup {None}]
         /\ flight' = [flight EXCEPT ![LookupKey(req[r])] = None]
<1>1. req \in [Req -> ReqRec] /\ flight \in [Lookup \X Track -> Req \cup {None}]
  BY DEF HlsInv, TypeOK
<1>2. /\ flight' = [flight EXCEPT ![LookupKey(req[r])] = None]
      /\ req' = [q \in Req |-> IF q \in LandsOn(r) THEN after[q] ELSE req[q]]
  BY DEF LandLookup, LandsOn
<1>3. req' \in [Req -> ReqRec]
  <2>1. \A q \in Req : (IF q \in LandsOn(r) THEN after[q] ELSE req[q]) \in ReqRec
    BY <1>1
  <2> QED BY <1>2, <2>1
<1>4. LandsOn(r) \subseteq Req
  BY DEF LandsOn
<1>5. flight' \in [Lookup \X Track -> Req \cup {None}]
  BY <1>1, <1>2
<1> QED BY <1>2, <1>3, <1>4, <1>5

\* The flight of a grid lands: nobody on it leads one then, and who else leads one still does.
LEMMA GridLands ==
  ASSUME HlsInv, NEW r \in Req, flight' = [flight EXCEPT ![<<"grid", req[r].art.file>>] = None],
         req[r].art \in Artifact, Leads(r, "grid")
  PROVE  /\ \A f \in File, q \in Req : (q = r \/ (req[q].pc = "follow" /\ req[q].what = "grid"))
                                         => flight'[<<"grid", f>>] # q
         /\ \A f \in File, q \in Req \ {r} :
              (flight'[<<"grid", f>>] = q) <=> (flight[<<"grid", f>>] = q)
<1>1. PICK e \in File : e = req[r].art.file
  BY ArtifactFacts
<1>2. flight[<<"grid", e>>] = r /\ flight \in [Lookup \X Track -> Req \cup {None}]
  BY <1>1 DEF Leads, HlsInv, TypeOK
<1>3. \A f \in File : <<"grid", f>> \in Lookup \X Track
  BY HlsAssumption DEF Lookup
<1>4. \A f \in File : flight'[<<"grid", f>>] = IF f = e THEN None ELSE flight[<<"grid", f>>]
  BY <1>1, <1>2, <1>3
<1>5. \A q \in Req : q # None /\ LeaderBuilds(q)
  BY AudioContAssumption DEF HlsInv, RequestsOK, RequestOK
<1>6. \A f \in File : flight[<<"grid", f>>] = r => f = e
  BY <1>1, <1>5 DEF LeaderBuilds
<1>7. \A f \in File, q \in Req : (req[q].pc = "follow" /\ req[q].what = "grid") => flight[<<"grid", f>>] # q
  BY <1>5 DEF LeaderBuilds, Builds, InLookup
<1> QED BY <1>2, <1>4, <1>5, <1>6, <1>7

\* The flight of a layout has nothing to do with those of the grids.
LEMMA LayoutLands ==
  ASSUME HlsInv, NEW r \in Req, InLookup(req[r]), req[r].what = "layout",
         flight' = [flight EXCEPT ![LookupKey(req[r])] = None]
  PROVE  \A f \in File : flight'[<<"grid", f>>] = flight[<<"grid", f>>]
<1>1. flight \in [Lookup \X Track -> Req \cup {None}] /\ LookupKey(req[r])[1] = "layout"
  BY DEF HlsInv, TypeOK, LookupKey
<1>2. \A f \in File : <<"grid", f>> # LookupKey(req[r]) /\ <<"grid", f>> \in Lookup \X Track
  BY HlsAssumption DEF Lookup, LookupKey
<1> QED BY <1>1, <1>2

LEMMA HandleInv ==
  ASSUME HlsInv, NEW r \in Req, NEW a \in Artifact, HandleHls(r, a)
  PROVE  HlsInv'
<1>1. PICK y : y = [NoReq EXCEPT !.pc = "load", !.art = a]
  OBVIOUS
<1>2. y \in ReqRec /\ y.pc = "load" /\ y.art = a /\ y.what = "grid" /\ ~y.again /\ y.grid = None
      /\ y.data = None
  BY <1>1 DEF NoReq, ReqRec, Lookup
<1>3. req \in [Req -> ReqRec] /\ req[r].pc = "idle" /\ RequestOK(r)
  BY DEF HandleHls, HlsInv, TypeOK, RequestsOK
<1>4. req' \in [Req -> ReqRec] /\ req'[r] = y /\ \A q \in Req \ {r} : req'[q] = req[q]
  BY <1>1, <1>2, <1>3 DEF HandleHls
<1>5. UNCHANGED <<contVars, segList, layout, flight, cache, curBytes, torrent, drops, scenario>>
  BY DEF HandleHls
<1>6. AudioInv'
  BY <1>5, DropVarsInv DEF HlsInv, AudioInv, ContTypeOK, contVars
<1>7. asked' \in 0..scenario.requests
  <2>1. PICK n \in Nat : n = scenario.requests
    BY HlsAssumption DEF HlsInv, TypeOK
  <2>2. asked \in 0..n /\ asked < n /\ asked' = asked + 1
    BY <2>1 DEF HandleHls, HlsInv, TypeOK
  <2> QED BY <2>1, <2>2
<1>8. TypeOK'
  BY <1>4, <1>5, <1>6, <1>7 DEF HlsInv, AudioInv, TypeOK
<1>9. RequestOK(r)'
  <2>1. \A f \in File : flight[<<"grid", f>>] # r
    BY <1>3 DEF RequestOK, LeaderBuilds, Builds, InLookup
  <2>2. ReqOK(r)'
    BY <1>2, <1>4 DEF ReqOK, InLookup
  <2>3. BuilderLeads(r)' /\ LeaderBuilds(r)' /\ OneGrid(r)'
    BY <1>2, <1>4, <1>5, <2>1 DEF BuilderLeads, LeaderBuilds, OneGrid
  <2> QED BY <2>2, <2>3 DEF RequestOK
<1>10. ASSUME NEW q \in Req \ {r}
       PROVE  RequestOK(q)'
  <2>1. RequestOK(q) /\ None \notin Grid /\ call' = call
    BY <1>5, HlsAssumption DEF HlsInv, RequestsOK, contVars
  <2> QED BY <1>3, <1>4, <1>5, <2>1, RequestBystander
<1>11. CacheExact' /\ CacheOneGrid'
  BY <1>5 DEF HlsInv, CacheExact, CacheOneGrid, EntryOK
<1> QED BY <1>6, <1>8, <1>9, <1>10, <1>11 DEF HlsInv, RequestsOK

\* Only one request moves.
LEMMA OneMoves ==
  ASSUME HlsInv, NEW r \in Req, NEW y \in ReqRec, req' = [req EXCEPT ![r] = y], RequestOK(r)',
         UNCHANGED <<contVars, segList, layout, flight, cache, curBytes, worldVars>>
  PROVE  HlsInv'
<1>1. /\ req' \in [Req -> ReqRec] /\ segList' \in [File -> Grid \cup {None}]
      /\ layout' \in [Track -> BOOLEAN] /\ flight' \in [Lookup \X Track -> Req \cup {None}]
      /\ \A q \in Req \ {r} : req'[q] = req[q]
  BY DEF HlsInv, TypeOK
<1>2. PICK M \in SUBSET Req : M = {r}
  OBVIOUS
<1> QED BY <1>1, <1>2, LookupStep

\* A request stays in its lookup, or begins the next.
LEMMA LookupMoveOK ==
  ASSUME HlsInv, NEW r \in Req, NEW y \in ReqRec, InLookup(req[r]), InLookup(y), req'[r] = y,
         y.art = req[r].art, y.again = req[r].again, y.grid = req[r].grid, y.data = req[r].data,
         y.what = req[r].what \/ Leads(r, "grid"), y.what = "layout" \/ y.what = req[r].what,
         Builds(y) /\ y.what = "grid" => Leads(r, "grid")',
         \A f \in File \ {req[r].art.file} : flight'[<<"grid", f>>] = flight[<<"grid", f>>],
         Leads(r, "grid") => Leads(r, "grid")',
         Leads(r, "grid")' => Builds(y),
         (drops = 0 /\ Leads(r, "grid")' /\ segList[req[r].art.file] # None)
           => y.pc = "recheck" /\ y.what = "grid",
         UNCHANGED <<segList, drops, call>>
  PROVE  RequestOK(r)'
<1>1. RequestOK(r) /\ req[r].art \in Artifact /\ req[r].art.file \in File
  BY KeyFacts DEF HlsInv, RequestsOK
<1>2. Leads(r, "grid")' <=> flight'[<<"grid", req[r].art.file>>] = r
  BY DEF Leads
<1>3. ReqOK(r)'
  BY <1>1 DEF RequestOK, ReqOK, InLookup, Fits
<1>4. BuilderLeads(r)'
  BY DEF BuilderLeads, Builds, InLookup
<1>5. LeaderBuilds(r)'
  <2> SUFFICES ASSUME NEW f \in File, flight'[<<"grid", f>>] = r
               PROVE  /\ y.art \in Artifact /\ y.art.file = f /\ Builds(y)
                      /\ (drops = 0 /\ segList[f] # None) => y.pc = "recheck" /\ y.what = "grid"
    BY DEF LeaderBuilds
  <2>1. f = req[r].art.file
    BY <1>1 DEF RequestOK, LeaderBuilds
  <2> QED BY <1>1, <1>2, <2>1
<1>6. OneGrid(r)'
  BY <1>1 DEF RequestOK, OneGrid
<1> QED BY <1>3, <1>4, <1>5, <1>6 DEF RequestOK

\* What the cached grid or layout makes of a request in a lookup that leads no flight of a grid
\* after the step if it waited for the grid.
LEMMA GotOK ==
  ASSUME HlsInv, NEW q \in Req, InLookup(req[q]), Cached(req[q]), req'[q] = Got(q),
         req[q].what = "grid" => \A f \in File : flight'[<<"grid", f>>] # q,
         req[q].what = "layout" => \A f \in File : flight'[<<"grid", f>>] = flight[<<"grid", f>>],
         UNCHANGED <<segList, drops>>
  PROVE  req'[q] \in ReqRec /\ RequestOK(q)'
<1>1. PICK x \in ReqRec : x = req[q]
  BY DEF HlsInv, TypeOK
<1>2. req[q].art.file \in File /\ req[q].what \in Lookup
  BY KeyFacts
<1>3. CASE x.what = "grid"
  <2>1. PICK g \in Grid : g = segList[x.art.file]
    BY <1>1, <1>2, <1>3 DEF Cached, HlsInv, TypeOK
  <2>2. req'[q] = GotGrid(x, g)
    BY <1>1, <1>3, <2>1 DEF Got
  <2>3. req'[q] \in ReqRec
    BY <2>2, MoveTypes
  <2> QED BY <1>1, <1>3, <2>1, <2>2, <2>3, GotGridOK DEF InLookup
<1>4. CASE x.what # "grid"
  <2>1. x.what = "layout" /\ req'[q] = GotLayout(q)
    BY <1>1, <1>2, <1>4 DEF Got, Lookup
  <2>2. req'[q] \in ReqRec
    BY <1>1, <2>1, MoveTypes DEF GotLayout
  <2> QED BY <1>1, <2>1, <2>2, LayoutToldOK
<1> QED BY <1>3, <1>4

\* Who looks for the grid and is not on its flight does not lead it.
LEMMA SeekerLeadsNot ==
  ASSUME HlsInv, NEW q \in Req, req[q].pc \in {"load", "fly", "follow"}, req[q].what = "grid"
  PROVE  \A f \in File : flight[<<"grid", f>>] # q
BY DEF HlsInv, RequestsOK, RequestOK, LeaderBuilds, Builds, InLookup

LEMMA LoadMapInv ==
  ASSUME HlsInv, NEW r \in Req, LoadMap(r)
  PROVE  HlsInv'
<1>1. PICK x \in ReqRec : x = req[r] /\ x.pc = "load" /\ InLookup(x)
  BY DEF LoadMap, HlsInv, TypeOK, InLookup
<1>2. UNCHANGED <<contVars, segList, layout, flight, cache, curBytes, worldVars>>
      /\ UNCHANGED <<segList, drops, call>>
  BY DEF LoadMap, contVars, worldVars
<1>3. req \in [Req -> ReqRec]
  BY DEF HlsInv, TypeOK
<1>4. CASE Cached(x)
  <2>1. req' = [req EXCEPT ![r] = Got(r)] /\ req'[r] = Got(r)
    BY <1>1, <1>3, <1>4 DEF LoadMap
  <2>2. req'[r] \in ReqRec /\ RequestOK(r)'
    BY <1>1, <1>2, <1>4, <2>1, GotOK, SeekerLeadsNot
  <2> QED BY <1>2, <2>1, <2>2, OneMoves
<1>5. CASE ~Cached(x)
  <2>1. PICK y \in ReqRec : y = [x EXCEPT !.pc = "fly"]
    BY MoveTypes
  <2>2. req' = [req EXCEPT ![r] = y] /\ req'[r] = y
    BY <1>1, <1>3, <1>5, <2>1 DEF LoadMap
  <2>3. y.pc = "fly" /\ InLookup(y) /\ y.art = x.art /\ y.again = x.again /\ y.grid = x.grid
        /\ y.data = x.data /\ y.what = x.what
    BY <2>1 DEF ReqRec, InLookup
  <2>4. Leads(r, "grid")' <=> Leads(r, "grid")
    BY <1>1, <1>2, <2>2, <2>3 DEF Leads
  <2>5. x.what = "grid" => ~Leads(r, "grid")
    BY <1>1, KeyFacts, SeekerLeadsNot DEF Leads
  <2>6. Leads(r, "grid") => x.what = "layout"
    BY <1>1, <2>5, KeyFacts DEF Lookup
  <2>7. (drops = 0 /\ Leads(r, "grid")) => segList[x.art.file] = None
    BY <1>1, KeyFacts DEF Leads, HlsInv, RequestsOK, RequestOK, LeaderBuilds
  <2>8. RequestOK(r)'
    BY <1>1, <1>2, <2>2, <2>3, <2>4, <2>5, <2>6, <2>7, LookupMoveOK DEF Builds
  <2> QED BY <1>2, <2>2, <2>8, OneMoves
<1> QED BY <1>4, <1>5

LEMMA FlyLookupInv ==
  ASSUME HlsInv, NEW r \in Req, FlyLookup(r)
  PROVE  HlsInv'
<1>1. PICK x \in ReqRec : x = req[r] /\ x.pc = "fly" /\ InLookup(x)
  BY DEF FlyLookup, HlsInv, TypeOK, InLookup
<1>2. PICK k \in Lookup \X Track : k = LookupKey(x)
  BY <1>1, KeyFacts
<1>3. req \in [Req -> ReqRec] /\ flight \in [Lookup \X Track -> Req \cup {None}]
  BY DEF HlsInv, TypeOK
<1>4. PICK pc \in {"recheck", "follow"} : pc = IF flight[k] = None THEN "recheck" ELSE "follow"
  OBVIOUS
<1>5. PICK y \in ReqRec : y = [x EXCEPT !.pc = pc]
  BY MoveTypes
<1>6. req' = [req EXCEPT ![r] = y] /\ req'[r] = y /\ \A q \in Req \ {r} : req'[q] = req[q]
  BY <1>1, <1>2, <1>3, <1>4, <1>5 DEF FlyLookup, Goes
<1>7. y.pc = pc /\ InLookup(y) /\ y.art = x.art /\ y.again = x.again /\ y.grid = x.grid
      /\ y.data = x.data /\ y.what = x.what
  BY <1>5 DEF ReqRec, InLookup
<1>8. UNCHANGED <<contVars, segList, layout, cache, curBytes, worldVars>>
      /\ UNCHANGED <<segList, drops, call>>
  BY DEF FlyLookup, contVars, worldVars
<1>9. /\ flight[k] = None => flight' = [flight EXCEPT ![k] = r]
      /\ flight[k] # None => flight' = flight
  BY <1>1, <1>2 DEF FlyLookup
<1>10. flight' \in [Lookup \X Track -> Req \cup {None}]
  BY <1>3, <1>9
<1>11. PICK e \in File : e = x.art.file
  BY <1>1, KeyFacts
<1>12. x.what \in Lookup /\ k[1] = x.what /\ (x.what = "grid" => k = <<"grid", e>>)
  BY <1>1, <1>2, <1>11, KeyFacts DEF LookupKey
<1>13. \A f \in File : <<"grid", f>> \in Lookup \X Track
  BY HlsAssumption DEF Lookup
<1>14. \A f \in File : f # e => flight'[<<"grid", f>>] = flight[<<"grid", f>>]
  BY <1>3, <1>9, <1>12, <1>13 DEF Lookup
<1>15. x.what = "layout" => flight'[<<"grid", e>>] = flight[<<"grid", e>>]
  BY <1>3, <1>9, <1>12, <1>13
<1>16. x.what = "grid" => flight[<<"grid", e>>] # r
                          /\ (flight'[<<"grid", e>>] = r <=> y.pc = "recheck")
  <2>1. x.what = "grid" => flight[<<"grid", e>>] # r
    BY <1>1, SeekerLeadsNot
  <2> QED BY <1>3, <1>4, <1>7, <1>9, <1>12, <2>1
<1>17. /\ Leads(r, "grid") <=> flight[<<"grid", e>>] = r
       /\ Leads(r, "grid")' <=> flight'[<<"grid", e>>] = r
  BY <1>1, <1>6, <1>7, <1>11 DEF Leads
<1>18. (drops = 0 /\ Leads(r, "grid")) => segList[e] = None
  BY <1>1, <1>17 DEF HlsInv, RequestsOK, RequestOK, LeaderBuilds
<1>19. (drops = 0 /\ Leads(r, "grid")' /\ segList[e] # None) => y.pc = "recheck" /\ y.what = "grid"
  BY <1>7, <1>12, <1>15, <1>16, <1>17, <1>18 DEF Lookup
<1>20. RequestOK(r)'
  <2>1. y.what = "layout" => Builds(y)
    BY <1>7 DEF Builds
  <2>2. y.what = "grid" => (Builds(y) <=> y.pc = "recheck")
    BY <1>4, <1>7 DEF Builds
  <2>3. Leads(r, "grid") => x.what = "layout" /\ Leads(r, "grid")'
    BY <1>12, <1>15, <1>16, <1>17 DEF Lookup
  <2>4. (Builds(y) /\ y.what = "grid") => Leads(r, "grid")'
    BY <1>7, <1>16, <1>17, <2>2
  <2>5. Leads(r, "grid")' => Builds(y)
    BY <1>7, <1>12, <1>16, <1>17, <2>1, <2>2 DEF Lookup
  <2> QED BY <1>1, <1>6, <1>7, <1>8, <1>11, <1>14, <1>19, <2>3, <2>4, <2>5, LookupMoveOK
<1>21. \A f \in File, q \in Req \ {r} : (flight'[<<"grid", f>>] = q) <=> (flight[<<"grid", f>>] = q)
  BY <1>3, <1>9, <1>13, AudioContAssumption
<1>22. /\ req' \in [Req -> ReqRec] /\ segList' \in [File -> Grid \cup {None}]
       /\ layout' \in [Track -> BOOLEAN]
  BY <1>3, <1>6, <1>8 DEF HlsInv, TypeOK
<1>23. PICK M \in SUBSET Req : M = {r}
  OBVIOUS
<1>24. /\ \A q \in Req \ M : req'[q] = req[q]
       /\ \A q \in M : RequestOK(q)'
       /\ \A f \in File, q \in Req \ M : (flight'[<<"grid", f>>] = q) <=> (flight[<<"grid", f>>] = q)
  BY <1>6, <1>20, <1>21, <1>23
<1> QED BY <1>8, <1>10, <1>22, <1>24, LookupStep

\* What was found inside the flight, or not found, goes to everybody on it.
LEMMA LandingInv ==
  ASSUME HlsInv, NEW r \in Req, req[r].pc \in {"recheck", "probe"}, NEW after, LandLookup(r, after),
         \A q \in LandsOn(r) : after[q] \in ReqRec,
         layout' \in [Track -> BOOLEAN], UNCHANGED <<contVars, segList, cache, curBytes, worldVars>>,
         \A q \in LandsOn(r) : RequestOK(q)'
  PROVE  HlsInv'
<1>1. InLookup(req[r])
  BY DEF InLookup
<1>2. /\ req' \in [Req -> ReqRec] /\ flight' \in [Lookup \X Track -> Req \cup {None}]
      /\ \A q \in Req \ LandsOn(r) : req'[q] = req[q]
      /\ flight' = [flight EXCEPT ![LookupKey(req[r])] = None]
  BY <1>1, LandLookupFacts
<1>3. \A f \in File, q \in Req \ LandsOn(r) :
        (flight'[<<"grid", f>>] = q) <=> (flight[<<"grid", f>>] = q)
  <2>1. CASE req[r].what = "grid"
    <3>1. LookupKey(req[r]) = <<"grid", req[r].art.file>> /\ req[r].art \in Artifact
      BY <1>1, <2>1, KeyFacts DEF LookupKey
    <3>2. Leads(r, "grid")
      BY <2>1 DEF HlsInv, RequestsOK, RequestOK, BuilderLeads
    <3>3. Req \ LandsOn(r) \subseteq Req \ {r}
      BY DEF LandsOn
    <3> QED BY <1>2, <3>1, <3>2, <3>3, GridLands
  <2>2. CASE req[r].what # "grid"
    <3>1. req[r].what = "layout"
      BY <1>1, <2>2, KeyFacts DEF Lookup
    <3> QED BY <1>1, <1>2, <3>1, LayoutLands
  <2> QED BY <2>1, <2>2
<1>4. PICK M \in SUBSET Req : M = LandsOn(r)
  BY DEF LandsOn
<1>5. segList' \in [File -> Grid \cup {None}]
  BY DEF HlsInv, TypeOK
<1> QED BY <1>2, <1>3, <1>4, <1>5, LookupStep

\* Everybody on a flight looks for the same thing.
LEMMA OnFlight ==
  ASSUME HlsInv, NEW r \in Req, InLookup(req[r]), NEW q \in LandsOn(r)
  PROVE  /\ q \in Req /\ InLookup(req[q]) /\ req[q].what = req[r].what
         /\ LookupFile(req[q]) = LookupFile(req[r])
         /\ q = r \/ req[q].pc = "follow"
BY DEF LandsOn, LookupKey, InLookup

\* Who is on a flight of a grid leads none once it has landed.
LEMMA OnGridFlight ==
  ASSUME HlsInv, NEW r \in Req, req[r].pc \in {"recheck", "probe"}, req[r].what = "grid",
         flight' = [flight EXCEPT ![LookupKey(req[r])] = None], NEW q \in LandsOn(r)
  PROVE  \A f \in File : flight'[<<"grid", f>>] # q
<1>1. InLookup(req[r])
  BY DEF InLookup
<1>2. LookupKey(req[r]) = <<"grid", req[r].art.file>> /\ req[r].art \in Artifact
  BY <1>1, KeyFacts DEF LookupKey
<1>3. Leads(r, "grid")
  BY DEF HlsInv, RequestsOK, RequestOK, BuilderLeads
<1>4. q \in Req /\ (q = r \/ (req[q].pc = "follow" /\ req[q].what = "grid"))
  BY <1>1, OnFlight
<1> QED BY ZenonT(40), <1>2, <1>3, <1>4, GridLands

LEMMA RecheckMapInv ==
  ASSUME HlsInv, NEW r \in Req, RecheckMap(r)
  PROVE  HlsInv'
<1>1. PICK x \in ReqRec : x = req[r] /\ x.pc = "recheck" /\ InLookup(x)
  BY DEF RecheckMap, HlsInv, TypeOK, InLookup
<1>2. UNCHANGED <<contVars, segList, layout, cache, curBytes, worldVars>>
      /\ UNCHANGED <<segList, drops, call>>
  BY DEF RecheckMap, contVars, worldVars
<1>3. req \in [Req -> ReqRec]
  BY DEF HlsInv, TypeOK
<1>4. CASE Cached(x)
  <2>1. PICK after : after = [q \in Req |-> Got(q)]
    OBVIOUS
  <2>2. LandLookup(r, after)
    BY <1>1, <1>4, <2>1 DEF RecheckMap
  <2>3. flight' = [flight EXCEPT ![LookupKey(req[r])] = None]
        /\ \A q \in LandsOn(r) : q \in Req /\ req'[q] = Got(q)
    BY <2>1, <2>2 DEF LandLookup, LandsOn
  <2>4. ASSUME NEW q \in LandsOn(r)
        PROVE  req'[q] \in ReqRec /\ RequestOK(q)'
    <3>1. /\ q \in Req /\ InLookup(req[q]) /\ req[q].what = x.what
          /\ LookupFile(req[q]) = LookupFile(x)
      BY <1>1, OnFlight
    <3>2. Cached(req[q])
      <4>1. x.what = "grid" => LookupFile(x) = x.art.file /\ LookupFile(req[q]) = req[q].art.file
        BY <3>1 DEF LookupFile
      <4> QED BY <1>4, <3>1, <4>1 DEF Cached
    <3>3. req[q].what = "grid" => \A f \in File : flight'[<<"grid", f>>] # q
      BY <1>1, <2>3, <3>1, OnGridFlight
    <3>4. req[q].what = "layout" => \A f \in File : flight'[<<"grid", f>>] = flight[<<"grid", f>>]
      BY <1>1, <2>3, <3>1, LayoutLands
    <3> QED BY <1>2, <2>3, <3>1, <3>2, <3>3, <3>4, GotOK
  <2>5. \A q \in LandsOn(r) : after[q] \in ReqRec
    BY <2>1, <2>3, <2>4
  <2>6. layout' \in [Track -> BOOLEAN]
    BY <1>2 DEF HlsInv, TypeOK
  <2> QED BY <1>1, <1>2, <2>2, <2>4, <2>5, <2>6, LandingInv
<1>5. CASE ~Cached(x)
  <2>1. PICK y \in ReqRec : y = [x EXCEPT !.pc = "probe"]
    BY MoveTypes
  <2>2. req' = [req EXCEPT ![r] = y] /\ req'[r] = y /\ flight' = flight
    BY <1>1, <1>3, <1>5, <2>1 DEF RecheckMap, Goes
  <2>3. y.pc = "probe" /\ InLookup(y) /\ y.art = x.art /\ y.again = x.again /\ y.grid = x.grid
        /\ y.data = x.data /\ y.what = x.what
    BY <2>1 DEF ReqRec, InLookup
  <2>4. PICK e \in File : e = x.art.file
    BY <1>1, KeyFacts
  <2>5. Leads(r, "grid")' <=> Leads(r, "grid")
    BY <1>1, <2>2, <2>3 DEF Leads
  <2>6. x.what = "grid" => Leads(r, "grid") /\ segList[e] = None
    BY <1>1, <1>5, <2>4 DEF Cached, HlsInv, RequestsOK, RequestOK, BuilderLeads
  <2>7. (drops = 0 /\ Leads(r, "grid")) => segList[e] = None
    BY <1>1, <2>4, <2>6 DEF Leads, HlsInv, RequestsOK, RequestOK, LeaderBuilds
  <2>8. Builds(y)
    BY <1>1, <2>3, KeyFacts DEF Builds, Lookup
  <2>9. RequestOK(r)'
    BY <1>1, <1>2, <2>2, <2>3, <2>4, <2>5, <2>6, <2>7, <2>8, LookupMoveOK
  <2> QED BY <1>2, <2>2, <2>9, OneMoves
<1> QED BY <1>4, <1>5

LEMMA ProbeDurationInv ==
  ASSUME HlsInv, NEW r \in Req, ProbeDuration(r)
  PROVE  HlsInv'
<1>1. PICK x \in ReqRec : x = req[r] /\ x.pc = "probe" /\ x.what = "grid" /\ InLookup(x)
  BY DEF ProbeDuration, HlsInv, TypeOK, InLookup
<1>2. UNCHANGED <<contVars, segList, layout, cache, curBytes, worldVars>>
      /\ UNCHANGED <<segList, drops, call>>
  BY DEF ProbeDuration, contVars, worldVars
<1>3. req \in [Req -> ReqRec]
  BY DEF HlsInv, TypeOK
<1>4. CASE req' = [req EXCEPT ![r].what = "layout", ![r].pc = "load"] /\ flight' = flight
  <2>1. PICK y \in ReqRec : y = [x EXCEPT !.what = "layout", !.pc = "load"]
    BY MoveTypes
  <2>2. req' = [req EXCEPT ![r] = y] /\ req'[r] = y
    BY <1>1, <1>3, <1>4, <2>1
  <2>3. y.pc = "load" /\ InLookup(y) /\ y.art = x.art /\ y.again = x.again /\ y.grid = x.grid
        /\ y.data = x.data /\ y.what = "layout" /\ Builds(y)
    BY <2>1 DEF ReqRec, InLookup, Builds
  <2>4. PICK e \in File : e = x.art.file
    BY <1>1, KeyFacts
  <2>5. Leads(r, "grid") /\ Leads(r, "grid")'
    BY <1>1, <1>4, <2>2, <2>3 DEF Leads, HlsInv, RequestsOK, RequestOK, BuilderLeads
  <2>6. drops = 0 => segList[e] = None
    BY <1>1, <2>4, <2>5 DEF Leads, HlsInv, RequestsOK, RequestOK, LeaderBuilds
  <2>7. RequestOK(r)'
    BY <1>1, <1>2, <1>4, <2>2, <2>3, <2>4, <2>5, <2>6, LookupMoveOK
  <2> QED BY <1>2, <1>4, <2>2, <2>7, OneMoves
<1>5. CASE LandLookup(r, [q \in Req |-> Failed(req[q])])
  <2>1. PICK after : after = [q \in Req |-> Failed(req[q])]
    OBVIOUS
  <2>2. LandLookup(r, after)
    BY <1>5, <2>1
  <2>3. flight' = [flight EXCEPT ![LookupKey(req[r])] = None]
        /\ \A q \in LandsOn(r) : q \in Req /\ req'[q] = Failed(req[q]) /\ after[q] = Failed(req[q])
    BY <2>1, <2>2 DEF LandLookup, LandsOn
  <2>4. ASSUME NEW q \in LandsOn(r)
        PROVE  RequestOK(q)' /\ after[q] \in ReqRec
    <3>1. q \in Req /\ InLookup(req[q])
      BY <1>1, OnFlight
    <3>2. \A f \in File : flight'[<<"grid", f>>] # q
      BY <1>1, <2>3, OnGridFlight
    <3>3. after[q] \in ReqRec
      BY <1>3, <2>3, <3>1, MoveTypes
    <3> QED BY <1>2, <2>3, <3>1, <3>2, <3>3, FailedOK DEF InLookup
  <2>5. layout' \in [Track -> BOOLEAN]
    BY <1>2 DEF HlsInv, TypeOK
  <2> QED BY <1>1, <1>2, <2>2, <2>4, <2>5, LandingInv
<1> QED BY <1>4, <1>5 DEF ProbeDuration

LEMMA ProbeLayoutInv ==
  ASSUME HlsInv, NEW r \in Req, ProbeLayout(r)
  PROVE  HlsInv'
<1>1. PICK x \in ReqRec : x = req[r] /\ x.pc = "probe" /\ x.what = "layout" /\ InLookup(x)
  BY DEF ProbeLayout, HlsInv, TypeOK, InLookup
<1>2. UNCHANGED <<contVars, segList, cache, curBytes, worldVars>>
      /\ UNCHANGED <<segList, drops, call>>
  BY DEF ProbeLayout, contVars, worldVars
<1>3. req \in [Req -> ReqRec]
  BY DEF HlsInv, TypeOK
<1>4. PICK after : /\ after \in {[q \in Req |-> GotLayout(q)], [q \in Req |-> NoLayout(q)]}
                   /\ LandLookup(r, after)
  BY DEF ProbeLayout
<1>5. layout' \in [Track -> BOOLEAN]
  BY <1>1, KeyFacts DEF ProbeLayout, HlsInv, TypeOK
<1>6. flight' = [flight EXCEPT ![LookupKey(req[r])] = None]
      /\ \A q \in LandsOn(r) : /\ q \in Req /\ req'[q] = after[q]
                               /\ after[q] = GotLayout(q) \/ after[q] = NoLayout(q)
  BY <1>4 DEF LandLookup, LandsOn
<1>7. ASSUME NEW q \in LandsOn(r)
      PROVE  RequestOK(q)' /\ after[q] \in ReqRec
  <2>1. q \in Req /\ InLookup(req[q]) /\ req[q].what = "layout"
    BY <1>1, OnFlight
  <2>2. \A f \in File : flight'[<<"grid", f>>] = flight[<<"grid", f>>]
    BY <1>1, <1>6, LayoutLands
  <2>3. after[q] \in ReqRec
    BY <1>3, <1>6, <2>1, MoveTypes DEF GotLayout, NoLayout
  <2> QED BY <1>2, <1>6, <2>1, <2>2, <2>3, LayoutToldOK
<1> QED BY <1>1, <1>2, <1>4, <1>5, <1>7, LandingInv

\* The grid is stored and goes to everybody who waits for it.
LEMMA IndexInv ==
  ASSUME HlsInv, NEW r \in Req, Index(r)
  PROVE  HlsInv'
<1>1. PICK x \in ReqRec : x = req[r] /\ x.pc \in {"index", "uniform"}
  BY DEF Index, HlsInv, TypeOK
<1>2. RequestOK(r) /\ Leads(r, "grid") /\ x.art \in Artifact
  BY <1>1 DEF HlsInv, RequestsOK, RequestOK, BuilderLeads, ReqOK
<1>3. PICK e \in File : e = x.art.file
  BY <1>2, ArtifactFacts
<1>4. PICK k : k = <<"grid", e>>
  OBVIOUS
<1>5. PICK M \in SUBSET Req :
        M = {q \in Req : q = r \/ (req[q].pc = "follow" /\ LookupKey(req[q]) = k)}
  OBVIOUS
<1>6. PICK g \in Grid :
        /\ segList' = [segList EXCEPT ![req[r].art.file] = g]
        /\ flight' = [flight EXCEPT ![<<"grid", req[r].art.file>>] = None]
        /\ req' = [q \in Req |->
                     IF q = r THEN GotGrid([req[q] EXCEPT !.what = "grid"], g)
                     ELSE IF req[q].pc = "follow" /\ LookupKey(req[q]) = <<"grid", req[r].art.file>>
                          THEN GotGrid(req[q], g)
                     ELSE req[q]]
        /\ UNCHANGED <<contVars, layout, cache, curBytes, worldVars>>
  BY Zenon DEF Index
<1>7. /\ segList' = [segList EXCEPT ![e] = g]
      /\ flight' = [flight EXCEPT ![k] = None]
      /\ req' = [q \in Req |-> IF q = r THEN GotGrid([req[q] EXCEPT !.what = "grid"], g)
                                 ELSE IF req[q].pc = "follow" /\ LookupKey(req[q]) = k THEN GotGrid(req[q], g)
                                 ELSE req[q]]
      /\ UNCHANGED <<contVars, layout, cache, curBytes, worldVars>>
  BY <1>6, <1>1, <1>3, <1>4
<1>8. drops' = drops /\ req \in [Req -> ReqRec]
  BY <1>7 DEF worldVars, HlsInv, TypeOK
<1>9. flight[k] = r /\ (drops = 0 => segList[e] = None)
  BY <1>1, <1>2, <1>3, <1>4 DEF Leads, RequestOK, LeaderBuilds
<1>10. ASSUME NEW q \in M
      PROVE  \E u \in ReqRec : /\ req'[q] = GotGrid(u, g) /\ u.art = req[q].art /\ u.again = req[q].again
                               /\ u.data = req[q].data
                               /\ u.art.file = e /\ req[q].pc # "idle"
                               /\ q = r \/ (req[q].pc = "follow" /\ req[q].what = "grid")
  <2>1. CASE q = r
    <3>1. PICK u : u = [x EXCEPT !.what = "grid"]
      OBVIOUS
    <3>2. u \in ReqRec /\ u.art = x.art /\ u.again = x.again /\ u.data = x.data
      BY <3>1 DEF ReqRec, Lookup
    <3>3. req'[q] = GotGrid(u, g)
      BY <1>1, <1>7, <2>1, <3>1
    <3> QED BY <1>1, <1>3, <2>1, <3>2, <3>3
  <2>2. CASE q # r
    <3>1. q \in Req /\ req[q].pc = "follow" /\ LookupKey(req[q]) = k
      BY <1>5, <2>2
    <3>2. InLookup(req[q])
      BY <3>1 DEF InLookup
    <3>3. req[q].what = "grid" /\ req[q].art.file = e
      BY <1>4, <3>1, <3>2, KeyFacts DEF LookupKey
    <3>4. req'[q] = GotGrid(req[q], g)
      BY <1>7, <2>2, <3>1
    <3> QED BY <1>8, <3>1, <3>3, <3>4
  <2> QED BY <2>1, <2>2
<1>11. /\ \A f \in File, q \in M : flight'[<<"grid", f>>] # q
       /\ \A f \in File, q \in Req \ M : (flight'[<<"grid", f>>] = q) <=> (flight[<<"grid", f>>] = q)
  <2>1. flight' = [flight EXCEPT ![<<"grid", req[r].art.file>>] = None] /\ req[r].art \in Artifact
    BY <1>1, <1>2, <1>3, <1>4, <1>7
  <2>2. /\ \A q \in M : q \in Req /\ (q = r \/ (req[q].pc = "follow" /\ req[q].what = "grid"))
        /\ Req \ M \subseteq Req \ {r}
    <3>1. \A q \in M : q = r \/ (req[q].pc = "follow" /\ req[q].what = "grid")
      BY <1>10
    <3>2. M \subseteq Req /\ r \in M
      BY <1>5
    <3> QED BY <3>1, <3>2
  <2>3. /\ \A f \in File, q \in Req : (q = r \/ (req[q].pc = "follow" /\ req[q].what = "grid"))
                                         => flight'[<<"grid", f>>] # q
        /\ \A f \in File, q \in Req \ {r} :
              (flight'[<<"grid", f>>] = q) <=> (flight[<<"grid", f>>] = q)
    BY <1>2, <2>1, GridLands
  <2> QED BY <2>2, <2>3
<1>12. segList \in [File -> Grid \cup {None}] /\ segList'[e] = g
  BY <1>7 DEF HlsInv, TypeOK
<1>13. ASSUME NEW q \in M
       PROVE  req'[q] \in ReqRec /\ RequestOK(q)'
  <2>1. PICK u \in ReqRec : /\ req'[q] = GotGrid(u, g) /\ u.art = req[q].art /\ u.again = req[q].again
                            /\ u.data = req[q].data /\ u.art.file = e /\ req[q].pc # "idle"
    BY <1>10
  <2>2. drops = 0 => segList'[u.art.file] = g /\ segList[u.art.file] \in {g, None}
    BY <1>9, <1>12, <2>1
  <2>3. req'[q] \in ReqRec
    BY <2>1, MoveTypes
  <2> QED BY <1>8, <1>11, <2>1, <2>2, <2>3, GotGridOK
<1>14. \A q \in Req \ M : req'[q] = req[q]
  BY <1>5, <1>7
<1>15. req' \in [Req -> ReqRec]
  <2>1. \A q \in Req : req'[q] \in ReqRec
    BY <1>8, <1>13, <1>14
  <2> QED BY <1>7, <2>1
<1>16. flight' \in [Lookup \X Track -> Req \cup {None}] /\ segList' \in [File -> Grid \cup {None}]
       /\ layout' \in [Track -> BOOLEAN]
  BY <1>7, <1>12 DEF HlsInv, TypeOK
<1>17. drops = 0 => \A f \in File : \/ segList'[f] = segList[f]
                                    \/ segList[f] = None /\ flight[<<"grid", f>>] \in M
  BY <1>4, <1>5, <1>7, <1>9, <1>12
<1> QED BY <1>7, <1>11, <1>13, <1>14, <1>15, <1>16, <1>17, LookupStep

-----------------------------------------------------------------------------
(* The artifact *)

\* A request that is past the lookups leads no flight of a grid.
LEMMA PastLookup ==
  ASSUME HlsInv, NEW r \in Req, req[r].pc \in {"leaf", "produce", "cont", "put", "reply"}
  PROVE  \A f \in File : flight[<<"grid", f>>] # r
BY DEF HlsInv, RequestsOK, RequestOK, LeaderBuilds, Builds, InLookup

\* And it keeps clear of them.
LEMMA ArtifactMoveOK ==
  ASSUME HlsInv, NEW r \in Req, req[r].pc \in {"leaf", "produce", "cont", "put", "reply"},
         NEW y \in ReqRec, req'[r] = y,
         y.pc \in {"load", "produce", "cont", "put", "reply"},
         y.art = req[r].art, y.again = req[r].again, y.grid = req[r].grid,
         y.pc \in {"produce", "cont", "put"} => Fits(y),
         y.pc = "load" => y.what = "layout" /\ Fits(y),
         y.pc = "put" => y.data \in Data,
         y.pc = "cont" /\ call'[r].win = None => isInit(y.art),
         y.data # None => y.grid \in Grid,
         drops = 0 /\ y.data # None /\ OfVideo(y.art.kind) => y.data.grid = segList[y.art.file],
         UNCHANGED <<segList, flight, drops>>
  PROVE  RequestOK(r)'
<1>1. RequestOK(r)
  BY DEF HlsInv, RequestsOK
<1>2. ReqOK(r)'
  BY <1>1 DEF RequestOK, ReqOK, InLookup
<1>3. BuilderLeads(r)' /\ LeaderBuilds(r)'
  BY PastLookup DEF BuilderLeads, LeaderBuilds
<1>4. OneGrid(r)'
  BY <1>1 DEF RequestOK, OneGrid
<1> QED BY <1>2, <1>3, <1>4 DEF RequestOK

\* The cache changes, and one request; the lookups do not.
LEMMA ArtifactStep ==
  ASSUME HlsInv, NEW r \in Req, NEW y \in ReqRec, req' = [req EXCEPT ![r] = y], RequestOK(r)',
         AudioInv', \A q \in Req \ {r} : call'[q].win = call[q].win,
         cache' \in Seq(CacheEntry), curBytes' \in Nat, CacheExact', CacheOneGrid',
         UNCHANGED <<segList, layout, flight, worldVars>>
  PROVE  HlsInv'
<1>1. req \in [Req -> ReqRec] /\ None \notin Grid /\ drops' = drops
  BY HlsAssumption DEF HlsInv, TypeOK, worldVars
<1>2. req' \in [Req -> ReqRec] /\ \A q \in Req \ {r} : req'[q] = req[q]
  BY <1>1
<1>3. TypeOK'
  BY <1>2 DEF HlsInv, TypeOK, AudioInv, worldVars
<1>4. ASSUME NEW q \in Req \ {r}
      PROVE  RequestOK(q)'
  <2>1. RequestOK(q)
    BY DEF HlsInv, RequestsOK
  <2> QED BY <1>1, <1>2, <2>1, RequestBystander
<1> QED BY <1>3, <1>4 DEF HlsInv, RequestsOK

LEMMA HitInv ==
  ASSUME HlsInv, NEW r \in Req, req[r].pc = "leaf", Hit(r),
         UNCHANGED <<contVars, segList, layout, flight, curBytes, worldVars>>
  PROVE  HlsInv'
<1>1. PICK x \in ReqRec : x = req[r]
  BY DEF HlsInv, TypeOK
<1>2. RequestOK(r) /\ x.art \in Artifact /\ x.grid \in Grid
  BY <1>1 DEF HlsInv, RequestsOK, RequestOK, ReqOK
<1>3. PICK i \in 1..Len(cache) :
        /\ cache[i].key = cacheKey(x.art)
        /\ req' = [req EXCEPT ![r].pc = "reply", ![r].data = cache[i].data]
  BY <1>1 DEF Hit, At
<1>4. PICK e \in CacheEntry : e = cache[i] /\ EntryOK(e)
  BY ElementOfSeq DEF HlsInv, TypeOK, CacheOneGrid
<1>5. PICK y : y = [x EXCEPT !.pc = "reply", !.data = e.data]
  OBVIOUS
<1>6. y \in ReqRec /\ y.pc = "reply" /\ y.data = e.data /\ y.art = x.art /\ y.grid = x.grid
      /\ y.again = x.again
  BY <1>5 DEF ReqRec, CacheEntry
<1>7. req' = [req EXCEPT ![r] = y] /\ req'[r] = y
  BY <1>1, <1>3, <1>4, <1>5 DEF HlsInv, TypeOK
<1>8. UNCHANGED <<drops, call>>
  BY DEF worldVars, contVars
<1>9. (drops = 0 /\ OfVideo(y.art.kind)) => y.data.grid = segList[y.art.file]
  <2>1. e.key.kind = x.art.kind /\ (OfVideo(x.art.kind) => e.key.file = x.art.file)
    BY <1>2, <1>3, <1>4, ArtifactFacts DEF cacheKey
  <2> QED BY <1>4, <1>6, <2>1 DEF EntryOK
<1>10. RequestOK(r)'
  BY <1>1, <1>2, <1>6, <1>7, <1>8, <1>9, ArtifactMoveOK
<1>11. /\ cache' \in Seq(CacheEntry) /\ Size(cache') = Size(cache) /\ Len(cache') = Len(cache)
       /\ UniqueKeys(cache') /\ From(cache', cache)
  BY HitKeepsExact DEF HlsInv
<1>12. CacheExact' /\ curBytes' \in Nat
  BY <1>11 DEF HlsInv, TypeOK, CacheExact, UniqueKeys
<1>13. CacheOneGrid'
  BY <1>8, <1>11 DEF HlsInv, CacheOneGrid, EntryOK, From
<1>14. AudioInv'
  BY DropVarsInv DEF HlsInv, AudioInv, ContTypeOK, contVars
<1> QED BY <1>6, <1>7, <1>8, <1>10, <1>11, <1>12, <1>13, <1>14, ArtifactStep

\* One request moves past the lookups, and nothing else changes.
LEMMA ArtifactMoves ==
  ASSUME HlsInv, NEW r \in Req, NEW y \in ReqRec, req' = [req EXCEPT ![r] = y],
         req[r].pc \in {"leaf", "produce", "cont", "put", "reply"},
         y.pc \in {"load", "produce", "put", "reply"},
         y.art = req[r].art, y.again = req[r].again, y.grid = req[r].grid,
         y.pc \in {"produce", "put"} => Fits(y),
         y.pc = "load" => y.what = "layout" /\ Fits(y),
         y.pc = "put" => y.data \in Data,
         y.data # None => y.grid \in Grid,
         drops = 0 /\ y.data # None /\ OfVideo(y.art.kind) => y.data.grid = segList[y.art.file],
         UNCHANGED <<contVars, segList, layout, flight, cache, curBytes, worldVars>>
  PROVE  HlsInv'
<1>1. req'[r] = y
  BY DEF HlsInv, TypeOK
<1>2. UNCHANGED <<segList, flight, drops>>
  BY DEF worldVars
<1>3. RequestOK(r)'
  BY <1>1, <1>2, ArtifactMoveOK
<1> QED BY <1>3, OneMoves

LEMMA LeafInv ==
  ASSUME HlsInv, NEW r \in Req, Leaf(r)
  PROVE  HlsInv'
<1>1. PICK x \in ReqRec : x = req[r] /\ x.pc = "leaf"
  BY DEF Leaf, HlsInv, TypeOK
<1>2. RequestOK(r) /\ x.art \in Artifact /\ x.grid \in Grid
  BY <1>1 DEF HlsInv, RequestsOK, RequestOK, ReqOK
<1>3. UNCHANGED <<contVars, segList, layout, flight, curBytes, worldVars>>
  BY DEF Leaf
<1>4. drops = 0 /\ x.data # None /\ OfVideo(x.art.kind) => x.data.grid = segList[x.art.file]
  BY <1>1, <1>2 DEF RequestOK, OneGrid
<1>5. req \in [Req -> ReqRec]
  BY DEF HlsInv, TypeOK
<1>6. CASE Goes(r, "reply") /\ UNCHANGED cache
  <2>1. PICK y \in ReqRec : y = [x EXCEPT !.pc = "reply"]
    BY MoveTypes
  <2>2. y.pc = "reply" /\ y.art = x.art /\ y.again = x.again /\ y.grid = x.grid /\ y.data = x.data
    BY <2>1 DEF ReqRec
  <2>3. req' = [req EXCEPT ![r] = y]
    BY <1>1, <1>6, <2>1 DEF Goes
  <2> QED BY <1>1, <1>2, <1>3, <1>4, <1>6, <2>2, <2>3, ArtifactMoves
<1>7. CASE Hit(r)
  BY <1>1, <1>3, <1>7, HitInv
<1>8. CASE Miss(r) /\ (isInit(x.art) \/ x.art.n < count(x.grid))
  <2>1. PICK pc \in {"produce", "load"} : pc = IF req[r].art.kind = "s" THEN "produce" ELSE "load"
    OBVIOUS
  <2>2. PICK y : y = [x EXCEPT !.pc = pc, !.what = "layout"]
    OBVIOUS
  <2>3. y \in ReqRec /\ y.pc = pc /\ y.what = "layout" /\ y.art = x.art /\ y.again = x.again
        /\ y.grid = x.grid /\ y.data = x.data
    BY <2>2 DEF ReqRec, Lookup
  <2>4. req' = [req EXCEPT ![r] = y] /\ cache' = cache
    BY <1>1, <1>8, <2>1, <2>2 DEF Miss
  <2>5. Fits(y)
    BY <1>2, <1>8, <2>3 DEF Fits
  <2> QED BY <1>1, <1>2, <1>3, <1>4, <2>3, <2>4, <2>5, ArtifactMoves
<1> QED BY <1>1, <1>6, <1>7, <1>8 DEF Leaf

LEMMA ProduceInv ==
  ASSUME HlsInv, NEW r \in Req, Produce(r)
  PROVE  HlsInv'
<1>1. PICK x \in ReqRec : x = req[r] /\ x.pc = "produce"
  BY DEF Produce, HlsInv, TypeOK
<1>2. RequestOK(r) /\ x.art \in Artifact /\ Fits(x)
  BY <1>1 DEF HlsInv, RequestsOK, RequestOK, ReqOK
<1>3. UNCHANGED <<contVars, segList, layout, flight, cache, curBytes, worldVars>>
  BY DEF Produce
<1>4. x.grid \in Grid /\ None \notin Grid
  BY <1>2, HlsAssumption DEF Fits
<1>5. CASE req' = [req EXCEPT ![r] = Failed(@)]
  <2>1. PICK y \in ReqRec : y = Failed(x)
    BY MoveTypes
  <2>2. y.pc = "reply" /\ y.art = x.art /\ y.again = x.again /\ y.grid = x.grid /\ y.data = None
    BY <2>1 DEF ReqRec, Failed
  <2>3. req' = [req EXCEPT ![r] = y]
    BY <1>1, <1>5, <2>1
  <2> QED BY <1>1, <1>3, <2>2, <2>3, ArtifactMoves
<1>6. CASE ~(req' = [req EXCEPT ![r] = Failed(@)])
  <2>1. PICK size : size = IF isInit(x.art) THEN 1 ELSE extinf(x.grid, x.art.n)
    OBVIOUS
  <2>2. size \in 1..Length
    <3>1. 1 \in 1..Length
      BY AudioContAssumption
    <3>2. ~isInit(x.art) => extinf(x.grid, x.art.n) \in 1..Length
      BY <1>2, <1>4, ArtifactFacts, WindowFacts DEF Fits
    <3> QED BY <2>1, <3>1, <3>2
  <2>3. PICK d : d = [grid |-> x.grid, size |-> size]
    OBVIOUS
  <2>4. d \in Data /\ d.grid = x.grid
    BY <1>4, <2>2, <2>3 DEF Data
  <2>5. PICK y : y = [x EXCEPT !.pc = "put", !.data = d]
    OBVIOUS
  <2>6. y \in ReqRec /\ y.pc = "put" /\ y.art = x.art /\ y.again = x.again /\ y.grid = x.grid
        /\ y.data = d
    BY <2>4, <2>5 DEF ReqRec
  <2>7. req' = [req EXCEPT ![r] = y]
    BY <1>1, <1>6, <2>1, <2>3, <2>5 DEF Produce
  <2>8. drops = 0 => d.grid = segList[x.art.file]
    BY <1>1, <1>2, <1>4, <2>4 DEF RequestOK, OneGrid
  <2>9. Fits(y)
    BY <1>2, <2>6 DEF Fits
  <2> QED BY <1>1, <1>3, <1>4, <2>4, <2>6, <2>7, <2>8, <2>9, ArtifactMoves
<1> QED BY <1>5, <1>6

LEMMA FinishInv ==
  ASSUME HlsInv, NEW r \in Req, Finish(r)
  PROVE  HlsInv'
<1>1. NoReq \in ReqRec /\ NoReq.pc = "idle" /\ NoReq.grid = None /\ NoReq.data = None /\ ~NoReq.again
  BY DEF NoReq, ReqRec, Lookup
<1>2. req[r].pc = "reply" /\ req' = [req EXCEPT ![r] = NoReq] /\ req'[r] = NoReq
      /\ UNCHANGED <<contVars, segList, layout, flight, cache, curBytes, worldVars>>
  BY DEF Finish, HlsInv, TypeOK
<1>3. \A f \in File : flight[<<"grid", f>>] # r
  BY <1>2, PastLookup
<1>4. RequestOK(r)'
  BY <1>1, <1>2, <1>3 DEF RequestOK, ReqOK, InLookup, BuilderLeads, LeaderBuilds, OneGrid
<1> QED BY <1>1, <1>2, <1>4, OneMoves

LEMMA PutInv ==
  ASSUME HlsInv, NEW r \in Req, Put(r)
  PROVE  HlsInv'
<1>1. PICK x \in ReqRec : x = req[r] /\ x.pc = "put"
  BY DEF Put, HlsInv, TypeOK
<1>2. RequestOK(r) /\ x.art \in Artifact /\ x.data \in Data /\ Fits(x)
  BY <1>1 DEF HlsInv, RequestsOK, RequestOK, ReqOK
<1>3. UNCHANGED <<contVars, segList, layout, flight, worldVars>>
  BY DEF Put
<1>4. PICK y \in ReqRec : y = [x EXCEPT !.pc = "reply"]
  BY MoveTypes
<1>5. y.pc = "reply" /\ y.art = x.art /\ y.again = x.again /\ y.grid = x.grid /\ y.data = x.data
  BY <1>4 DEF ReqRec
<1>6. req' = [req EXCEPT ![r] = y] /\ req'[r] = y
  BY <1>1, <1>4 DEF Put, Goes, HlsInv, TypeOK
<1>7. UNCHANGED <<drops, call, segList, flight>>
  BY <1>3 DEF worldVars, contVars
<1>8. x.data # None /\ x.grid \in Grid
  BY <1>2, HlsAssumption DEF Fits
<1>9. drops = 0 /\ OfVideo(x.art.kind) => x.data.grid = segList[x.art.file]
  BY <1>1, <1>2, <1>8 DEF RequestOK, OneGrid
<1>10. RequestOK(r)'
  BY <1>1, <1>5, <1>6, <1>7, <1>8, <1>9, ArtifactMoveOK
<1>11. /\ cache' \in Seq(CacheEntry)
       /\ curBytes' = Size(cache')
       /\ curBytes' <= MaxBytes \/ Len(cache') = 1
       /\ UniqueKeys(cache')
       /\ \A i \in 1..Len(cache') :
            \/ \E j \in 1..Len(cache) : cache'[i] = cache[j]
            \/ cache'[i] = [key |-> cacheKey(req[r].art), data |-> req[r].data]
  BY <1>1, <1>2, PutKeepsExact DEF HlsInv
<1>12. CacheExact'
  BY <1>11 DEF CacheExact, UniqueKeys
<1>13. ASSUME NEW i \in 1..Len(cache')
       PROVE  EntryOK(cache[i])'
  <2>1. CASE \E j \in 1..Len(cache) : cache'[i] = cache[j]
    BY <1>7, <2>1 DEF HlsInv, CacheOneGrid, EntryOK
  <2>2. CASE cache'[i] = [key |-> cacheKey(req[r].art), data |-> req[r].data]
    <3>1. PICK e : e = cache'[i]
      OBVIOUS
    <3>2. e.key.kind = x.art.kind /\ e.key.file = Source(x.art) /\ e.data = x.data
      BY <1>1, <2>2, <3>1 DEF cacheKey
    <3>3. EntryOK(e)'
      BY <1>2, <1>7, <1>9, <3>2, ArtifactFacts DEF EntryOK
    <3> QED BY <3>1, <3>3 DEF EntryOK
  <2> QED BY <1>11, <2>1, <2>2
<1>14. CacheOneGrid'
  BY <1>13 DEF CacheOneGrid
<1>15. curBytes' \in Nat
  BY <1>11, SizeNat
<1>16. AudioInv'
  BY <1>3, DropVarsInv DEF HlsInv, AudioInv, ContTypeOK, contVars
<1> QED BY <1>3, <1>6, <1>7, <1>10, <1>11, <1>12, <1>14, <1>15, <1>16, ArtifactStep

LEMMA ProduceContInv ==
  ASSUME HlsInv, NEW r \in Req, ProduceCont(r)
  PROVE  HlsInv'
<1>1. PICK x \in ReqRec : x = req[r] /\ x.pc = "produce"
  BY DEF ProduceCont, HlsInv, TypeOK
<1>2. RequestOK(r) /\ x.art \in Artifact /\ Fits(x)
  BY <1>1 DEF HlsInv, RequestsOK, RequestOK, ReqOK
<1>3. PICK w : w = IF isInit(x.art) THEN None ELSE window(x.grid, x.art.n)
  OBVIOUS
<1>4. w \in Win \cup {None} /\ (w = None => isInit(x.art))
  <2>1. ~isInit(x.art) => window(x.grid, x.art.n) \in Win
    BY <1>2, ArtifactFacts, WindowFacts DEF Fits
  <2> QED BY <1>3, <2>1, HlsAssumption
<1>5. PICK from \in 0..(Length - 1) : Call(r, Source(x.art), w, from)
  <2>1. 0 \in 0..(Length - 1)
    BY AudioContAssumption
  <2>2. CASE isInit(x.art)
    <3>1. Call(r, Source(x.art), w, 0)
      BY <1>1, <1>3, <2>2 DEF ProduceCont
    <3> QED BY <2>1, <3>1
  <2>3. CASE ~isInit(x.art)
    <3>1. PICK from : from = IF x.art.n > 0 THEN w.lo ELSE 0
      OBVIOUS
    <3>2. Call(r, Source(x.art), w, from)
      BY <1>1, <1>3, <2>3, <3>1 DEF ProduceCont
    <3>3. w \in Win
      BY <1>2, <1>3, <2>3, ArtifactFacts, WindowFacts DEF Fits
    <3>4. w.lo \in 0..(Length - 1)
      BY <3>3 DEF Win
    <3> QED BY <2>1, <3>1, <3>2, <3>4
  <2> QED BY <2>2, <2>3
<1>16. Source(x.art) \in Track
  BY <1>2, ArtifactFacts
<1>6. AudioInv'
  BY <1>4, <1>5, <1>16, CallInv DEF HlsInv
<1>7. call'[r].win = w /\ \A q \in Req \ {r} : call'[q] = call[q]
  <2>1. /\ call \in [Req -> CallRec]
        /\ [NoCall EXCEPT !.pc = "load", !.track = Source(x.art), !.win = w, !.from = from].win = w
    BY DEF HlsInv, AudioInv, ContTypeOK, NoCall
  <2> QED BY <1>5, <2>1 DEF Call
<1>8. UNCHANGED <<segList, layout, flight, cache, curBytes, worldVars>>
  BY DEF ProduceCont
<1>9. PICK y : y = [x EXCEPT !.pc = "cont"]
  OBVIOUS
<1>10. y \in ReqRec /\ y.pc = "cont" /\ y.art = x.art /\ y.again = x.again /\ y.grid = x.grid
       /\ y.data = x.data
  BY <1>9 DEF ReqRec
<1>11. req' = [req EXCEPT ![r] = y] /\ req'[r] = y
  BY <1>1, <1>9 DEF ProduceCont, Goes, HlsInv, TypeOK
<1>12. Fits(y) /\ y.grid \in Grid
  BY <1>2, <1>10 DEF Fits
<1>13. UNCHANGED <<drops, segList, flight>>
  BY <1>8 DEF worldVars
<1>14. (drops = 0 /\ y.data # None /\ OfVideo(y.art.kind)) => y.data.grid = segList[y.art.file]
  BY <1>1, <1>2, <1>10 DEF RequestOK, OneGrid
<1>15. RequestOK(r)'
  BY <1>1, <1>4, <1>7, <1>10, <1>11, <1>12, <1>13, <1>14, ArtifactMoveOK
<1>17. cache' \in Seq(CacheEntry) /\ curBytes' \in Nat /\ CacheExact' /\ CacheOneGrid'
  BY <1>8, <1>13 DEF HlsInv, TypeOK, CacheExact, CacheOneGrid, EntryOK
<1> QED BY <1>6, <1>7, <1>8, <1>10, <1>11, <1>15, <1>17, ArtifactStep

\* The frames of a segment are some, and not more than the track has.
LEMMA FrameCount ==
  ASSUME NEW S \in SUBSET (0..(Length - 1)), S # {}
  PROVE  Cardinality(S) \in 1..Length
<1>1. Length \in Nat /\ Length > 0
  BY AudioContAssumption
<1>2. IsFiniteSet(0..(Length - 1)) /\ Cardinality(0..(Length - 1)) = Length
  <2>1. PICK b \in Int : b = Length - 1 /\ b >= 0
    BY <1>1
  <2>2. IsFiniteSet(0..b) /\ Cardinality(0..b) = (b - 0) + 1
    BY <2>1, FS_Interval
  <2> QED BY <1>1, <2>1, <2>2
<1>3. IsFiniteSet(S) /\ Cardinality(S) <= Length
  BY ZenonT(40), <1>2, FS_Subset
<1>4. Cardinality(S) \in Nat /\ Cardinality(S) # 0
  BY <1>3, FS_CardinalityType, FS_EmptySet
<1> QED BY <1>1, <1>3, <1>4

LEMMA ProducedContInv ==
  ASSUME HlsInv, NEW r \in Req, ProducedCont(r)
  PROVE  HlsInv'
<1>1. PICK x \in ReqRec : x = req[r] /\ x.pc = "cont"
  BY DEF ProducedCont, HlsInv, TypeOK
<1>2. RequestOK(r) /\ x.art \in Artifact /\ Fits(x) /\ (call[r].win = None => isInit(x.art))
  BY <1>1 DEF HlsInv, RequestsOK, RequestOK, ReqOK
<1>3. x.grid \in Grid /\ None \notin Grid
  BY <1>2, HlsAssumption DEF Fits
<1>4. Return(r) /\ UNCHANGED <<segList, layout, flight, cache, curBytes, worldVars>>
  BY DEF ProducedCont
<1>5. AudioInv' /\ \A q \in Req \ {r} : call'[q] = call[q]
  BY <1>4, ReturnInv DEF Return, HlsInv, AudioInv, ContTypeOK
<1>6. UNCHANGED <<drops, segList, flight>>
  BY <1>4 DEF worldVars
<1>7. cache' \in Seq(CacheEntry) /\ curBytes' \in Nat /\ CacheExact' /\ CacheOneGrid'
  BY <1>4, <1>6 DEF HlsInv, TypeOK, CacheExact, CacheOneGrid, EntryOK
<1>8. CASE call[r].pc = "err"
  <2>1. PICK y \in ReqRec : y = Failed(x)
    BY MoveTypes
  <2>2. y.pc = "reply" /\ y.art = x.art /\ y.again = x.again /\ y.grid = x.grid /\ y.data = None
    BY <2>1 DEF ReqRec, Failed
  <2>3. req' = [req EXCEPT ![r] = y] /\ req'[r] = y
    BY <1>1, <1>8, <2>1 DEF ProducedCont, HlsInv, TypeOK
  <2>4. RequestOK(r)'
    BY <1>1, <1>6, <2>2, <2>3, ArtifactMoveOK
  <2> QED BY <1>4, <1>5, <1>7, <2>3, <2>4, ArtifactStep
<1>9. CASE call[r].pc # "err"
  <2>1. PICK size : size = IF isInit(x.art) THEN 1 ELSE Cardinality(call[r].got)
    OBVIOUS
  <2>2. size \in 1..Length
    <3>1. call[r].pc = "ok" /\ CallerOK(r) /\ call[r] \in CallRec
      BY <1>4, <1>9 DEF Return, HlsInv, AudioInv, CallersOK, ContTypeOK
    <3>2. ~isInit(x.art) => call[r].got # {} /\ call[r].got \in SUBSET (0..(Length - 1))
      BY <1>2, <3>1 DEF CallerOK, CallRec
    <3>3. 1 \in 1..Length
      BY AudioContAssumption
    <3> QED BY <2>1, <3>2, <3>3, FrameCount
  <2>3. PICK d : d = [grid |-> x.grid, size |-> size]
    OBVIOUS
  <2>4. d \in Data /\ d.grid = x.grid
    BY <1>3, <2>2, <2>3 DEF Data
  <2>5. PICK y : y = [x EXCEPT !.pc = "put", !.data = d]
    OBVIOUS
  <2>6. y \in ReqRec /\ y.pc = "put" /\ y.art = x.art /\ y.again = x.again /\ y.grid = x.grid
        /\ y.data = d
    BY <2>4, <2>5 DEF ReqRec
  <2>7. req' = [req EXCEPT ![r] = y] /\ req'[r] = y
    BY <1>1, <1>9, <2>1, <2>3, <2>5 DEF ProducedCont, HlsInv, TypeOK
  <2>8. drops = 0 => d.grid = segList[x.art.file]
    BY <1>1, <1>2, <1>3, <2>4 DEF RequestOK, OneGrid
  <2>9. Fits(y)
    BY <1>2, <2>6 DEF Fits
  <2>10. RequestOK(r)'
    BY <1>1, <1>3, <1>6, <2>4, <2>6, <2>7, <2>8, <2>9, ArtifactMoveOK
  <2> QED BY <1>4, <1>5, <1>7, <2>6, <2>7, <2>10, ArtifactStep
<1> QED BY <1>8, <1>9

-----------------------------------------------------------------------------
(* The transcoders beside the requests, and the drop *)

\* A call keeps its window.
LEMMA StepWindow ==
  ASSUME ContTypeOK, NEW r \in Req, Step(r)
  PROVE  \A q \in Req : call'[q].win = call[q].win
<1>1. call \in [Req -> CallRec]
  BY DEF ContTypeOK
<1>2. ASSUME NEW t, Land(r, t)
      PROVE  \A q \in Req : call'[q].win = call[q].win
  BY <1>1, <1>2 DEF Land, CallRec
<1>3. ASSUME NEW pc, Goto(r, pc)
      PROVE  \A q \in Req : call'[q].win = call[q].win
  BY <1>1, <1>3 DEF Goto, CallRec
<1>4. CASE Load(r)
  BY <1>1, <1>4 DEF Load, CallRec
<1>5. CASE Replace(r)
  BY <1>3, <1>5 DEF Replace
<1>6. CASE Delete(r)
  BY <1>1, <1>6 DEF Delete, CallRec
<1>7. CASE Fly(r)
  BY <1>3, <1>7 DEF Fly
<1>8. CASE Recheck(r)
  BY <1>2, <1>3, <1>8 DEF Recheck
<1>9. CASE Cap(r)
  BY <1>2, <1>3, <1>9 DEF Cap
<1>10. CASE Start(r)
  BY <1>1, <1>10 DEF Start, CallRec
<1>11. CASE Poll(r)
  BY <1>3, <1>11 DEF Poll
<1>12. CASE GiveUp(r)
  BY <1>3, <1>12 DEF GiveUp
<1>13. CASE Slice(r)
  BY <1>1, <1>13 DEF Slice, CallRec
<1>14. CASE Look(r) \/ Lower(r)
  BY <1>3, <1>14 DEF Look, Lower
<1>15. CASE Raise(r)
  BY <1>2, <1>15 DEF Raise
<1> QED BY <1>4, <1>5, <1>6, <1>7, <1>8, <1>9, <1>10, <1>11, <1>12, <1>13, <1>14, <1>15 DEF Step

\* Nothing of the requests but their windows depends on the transcoders, and a drop that is over
\* leaves no promise about grids.
LEMMA WorldStep ==
  ASSUME HlsInv, AudioInv', \A q \in Req : call'[q].win = call[q].win,
         UNCHANGED <<req, flight, scenario>>,
         segList' \in [File -> Grid \cup {None}], layout' \in [Track -> BOOLEAN],
         segList' = segList \/ drops' # 0, drops' = 0 => drops = 0,
         drops' \in 0..scenario.drops, asked' \in 0..scenario.requests,
         torrent' \in {"active", "layouts", "segments", "audio", "gone"},
         \/ UNCHANGED <<cache, curBytes>>
         \/ cache' = <<>> /\ curBytes' = 0
  PROVE  HlsInv'
<1>1. cache' \in Seq(CacheEntry) /\ curBytes' \in Nat
  <2>1. CASE UNCHANGED <<cache, curBytes>>
    BY <2>1 DEF HlsInv, TypeOK
  <2>2. CASE cache' = <<>> /\ curBytes' = 0
    BY <2>2, EmptySize
  <2> QED BY <2>1, <2>2
<1>2. TypeOK'
  BY <1>1 DEF HlsInv, TypeOK, AudioInv
<1>3. CacheExact'
  <2>1. CASE UNCHANGED <<cache, curBytes>>
    BY <2>1 DEF HlsInv, CacheExact
  <2>2. CASE cache' = <<>> /\ curBytes' = 0
    <3>1. MaxBytes \in Nat
      BY HlsAssumption
    <3> QED BY <2>2, <3>1, EmptySize DEF CacheExact, UniqueKeys
  <2> QED BY <2>1, <2>2
<1>4. CacheOneGrid'
  <2>1. CASE cache' = cache
    BY <2>1 DEF HlsInv, CacheOneGrid, EntryOK
  <2>2. CASE cache' = <<>>
    <3>1. 1..Len(cache') = {}
      BY <2>2, EmptySeq
    <3> QED BY <3>1 DEF CacheOneGrid
  <2> QED BY <2>1, <2>2
<1>5. ASSUME NEW q \in Req
      PROVE  RequestOK(q)'
  <2>1. RequestOK(q) /\ req \in [Req -> ReqRec] /\ None \notin Grid
    BY HlsAssumption DEF HlsInv, RequestsOK, TypeOK
  <2> QED BY <2>1, RequestBystander
<1> QED BY <1>2, <1>3, <1>4, <1>5 DEF HlsInv, RequestsOK

LEMMA CallStepInv ==
  ASSUME HlsInv, NEW r \in Req, Step(r), UNCHANGED <<hlsVars, worldVars>>
  PROVE  HlsInv'
<1>1. AudioInv' /\ \A q \in Req : call'[q].win = call[q].win
  BY StepAudio, StepWindow DEF HlsInv, AudioInv
<1>2. UNCHANGED <<req, segList, layout, flight, cache, curBytes, torrent, drops, asked, scenario>>
  BY DEF hlsVars, worldVars
<1> QED BY <1>1, <1>2, WorldStep DEF HlsInv, TypeOK

LEMMA TranscodeInv ==
  ASSUME HlsInv, NEW t \in Tc, Transcode(t)
  PROVE  HlsInv'
<1>1. AudioInv' /\ call' = call
  BY RunInv DEF Transcode, HlsInv, Run, Open, AppendFrame
<1>2. UNCHANGED <<req, segList, layout, flight, cache, curBytes, torrent, drops, asked, scenario>>
  BY DEF Transcode, hlsVars, worldVars
<1> QED BY <1>1, <1>2, WorldStep DEF HlsInv, TypeOK

LEMMA PurgeMapsInv ==
  ASSUME HlsInv, PurgeMaps
  PROVE  HlsInv'
<1>1. AudioInv' /\ call' = call
  BY DropVarsInv DEF PurgeMaps, HlsInv, AudioInv, ContTypeOK, contVars
<1>2. UNCHANGED <<req, flight, cache, curBytes, asked, scenario>> /\ torrent' = "layouts"
  BY DEF PurgeMaps
<1>3. drops' # 0 /\ drops' \in 0..scenario.drops
  <2>1. PICK n \in Nat : n = scenario.drops
    BY HlsAssumption DEF HlsInv, TypeOK
  <2>2. drops \in 0..n /\ drops < n /\ drops' = drops + 1
    BY <2>1 DEF PurgeMaps, HlsInv, TypeOK
  <2> QED BY <2>1, <2>2
<1>4. segList' \in [File -> Grid \cup {None}] /\ layout' \in [Track -> BOOLEAN]
  BY DEF PurgeMaps, HlsInv, TypeOK
<1>5. asked' \in 0..scenario.requests
  BY <1>2 DEF HlsInv, TypeOK
<1> QED BY <1>1, <1>2, <1>3, <1>4, <1>5, WorldStep

LEMMA PurgeLayoutsInv ==
  ASSUME HlsInv, PurgeLayouts
  PROVE  HlsInv'
<1>1. AudioInv' /\ call' = call
  BY DropVarsInv DEF PurgeLayouts, HlsInv, AudioInv, ContTypeOK, contVars
<1>2. UNCHANGED <<req, segList, flight, cache, curBytes, drops, asked, scenario>>
      /\ torrent' = "segments" /\ layout' \in [Track -> BOOLEAN]
  BY DEF PurgeLayouts
<1> QED BY <1>1, <1>2, WorldStep DEF HlsInv, TypeOK

LEMMA PurgeSegmentsInv ==
  ASSUME HlsInv, PurgeSegments
  PROVE  HlsInv'
<1>1. UNCHANGED <<audioCont, audioContCount, contFlight, tc, call, dropSees, dropLowers, req, segList,
                  layout, flight, drops, asked, scenario>> /\ dropKeys' = Track /\ torrent' = "audio" /\ cache' = <<>>
  BY DEF PurgeSegments
<1>2. AudioInv'
  BY <1>1, DropVarsInv DEF HlsInv, AudioInv, ContTypeOK
<1>3. curBytes' = 0
  <2>1. curBytes' = curBytes - Size(cache) /\ curBytes = Size(cache) /\ curBytes \in Nat
    BY DEF PurgeSegments, HlsInv, CacheExact, TypeOK
  <2> QED BY <2>1
<1> QED BY <1>1, <1>2, <1>3, WorldStep DEF HlsInv, TypeOK

LEMMA DropAudioInv ==
  ASSUME HlsInv, DropAudio
  PROVE  HlsInv'
<1>1. AudioInv' /\ call' = call
  <2>1. CASE \E k \in Track : DropSee(k)
    BY <2>1, DropVarsInv DEF DropSee, HlsInv, AudioInv, ContTypeOK
  <2>2. CASE \E k \in Track : DropCont(k)
    <3>1. PICK k \in Track : DropCont(k)
      BY <2>2
    <3> QED BY <3>1, DropInv DEF HlsInv, DropCont
  <2>3. CASE DropEnd
    BY <2>3, DropVarsInv DEF DropEnd, HlsInv, AudioInv, ContTypeOK
  <2>4. CASE DropLower
    BY <2>4, DropLowerInv DEF DropLower, HlsInv
  <2> QED BY <2>1, <2>2, <2>3, <2>4 DEF DropAudio
<1>2. UNCHANGED <<req, segList, layout, flight, cache, curBytes, drops, asked, scenario>>
      /\ torrent' \in {torrent, "gone"}
  BY DEF DropAudio, hlsVars
<1> QED BY <1>1, <1>2, WorldStep DEF HlsInv, TypeOK

LEMMA ReAddInv ==
  ASSUME HlsInv, ReAdd
  PROVE  HlsInv'
<1>1. AudioInv' /\ call' = call
  BY DropVarsInv DEF ReAdd, HlsInv, AudioInv, ContTypeOK, contVars
<1>2. UNCHANGED <<req, segList, layout, flight, cache, curBytes, drops, asked, scenario>>
      /\ torrent' = "active"
  BY DEF ReAdd, hlsVars
<1> QED BY <1>1, <1>2, WorldStep DEF HlsInv, TypeOK

-----------------------------------------------------------------------------
(* The theorems *)

LEMMA InitInv == Init => HlsInv
<1> SUFFICES ASSUME Init
             PROVE  HlsInv
  OBVIOUS
<1>1. NoTc \in TcRec /\ TranscoderOK(NoTc)
  <2>1. NoTc \in TcRec
    BY AudioContAssumption DEF NoTc, TcRec
  <2>2. TranscoderOK(NoTc)
    BY DEF NoTc, TranscoderOK
  <2> QED BY <2>1, <2>2
<1>2. NoCall \in CallRec /\ NoCall.pc = "out"
  BY AudioContAssumption DEF NoCall, CallRec, ContPcs
<1>3. NoReq \in ReqRec /\ NoReq.pc = "idle" /\ NoReq.grid = None /\ NoReq.data = None /\ ~NoReq.again
  BY DEF NoReq, ReqRec, Lookup
<1>4. ContTypeOK /\ CallersOK /\ TranscodersOK
  <2>1. ContTypeOK
    <3>1. audioContCount \in Int
      BY DEF Init, ContInit
    <3>2. dropKeys \subseteq Track /\ dropSees \in Tc \cup {None} /\ dropLowers \in BOOLEAN
      BY Zenon DEF Init, ContInit
    <3>3. /\ audioCont \in [Track -> Tc \cup {None}] /\ contFlight \in [Track -> Req \cup {None}]
          /\ tc \in [Tc -> TcRec] /\ call \in [Req -> CallRec]
      BY <1>1, <1>2 DEF Init, ContInit
    <3> QED BY <3>1, <3>2, <3>3 DEF ContTypeOK
  <2>2. CallersOK /\ TranscodersOK
    BY <1>1, <1>2 DEF Init, ContInit, CallersOK, CallerOK, TranscodersOK
  <2> QED BY <2>1, <2>2
<1>5. CountOK
  <2>1. audioContCount = 0 /\ Raising = {} /\ Lowering = {}
    BY <1>2 DEF Init, ContInit, Raising, Lowering
  <2> QED BY <2>1, StoredFinite, FS_EmptySet DEF CountOK
<1>6. TypeOK
  <2>1. scenario.drops \in Nat /\ scenario.requests \in Nat /\ scenario.grid \in Grid \cup {None}
    BY HlsAssumption DEF Init
  <2>2. cache \in Seq(CacheEntry)
    BY EmptySize DEF Init
  <2> QED BY <1>3, <1>4, <2>1, <2>2 DEF Init, TypeOK
<1>7. RequestsOK
  <2> SUFFICES ASSUME NEW r \in Req
               PROVE  RequestOK(r)
    BY DEF RequestsOK
  <2>1. req[r] = NoReq /\ r # None
    BY AudioContAssumption DEF Init
  <2>2. \A f \in File : flight[<<"grid", f>>] # r
    BY <2>1, HlsAssumption DEF Init, Lookup
  <2> QED BY <1>3, <2>1, <2>2 DEF RequestOK, ReqOK, InLookup, BuilderLeads, LeaderBuilds, OneGrid
<1>8. CacheExact /\ CacheOneGrid
  <2>1. cache = <<>> /\ curBytes = 0 /\ MaxBytes \in Nat
    BY HlsAssumption DEF Init
  <2>2. CacheExact
    BY <2>1, EmptySize DEF CacheExact, UniqueKeys
  <2>3. 1..Len(cache) = {}
    BY <2>1, EmptySeq
  <2> QED BY <2>2, <2>3 DEF CacheOneGrid
<1> QED BY <1>4, <1>5, <1>6, <1>7, <1>8 DEF HlsInv, AudioInv

LEMMA ProgressInv ==
  ASSUME HlsInv, NEW r \in Req, Progress(r)
  PROVE  HlsInv'
BY LoadMapInv, FlyLookupInv, RecheckMapInv, ProbeDurationInv, ProbeLayoutInv, IndexInv, LeafInv,
   ProduceInv, ProduceContInv, ProducedContInv, PutInv, FinishInv, CallStepInv DEF Progress

LEMMA StepInv == HlsInv /\ [Next]_vars => HlsInv'
<1> SUFFICES ASSUME HlsInv, [Next]_vars
             PROVE  HlsInv'
  OBVIOUS
<1>1. CASE \E r \in Req : (\E a \in Artifact : HandleHls(r, a)) \/ Progress(r)
  BY <1>1, HandleInv, ProgressInv
<1>2. CASE \E t \in Tc : Transcode(t)
  BY <1>2, TranscodeInv
<1>3. CASE PurgeMaps \/ PurgeLayouts \/ PurgeSegments \/ DropAudio \/ ReAdd
  BY <1>3, PurgeMapsInv, PurgeLayoutsInv, PurgeSegmentsInv, DropAudioInv, ReAddInv
<1>4. CASE UNCHANGED vars
  <2>1. AudioInv' /\ call' = call
    BY <1>4, DropVarsInv DEF vars, contVars, HlsInv, AudioInv, ContTypeOK
  <2>2. UNCHANGED <<req, segList, layout, flight, cache, curBytes, torrent, drops, asked, scenario>>
    BY <1>4 DEF vars, hlsVars, worldVars
  <2> QED BY <2>1, <2>2, WorldStep DEF HlsInv, TypeOK
<1> QED BY <1>1, <1>2, <1>3, <1>4 DEF Next

LEMMA AlwaysInv == Spec => []HlsInv
BY InitInv, StepInv, PTL DEF Spec

\* The byte count of the segment cache is exact, whatever misses, replacements, evictions and purges
\* race, and above the limit only for a single entry; no key is there twice.
THEOREM CacheIsExact == Spec => []CacheExact
<1>1. HlsInv => CacheExact
  BY DEF HlsInv
<1> QED BY <1>1, AlwaysInv, PTL

\* Until the torrent is first dropped, what a request is answered with was cut from the grid that it
\* and every playlist of the file have, from whichever request, cache entry or transcoder it came.
THEOREM OneGridIsServed == Spec => []ServedFitsPlaylist
<1>1. HlsInv => ServedFitsPlaylist
  <2> SUFFICES ASSUME HlsInv, NEW r \in Req, drops = 0, req[r].data # None,
                      req[r].art.kind \notin {"xa", "xinit"}
               PROVE  req[r].data.grid = req[r].grid
    BY DEF ServedFitsPlaylist
  <2>1. RequestOK(r) /\ None \notin Grid
    BY HlsAssumption DEF HlsInv, RequestsOK
  <2> QED BY <2>1 DEF RequestOK, ReqOK, OneGrid, OfVideo
<1> QED BY <1>1, AlwaysInv, PTL

\* An audio segment that is served has every frame of its window from where its transcoder began,
\* though the transcoder may be replaced, freed, dropped or fail at any moment.
THEOREM SlicesAreWhole == Spec => []SliceIsContiguous
<1>1. HlsInv => SliceIsContiguous
  BY DEF HlsInv, AudioInv, CallersOK, CallerOK, SliceIsContiguous
<1> QED BY <1>1, AlwaysInv, PTL

\* The count of transcoders is never above what the map holds but for the decrements and increments
\* on their way, whoever deletes what.
THEOREM CountNeverHigh == Spec => []CountIsNotHigh
<1>1. HlsInv => CountIsNotHigh
  BY DEF HlsInv, AudioInv, CountOK, Stored, Raising, Lowering, CountIsNotHigh
<1> QED BY <1>1, AlwaysInv, PTL
=============================================================================
