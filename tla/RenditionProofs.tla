-------------------------- MODULE RenditionProofs --------------------------
(***************************************************************************)
(* The admission gates and the pipeline mutex of Rendition, for any finite *)
(* sets of requests and devices, any callers and any limits.               *)
(***************************************************************************)
EXTENDS Rendition, FiniteSetTheorems, TLAPS

Admission == {"prepare", "prime", "held", "releasing", "closing"}

\* Whoever is at a gate, or about to be, has a candidate.
CandidateOK == \A r \in Req : acq[r].pc \in Admission \cup {"admit"} => acq[r].cands # <<>>

\* Nobody knows a rendition before it is committed.
UnknownOK == \A r \in Req : acq[r].pc \in Tour =>
               /\ ren[r].life = "none"
               /\ \A c \in Caller : caller[c].ren # r

\* A caller is at a rendition that has been committed, and runs it with its mutex.
CallersOK ==
  \A c \in Caller :
    /\ caller[c].pc = "idle" <=> caller[c].ren = None
    /\ caller[c].ren # None => ren[caller[c].ren].life # "none"
    /\ caller[c].pc = "run" => /\ ren[caller[c].ren].mu = c
                               /\ ren[caller[c].ren].life = "running"
                               /\ ~ren[caller[c].ren].released

\* The owner that closes the pipeline has the mutex, and has told the callers before.
OwnerOK ==
  \A r \in Req :
    /\ acq[r].pc = "closing" => ren[r].mu = r /\ ren[r].released
    /\ ren[r].closed => ren[r].released

\* The inductive invariant.
RenditionInv ==
  /\ TypeOK /\ CandidateOK /\ TokensAreHeld
  /\ UnknownOK /\ CallersOK /\ OwnerOK

-----------------------------------------------------------------------------
(* The gates.  A step of request r is given by where it goes and with which candidates. *)

AcqStep(r, pc, cands) ==
  /\ acq' \in [Req -> AcqRec]
  /\ acq'[r].pc = pc /\ acq'[r].cands = cands
  /\ \A q \in Req \ {r} : acq'[q] = acq[q]

LEMMA HoldersFinite ==
  \A g \in Gate : /\ Holders(g) \subseteq Req /\ IsFiniteSet(Holders(g)) /\ Cardinality(Holders(g)) \in Nat
                  /\ IsFiniteSet(Holders(g)') /\ Cardinality(Holders(g)') \in Nat
  <1>1. ASSUME NEW g \in Gate
        PROVE  Holders(g) \subseteq Req /\ Holders(g)' \subseteq Req
    BY DEF Holders
  <1> QED
    BY <1>1, RenditionAssumption, FS_Subset, FS_CardinalityType

LEMMA SameHolders ==
  ASSUME TypeOK, TokensAreHeld, NEW r \in Req, NEW pc, NEW cands, AcqStep(r, pc, cands),
         tokens' = tokens,
         \A g \in Gate : r \in Holders(g)' <=> r \in Holders(g)
  PROVE  TokensAreHeld'
  <1>1. \A g \in Gate : Holders(g)' = Holders(g)
    BY DEF AcqStep, Holders, At, Current
  <1> QED
    BY <1>1 DEF TokensAreHeld

LEMMA OutsideGate ==
  ASSUME TypeOK, TokensAreHeld, NEW r \in Req, NEW pc, NEW cands, AcqStep(r, pc, cands),
         tokens' = tokens, acq[r].pc \notin Admission, pc \notin Admission
  PROVE  TokensAreHeld'
  <1>1. \A g \in Gate : r \notin Holders(g)' /\ r \notin Holders(g)
    BY DEF AcqStep, Holders, Admission
  <1> QED
    BY <1>1, SameHolders

LEMMA InsideGate ==
  ASSUME TypeOK, TokensAreHeld, NEW r \in Req, NEW pc, NEW cands, AcqStep(r, pc, cands),
         tokens' = tokens, acq[r].pc \in Admission, pc \in Admission,
         acq[r].cands # <<>>, cands # <<>>, Head(cands) = Head(acq[r].cands)
  PROVE  TokensAreHeld'
  <1>1. \A g \in Gate : r \in Holders(g)' <=> r \in Holders(g)
    BY DEF AcqStep, Holders, At, Current, Admission
  <1> QED
    BY <1>1, SameHolders

LEMMA PassesFree ==
  ASSUME TypeOK, TokensAreHeld, NEW r \in Req, NEW pc, NEW cands, AcqStep(r, pc, cands),
         tokens' = tokens, acq[r].pc \notin Admission, Head(cands).dev \notin Gate
  PROVE  TokensAreHeld'
  <1>1. \A g \in Gate : r \notin Holders(g)' /\ r \notin Holders(g)
    BY DEF AcqStep, Holders, At, Current, Admission
  <1> QED
    BY <1>1, SameHolders

LEMMA LimitType == \A g \in Gate : Limit[g] \in Nat
  BY RenditionAssumption DEF Limit

LEMMA TakesToken ==
  ASSUME TypeOK, TokensAreHeld, NEW r \in Req, NEW pc \in Admission, NEW cands, AcqStep(r, pc, cands),
         acq[r].pc \notin Admission, cands # <<>>,
         NEW d \in Gate, Head(cands).dev = d, tokens[d] < Limit[d], TakeToken(d)
  PROVE  TokensAreHeld' /\ tokens' \in [Gate -> Nat]
  <1>1. tokens' \in [Gate -> Nat] /\ tokens'[d] = tokens[d] + 1
        /\ \A g \in Gate \ {d} : tokens'[g] = tokens[g]
    BY DEF TypeOK, TakeToken
  <1>2. r \notin Holders(d) /\ Holders(d)' = Holders(d) \cup {r}
    BY DEF AcqStep, Holders, At, Current, Admission
  <1>3. \A g \in Gate \ {d} : Holders(g)' = Holders(g)
    BY DEF AcqStep, Holders, At, Current, Admission
  <1>4. Cardinality(Holders(d)') = Cardinality(Holders(d)) + 1
    BY <1>2, HoldersFinite, FS_AddElement
  <1>5. tokens'[d] = Cardinality(Holders(d)') /\ tokens'[d] <= Limit[d]
    BY <1>1, <1>4, LimitType DEF TokensAreHeld, TypeOK
  <1>6. \A g \in Gate \ {d} : tokens'[g] = Cardinality(Holders(g)') /\ tokens'[g] <= Limit[g]
    BY <1>1, <1>3 DEF TokensAreHeld
  <1> QED
    BY <1>1, <1>5, <1>6 DEF TokensAreHeld

LEMMA GivesToken ==
  ASSUME TypeOK, TokensAreHeld, NEW r \in Req, NEW pc, NEW cands, AcqStep(r, pc, cands),
         acq[r].pc \in Admission, acq[r].cands # <<>>, pc \notin Admission,
         GiveToken(Current(r).dev)
  PROVE  TokensAreHeld' /\ tokens' \in [Gate -> Nat]
  <1>0. PICK d : d = Current(r).dev
    OBVIOUS
  <1>1. \A g \in Gate : r \notin Holders(g)'
    BY DEF AcqStep, Holders, Admission
  <1>2. \A g \in Gate : Holders(g)' = Holders(g) \ {r}
    BY DEF AcqStep, Holders, At, Current, Admission
  <1>3. \A g \in Gate : r \in Holders(g) <=> g = d
    BY <1>0 DEF Holders, At, Admission
  <1>4. \A g \in Gate \ {d} : Holders(g)' = Holders(g)
    BY <1>2, <1>3
  <1>5. CASE d \notin Gate
    <2>1. tokens' = tokens
      BY <1>0, <1>5 DEF GiveToken, TypeOK
    <2> QED
      BY <2>1, <1>4, <1>5 DEF TokensAreHeld, TypeOK
  <1>6. CASE d \in Gate
    <2>1. d # "copy"
      BY <1>6, RenditionAssumption DEF Gate
    <2>2. tokens' = [tokens EXCEPT ![d] = @ - 1]
      BY <1>0, <2>1 DEF GiveToken
    <2>7. Cardinality(Holders(d)') = Cardinality(Holders(d)) - 1
      BY <1>2, <1>3, <1>6, HoldersFinite, FS_RemoveElement
    <2>8. tokens[d] = Cardinality(Holders(d)) /\ tokens[d] <= Limit[d]
      BY <1>6 DEF TokensAreHeld
    <2>3. /\ tokens'[d] = tokens[d] - 1
          /\ \A g \in Gate \ {d} : tokens'[g] = tokens[g]
      BY <1>6, <2>2 DEF TypeOK
    <2>4. tokens'[d] = Cardinality(Holders(d)') /\ tokens'[d] \in Nat /\ tokens'[d] <= Limit[d]
      BY <1>6, <2>7, <2>8, <2>3, HoldersFinite, LimitType
    <2>5. \A g \in Gate \ {d} : tokens'[g] = Cardinality(Holders(g)') /\ tokens'[g] <= Limit[g]
      BY <1>4, <2>3 DEF TokensAreHeld
    <2>6. tokens' \in [Gate -> Nat]
      BY <1>6, <2>2, <2>4, <2>3 DEF TypeOK
    <2> QED
      BY <2>4, <2>5, <2>6 DEF TokensAreHeld
  <1> QED
    BY <1>5, <1>6

-----------------------------------------------------------------------------
(* The tour *)

\* A step of the tour: only r moves, on the tour or off it with an error.
LEMMA TourStep ==
  ASSUME RenditionInv, NEW r \in Req, NEW pc \in Tour \cup {"failed"}, NEW cands, AcqStep(r, pc, cands),
         acq[r].pc \in Tour, pc \in {"admit", "prepare", "prime"} => cands # <<>>,
         UNCHANGED <<ren, caller>>, tokens' \in [Gate -> Nat], TokensAreHeld'
  PROVE  RenditionInv'
  <1> USE DEF RenditionInv, AcqStep
  <1>1. TypeOK'
    BY DEF TypeOK
  <1>2. CandidateOK'
    BY DEF CandidateOK, Admission, Tour
  <1>3. UnknownOK'
    BY DEF UnknownOK
  <1>4. CallersOK'
    BY DEF CallersOK
  <1>5. OwnerOK'
    BY DEF OwnerOK, Tour
  <1> QED
    BY <1>1, <1>2, <1>3, <1>4, <1>5

LEMMA EachType ==
  ASSUME NEW S \in SUBSET Hardware, NEW s \in Orders(S), NEW mode \in {"hardware", "software"}
  PROVE  Each(s, mode) \in Seq(Candidate)
  <1>1. Cardinality(S) \in Nat
    BY RenditionAssumption, FS_Subset, FS_CardinalityType
  <1>2. s \in [1..Cardinality(S) -> S]
    BY DEF Orders
  <1>3. Each(s, mode) \in [1..Cardinality(S) -> Candidate]
    BY <1>2 DEF Each, Candidate, Devices
  <1> QED
    BY <1>1, <1>3

LEMMA OnlyType ==
  ASSUME NEW inv, NEW d \in {"copy", "cpu"}, NEW mode \in {"copy", "software"}
  PROVE  Only(inv, d, mode) \in Seq(Candidate)
  <1>1. [dev |-> d, mode |-> mode] \in Candidate
    BY DEF Candidate, Devices
  <1> QED
    BY <1>1 DEF Only

LEMMA MoveStep ==
  ASSUME TypeOK, NEW r \in Req, NEW pc \in Tour \cup {"failed"}, NEW cands \in Seq(Candidate),
         acq' = [acq EXCEPT ![r].pc = pc, ![r].cands = cands]
  PROVE  AcqStep(r, pc, cands)
  <1> DEFINE a == [acq[r] EXCEPT !.pc = pc, !.cands = cands]
  <1>1. acq \in [Req -> AcqRec]
    BY DEF TypeOK
  <1>2. a \in AcqRec /\ a.pc = pc /\ a.cands = cands
    BY <1>1 DEF AcqRec
  <1>3. acq' = [acq EXCEPT ![r] = a]
    BY <1>1
  <1> HIDE DEF a
  <1> QED
    BY <1>1, <1>2, <1>3 DEF AcqStep

\* The sorts leave a list of candidates, and nobody at a gate.
LEMMA SortFromKeeps ==
  ASSUME RenditionInv, NEW r \in Req, acq[r].pc \in {"inventory", "sort"},
         NEW all \in Seq(Candidate), NEW i, SortFrom(r, all, i), UNCHANGED <<tokens, ren, caller>>
  PROVE  RenditionInv'
  <1>1. PICK pc \in {"sort", "next"}, k \in Nat :
          acq' = [acq EXCEPT ![r].pc = pc, ![r].cands = all, ![r].i = k, ![r].j = k]
    <2>1. Places(all) \subseteq Nat
      BY DEF Places
    <2> QED
      BY <2>1 DEF SortFrom
  <1>2. AcqStep(r, pc, all)
    <2> DEFINE a == [acq[r] EXCEPT !.pc = pc, !.cands = all, !.i = k, !.j = k]
    <2>1. acq \in [Req -> AcqRec]
      BY DEF RenditionInv, TypeOK
    <2>2. a \in AcqRec /\ a.pc = pc /\ a.cands = all
      BY <2>1 DEF AcqRec, Tour
    <2>3. acq' = [acq EXCEPT ![r] = a]
      BY <1>1
    <2> HIDE DEF a
    <2> QED
      BY <2>1, <2>2, <2>3 DEF AcqStep
  <1>3. TokensAreHeld'
    BY <1>2, OutsideGate DEF RenditionInv, Admission
  <1> QED
    BY <1>2, <1>3, TourStep DEF RenditionInv, TypeOK, Tour

LEMMA InventoryKeeps ==
  ASSUME RenditionInv, NEW r \in Req, NEW inv \in Inventories, Inventory(r, inv)
  PROVE  RenditionInv'
  <1>1. PICK s \in Orders(Allowed(inv)) :
          SortFrom(r, Only(inv, "copy", "copy") \o Each(s, "hardware") \o Each(s, "software")
                      \o Only(inv, "cpu", "software"), 1)
    BY DEF Inventory
  <1>2. Allowed(inv) \in SUBSET Hardware
    BY DEF Allowed
  <1>3. Each(s, "hardware") \in Seq(Candidate) /\ Each(s, "software") \in Seq(Candidate)
    BY <1>2, EachType
  <1>4. Only(inv, "copy", "copy") \in Seq(Candidate) /\ Only(inv, "cpu", "software") \in Seq(Candidate)
    BY OnlyType
  <1>5. Only(inv, "copy", "copy") \o Each(s, "hardware") \o Each(s, "software")
          \o Only(inv, "cpu", "software") \in Seq(Candidate)
    BY <1>3, <1>4
  <1> QED
    BY <1>1, <1>5, SortFromKeeps DEF Inventory

LEMMA CompareKeeps ==
  ASSUME RenditionInv, NEW r \in Req, Compare(r)
  PROVE  RenditionInv'
  <1> DEFINE all == acq[r].cands
             j   == acq[r].j
             swapped == [all EXCEPT ![j] = all[j - 1], ![j - 1] = all[j]]
  <1>1. acq \in [Req -> AcqRec] /\ all \in Seq(Candidate) /\ j \in Nat /\ acq[r].pc = "sort"
    BY DEF Compare, RenditionInv, TypeOK, AcqRec
  <1>2. CASE SortFrom(r, all, acq[r].i)
    BY <1>1, <1>2, SortFromKeeps DEF Compare
  <1>3. CASE j \in Places(all) /\ acq' = [acq EXCEPT ![r].cands = swapped, ![r].j = j - 1]
    <2>1. j \in 2..Len(all)
      BY <1>3 DEF Places
    <2>2. swapped \in Seq(Candidate) /\ j - 1 \in Nat
      <3> HIDE DEF all, j
      <3>1. all[j] \in Candidate /\ all[j - 1] \in Candidate
        BY <1>1, <2>1
      <3> QED
        BY <1>1, <2>1, <3>1
    <2>3. AcqStep(r, "sort", swapped)
      <3> HIDE DEF swapped, j
      <3> DEFINE a == [acq[r] EXCEPT !.cands = swapped, !.j = j - 1]
      <3>1. a \in AcqRec /\ a.pc = "sort" /\ a.cands = swapped
        BY <1>1, <2>2 DEF AcqRec
      <3>2. acq' = [acq EXCEPT ![r] = a]
        BY <1>3
      <3> HIDE DEF a
      <3> QED
        BY <1>1, <3>1, <3>2 DEF AcqStep
    <2> HIDE DEF swapped
    <2>4. TokensAreHeld'
      BY <1>1, <2>3, OutsideGate DEF Compare, RenditionInv, Admission
    <2> QED
      BY <1>1, <2>3, <2>4, TourStep DEF Compare, RenditionInv, TypeOK, Tour
  <1> QED
    BY <1>2, <1>3 DEF Compare

LEMMA NextCandidateKeeps ==
  ASSUME RenditionInv, NEW r \in Req, NextCandidate(r)
  PROVE  RenditionInv'
  <1>1. PICK pc \in {"failed", "admit"}, cands \in {acq[r].cands, <<>>} :
          AcqStep(r, pc, cands) /\ (pc = "admit" => cands # <<>>)
    <2>1. CASE acq[r].cands = <<>> /\ acq' = [acq EXCEPT ![r].pc = "failed"]
      <3>1. AcqStep(r, "failed", acq[r].cands)
        BY <2>1 DEF AcqStep, RenditionInv, TypeOK, AcqRec
      <3> QED
        BY <3>1
    <2>2. CASE acq' = [acq EXCEPT ![r].pc = "failed", ![r].cands = <<>>, ![r].res = "exhausted"]
      <3>1. AcqStep(r, "failed", <<>>)
        <4> DEFINE a == [acq[r] EXCEPT !.pc = "failed", !.cands = <<>>, !.res = "exhausted"]
        <4>1. acq \in [Req -> AcqRec] /\ <<>> \in Seq(Candidate)
          BY DEF RenditionInv, TypeOK
        <4>2. a \in AcqRec /\ a.pc = "failed" /\ a.cands = <<>>
          BY <4>1 DEF AcqRec, Category
        <4>3. acq' = [acq EXCEPT ![r] = a]
          BY <2>2, <4>1
        <4> HIDE DEF a
        <4> QED
          BY <4>1, <4>2, <4>3 DEF AcqStep
      <3> QED
        BY <3>1
    <2>3. CASE acq[r].cands # <<>> /\ acq' = [acq EXCEPT ![r].pc = "admit"]
      <3>1. AcqStep(r, "admit", acq[r].cands)
        BY <2>3 DEF AcqStep, RenditionInv, TypeOK, AcqRec, Tour
      <3> QED
        BY <2>3, <3>1
    <2> QED
      BY <2>1, <2>2, <2>3 DEF NextCandidate
  <1>2. TokensAreHeld'
    BY <1>1, OutsideGate DEF NextCandidate, RenditionInv, Admission
  <1> QED
    BY <1>1, <1>2, TourStep DEF NextCandidate, RenditionInv, TypeOK, Tour

\* A failure sends the request to its next candidate or off the tour.
LEMMA FailedStep ==
  ASSUME TypeOK, NEW r \in Req, NEW cat \in Category, Failed(r, cat), acq[r].cands # <<>>
  PROVE  \E pc \in {"next", "failed"}, cands \in {Tail(acq[r].cands), <<>>} : AcqStep(r, pc, cands)
  <1>1. Tail(acq[r].cands) \in Seq(Candidate)
    BY DEF TypeOK, AcqRec
  <1>2. CASE canFallbackBeforeCommit(cat)
    <2>1. AcqStep(r, "next", Tail(acq[r].cands))
      BY <1>1, <1>2 DEF Failed, AcqStep, TypeOK, AcqRec, Tour
    <2> QED
      BY <2>1
  <1>3. CASE ~canFallbackBeforeCommit(cat)
    <2>1. AcqStep(r, "failed", <<>>)
      BY <1>3 DEF Failed, AcqStep, TypeOK, AcqRec, Tour
    <2> QED
      BY <2>1
  <1> QED
    BY <1>2, <1>3

\* A request that fails to get a token has none.
LEMMA RefusedKeeps ==
  ASSUME RenditionInv, NEW r \in Req, NEW cat \in Category, acq[r].pc = "admit", Failed(r, cat),
         UNCHANGED <<tokens, ren, caller>>
  PROVE  RenditionInv'
  <1>1. PICK pc \in {"next", "failed"}, cands \in {Tail(acq[r].cands), <<>>} : AcqStep(r, pc, cands)
    BY FailedStep DEF RenditionInv, CandidateOK
  <1>2. TokensAreHeld'
    BY <1>1, OutsideGate DEF RenditionInv, Admission
  <1> QED
    BY <1>1, <1>2, TourStep DEF RenditionInv, TypeOK, Tour

LEMMA AdmittedStep ==
  ASSUME TypeOK, NEW r \in Req, Admitted(r)
  PROVE  AcqStep(r, "prepare", acq[r].cands)
  BY ZenonT(40) DEF Admitted, AcqStep, TypeOK, AcqRec, Tour

\* One that gets it takes it.
LEMMA AdmittedKeeps ==
  ASSUME RenditionInv, NEW r \in Req, NEW d \in Gate, acq[r].pc = "admit", Current(r).dev = d,
         tokens[d] < Limit[d], TakeToken(d), Admitted(r), UNCHANGED <<ren, caller>>
  PROVE  RenditionInv'
  <1>1. AcqStep(r, "prepare", acq[r].cands) /\ acq[r].cands # <<>>
    BY AdmittedStep DEF RenditionInv, CandidateOK
  <1>2. TokensAreHeld' /\ tokens' \in [Gate -> Nat]
    BY <1>1, TakesToken DEF RenditionInv, Admission, Current
  <1> QED
    BY <1>1, <1>2, TourStep DEF RenditionInv, Tour

LEMMA AdmitKeeps ==
  ASSUME RenditionInv, NEW r \in Req, TryAcquire(r) \/ AcquireCpu(r) \/ AdmitCopy(r)
  PROVE  RenditionInv'
  <1>1. {"exhausted", "cancelled", "timeout"} \subseteq Category
    BY DEF Category
  <1>2. CASE TryAcquire(r)
    BY <1>1, <1>2, RefusedKeeps, AdmittedKeeps DEF TryAcquire, Gate
  <1>3. CASE AcquireCpu(r)
    BY <1>1, <1>3, RefusedKeeps, AdmittedKeeps DEF AcquireCpu, Gate
  <1>4. CASE AdmitCopy(r)
    <2>1. AcqStep(r, "prepare", acq[r].cands) /\ acq[r].cands # <<>>
      BY <1>4, AdmittedStep DEF AdmitCopy, RenditionInv, CandidateOK
    <2>2. Head(acq[r].cands).dev \notin Gate
      BY <1>4, RenditionAssumption DEF AdmitCopy, Current, Gate
    <2>3. TokensAreHeld'
      BY <1>4, <2>1, <2>2, PassesFree DEF AdmitCopy, RenditionInv, Admission
    <2> QED
      BY <1>4, <2>1, <2>3, TourStep DEF AdmitCopy, RenditionInv, TypeOK, Tour
  <1> QED
    BY <1>2, <1>3, <1>4

\* One that fails with its token gives it back.
LEMMA PrepareStepKeeps ==
  ASSUME RenditionInv, NEW r \in Req, Prepare(r)
  PROVE  RenditionInv'
  <1>1. acq[r].pc = "prepare" /\ acq[r].cands # <<>> /\ UNCHANGED <<ren, caller>>
    BY DEF Prepare, RenditionInv, CandidateOK, Admission
  <1>2. CASE acq' = [acq EXCEPT ![r].pc = "prime"] /\ UNCHANGED tokens
    <2>1. AcqStep(r, "prime", acq[r].cands)
      BY ZenonT(40), <1>2 DEF AcqStep, RenditionInv, TypeOK, AcqRec, Tour
    <2>2. TokensAreHeld'
      BY <1>1, <1>2, <2>1, InsideGate DEF RenditionInv, Admission
    <2> QED
      BY <1>1, <1>2, <2>1, <2>2, TourStep DEF RenditionInv, TypeOK, Tour
  <1>3. ASSUME NEW cat \in {"capability", "exhausted", "source_io"},
               Failed(r, cat), GiveToken(Current(r).dev)
        PROVE  RenditionInv'
    <2>1. PICK pc \in {"next", "failed"}, cands \in {Tail(acq[r].cands), <<>>} : AcqStep(r, pc, cands)
      BY <1>1, <1>3, FailedStep DEF RenditionInv, Category
    <2>2. TokensAreHeld' /\ tokens' \in [Gate -> Nat]
      BY <1>1, <1>3, <2>1, GivesToken DEF RenditionInv, Admission
    <2> QED
      BY <1>1, <2>1, <2>2, TourStep DEF RenditionInv, Tour
  <1> QED
    BY <1>2, <1>3 DEF Prepare

LEMMA NoAcqType == NoAcq \in AcqRec /\ NoAcq.pc = "idle" /\ NoAcq.cands = <<>>
  <1>1. <<>> \in Seq(Candidate)
    OBVIOUS
  <1> QED
    BY <1>1 DEF NoAcq, AcqRec, Category

LEMMA NoRenType == NoRen \in RenRec
  BY DEF NoRen, RenRec, Life

LEMMA PrimeKeeps ==
  ASSUME RenditionInv, NEW r \in Req, Prime(r)
  PROVE  RenditionInv'
  <1>1. acq[r].pc = "prime" /\ acq[r].cands # <<>> /\ caller' = caller
    BY DEF Prime, RenditionInv, CandidateOK, Admission
  <1>2. CASE /\ acq' = [acq EXCEPT ![r] = [NoAcq EXCEPT !.pc = "held", !.cands = <<Current(r)>>]]
             /\ ren' = [ren EXCEPT ![r] = [NoRen EXCEPT !.life = "committed"]]
             /\ UNCHANGED tokens
    <2> DEFINE a == [NoAcq EXCEPT !.pc = "held", !.cands = <<Current(r)>>]
               n == [NoRen EXCEPT !.life = "committed"]
    <2>1. Current(r) \in Candidate /\ <<Current(r)>> \in Seq(Candidate)
          /\ <<Current(r)>> # <<>> /\ Head(<<Current(r)>>) = Head(acq[r].cands)
      BY <1>1 DEF Current, RenditionInv, TypeOK, AcqRec
    <2>2. a \in AcqRec /\ a.pc = "held" /\ a.cands = <<Current(r)>>
      BY <2>1, NoAcqType DEF AcqRec
    <2>3. n \in RenRec /\ n.life = "committed" /\ ~n.released /\ ~n.closed /\ n.mu = None
      BY NoRenType DEF RenRec, NoRen, Life
    <2>4. AcqStep(r, "held", <<Current(r)>>)
      <3>1. acq' = [acq EXCEPT ![r] = a]
        BY <1>2
      <3> HIDE DEF a
      <3> QED
        BY <2>2, <3>1 DEF AcqStep, RenditionInv, TypeOK
    <2>5. ren' = [ren EXCEPT ![r] = n]
      BY <1>2
    <2> HIDE DEF a, n
    <2>6. TokensAreHeld'
      BY <1>1, <1>2, <2>1, <2>4, InsideGate DEF RenditionInv, Admission
    <2>7. TypeOK'
      BY ZenonT(40), <1>1, <1>2, <2>3, <2>4, <2>5 DEF RenditionInv, TypeOK, AcqStep
    <2>8. CandidateOK'
      BY <2>1, <2>4 DEF RenditionInv, CandidateOK, AcqStep
    <2>9. ren'[r] = n /\ \A q \in Req \ {r} : ren'[q] = ren[q]
      BY <2>5 DEF RenditionInv, TypeOK
    <2>10. \A c \in Caller : caller[c].ren # r /\ caller[c].ren \in Req \cup {None}
      BY <1>1 DEF RenditionInv, TypeOK, UnknownOK, Tour
    <2>11. UnknownOK'
      BY <1>1, <2>4, <2>9 DEF RenditionInv, UnknownOK, AcqStep, Tour
    <2>12. CallersOK'
      BY <1>1, <2>9, <2>10 DEF RenditionInv, CallersOK
    <2>13. OwnerOK'
      BY <2>3, <2>4, <2>9 DEF RenditionInv, OwnerOK, AcqStep
    <2> QED
      BY <2>6, <2>7, <2>8, <2>11, <2>12, <2>13 DEF RenditionInv
  <1>3. ASSUME NEW pc \in {"next", "failed"},
               acq' = [acq EXCEPT ![r].pc = pc, ![r].res = "invalid",
                                  ![r].cands = IF pc = "next" THEN Tail(@) ELSE <<>>],
               GiveToken(Current(r).dev), UNCHANGED ren
        PROVE  RenditionInv'
    <2> DEFINE cands == IF pc = "next" THEN Tail(acq[r].cands) ELSE <<>>
               a     == [acq[r] EXCEPT !.pc = pc, !.res = "invalid", !.cands = cands]
    <2>1. acq \in [Req -> AcqRec] /\ cands \in Seq(Candidate)
      BY <1>1 DEF RenditionInv, TypeOK, AcqRec
    <2>2. acq' = [acq EXCEPT ![r] = a]
      BY <1>3, <2>1
    <2>3. AcqStep(r, pc, cands)
      <3> HIDE DEF cands
      <3>1. a \in AcqRec /\ a.pc = pc /\ a.cands = cands
        BY <2>1 DEF AcqRec, Category, Tour
      <3> HIDE DEF a
      <3> QED
        BY <2>1, <2>2, <3>1 DEF AcqStep
    <2> HIDE DEF cands, a
    <2>4. TokensAreHeld' /\ tokens' \in [Gate -> Nat]
      BY <1>1, <1>3, <2>3, GivesToken DEF RenditionInv, Admission
    <2> QED
      BY <1>1, <1>3, <2>3, <2>4, TourStep DEF Tour
  <1> QED
    BY <1>2, <1>3 DEF Prime

-----------------------------------------------------------------------------
(* The rendition *)

LEMMA AcquireKeeps ==
  ASSUME RenditionInv, NEW r \in Req, NEW valid \in BOOLEAN, Acquire(r, valid)
  PROVE  RenditionInv'
  <1>1. /\ acq[r].pc = "idle" /\ UNCHANGED <<tokens, caller>>
        /\ \A c \in Caller : caller[c].ren # r
        /\ ren' = [ren EXCEPT ![r] = NoRen]
    BY DEF Acquire
  <1>2. PICK pc \in {"inventory", "failed"} : AcqStep(r, pc, acq[r].cands)
    <2>1. PICK pc \in {"inventory", "failed"}, res \in Category \cup {acq[r].res} :
            acq' = [acq EXCEPT ![r].pc = pc, ![r].res = res]
      BY DEF Acquire, Category
    <2> DEFINE a == [acq[r] EXCEPT !.pc = pc, !.res = res]
    <2>2. acq \in [Req -> AcqRec] /\ acq[r] \in AcqRec
      BY DEF RenditionInv, TypeOK
    <2>3. a \in AcqRec /\ a.pc = pc /\ a.cands = acq[r].cands
      BY <2>2 DEF AcqRec, Tour
    <2>4. acq' = [acq EXCEPT ![r] = a]
      BY <2>1
    <2> HIDE DEF a
    <2> QED
      BY <2>2, <2>3, <2>4 DEF AcqStep
  <1>3. TokensAreHeld'
    BY <1>1, <1>2, OutsideGate DEF RenditionInv, Admission
  <1>4. TypeOK'
    BY <1>1, <1>2, NoRenType DEF RenditionInv, TypeOK, AcqStep
  <1>5. CandidateOK'
    BY <1>2 DEF RenditionInv, CandidateOK, AcqStep, Admission
  <1>6. ren'[r] = NoRen /\ \A q \in Req \ {r} : ren'[q] = ren[q]
    BY <1>1 DEF RenditionInv, TypeOK
  <1>7. \A c \in Caller : caller[c].ren \in Req \cup {None}
    BY DEF RenditionInv, TypeOK
  <1>8. UnknownOK'
    BY <1>1, <1>2, <1>6 DEF RenditionInv, UnknownOK, AcqStep, NoRen
  <1>9. CallersOK'
    BY <1>1, <1>6, <1>7 DEF RenditionInv, CallersOK
  <1>10. OwnerOK'
    BY <1>2, <1>6 DEF RenditionInv, OwnerOK, AcqStep, NoRen
  <1> QED
    BY <1>3, <1>4, <1>5, <1>8, <1>9, <1>10 DEF RenditionInv

LEMMA ErrorReturnedKeeps ==
  ASSUME RenditionInv, NEW r \in Req, ErrorReturned(r)
  PROVE  RenditionInv'
  <1> USE DEF RenditionInv
  <1>1. AcqStep(r, "idle", <<>>)
    BY NoAcqType DEF ErrorReturned, AcqStep, TypeOK
  <1>2. TokensAreHeld'
    BY <1>1, OutsideGate DEF ErrorReturned, Admission
  <1>3. TypeOK'
    BY <1>1 DEF ErrorReturned, TypeOK, AcqStep
  <1>4. CandidateOK' /\ UnknownOK' /\ OwnerOK'
    BY <1>1 DEF ErrorReturned, CandidateOK, UnknownOK, OwnerOK, AcqStep, Admission, Tour
  <1>5. CallersOK'
    BY DEF ErrorReturned, CallersOK
  <1> QED
    BY <1>2, <1>3, <1>4, <1>5

LEMMA ReleaseKeeps ==
  ASSUME RenditionInv, NEW r \in Req, Release(r)
  PROVE  RenditionInv'
  <1> USE DEF RenditionInv
  <1>1. AcqStep(r, "releasing", acq[r].cands)
    BY DEF Release, AcqStep, TypeOK, AcqRec
  <1>2. TokensAreHeld'
    BY <1>1, InsideGate DEF Release, Admission, CandidateOK
  <1>3. TypeOK'
    BY <1>1 DEF Release, TypeOK, AcqStep
  <1>4. CandidateOK' /\ UnknownOK' /\ OwnerOK'
    BY <1>1 DEF Release, CandidateOK, UnknownOK, OwnerOK, AcqStep, Admission, Tour
  <1>5. CallersOK'
    BY DEF Release, CallersOK
  <1> QED
    BY <1>2, <1>3, <1>4, <1>5

LEMMA ReleaseEnterKeeps ==
  ASSUME RenditionInv, NEW r \in Req, ReleaseEnter(r)
  PROVE  RenditionInv'
  <1> USE RenditionAssumption DEF RenditionInv
  <1>1. AcqStep(r, "closing", acq[r].cands)
    BY ZenonT(40) DEF ReleaseEnter, AcqStep, TypeOK, AcqRec
  <1>2. TokensAreHeld'
    BY <1>1, InsideGate DEF ReleaseEnter, Admission, CandidateOK
  <1>3. /\ ren' \in [Req -> RenRec] /\ \A q \in Req \ {r} : ren'[q] = ren[q]
        /\ ren'[r].life = ren[r].life /\ ren'[r].mu = r /\ ren'[r].released
    <2> DEFINE n == [ren[r] EXCEPT !.mu = r, !.released = TRUE]
    <2>1. ren \in [Req -> RenRec] /\ ren' = [ren EXCEPT ![r] = n]
      BY DEF ReleaseEnter, TypeOK
    <2>2. /\ n \in RenRec /\ n.life = ren[r].life
          /\ n.mu = r /\ n.released
      BY <2>1 DEF RenRec
    <2> HIDE DEF n
    <2> QED
      BY <2>1, <2>2
  <1>4. TypeOK'
    BY <1>1, <1>3 DEF ReleaseEnter, TypeOK, AcqStep
  <1>5. CandidateOK' /\ UnknownOK' /\ OwnerOK'
    BY <1>1, <1>3 DEF ReleaseEnter, CandidateOK, UnknownOK, OwnerOK, AcqStep, Admission, Tour
  <1>6. \A c \in Caller : caller[c].pc = "run" => caller[c].ren # r
    BY DEF ReleaseEnter, CallersOK
  <1>7. \A c \in Caller : caller[c].ren \in Req \cup {None}
    BY DEF TypeOK
  <1>8. CallersOK'
    BY <1>3, <1>6, <1>7 DEF ReleaseEnter, CallersOK
  <1> QED
    BY <1>2, <1>4, <1>5, <1>8

LEMMA ReleaseLeaveKeeps ==
  ASSUME RenditionInv, NEW r \in Req, ReleaseLeave(r)
  PROVE  RenditionInv'
  <1> USE RenditionAssumption DEF RenditionInv
  <1>1. AcqStep(r, "idle", <<>>)
    BY NoAcqType DEF ReleaseLeave, AcqStep, TypeOK
  <1>2. TokensAreHeld' /\ tokens' \in [Gate -> Nat]
    BY <1>1, GivesToken DEF ReleaseLeave, Admission, CandidateOK
  <1>3. /\ ren' \in [Req -> RenRec] /\ \A q \in Req \ {r} : ren'[q] = ren[q]
        /\ ren'[r].life = ren[r].life /\ ren'[r].released = ren[r].released
    <2> DEFINE n == [ren[r] EXCEPT !.closed = TRUE, !.mu = None]
    <2>1. ren \in [Req -> RenRec] /\ ren' = [ren EXCEPT ![r] = n]
      BY DEF ReleaseLeave, TypeOK
    <2>2. /\ n \in RenRec /\ n.life = ren[r].life
          /\ n.released = ren[r].released
      BY <2>1 DEF RenRec
    <2> HIDE DEF n
    <2> QED
      BY <2>1, <2>2
  <1>4. TypeOK'
    BY <1>1, <1>2, <1>3 DEF ReleaseLeave, TypeOK, AcqStep
  <1>5. CandidateOK' /\ UnknownOK' /\ OwnerOK'
    BY <1>1, <1>3 DEF ReleaseLeave, CandidateOK, UnknownOK, OwnerOK, AcqStep, Admission, Tour
  <1>6. \A c \in Caller : caller[c].pc = "run" => caller[c].ren # r
    BY DEF ReleaseLeave, CallersOK, OwnerOK
  <1>7. \A c \in Caller : caller[c].ren \in Req \cup {None}
    BY DEF TypeOK
  <1>8. CallersOK'
    BY <1>3, <1>6, <1>7 DEF ReleaseLeave, CallersOK
  <1> QED
    BY <1>2, <1>4, <1>5, <1>8

\* Caller c goes to pc with rendition q.
CallStep(c, pc, q) ==
  /\ caller' \in [Caller -> [pc : {"idle", "lock", "run"}, ren : Req \cup {None}]]
  /\ caller'[c].pc = pc /\ caller'[c].ren = q
  /\ \A d \in Caller \ {c} : caller'[d] = caller[d]

LEMMA ReturnsStep ==
  ASSUME TypeOK, NEW c \in Caller, Returns(c)
  PROVE  CallStep(c, "idle", None)
  BY DEF TypeOK, Returns, CallStep

\* Requests and gates do not depend on the callers.
LEMMA CallerStep ==
  ASSUME RenditionInv, UNCHANGED <<tokens, acq>>
  PROVE  CandidateOK' /\ TokensAreHeld'
  BY DEF RenditionInv, CandidateOK, TokensAreHeld, Holders, At, Current

LEMMA SegmentKeeps ==
  ASSUME RenditionInv, NEW c \in Caller, NEW r \in Req, Segment(c, r)
  PROVE  RenditionInv'
  <1> USE RenditionAssumption DEF RenditionInv
  <1>1. CallStep(c, "lock", r) /\ UNCHANGED <<tokens, acq, ren>>
    BY DEF Segment, TypeOK, CallStep
  <1>2. TypeOK'
    BY <1>1 DEF TypeOK, CallStep
  <1>3. CandidateOK' /\ TokensAreHeld'
    BY <1>1, CallerStep
  <1>4. UnknownOK'
    BY <1>1 DEF Segment, UnknownOK, CallStep
  <1>5. CallersOK'
    BY <1>1 DEF Segment, CallersOK, CallStep
  <1>6. OwnerOK'
    BY <1>1 DEF OwnerOK
  <1> QED
    BY <1>2, <1>3, <1>4, <1>5, <1>6

LEMMA AtRendition ==
  ASSUME RenditionInv, NEW c \in Caller, caller[c].pc # "idle"
  PROVE  /\ caller[c].ren \in Req /\ ren[caller[c].ren].life \in Life \ {"none"}
         /\ acq[caller[c].ren].pc \notin Tour
  <1>1. caller[c].ren \in Req
    BY DEF RenditionInv, TypeOK, CallersOK
  <1> QED
    BY <1>1, RenditionAssumption DEF RenditionInv, TypeOK, RenRec, CallersOK, UnknownOK

LEMMA SegmentEnterKeeps ==
  ASSUME RenditionInv, NEW c \in Caller, SegmentEnter(c)
  PROVE  RenditionInv'
  <1> USE RenditionAssumption DEF RenditionInv
  <1>1. PICK r \in Req : r = caller[c].ren /\ ren[r].life \in Life \ {"none"} /\ acq[r].pc \notin Tour
    BY AtRendition DEF SegmentEnter
  <1>2. caller[c].pc = "lock" /\ ren[r].mu = None /\ UNCHANGED <<tokens, acq>>
    BY <1>1 DEF SegmentEnter
  <1>3. CandidateOK' /\ TokensAreHeld'
    BY <1>2, CallerStep
  <1>4. CASE Returns(c) /\ UNCHANGED ren
    <2>1. CallStep(c, "idle", None)
      BY <1>4, ReturnsStep
    <2>2. TypeOK' /\ OwnerOK'
      BY <1>2, <1>4, <2>1 DEF TypeOK, OwnerOK, CallStep
    <2>3. UnknownOK' /\ CallersOK'
      BY <1>2, <1>4, <2>1 DEF UnknownOK, CallersOK, CallStep
    <2> QED
      BY <1>3, <2>2, <2>3
  <1>5. CASE /\ ~(ren[r].released \/ ren[r].life \in {"failed", "complete"})
             /\ ren' = [ren EXCEPT ![r].mu = c, ![r].life = transition(@, "running")]
             /\ caller' = [caller EXCEPT ![c].pc = "run"]
    <2>1. transition(ren[r].life, "running") = "running"
      BY <1>1, <1>5 DEF transition, Life
    <2>2. CallStep(c, "run", r)
      BY <1>1, <1>5 DEF TypeOK, CallStep
    <2> DEFINE n == [ren[r] EXCEPT !.mu = c, !.life = transition(@, "running")]
    <2>3. ren \in [Req -> RenRec] /\ ren' = [ren EXCEPT ![r] = n]
      BY <1>5 DEF TypeOK
    <2>4. /\ n \in RenRec /\ n.life = "running" /\ n.mu = c
          /\ n.released = ren[r].released /\ n.closed = ren[r].closed
      BY <2>1, <2>3 DEF RenRec, Life
    <2> HIDE DEF n
    <2>5. ren'[r] = n /\ ren' \in [Req -> RenRec] /\ \A q \in Req \ {r} : ren'[q] = ren[q]
      BY <2>3, <2>4
    <2>6. TypeOK'
      BY <1>2, <2>2, <2>5 DEF TypeOK, CallStep
    <2>7. UnknownOK'
      BY <1>1, <1>2, <2>2, <2>5 DEF UnknownOK, CallStep
    <2>8. OwnerOK'
      BY SMTT(20), <1>1, <1>2, <1>5, <2>4, <2>5 DEF OwnerOK
    <2>9. CallersOK'
      <3>1. \A d \in Caller \ {c} : caller[d].pc = "run" => caller[d].ren # r
        BY <1>2 DEF CallersOK
      <3>2. \A d \in Caller : caller[d].ren \in Req \cup {None}
        BY DEF TypeOK
      <3>3. ~n.released
        BY <1>5, <2>4
      <3>4. ASSUME NEW d \in Caller \ {c}
            PROVE  /\ caller'[d].pc = "idle" <=> caller'[d].ren = None
                   /\ caller'[d].ren # None => ren'[caller'[d].ren].life # "none"
                   /\ caller'[d].pc = "run" => /\ ren'[caller'[d].ren].mu = d
                                               /\ ren'[caller'[d].ren].life = "running"
                                               /\ ~ren'[caller'[d].ren].released
        BY <2>2, <2>4, <2>5, <3>1, <3>2 DEF CallersOK, CallStep
      <3> QED
        BY <2>2, <2>4, <2>5, <3>3, <3>4 DEF CallersOK, CallStep
    <2> QED
      BY <1>3, <2>6, <2>7, <2>8, <2>9
  <1> QED
    BY <1>1, <1>4, <1>5 DEF SegmentEnter

LEMMA SegmentLeaveKeeps ==
  ASSUME RenditionInv, NEW c \in Caller, SegmentLeave(c)
  PROVE  RenditionInv'
  <1> USE RenditionAssumption DEF RenditionInv
  <1>1. PICK r \in Req : r = caller[c].ren /\ ren[r].life \in Life \ {"none"} /\ acq[r].pc \notin Tour
    BY AtRendition DEF SegmentLeave
  <1>2. /\ caller[c].pc = "run" /\ UNCHANGED <<tokens, acq>>
        /\ ren[r].mu = c /\ CallStep(c, "idle", None)
    BY <1>1, ReturnsStep DEF SegmentLeave, CallersOK
  <1>3. CandidateOK' /\ TokensAreHeld'
    BY <1>2, CallerStep
  <1>4. PICK life \in Life \ {"none"} : ren' = [ren EXCEPT ![r].mu = None, ![r].life = life]
    <2>1. CASE ren' = [ren EXCEPT ![r].mu = None]
      <3>1. ren \in [Req -> RenRec] /\ ren[r] \in RenRec
        BY DEF TypeOK
      <3>2. PICK n : n = [ren[r] EXCEPT !.mu = None]
        OBVIOUS
      <3>3. n = [ren[r] EXCEPT !.mu = None, !.life = ren[r].life]
        BY <3>1, <3>2 DEF RenRec
      <3>4. ren' = [ren EXCEPT ![r] = n]
        BY <2>1, <3>1, <3>2
      <3>5. ren' = [ren EXCEPT ![r].mu = None, ![r].life = ren[r].life]
        BY <3>1, <3>3, <3>4
      <3> QED
        BY <1>1, <3>5
    <2>2. ASSUME NEW end \in {"complete", "failed"},
                 ren' = [ren EXCEPT ![r].mu = None, ![r].life = transition(@, end)]
          PROVE  \E life \in Life \ {"none"} : ren' = [ren EXCEPT ![r].mu = None, ![r].life = life]
      <3>1. transition(ren[r].life, end) \in Life \ {"none"}
        BY <1>1 DEF transition, Life
      <3> QED
        BY <2>2, <3>1
    <2> QED
      BY <1>1, <2>1, <2>2 DEF SegmentLeave
  <1> DEFINE n == [ren[r] EXCEPT !.mu = None, !.life = life]
  <1>5. ren \in [Req -> RenRec] /\ ren' = [ren EXCEPT ![r] = n]
    BY <1>4 DEF TypeOK
  <1>6. /\ n \in RenRec /\ n.life # "none"
        /\ n.released = ren[r].released /\ n.closed = ren[r].closed
    BY <1>5 DEF RenRec
  <1> HIDE DEF n
  <1>7. ren'[r] = n /\ ren' \in [Req -> RenRec] /\ \A q \in Req \ {r} : ren'[q] = ren[q]
    BY <1>5, <1>6
  <1>8. TypeOK'
    BY <1>2, <1>7 DEF TypeOK, CallStep
  <1>9. UnknownOK'
    BY <1>1, <1>2, <1>7 DEF UnknownOK, CallStep
  <1>10. OwnerOK'
    BY <1>1, <1>2, <1>6, <1>7 DEF OwnerOK
  <1>11. CallersOK'
    <2>1. \A d \in Caller \ {c} : caller[d].pc = "run" => caller[d].ren # r
      BY <1>2 DEF CallersOK
    <2>2. \A d \in Caller : caller[d].ren \in Req \cup {None}
      BY DEF TypeOK
    <2> QED
      BY <1>2, <1>6, <1>7, <2>1, <2>2 DEF CallersOK, CallStep
  <1> QED
    BY <1>3, <1>8, <1>9, <1>10, <1>11

-----------------------------------------------------------------------------

LEMMA InitInv == Init => RenditionInv
  <1> SUFFICES ASSUME Init PROVE RenditionInv
    OBVIOUS
  <1>1. TypeOK
    BY NoAcqType, NoRenType DEF Init, TypeOK
  <1>2. \A r \in Req : acq[r].pc = "idle" /\ ren[r].closed = FALSE
    BY NoAcqType DEF Init, NoRen
  <1>3. TokensAreHeld
    <2>1. \A g \in Gate : Holders(g) = {}
      BY <1>2 DEF Holders
    <2> QED
      BY <2>1, FS_EmptySet, LimitType DEF TokensAreHeld, Init
  <1>4. CandidateOK /\ UnknownOK /\ OwnerOK
    BY <1>2 DEF CandidateOK, UnknownOK, OwnerOK, Admission, Tour
  <1>5. CallersOK
    BY DEF Init, CallersOK
  <1> QED
    BY <1>1, <1>3, <1>4, <1>5 DEF RenditionInv

LEMMA StepInv == RenditionInv /\ [Next]_vars => RenditionInv'
  <1> SUFFICES ASSUME RenditionInv, [Next]_vars PROVE RenditionInv'
    OBVIOUS
  <1>1. ASSUME NEW r \in Req, Touring(r) PROVE RenditionInv'
    BY <1>1, InventoryKeeps, CompareKeeps, NextCandidateKeeps, AdmitKeeps, PrepareStepKeeps,
       PrimeKeeps DEF Touring
  <1>2. ASSUME NEW r \in Req,
               \/ \E valid \in BOOLEAN : Acquire(r, valid)
               \/ ErrorReturned(r) \/ Release(r) \/ ReleaseEnter(r) \/ ReleaseLeave(r)
        PROVE  RenditionInv'
    BY <1>2, AcquireKeeps, ErrorReturnedKeeps, ReleaseKeeps, ReleaseEnterKeeps, ReleaseLeaveKeeps
  <1>3. ASSUME NEW c \in Caller,
               (\E r \in Req : Segment(c, r)) \/ SegmentEnter(c) \/ SegmentLeave(c)
        PROVE  RenditionInv'
    BY <1>3, SegmentKeeps, SegmentEnterKeeps, SegmentLeaveKeeps
  <1>4. CASE UNCHANGED vars
    <2>1. CandidateOK' /\ TokensAreHeld'
      BY <1>4, CallerStep DEF vars
    <2> QED
      BY <1>4, <2>1 DEF vars, RenditionInv, TypeOK, UnknownOK, CallersOK, OwnerOK
  <1> QED
    BY <1>1, <1>2, <1>3, <1>4 DEF Next

LEMMA AlwaysInv == Spec => []RenditionInv
  BY InitInv, StepInv, PTL DEF Spec

\* Every token a gate has given out is held by a request on its tour or by a rendition not yet
\* released, and no gate exceeds its limit, for any requests, devices and limits (admit, Acquire,
\* Release).
THEOREM NoTokenLeaks == Spec => []TokensAreHeld
  <1>1. RenditionInv => TokensAreHeld
    BY DEF RenditionInv
  <1> QED
    BY <1>1, AlwaysInv, PTL

\* Callers never share a pipeline, never use one that is closed or being closed, and never run a
\* generation that has ended, for any callers (Segment, Release).
THEOREM PipelineIsGuarded == Spec => []PipelineIsSafe
  <1>1. ASSUME RenditionInv, NEW r \in Req
        PROVE  LET users == {c \in Caller : caller[c].pc = "run" /\ caller[c].ren = r} IN
                 /\ Cardinality(users) <= 1
                 /\ acq[r].pc = "closing" \/ ren[r].closed => users = {}
                 /\ users # {} => ren[r].life = "running"
    <2> DEFINE users == {c \in Caller : caller[c].pc = "run" /\ caller[c].ren = r}
    <2>1. \A c \in users : ren[r].mu = c /\ ren[r].life = "running" /\ ~ren[r].released
      BY <1>1 DEF RenditionInv, CallersOK
    <2>2. users = {} \/ \E c \in users : users = {c}
      BY <2>1
    <2> HIDE DEF users
    <2>3. Cardinality(users) <= 1
      BY <2>2, FS_EmptySet, FS_Singleton
    <2>4. acq[r].pc = "closing" \/ ren[r].closed => users = {}
      BY <1>1, <2>1 DEF RenditionInv, OwnerOK
    <2>5. users # {} => ren[r].life = "running"
      BY <2>1
    <2> QED
      BY <2>3, <2>4, <2>5 DEF users
  <1>2. RenditionInv => PipelineIsSafe
    BY <1>1 DEF PipelineIsSafe
  <1> QED
    BY <1>2, AlwaysInv, PTL
=============================================================================
