----------------------------- MODULE Rendition -----------------------------
(***************************************************************************)
(* The rendition manager and its admission gates (media/rendition): a      *)
(* request tours the candidate pipelines, from copying the stream to the   *)
(* CPU, takes a token of the candidate's gate, prepares and primes it, and *)
(* falls back on the next one until it can commit a generation, which      *)
(* callers then read segments from while its owner may release it.         *)
(*                                                                         *)
(* Providers are external: an inventory is one of Inventories, Prepare,    *)
(* PrimedOutput and the pipeline's Segment succeed or fail in the ways     *)
(* their error categories allow.  A rendition goes by the name of its      *)
(* request, which starts again once nobody is at the old one.  Init and    *)
(* Descriptor only read, and a second Release does nothing (sync.Once).    *)
(***************************************************************************)
EXTENDS Integers, FiniteSets, Sequences

CONSTANTS
  Req,                    \* callers of Manager.Acquire
  Caller,                 \* callers of Segment
  Hardware,               \* provider/device identities
  Inventories,            \* what the providers may find: sets of devices, "copy" and "cpu"
  deviceRank,             \* DeviceOrder: device -> place, empty for no allow-list
  score,                  \* device.PerformanceScore
  perDeviceConcurrency,
  cpuConcurrency,
  None

Devices == Hardware \cup {"copy", "cpu"}

ASSUME RenditionAssumption ==
  /\ IsFiniteSet(Req) /\ IsFiniteSet(Hardware) /\ None \notin Req \cup Caller /\ Req \cap Caller = {}
  /\ {"copy", "cpu"} \cap Hardware = {}
  /\ Inventories \subseteq SUBSET Devices
  /\ DOMAIN deviceRank \subseteq Hardware /\ deviceRank \in [DOMAIN deviceRank -> Nat]
  /\ score \in [Hardware -> Nat]
  /\ perDeviceConcurrency \in Nat \ {0} /\ cpuConcurrency \in Nat \ {0}

VARIABLES
  tokens,     \* gate -> len(admissionGate.tokens)
  acq,        \* the requests
  ren,        \* managedRendition, by request
  caller      \* the callers of Segment

vars == <<tokens, acq, ren, caller>>

Gate  == Hardware \cup {"cpu"}
Limit == [g \in Gate |-> IF g = "cpu" THEN cpuConcurrency ELSE perDeviceConcurrency]

Candidate == [dev : Devices, mode : {"copy", "hardware", "software"}]

\* FailureCategory: device_unavailable, source_capability_mismatch and mux_failure are treated alike.
Category == {"capability", "exhausted", "timeout", "invalid", "source_io", "cancelled"}
canFallbackBeforeCommit(cat) == cat \in {"capability", "exhausted", "timeout", "invalid"}

NoAcq == [pc |-> "idle", cands |-> <<>>, i |-> 1, j |-> 1, contention |-> FALSE, res |-> "capability"]
NoRen == [life |-> "none", released |-> FALSE, closed |-> FALSE, mu |-> None]

Tour == {"inventory", "sort", "next", "admit", "prepare", "prime"}
Life == {"none", "committed", "running", "complete", "failed"}

AcqRec == [pc : Tour \cup {"idle", "held", "releasing", "closing", "failed"},
           cands : Seq(Candidate), i : Nat, j : Nat, contention : BOOLEAN, res : Category]
RenRec == [life : Life, released : BOOLEAN, closed : BOOLEAN, mu : Req \cup Caller \cup {None}]

TypeOK ==
  /\ tokens \in [Gate -> Nat]
  /\ acq \in [Req -> AcqRec]
  /\ ren \in [Req -> RenRec]
  /\ caller \in [Caller -> [pc : {"idle", "lock", "run"}, ren : Req \cup {None}]]

Init ==
  /\ tokens = [g \in Gate |-> 0]
  /\ acq = [r \in Req |-> NoAcq]
  /\ ren = [r \in Req |-> NoRen]
  /\ caller = [c \in Caller |-> [pc |-> "idle", ren |-> None]]

-----------------------------------------------------------------------------
(* The candidates *)

\* Least used first, then by the configured order or, without one, by score.
Before(d, e) ==
  \/ tokens[d] < tokens[e]
  \/ /\ tokens[d] = tokens[e]
     /\ IF DOMAIN deviceRank # {} THEN deviceRank[d] < deviceRank[e] ELSE score[d] > score[e]

\* The orders in which the providers may name some devices.
Orders(S) == {s \in [1..Cardinality(S) -> S] :
                \A i, j \in 1..Cardinality(S) : i < j => s[i] # s[j]}

Allowed(inv) == {d \in inv \cap Hardware : DOMAIN deviceRank # {} => d \in DOMAIN deviceRank}

Each(s, mode) == [i \in DOMAIN s |-> [dev |-> s[i], mode |-> mode]]
Only(inv, d, mode) == IF d \in inv THEN << [dev |-> d, mode |-> mode] >> ELSE <<>>

\* Acquire: a contract that does not validate is refused before anything else.
Acquire(r, valid) ==
  /\ acq[r].pc = "idle"
  /\ \A c \in Caller : caller[c].ren # r
  /\ acq' = [acq EXCEPT ![r].pc = IF valid THEN "inventory" ELSE "failed",
                        ![r].res = IF valid THEN @ ELSE "invalid"]
  /\ ren' = [ren EXCEPT ![r] = NoRen]
  /\ UNCHANGED <<tokens, caller>>

\* The places in a list of candidates where a sort compares one with the one before it: the lists
\* for hardware decoding and for uploading, each on its own.
Places(all) == {k \in 2..Len(all) : /\ {all[k - 1].dev, all[k].dev} \subseteq Hardware
                                    /\ all[k - 1].mode = all[k].mode}

\* The sorts go on behind place i, or are through.
SortFrom(r, all, i) ==
  LET later == {k \in Places(all) : k > i} IN
  \/ /\ later = {}
     /\ acq' = [acq EXCEPT ![r].pc = "next", ![r].cands = all, ![r].i = 1, ![r].j = 1]
  \/ \E k \in later :
       /\ \A l \in later : k <= l
       /\ acq' = [acq EXCEPT ![r].pc = "sort", ![r].cands = all, ![r].i = k, ![r].j = k]

\* candidates: the inventory. Copying comes first, then the devices that decode too, then the same
\* devices after decoding in software, and the CPU last.
Inventory(r, inv) ==
  /\ acq[r].pc = "inventory"
  /\ \E s \in Orders(Allowed(inv)) :
       SortFrom(r, Only(inv, "copy", "copy") \o Each(s, "hardware") \o Each(s, "software")
                   \o Only(inv, "cpu", "software"), 1)
  /\ UNCHANGED <<tokens, ren, caller>>

\* candidates: one comparison of the stable sorts (by insertion, up to twenty devices), with the
\* loads as they are at that moment.
Compare(r) ==
  LET all == acq[r].cands
      j   == acq[r].j
  IN
  /\ acq[r].pc = "sort"
  /\ IF j \in Places(all) /\ Before(all[j].dev, all[j - 1].dev)
     THEN acq' = [acq EXCEPT ![r].cands = [all EXCEPT ![j] = all[j - 1], ![j - 1] = all[j]],
                             ![r].j = j - 1]
     ELSE SortFrom(r, all, acq[r].i)
  /\ UNCHANGED <<tokens, ren, caller>>

-----------------------------------------------------------------------------
(* The tour *)

Current(r) == Head(acq[r].cands)

\* What the request does about a failure of its current candidate.
Failed(r, cat) ==
  LET hw == Current(r).dev \in Hardware IN
  acq' = [acq EXCEPT ![r].pc = IF canFallbackBeforeCommit(cat) THEN "next" ELSE "failed",
                     ![r].cands = IF canFallbackBeforeCommit(cat) THEN Tail(@) ELSE <<>>,
                     ![r].contention = @ \/ (hw /\ cat = "exhausted"),
                     ![r].res = cat]

TakeToken(g) == tokens' = [tokens EXCEPT ![g] = @ + 1]

\* releaseAdmission; copying took nothing.
GiveToken(d) == tokens' = IF d = "copy" THEN tokens ELSE [tokens EXCEPT ![d] = @ - 1]

\* The head of the loop: no candidate left, or only the CPU while hardware was busy.
NextCandidate(r) ==
  /\ acq[r].pc = "next"
  /\ \/ /\ acq[r].cands = <<>>
        /\ acq' = [acq EXCEPT ![r].pc = "failed"]
     \/ /\ acq[r].cands # <<>> /\ Current(r).dev = "cpu" /\ acq[r].contention
        /\ acq' = [acq EXCEPT ![r].pc = "failed", ![r].cands = <<>>, ![r].res = "exhausted"]
     \/ /\ acq[r].cands # <<>> /\ ~(Current(r).dev = "cpu" /\ acq[r].contention)
        /\ acq' = [acq EXCEPT ![r].pc = "admit"]
  /\ UNCHANGED <<tokens, ren, caller>>

Admitted(r) == acq' = [acq EXCEPT ![r].pc = "prepare"]

\* admit, hardware: a token now or not at all.
TryAcquire(r) ==
  LET d == Current(r).dev IN
  /\ acq[r].pc = "admit" /\ d \in Hardware
  /\ \/ tokens[d] < Limit[d] /\ TakeToken(d) /\ Admitted(r)
     \/ tokens[d] >= Limit[d] /\ Failed(r, "exhausted") /\ UNCHANGED tokens
  /\ UNCHANGED <<ren, caller>>

\* Mutant: with neither a time limit nor the context.
AcquireCpuForever(r) ==
  /\ acq[r].pc = "admit" /\ Current(r).dev = "cpu"
  /\ tokens["cpu"] < Limit["cpu"] /\ TakeToken("cpu") /\ Admitted(r)
  /\ UNCHANGED <<ren, caller>>

\* admit, CPU: the select takes a case that is ready, a token, the timer or the context's end, which
\* may come at any time.
AcquireCpu(r) ==
  /\ acq[r].pc = "admit" /\ Current(r).dev = "cpu"
  /\ \/ tokens["cpu"] < Limit["cpu"] /\ TakeToken("cpu") /\ Admitted(r)
     \/ Failed(r, "cancelled") /\ UNCHANGED tokens
     \/ Failed(r, "timeout") /\ UNCHANGED tokens
  /\ UNCHANGED <<ren, caller>>

\* admit, copy: nothing to take.
AdmitCopy(r) ==
  /\ acq[r].pc = "admit" /\ Current(r).dev = "copy"
  /\ Admitted(r)
  /\ UNCHANGED <<tokens, ren, caller>>

\* Mutant: the token is kept if the tour goes on.
PrepareKeeps(r) ==
  /\ acq[r].pc = "prepare"
  /\ \/ acq' = [acq EXCEPT ![r].pc = "prime"] /\ UNCHANGED tokens
     \/ \E cat \in {"capability", "exhausted", "source_io"} :
          /\ Failed(r, cat)
          /\ IF canFallbackBeforeCommit(cat) THEN UNCHANGED tokens ELSE GiveToken(Current(r).dev)
  /\ UNCHANGED <<ren, caller>>

\* provider.Prepare (external), and the token back if it fails. To be cancelled is final like a
\* source that cannot be read.
Prepare(r) ==
  /\ acq[r].pc = "prepare"
  /\ \/ acq' = [acq EXCEPT ![r].pc = "prime"] /\ UNCHANGED tokens
     \/ \E cat \in {"capability", "exhausted", "source_io"} :
          Failed(r, cat) /\ GiveToken(Current(r).dev)
  /\ UNCHANGED <<ren, caller>>

\* Primed and committed; or the output is not what was asked for and the next candidate is tried;
\* or no generation id can be had. The pipeline is closed and the token given back in both cases.
Prime(r) ==
  /\ acq[r].pc = "prime"
  /\ \/ /\ acq' = [acq EXCEPT ![r] = [NoAcq EXCEPT !.pc = "held", !.cands = <<Current(r)>>]]
        /\ ren' = [ren EXCEPT ![r] = [NoRen EXCEPT !.life = "committed"]]
        /\ UNCHANGED tokens
     \/ \E pc \in {"next", "failed"} :
          /\ acq' = [acq EXCEPT ![r].pc = pc, ![r].res = "invalid",
                                ![r].cands = IF pc = "next" THEN Tail(@) ELSE <<>>]
          /\ GiveToken(Current(r).dev)
          /\ UNCHANGED ren
  /\ UNCHANGED caller

\* The caller of Acquire has its error.
ErrorReturned(r) ==
  /\ acq[r].pc = "failed"
  /\ acq' = [acq EXCEPT ![r] = NoAcq]
  /\ UNCHANGED <<tokens, ren, caller>>

-----------------------------------------------------------------------------
(* The rendition *)

\* generationLifecycle.transition: an invalid one leaves the state.
transition(life, next) ==
  IF \/ life = "committed" /\ next \in {"running", "failed"}
     \/ life = "running" /\ next \in {"complete", "failed"}
  THEN next ELSE life

\* Segment waits for the pipeline.
Segment(c, r) ==
  /\ caller[c].pc = "idle" /\ ren[r].life # "none"
  /\ caller' = [caller EXCEPT ![c] = [pc |-> "lock", ren |-> r]]
  /\ UNCHANGED <<tokens, acq, ren>>

Returns(c) == caller' = [caller EXCEPT ![c] = [pc |-> "idle", ren |-> None]]

\* With the pipeline to itself: refused if released or ended, else running.
SegmentEnter(c) ==
  LET r == caller[c].ren
      refused == ren[r].released \/ ren[r].life \in {"failed", "complete"}
  IN
  /\ caller[c].pc = "lock" /\ ren[r].mu = None
  /\ \/ refused /\ Returns(c) /\ UNCHANGED ren
     \/ /\ ~refused
        /\ ren' = [ren EXCEPT ![r].mu = c, ![r].life = transition(@, "running")]
        /\ caller' = [caller EXCEPT ![c].pc = "run"]
  /\ UNCHANGED <<tokens, acq>>

\* pipeline.Segment has returned: data, cancelled, the end of the source, or a failure.
SegmentLeave(c) ==
  LET r == caller[c].ren IN
  /\ caller[c].pc = "run"
  /\ \/ ren' = [ren EXCEPT ![r].mu = None]
     \/ \E end \in {"complete", "failed"} :
          ren' = [ren EXCEPT ![r].mu = None, ![r].life = transition(@, end)]
  /\ Returns(c)
  /\ UNCHANGED <<tokens, acq>>

\* Release, at any time, waits for the pipeline too ...
Release(r) ==
  /\ acq[r].pc = "held"
  /\ acq' = [acq EXCEPT ![r].pc = "releasing"]
  /\ UNCHANGED <<tokens, ren, caller>>

\* Mutant: it does not.
ReleaseEnterUnlocked(r) ==
  /\ acq[r].pc = "releasing"
  /\ acq' = [acq EXCEPT ![r].pc = "closing"]
  /\ ren' = [ren EXCEPT ![r].released = TRUE]
  /\ UNCHANGED <<tokens, caller>>

ReleaseEnter(r) ==
  /\ acq[r].pc = "releasing" /\ ren[r].mu = None
  /\ acq' = [acq EXCEPT ![r].pc = "closing"]
  /\ ren' = [ren EXCEPT ![r].mu = r, ![r].released = TRUE]
  /\ UNCHANGED <<tokens, caller>>

\* ... then closes it and gives the token back.
ReleaseLeave(r) ==
  /\ acq[r].pc = "closing"
  /\ acq' = [acq EXCEPT ![r] = NoAcq]
  /\ ren' = [ren EXCEPT ![r].closed = TRUE, ![r].mu = None]
  /\ GiveToken(Current(r).dev)
  /\ UNCHANGED caller

-----------------------------------------------------------------------------

\* The manager's own steps.
Touring(r) ==
  \/ \E inv \in Inventories : Inventory(r, inv)
  \/ Compare(r) \/ NextCandidate(r)
  \/ TryAcquire(r) \/ AcquireCpu(r) \/ AdmitCopy(r)
  \/ Prepare(r) \/ Prime(r)

Next ==
  \/ \E r \in Req :
       \/ \E valid \in BOOLEAN : Acquire(r, valid)
       \/ Touring(r) \/ ErrorReturned(r)
       \/ Release(r) \/ ReleaseEnter(r) \/ ReleaseLeave(r)
  \/ \E c \in Caller :
       \/ \E r \in Req : Segment(c, r)
       \/ SegmentEnter(c) \/ SegmentLeave(c)

Spec == Init /\ [][Next]_vars

\* Goroutines run, the pipelines return, and a mutex is handed to whoever has waited long enough.
LiveSpec ==
  /\ Spec
  /\ \A r \in Req : WF_vars(Touring(r)) /\ SF_vars(ReleaseEnter(r)) /\ WF_vars(ReleaseLeave(r))
  /\ \A c \in Caller : WF_vars(SegmentLeave(c))

-----------------------------------------------------------------------------
(* Properties *)

\* Who is at a gate: the request whose current candidate is admitted there.
At(r, g) == acq[r].cands # <<>> /\ Current(r).dev = g
Holders(g) == {r \in Req : acq[r].pc \in {"prepare", "prime", "held", "releasing", "closing"} /\ At(r, g)}

\* Every token taken belongs to a request that is preparing or to a rendition not yet released, and
\* no gate gives out more than it has: no failure, mismatch or cancellation on the tour leaks a
\* token or returns one twice (admit, Acquire's releaseAdmission calls, Release).
TokensAreHeld == \A g \in Gate : tokens[g] = Cardinality(Holders(g)) /\ tokens[g] <= Limit[g]

\* The pipeline has one user at a time, is never used once closed and never closed in use, and once
\* the generation has ended nobody runs it again, those who were already waiting for it included
\* (pipelineMu and the checks of Segment and Release).
PipelineIsSafe ==
  \A r \in Req : LET users == {c \in Caller : caller[c].pc = "run" /\ caller[c].ren = r} IN
    /\ Cardinality(users) <= 1
    /\ acq[r].pc = "closing" \/ ren[r].closed => users = {}
    /\ users # {} => ren[r].life = "running"

\* Every request gets a rendition or an error, although those who hold one may keep it for ever,
\* and a released rendition does give its token back, whatever its callers are doing (Acquire,
\* Release).
ToursEnd ==
  \A r \in Req : /\ acq[r].pc \in Tour ~> acq[r].pc \in {"held", "failed"}
                 /\ acq[r].pc = "releasing" ~> acq[r].pc = "idle"
=============================================================================
