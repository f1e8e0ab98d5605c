-------------------------- MODULE LifecycleProofs --------------------------
(***************************************************************************)
(* What Lifecycle promises of teardowns, caches and watched torrents, for  *)
(* any torrents, sessions, requests and any times to live.                 *)
(***************************************************************************)
EXTENDS Lifecycle, FiniteSetTheorems, TLAPS

\* The reaper and a handler at work have a torrent in hand.
ActorsOK ==
  /\ reaper.pc \in {"touch", "count", "claim"} => reaper.h \in Hash
  /\ \A q \in Request : req[q].pc # "idle" => req[q].h \in Hash

Active(g) == td[g].pc # "none"

\* A mark is there for each teardown, no two teardowns share one, and each mark has a teardown.
MarksOK ==
  /\ \A g \in Teardown : Active(g) => td[g].h \in dropping
  /\ \A g, k \in Teardown : Active(g) /\ Active(k) /\ td[g].h = td[k].h => g = k
  /\ \A h \in dropping : \E g \in Teardown : Active(g) /\ td[g].h = h

\* Once the client has dropped the torrent, metadata can only come with a new cache.
ReopenedOK == \A g \in Teardown : td[g].pc = "clear" /\ td[g].h \in info => td[g].h \in caches

\* The inductive invariant.
LifeInv == TypeOK /\ ActorsOK /\ MarksOK /\ ReopenedOK /\ ResolvedHasCache /\ WatchedIsSpared

-----------------------------------------------------------------------------
(* Types *)

\* An age that has passed its limit stays there (Wake).
LEMMA OlderType ==
  ASSUME NEW n \in Nat, NEW a \in Age(n)
  PROVE  Older(a, n) \in Age(n)
BY DEF Older, Age

\* The values a variable starts from and returns to.
LEMMA Blanks ==
  /\ NoSession \in SessionRec
  /\ NoEntry \in EntryRec
  /\ Asleep \in ReaperRec
  /\ NoReq \in ReqRec
  /\ NoTd \in TdRec
BY LifecycleAssumption
   DEF NoSession, NoEntry, Asleep, NoReq, NoTd, SessionRec, EntryRec, ReaperRec, ReqRec, TdRec,
       Age, Modes

\* A handler's step keeps the types of the handlers (Start, Next_, Return).
LEMMA ReqType ==
  ASSUME NEW q \in Request, req \in [Request -> ReqRec]
  PROVE  /\ \A pc \in {"wait", "resolve", "remove"}, h \in Hash, d \in BOOLEAN :
              Start(q, pc, h, d) => req' \in [Request -> ReqRec]
         /\ \A pc \in {"seen", "upsert", "disk"} : Next_(q, pc) => req' \in [Request -> ReqRec]
         /\ Return(q) => req' \in [Request -> ReqRec]
<1>1. ASSUME NEW pc \in {"wait", "resolve", "remove"}, NEW h \in Hash, NEW d \in BOOLEAN,
             Start(q, pc, h, d)
      PROVE  req' \in [Request -> ReqRec]
  <2>1. [pc |-> pc, h |-> h, disk |-> d] \in ReqRec
    BY DEF ReqRec
  <2> QED BY <2>1, <1>1 DEF Start
<1>2. ASSUME NEW pc \in {"seen", "upsert", "disk"}, Next_(q, pc)
      PROVE  req' \in [Request -> ReqRec]
  <2>1. [req[q] EXCEPT !.pc = pc] \in ReqRec
    BY DEF ReqRec
  <2> QED BY <2>1, <1>2 DEF Next_
<1>3. Return(q) => req' \in [Request -> ReqRec]
  BY Blanks DEF Return
<1> QED BY <1>1, <1>2, <1>3

\* Catalog.Upsert keeps the types of the catalog.
LEMMA UpsertType ==
  ASSUME NEW h \in Hash, NEW source \in BOOLEAN, NEW mode \in Modes,
         catalog \in [Hash -> EntryRec], Upsert(h, source, mode)
  PROVE  catalog' \in [Hash -> EntryRec]
<1>1. catalog[h] \in EntryRec
  OBVIOUS
<1>2. [known |-> TRUE, pinned |-> catalog[h].pinned,
       mode |-> IF mode = "" THEN catalog[h].mode ELSE mode,
       source |-> catalog[h].source \/ source] \in EntryRec
  BY <1>1 DEF EntryRec
<1> QED BY <1>2 DEF Upsert

\* dropTorrent keeps the types of what it touches.
LEMMA ClaimType ==
  ASSUME NEW h \in Hash, TypeOK, Claim(h)
  PROVE  /\ playback' \in [Session -> SessionRec]
         /\ torrentSeen' \in [Hash -> Age(TorrentGrace) \cup {None}]
         /\ dropping' \in SUBSET Hash
         /\ td' \in [Teardown -> TdRec]
         /\ veteran' \in SUBSET Session
<1>1. CASE h \in dropping /\ UNCHANGED <<lifeVars, td, veteran>>
  BY <1>1 DEF TypeOK, lifeVars
<1>2. CASE h \notin dropping
  <2>1. [pc |-> "cache", h |-> h] \in TdRec
    BY DEF TdRec
  <2>2. PICK g \in Teardown : td' = [td EXCEPT ![g] = [pc |-> "cache", h |-> h]]
    BY <1>2 DEF Claim
  <2>3. td' \in [Teardown -> TdRec]
    BY <2>1, <2>2 DEF TypeOK
  <2>4. playback' \in [Session -> SessionRec]
    BY <1>2, Blanks DEF Claim, TypeOK
  <2> QED BY <1>2, <2>3, <2>4 DEF Claim, TypeOK
<1> QED BY <1>1, <1>2 DEF Claim

\* Every step keeps the types.
LEMMA TypeStep ==
  ASSUME TypeOK, ActorsOK, [Next]_vars
  PROVE  TypeOK'
<1>1. CASE \E s \in Session, h \in Hash : Keepalive(s, h)
  <2>1. PICK s \in Session, h \in Hash : Keepalive(s, h)
    BY <1>1
  <2>2. [hash |-> h, age |-> 0] \in SessionRec
    BY LifecycleAssumption DEF SessionRec, Age
  <2> QED BY <2>1, <2>2 DEF Keepalive, TypeOK, clientVars, userVars
<1>2. CASE \E s \in Session : Stop(s)
  BY <1>2, Blanks DEF Stop, TypeOK, clientVars, userVars
<1>3. CASE \E h \in Hash : SaveLibrary(h)
  <2>1. PICK h \in Hash : SaveLibrary(h)
    BY <1>3
  <2>2. catalog' \in [Hash -> EntryRec]
    BY <2>1, UpsertType DEF SaveLibrary, Modes, TypeOK
  <2> QED BY <2>1, <2>2 DEF SaveLibrary, TypeOK, lifeVars, clientVars, userVars
<1>4. CASE \E h \in Hash, b \in BOOLEAN : SetPinned(h, b)
  <2>1. PICK h \in Hash, b \in BOOLEAN : SetPinned(h, b)
    BY <1>4
  <2>2. [catalog[h] EXCEPT !.known = TRUE, !.pinned = b] \in EntryRec
    BY DEF EntryRec, TypeOK
  <2>3. catalog' = [catalog EXCEPT ![h] = [catalog[h] EXCEPT !.known = TRUE, !.pinned = b]]
    BY <2>1 DEF SetPinned, TypeOK
  <2>4. catalog' \in [Hash -> EntryRec]
    BY <2>2, <2>3 DEF TypeOK
  <2> QED BY <2>1, <2>4 DEF SetPinned, TypeOK, lifeVars, clientVars, userVars
<1>5. CASE \E q \in Request, h \in Hash : DownloadSaved(q, h)
  <2>1. PICK q \in Request, h \in Hash : DownloadSaved(q, h)
    BY <1>5
  <2>2. req' \in [Request -> ReqRec]
    BY <2>1, ReqType DEF DownloadSaved, TypeOK
  <2> QED BY <2>1, <2>2 DEF DownloadSaved, TypeOK, lifeVars, clientVars
<1>6. CASE \E q \in Request, h \in Hash : Delete(q, h)
  <2>1. PICK q \in Request, h \in Hash : Delete(q, h)
    BY <1>6
  <2>2. req' \in [Request -> ReqRec]
    BY <2>1, ReqType DEF Delete, TypeOK
  <2>3. Claim(h)
    BY <2>1 DEF Delete
  <2> QED BY <2>1, <2>2, <2>3, ClaimType DEF Delete, TypeOK, clientVars
<1>7. CASE \E q \in Request, h \in Hash, d \in BOOLEAN : Add(q, h, d)
  <2>1. PICK q \in Request, h \in Hash, d \in BOOLEAN : Add(q, h, d)
    BY <1>7
  <2>2. req' \in [Request -> ReqRec]
    BY <2>1, ReqType DEF Add, TypeOK
  <2> QED BY <2>1, <2>2, LifecycleAssumption DEF Add, Resolve, TypeOK, lifeVars
<1>8. CASE Wake
  <2>1. \A s \in Session : [playback[s] EXCEPT !.age = Older(@, SessionTTL)] \in SessionRec
    BY OlderType, LifecycleAssumption DEF SessionRec, TypeOK
  <2>2. playback' \in [Session -> SessionRec]
    BY <1>8, <2>1, Blanks DEF Wake
  <2>3. torrentSeen' \in [Hash -> Age(TorrentGrace) \cup {None}]
    BY <1>8, OlderType, LifecycleAssumption DEF Wake, TypeOK
  <2>4. reaper' \in ReaperRec
    BY <1>8 DEF Wake, ReaperRec, TypeOK
  <2> QED BY <1>8, <2>2, <2>3, <2>4 DEF Wake, Live, TypeOK, clientVars, userVars
<1>9. CASE Sweep
  <2>1. reaper' \in ReaperRec
    BY <1>9 DEF Sweep, ReaperRec, TypeOK
  <2> QED BY <1>9, <2>1, Blanks DEF Sweep, TypeOK, clientVars, userVars
<1>10. CASE List
  <2>1. reaper' \in ReaperRec
    BY <1>10 DEF List, ReaperRec, TypeOK
  <2> QED BY <1>10, <2>1 DEF List, TypeOK, lifeVars, clientVars, userVars
<1>11. CASE Visit
  <2>1. reaper' \in ReaperRec
    BY <1>11, Blanks DEF Visit, ReaperRec, TypeOK
  <2> QED BY <1>11, <2>1 DEF Visit, TypeOK, lifeVars, clientVars, userVars
<1>12. CASE Touch
  <2>1. reaper' \in ReaperRec
    BY <1>12 DEF Touch, ReaperRec, TypeOK
  <2>2. 0 \in Age(TorrentGrace)
    BY LifecycleAssumption DEF Age
  <2> QED BY <1>12, <2>1, <2>2 DEF Touch, TypeOK, clientVars, userVars
<1>13. CASE Count
  <2>1. reaper' \in ReaperRec
    BY <1>13 DEF Count, ReaperRec, TypeOK
  <2>2. 0 \in Age(TorrentGrace)
    BY LifecycleAssumption DEF Age
  <2> QED BY <1>13, <2>1, <2>2 DEF Count, TypeOK, clientVars, userVars
<1>14. CASE Reap
  <2>1. reaper' \in ReaperRec
    BY <1>14 DEF Reap, ReaperRec, TypeOK
  <2>2. reaper.h \in Hash /\ Claim(reaper.h)
    BY <1>14 DEF Reap, ActorsOK
  <2> QED BY <1>14, <2>1, <2>2, ClaimType DEF Reap, TypeOK, clientVars, userVars
<1>15. CASE Restart
  BY <1>15, Blanks DEF Restart, TypeOK
<1>16. CASE \E g \in Teardown : TeardownStep(g)
  <2>1. PICK g \in Teardown : TeardownStep(g)
    BY <1>16
  <2>2. \A pc \in {"drop", "clear"} : [td[g] EXCEPT !.pc = pc] \in TdRec
    BY DEF TdRec, TypeOK
  <2>3. td' \in [Teardown -> TdRec]
    BY <2>1, <2>2, Blanks DEF TeardownStep, CloseCache, Drop, ClearDropping, TypeOK
  <2>4. \A q \in Request : [req[q] EXCEPT !.pc = "lost"] \in ReqRec
    BY DEF ReqRec, TypeOK
  <2>5. req' \in [Request -> ReqRec]
    BY <2>1, <2>4 DEF TeardownStep, CloseCache, Drop, ClearDropping, TypeOK, userVars
  <2> QED BY <2>1, <2>3, <2>5
          DEF TeardownStep, CloseCache, Drop, ClearDropping, TypeOK, lifeVars, clientVars, userVars
<1>17. CASE \E q \in Request : RequestStep(q)
  <2>1. PICK q \in Request : RequestStep(q)
    BY <1>17
  <2>2. req' \in [Request -> ReqRec]
    BY <2>1, ReqType DEF RequestStep, AddInfo, AddTimeout, AddSeen, AddUpsert, DownloadResolve,
                         DownloadUpsert, DeleteRemove, TypeOK
  <2>3. req[q].pc \in {"seen", "upsert", "resolve", "disk", "remove"} => req[q].h \in Hash
    BY DEF ActorsOK
  <2>4. catalog' \in [Hash -> EntryRec]
    <3>1. CASE AddUpsert(q) \/ DownloadUpsert(q)
      BY <3>1, <2>3, UpsertType DEF AddUpsert, DownloadUpsert, Modes, TypeOK
    <3>2. CASE DeleteRemove(q)
      BY <3>2, <2>3, Blanks DEF DeleteRemove, TypeOK
    <3> QED BY <2>1, <3>1, <3>2
            DEF RequestStep, AddInfo, AddTimeout, AddSeen, DownloadResolve, TypeOK
  <2>5. torrentSeen' \in [Hash -> Age(TorrentGrace) \cup {None}]
    <3>1. 0 \in Age(TorrentGrace)
      BY LifecycleAssumption DEF Age
    <3> QED BY <2>1, <3>1
            DEF RequestStep, AddInfo, AddTimeout, AddSeen, AddUpsert, DownloadResolve,
                DownloadUpsert, DeleteRemove, TypeOK, lifeVars
  <2>6. torrents' \in SUBSET Hash /\ adds' \in 0..MaxAdds
    <3>1. CASE DownloadResolve(q)
      BY <3>1, <2>3, LifecycleAssumption DEF DownloadResolve, Resolve, TypeOK
    <3> QED BY <2>1, <3>1
            DEF RequestStep, AddInfo, AddTimeout, AddSeen, AddUpsert, DownloadUpsert,
                DeleteRemove, TypeOK, clientVars
  <2> QED BY <2>1, <2>2, <2>4, <2>5, <2>6
          DEF RequestStep, AddInfo, AddTimeout, AddSeen, AddUpsert, DownloadResolve,
              DownloadUpsert, DeleteRemove, TypeOK, lifeVars, clientVars
<1>18. CASE \E h \in Hash : GotInfo(h) \/ RestorePinned(h)
  BY <1>18 DEF GotInfo, RestorePinned, TypeOK, lifeVars, userVars
<1>19. CASE UNCHANGED vars
  BY <1>19 DEF vars, TypeOK
<1> QED BY <1>1, <1>2, <1>3, <1>4, <1>5, <1>6, <1>7, <1>8, <1>9, <1>10, <1>11, <1>12, <1>13, <1>14,
           <1>15, <1>16, <1>17, <1>18, <1>19
    DEF Next, User, ReaperStep

\* Every step leaves the reaper and the handlers at work with a torrent in hand.
LEMMA ActorsStep ==
  ASSUME TypeOK, ActorsOK, [Next]_vars
  PROVE  ActorsOK'
<1>1. reaper'.pc \in {"touch", "count", "claim"} => reaper'.h \in Hash
  <2>1. CASE ReaperStep
    <3>1. CASE Visit
      BY <3>1 DEF Visit, Asleep, TypeOK, ReaperRec
    <3>2. CASE Count
      BY <3>2 DEF Count, ActorsOK, TypeOK, ReaperRec
    <3>3. CASE Wake \/ Sweep \/ List \/ Touch \/ Reap
      BY <3>3 DEF Wake, Sweep, List, Touch, Reap, TypeOK, ReaperRec
    <3> QED BY <2>1, <3>1, <3>2, <3>3 DEF ReaperStep
  <2>2. CASE UNCHANGED reaper
    BY <2>2 DEF ActorsOK
  <2>3. CASE Restart
    BY <2>3 DEF Restart, Asleep
  <2> QED BY <2>1, <2>2, <2>3
      DEF Next, User, Stop, Keepalive, SaveLibrary, SetPinned, DownloadSaved, Delete, Add,
          TeardownStep, CloseCache, Drop, ClearDropping, RequestStep, AddInfo, AddTimeout, AddSeen,
          AddUpsert, DownloadResolve, DownloadUpsert, DeleteRemove, GotInfo, RestorePinned, vars
<1>2. ASSUME NEW q \in Request, req'[q].pc # "idle"
      PROVE  req'[q].h \in Hash
  <2>1. CASE UNCHANGED req
    BY <2>1, <1>2 DEF ActorsOK
  <2>2. CASE \E k \in Request, h \in Hash, pc \in {"wait", "resolve", "remove"}, d \in BOOLEAN :
               Start(k, pc, h, d)
    BY <2>2, <1>2 DEF Start, ActorsOK, TypeOK
  <2>3. CASE \E k \in Request : RequestStep(k)
    <3>1. PICK k \in Request : RequestStep(k)
      BY <2>3
    <3>2. req[k].pc # "idle"
      BY <3>1 DEF RequestStep, AddInfo, AddTimeout, AddSeen, AddUpsert, DownloadResolve,
                  DownloadUpsert, DeleteRemove
    <3>3. Return(k) \/ Next_(k, "seen") \/ Next_(k, "upsert") \/ Next_(k, "disk")
      BY <3>1 DEF RequestStep, AddInfo, AddTimeout, AddSeen, AddUpsert, DownloadResolve,
                  DownloadUpsert, DeleteRemove
    <3>4. CASE Return(k)
      BY <3>4, <1>2 DEF Return, NoReq, ActorsOK, TypeOK
    <3>5. CASE Next_(k, "seen") \/ Next_(k, "upsert") \/ Next_(k, "disk")
      BY <3>5, <3>2, <1>2 DEF Next_, ActorsOK, TypeOK, ReqRec
    <3> QED BY <3>3, <3>4, <3>5
  <2>4. CASE \E g \in Teardown : Drop(g)
    BY <2>4, <1>2 DEF Drop, ActorsOK, TypeOK, ReqRec
  <2>5. CASE Restart
    BY <2>5, <1>2 DEF Restart, NoReq
  <2> QED BY <2>1, <2>2, <2>3, <2>4, <2>5
      DEF Next, User, Stop, Keepalive, SaveLibrary, SetPinned, DownloadSaved, Delete, Add,
          ReaperStep, Wake, Sweep, List, Visit, Touch, Count, Reap, TeardownStep, CloseCache,
          ClearDropping, GotInfo, RestorePinned, userVars, vars
<1> QED BY <1>1, <1>2 DEF ActorsOK

-----------------------------------------------------------------------------
(* Teardowns and caches *)

\* What a step may do to the marks, the teardowns, the metadata and the caches.
LEMMA TeardownFrame ==
  ASSUME ActorsOK, [Next]_vars
  PROVE  \/ UNCHANGED <<dropping, td, info, caches>>
         \/ \E h \in Hash : Claim(h) /\ UNCHANGED <<info, caches>>
         \/ \E g \in Teardown : CloseCache(g) \/ Drop(g) \/ ClearDropping(g)
         \/ \E h \in Hash : GotInfo(h)
         \/ Restart
<1>1. CASE Reap
  BY <1>1 DEF Reap, ActorsOK, clientVars
<1>2. CASE \E q \in Request, h \in Hash : Delete(q, h)
  BY <1>2 DEF Delete, clientVars
<1>3. CASE UNCHANGED <<dropping, td, info, caches>>
  BY <1>3
<1> QED BY <1>1, <1>2, <1>3
    DEF Next, User, Stop, Keepalive, SaveLibrary, SetPinned, DownloadSaved, Add, ReaperStep, Wake,
        Sweep, List, Visit, Touch, Count, TeardownStep, RequestStep, AddInfo, AddTimeout, AddSeen,
        AddUpsert, DownloadResolve, DownloadUpsert, DeleteRemove, RestorePinned, lifeVars,
        clientVars, vars

\* Marks and teardowns stay in step.
LEMMA MarksStep ==
  ASSUME TypeOK, ActorsOK, MarksOK, [Next]_vars
  PROVE  MarksOK'
<1>1. CASE UNCHANGED <<dropping, td, info, caches>>
  BY <1>1 DEF MarksOK, Active
<1>2. ASSUME NEW h \in Hash, Claim(h)
      PROVE  MarksOK'
  <2>1. CASE h \in dropping
    BY <1>2, <2>1 DEF Claim, MarksOK, Active, lifeVars
  <2>2. CASE h \notin dropping
    <3>1. PICK g \in Teardown :
            td[g].pc = "none" /\ td' = [td EXCEPT ![g] = [pc |-> "cache", h |-> h]]
      BY <1>2, <2>2 DEF Claim
    <3>2. dropping' = dropping \cup {h}
      BY <1>2, <2>2 DEF Claim
    <3>3. td'[g].pc = "cache" /\ td'[g].h = h /\ \A k \in Teardown \ {g} : td'[k] = td[k]
      BY <3>1 DEF TypeOK
    <3> QED BY <2>2, <3>1, <3>2, <3>3 DEF MarksOK, Active
  <2> QED BY <2>1, <2>2
<1>3. ASSUME NEW g \in Teardown, CloseCache(g) \/ Drop(g)
      PROVE  MarksOK'
  <2>1. /\ dropping' = dropping /\ td[g].pc # "none"
        /\ td'[g].pc # "none" /\ td'[g].h = td[g].h
        /\ \A k \in Teardown \ {g} : td'[k] = td[k]
    BY <1>3 DEF CloseCache, Drop, lifeVars, TypeOK, TdRec
  <2> QED BY <2>1 DEF MarksOK, Active
<1>4. ASSUME NEW g \in Teardown, ClearDropping(g)
      PROVE  MarksOK'
  <2>1. /\ dropping' = dropping \ {td[g].h} /\ td[g].pc # "none"
        /\ td'[g].pc = "none" /\ \A k \in Teardown \ {g} : td'[k] = td[k]
    BY <1>4 DEF ClearDropping, NoTd, TypeOK
  <2> QED BY <2>1 DEF MarksOK, Active
<1>5. CASE \E h \in Hash : GotInfo(h)
  BY <1>5 DEF GotInfo, lifeVars, MarksOK, Active
<1>6. CASE Restart
  BY <1>6 DEF Restart, NoTd, MarksOK, Active
<1> QED BY <1>1, <1>2, <1>3, <1>4, <1>5, <1>6, TeardownFrame

\* A torrent that is being torn down loses its cache before its metadata, and its metadata
\* before its mark.
LEMMA CachesStep ==
  ASSUME TypeOK, ActorsOK, MarksOK, ReopenedOK, ResolvedHasCache, [Next]_vars
  PROVE  ReopenedOK' /\ ResolvedHasCache'
<1>1. CASE UNCHANGED <<dropping, td, info, caches>>
  BY <1>1 DEF ReopenedOK, ResolvedHasCache
<1>2. ASSUME NEW h \in Hash, Claim(h), UNCHANGED <<info, caches>>
      PROVE  ReopenedOK' /\ ResolvedHasCache'
  <2>1. dropping \subseteq dropping'
    BY <1>2 DEF Claim, lifeVars
  <2>2. \A g \in Teardown : td'[g].pc = "clear" => td'[g] = td[g]
    BY <1>2 DEF Claim, TypeOK
  <2> QED BY <1>2, <2>1, <2>2 DEF ReopenedOK, ResolvedHasCache
<1>3. ASSUME NEW g \in Teardown, CloseCache(g)
      PROVE  ReopenedOK' /\ ResolvedHasCache'
  <2>1. /\ td[g].pc = "cache" /\ td'[g].pc = "drop" /\ td'[g].h = td[g].h
        /\ \A k \in Teardown \ {g} : td'[k] = td[k]
    BY <1>3 DEF CloseCache, TypeOK, TdRec
  <2>2. dropping' = dropping /\ info' = info /\ caches' = caches \ {td[g].h}
    BY <1>3 DEF CloseCache, lifeVars
  <2> QED BY <2>1, <2>2 DEF ReopenedOK, ResolvedHasCache, MarksOK, Active
<1>4. ASSUME NEW g \in Teardown, Drop(g)
      PROVE  ReopenedOK' /\ ResolvedHasCache'
  <2>1. /\ td[g].pc = "drop" /\ td'[g].pc = "clear" /\ td'[g].h = td[g].h
        /\ \A k \in Teardown \ {g} : td'[k] = td[k]
    BY <1>4 DEF Drop, TypeOK, TdRec
  <2>2. dropping' = dropping /\ info' = info \ {td[g].h} /\ caches' = caches
    BY <1>4 DEF Drop, lifeVars
  <2> QED BY <2>1, <2>2 DEF ReopenedOK, ResolvedHasCache
<1>5. ASSUME NEW g \in Teardown, ClearDropping(g)
      PROVE  ReopenedOK' /\ ResolvedHasCache'
  <2>1. /\ td[g].pc = "clear" /\ td'[g].pc = "none"
        /\ \A k \in Teardown \ {g} : td'[k] = td[k]
    BY <1>5 DEF ClearDropping, NoTd, TypeOK
  <2>2. dropping' = dropping \ {td[g].h} /\ info' = info /\ caches' = caches
    BY <1>5 DEF ClearDropping, clientVars
  <2> QED BY <2>1, <2>2 DEF ReopenedOK, ResolvedHasCache
<1>6. CASE \E h \in Hash : GotInfo(h)
  BY <1>6 DEF GotInfo, lifeVars, ReopenedOK, ResolvedHasCache
<1>7. CASE Restart
  BY <1>7 DEF Restart, NoTd, ReopenedOK, ResolvedHasCache
<1> QED BY <1>1, <1>2, <1>3, <1>4, <1>5, <1>6, <1>7, TeardownFrame

-----------------------------------------------------------------------------
(* Watched torrents *)

\* The reaper decides only when nobody watches; a session that comes later is no veteran.
LEMMA SparedStep ==
  ASSUME TypeOK, ActorsOK, WatchedIsSpared, [Next]_vars
  PROVE  WatchedIsSpared'
<1> SUFFICES ASSUME reaper'.pc = "claim", NEW s \in veteran'
             PROVE  playback'[s].hash # reaper'.h
  BY DEF WatchedIsSpared
<1>1. CASE Count
  <2>1. Watching(reaper.h) = {} /\ reaper'.h = reaper.h
    BY <1>1 DEF Count, TypeOK, ReaperRec
  <2>2. veteran' = veteran /\ playback' = playback /\ s \in Session
    BY <1>1 DEF Count, TypeOK
  <2> QED BY <2>1, <2>2 DEF Watching
<1>2. ~(Wake \/ Sweep \/ List \/ Touch \/ Reap)
  BY DEF Wake, Sweep, List, Touch, Reap, TypeOK, ReaperRec
<1>3. ~Visit
  BY DEF Visit, Asleep
<1>4. ASSUME NEW k \in Session, NEW h \in Hash, Keepalive(k, h)
      PROVE  playback'[s].hash # reaper'.h
  BY <1>4 DEF Keepalive, WatchedIsSpared, TypeOK, SessionRec
<1>5. ASSUME NEW k \in Session, Stop(k)
      PROVE  playback'[s].hash # reaper'.h
  BY <1>5 DEF Stop, WatchedIsSpared, TypeOK, SessionRec
<1>6. ASSUME NEW q \in Request, NEW h \in Hash, Delete(q, h)
      PROVE  playback'[s].hash # reaper'.h
  <2>1. reaper' = reaper
    BY <1>6 DEF Delete
  <2>2. s \in veteran /\ s \in Session /\ playback'[s] = playback[s]
    BY <1>6 DEF Delete, Claim, Watching, TypeOK, lifeVars
  <2> QED BY <2>1, <2>2 DEF WatchedIsSpared
<1>7. CASE UNCHANGED <<reaper, playback, veteran>>
  BY <1>7 DEF WatchedIsSpared
<1>8. CASE Restart
  BY <1>8 DEF Restart
<1> QED BY <1>1, <1>2, <1>3, <1>4, <1>5, <1>6, <1>7, <1>8
    DEF Next, User, ReaperStep, SaveLibrary, SetPinned, DownloadSaved, Add, TeardownStep,
        CloseCache, Drop, ClearDropping, RequestStep, AddInfo, AddTimeout, AddSeen, AddUpsert,
        DownloadResolve, DownloadUpsert, DeleteRemove, GotInfo, RestorePinned, lifeVars, vars

-----------------------------------------------------------------------------
(* The invariant *)

LEMMA InitInv ==
  Init => LifeInv
BY Blanks, LifecycleAssumption
   DEF Init, LifeInv, TypeOK, ActorsOK, MarksOK, Active, ReopenedOK, ResolvedHasCache,
       WatchedIsSpared, Asleep, NoReq, NoTd

LEMMA StepInv ==
  LifeInv /\ [Next]_vars => LifeInv'
BY TypeStep, ActorsStep, MarksStep, CachesStep, SparedStep DEF LifeInv

LEMMA AlwaysInv ==
  Spec => []LifeInv
BY InitInv, StepInv, PTL DEF Spec

\* The marks count the teardowns: none without a mark, exactly one with it.
LEMMA MarksCount ==
  LifeInv => OneTeardown
<1> SUFFICES ASSUME LifeInv, NEW h \in Hash
             PROVE  Cardinality(Tearing(h)) = (IF h \in dropping THEN 1 ELSE 0)
  BY DEF OneTeardown
<1>1. CASE h \notin dropping
  <2>1. Tearing(h) = {}
    BY <1>1 DEF LifeInv, MarksOK, Active, Tearing
  <2> QED BY <1>1, <2>1, FS_EmptySet
<1>2. CASE h \in dropping
  <2>1. PICK g \in Teardown : Active(g) /\ td[g].h = h
    BY <1>2 DEF LifeInv, MarksOK
  <2>2. Tearing(h) = {g}
    BY <2>1 DEF LifeInv, MarksOK, Active, Tearing
  <2> QED BY <1>2, <2>2, FS_Singleton
<1> QED BY <1>1, <1>2

-----------------------------------------------------------------------------
(* Theorems *)

\* However the reaper and DELETE requests race, a torrent is torn down by at most one goroutine
\* at a time, and the `dropping' mark is there exactly while it runs (dropTorrent).
THEOREM TeardownIsExclusive ==
  Spec => []OneTeardown
BY AlwaysInv, MarksCount, PTL

\* A torrent with metadata that nobody drops has its cache, in every interleaving of adds,
\* arriving metadata, teardowns and restarts (OpenTorrent, dropTorrent).
THEOREM CacheIsThere ==
  Spec => []ResolvedHasCache
<1>1. LifeInv => ResolvedHasCache
  BY DEF LifeInv
<1> QED BY <1>1, AlwaysInv, PTL

\* The reaper never decides against a torrent that a session has been watching since before the
\* round began (ReapPlaybackSessions).
THEOREM WatchersAreSafe ==
  Spec => []WatchedIsSpared
<1>1. LifeInv => WatchedIsSpared
  BY DEF LifeInv
<1> QED BY <1>1, AlwaysInv, PTL
=============================================================================
