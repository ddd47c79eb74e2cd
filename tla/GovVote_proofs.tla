--------------------------- MODULE GovVote_proofs ---------------------------
(***************************************************************************)
(* Proofs about the cast path of GovVote, for every value of the          *)
(* constants that satisfies ConstAssumption.                              *)
(***************************************************************************)
EXTENDS GovVote, FiniteSetTheorems, TLAPS

(* The scripts a caster collects are scripts of the wallet.              *)
LEMMA StakeScriptsType ==
    ASSUME NEW windowed \in BOOLEAN
    PROVE  StakeScripts(windowed) \subseteq Addrs
BY ConstAssumption DEF StakeScripts, OutputRec

(* A request id handed out while the history is finite is a number.      *)
LEMMA NextIdType ==
    ASSUME IsFiniteSet(requests)
    PROVE  NextId \in Nat
BY FS_CardinalityType DEF NextId

(* Sending a well-typed request keeps the client's part of TypeOK.      *)
LEMMA SendRequestType ==
    ASSUME TypeOK, NEW r \in Request, SendRequest(r)
    PROVE  /\ requests' \subseteq Request
           /\ IsFiniteSet(requests')
           /\ inflight' \subseteq requests'
           /\ ready' \in BOOLEAN /\ statusOK' \in BOOLEAN
           /\ votes' \subseteq VoteRec /\ proposals' \in Nat
           /\ replies' \subseteq Reply
<1>1. IsFiniteSet(requests')
  BY FS_AddElement DEF TypeOK, SendRequest
<1>2. QED
  BY <1>1 DEF TypeOK, SendRequest

(* The aggregated weight of a buffer of service records is one of the    *)
(* sums the ledger's type allows.                                        *)
LEMMA AggregateWeightType ==
    ASSUME NEW v \in VoteIds, NEW S \in SUBSET VoteRec
    PROVE  AggregateWeight(v, S) \in WeightSums
BY DEF WeightSums

(* A CAST request built from a caster's vote id and collected scripts.   *)
LEMMA CastRequestType ==
    ASSUME TypeOK, NEW c \in Casters, NEW addrs \in SUBSET Addrs
    PROVE  [id |-> NextId, kind |-> "CAST", by |-> c, vid |-> cvid[c],
            addrs |-> addrs] \in Request
BY NextIdType DEF TypeOK, Request

LEMMA GetRequestType ==
    ASSUME TypeOK, NEW who \in Casters \cup Fetchers
    PROVE  [id |-> NextId, kind |-> "GET", by |-> who] \in Request
BY NextIdType DEF TypeOK, Request

-----------------------------------------------------------------------------
(* Type correctness                                                       *)

(* Every state of the specification is well typed.                       *)
THEOREM TypeCorrect == Spec => []TypeOK
<1> USE ConstAssumption
<1>1. Init => TypeOK
  <2> SUFFICES ASSUME Init PROVE TypeOK
    OBVIOUS
  <2>1. (CHOOSE v \in VoteIds : TRUE) \in VoteIds
    OBVIOUS
  <2>2. result \in [Casters -> Result]
    BY DEF Init, Result
  <2>3. IsFiniteSet(requests)
    BY FS_EmptySet DEF Init
  <2>4. /\ ledger \subseteq Entry
        /\ holder \in Casters \cup {NoHolder}
        /\ pc \in [Casters -> {"idle", "confirm", "sign", "wait", "read", "refresh"}]
        /\ cvid \in [Casters -> VoteIds]
        /\ creq \in [Casters -> Nat]
    BY <2>1 DEF Init
  <2>5. /\ ncast \in [Casters -> 0..MaxCasts]
        /\ votes \subseteq VoteRec
        /\ proposals \in Nat
        /\ fpc \in [Fetchers -> {"idle", "wait"}]
        /\ nfetch \in [Fetchers -> 0..MaxFetches]
    BY DEF Init
  <2>6. QED
    BY <2>2, <2>3, <2>4, <2>5 DEF Init, TypeOK
<1>2. TypeOK /\ [Next]_vars => TypeOK'
  <2> SUFFICES ASSUME TypeOK, [Next]_vars PROVE TypeOK'
    OBVIOUS
  <2>1. CASE GuiVote
    BY <2>1 DEF GuiVote, casterVars, clientVars, TypeOK, Result, Casters
  <2>2. CASE GuiConfirm
    BY <2>2 DEF GuiConfirm, casterVars, clientVars, TypeOK, Result, Casters
  <2>3. CASE RpcVote
    BY <2>3 DEF RpcVote, casterVars, clientVars, TypeOK, Result, Casters
  <2>4. ASSUME NEW c \in Casters, pc[c] = "sign",
               NEW addrs \in SUBSET Addrs, SignAndSend(c, addrs),
               UNCHANGED <<ledger, cvid, ncast, synced, okCasts, fpc, nfetch>>
        PROVE  TypeOK'
    <3>1. CASE addrs \subseteq KeyOK /\ SendCast(c, cvid[c], addrs)
      BY <2>4, <3>1, SendRequestType, CastRequestType, NextIdType
      DEF casterVars, clientVars, SignAndSend, SendCast, TypeOK, Casters
    <3>2. CASE ~(addrs \subseteq KeyOK)
      BY <2>4, <3>2 DEF casterVars, clientVars, SignAndSend, TypeOK, Result, Casters
    <3>3. QED
      BY <2>4, <3>1, <3>2 DEF SignAndSend
  <2>5. CASE GuiSign
    BY <2>5, <2>4, StakeScriptsType DEF GuiSign, GuiVotingAddresses, Casters
  <2>6. CASE RpcSign
    BY <2>6, <2>4, StakeScriptsType DEF RpcSign, RpcVotingAddresses, Casters
  <2>7. ASSUME NEW c \in Casters, AwaitReply(c)
        PROVE  TypeOK'
    BY <2>7 DEF AwaitReply, casterVars, clientVars, TypeOK
  <2>8. ASSUME NEW c \in Casters, pc[c] = "read", Tally(c)
        PROVE  /\ ledger' \subseteq Entry
               /\ result' \in [Casters -> Result]
               /\ okCasts' \subseteq VoteIds
    <3>1. AggregateWeight(cvid[c], votes) \in WeightSums
      BY AggregateWeightType DEF TypeOK
    <3>2. QED
      BY <2>8, <3>1 DEF Tally, WriteEntry, Entry, TypeOK, Result
  <2>9. CASE GuiFinish
    <3>1. /\ ledger' \subseteq Entry
          /\ result' \in [Casters -> Result]
          /\ okCasts' \subseteq VoteIds
      BY <2>9, <2>8 DEF GuiFinish, Casters
    <3>2. CASE statusOK
      BY <2>9, <3>1, <3>2, SendRequestType, GetRequestType DEF GuiFinish, SendGet, TypeOK, Casters
    <3>3. CASE ~statusOK
      BY <2>9, <3>1, <3>3 DEF casterVars, clientVars, GuiFinish, TypeOK, Casters
    <3>4. QED
      BY <3>2, <3>3
  <2>10. CASE GuiRefreshed
    BY <2>10 DEF GuiRefreshed, casterVars, clientVars, TypeOK, Casters
  <2>11. CASE RpcFinish
    <3>1. /\ ledger' \subseteq Entry
          /\ result' \in [Casters -> Result]
          /\ okCasts' \subseteq VoteIds
      BY <2>11, <2>8 DEF RpcFinish, Casters
    <3>2. QED
      BY <2>11, <3>1 DEF casterVars, clientVars, RpcFinish, TypeOK, Casters
  <2>12. CASE Erase
    BY <2>12 DEF Erase, casterVars, clientVars, TypeOK
  <2>13. CASE Sync
    BY <2>13 DEF Sync, casterVars, clientVars, TypeOK
  <2>14. ASSUME NEW f \in Fetchers, FetchSend(f)
         PROVE  TypeOK'
    BY <2>14, SendRequestType, GetRequestType DEF FetchSend, casterVars, clientVars, SendGet, TypeOK
  <2>15. ASSUME NEW f \in Fetchers, FetchDone(f)
         PROVE  TypeOK'
    BY <2>15 DEF FetchDone, casterVars, clientVars, TypeOK
  <2>16. ASSUME NEW r \in inflight, Complete(r)
         PROVE  TypeOK'
    <3>1. r \in Request
      BY DEF TypeOK
    <3>2. PICK ok \in BOOLEAN,
               accepted \in SUBSET (IF r.kind = "CAST" THEN r.addrs ELSE {}) :
            LET recs == {[vid |-> r.vid, addr |-> a, weight |-> Weight[a]] : a \in accepted}
            IN  /\ inflight' = inflight \ {r}
                /\ ready' = TRUE
                /\ statusOK' = ok
                /\ votes' = IF ok /\ r.kind = "CAST" THEN recs ELSE votes
                /\ proposals' = IF ok /\ r.kind = "GET" THEN r.id ELSE proposals
                /\ replies' = replies \cup {[id |-> r.id, ok |-> ok, recs |-> recs]}
      BY <2>16 DEF Complete
    <3> DEFINE recs == {[vid |-> r.vid, addr |-> a, weight |-> Weight[a]] : a \in accepted}
    <3>3. recs \subseteq VoteRec
      <4>1. CASE r.kind = "CAST"
        BY <3>1, <4>1 DEF Request, VoteRec
      <4>2. CASE r.kind # "CAST"
        BY <4>2
      <4>3. QED
        BY <4>1, <4>2
    <3>4. QED
      BY <2>16, <3>1, <3>2, <3>3 DEF casterVars, clientVars, Complete, TypeOK, Request, Reply
  <2>17. ASSUME NEW r \in inflight, Lose(r)
         PROVE  TypeOK'
    BY <2>17 DEF Lose, casterVars, clientVars, TypeOK
  <2>18. CASE UNCHANGED vars
    BY <2>18 DEF vars, casterVars, clientVars, TypeOK
  <2>19. QED
    BY <2>1, <2>2, <2>3, <2>5, <2>6, <2>7, <2>9, <2>10, <2>11, <2>12,
       <2>13, <2>14, <2>15, <2>16, <2>17, <2>18 DEF Next
<1>3. QED
  BY <1>1, <1>2, PTL DEF Spec

-----------------------------------------------------------------------------
(* The ledger scan and cs_wallet                                          *)

(* A caster that is not idle holds the lock, so when the lock is free or *)
(* held by one caster, the other one is idle.                            *)
LEMMA OtherIdle ==
    ASSUME TypeOK, ScanStillValid, NEW c \in Casters, NEW d \in Casters,
           d # c, holder \in {c, NoHolder}
    PROVE  pc[d] = "idle"
BY ConstAssumption DEF ScanStillValid, Casters

(* Every state of the specification satisfies the scan invariant: the    *)
(* vote id checked against the ledger in GuiVote/RpcVote is still absent *)
(* from the ledger when the caster signs, because cs_wallet is held.     *)
THEOREM ScanInvariant == Spec => []ScanStillValid
<1> USE ConstAssumption
<1>1. Init => ScanStillValid
  BY DEF Init, ScanStillValid
<1>2. TypeOK /\ ScanStillValid /\ [Next]_vars => ScanStillValid'
  <2> SUFFICES ASSUME TypeOK, ScanStillValid, [Next]_vars
               PROVE  ScanStillValid'
    OBVIOUS
  <2>1. CASE GuiVote
    BY <2>1, OtherIdle DEF GuiVote, ScanStillValid, TypeOK, Casters
  <2>2. CASE GuiConfirm
    BY <2>2, OtherIdle DEF GuiConfirm, ScanStillValid, TypeOK, Casters
  <2>3. CASE RpcVote
    BY <2>3, OtherIdle DEF RpcVote, ScanStillValid, TypeOK, Casters
  <2>4. ASSUME NEW c \in Casters, pc[c] = "sign", NEW addrs,
               SignAndSend(c, addrs),
               UNCHANGED <<ledger, cvid, ncast, synced, okCasts, fpc, nfetch>>
        PROVE  ScanStillValid'
    BY <2>4, OtherIdle DEF SignAndSend, ScanStillValid, TypeOK, Casters
  <2>5. CASE GuiSign
    BY <2>5, <2>4 DEF GuiSign, Casters
  <2>6. CASE RpcSign
    BY <2>6, <2>4 DEF RpcSign, Casters
  <2>7. ASSUME NEW c \in Casters, AwaitReply(c)
        PROVE  ScanStillValid'
    BY <2>7 DEF AwaitReply, ScanStillValid, TypeOK
  <2>8. CASE GuiFinish
    <3>1. pc["rpc"] = "idle"
      BY <2>8, OtherIdle DEF GuiFinish, ScanStillValid, Casters
    <3>2. pc'["gui"] \in {"refresh", "idle"} /\ pc'["rpc"] = "idle"
      BY <2>8, <3>1 DEF GuiFinish, TypeOK, Casters
    <3>3. holder = "gui"
      BY <2>8 DEF GuiFinish, ScanStillValid, Casters
    <3>4. pc'["gui"] = "refresh" => holder' = "gui"
      BY <2>8, <3>3 DEF GuiFinish, TypeOK, Casters
    <3>5. QED
      BY <3>2, <3>4 DEF ScanStillValid, Casters
  <2>9. CASE GuiRefreshed
    BY <2>9, OtherIdle DEF GuiRefreshed, ScanStillValid, TypeOK, Casters
  <2>10. CASE RpcFinish
    <3>1. pc["gui"] = "idle"
      BY <2>10, OtherIdle DEF RpcFinish, ScanStillValid, Casters
    <3>2. pc'["rpc"] = "idle" /\ pc'["gui"] = "idle"
      BY <2>10, <3>1 DEF RpcFinish, TypeOK, Casters
    <3>3. QED
      BY <3>2 DEF ScanStillValid, Casters
  <2>11. CASE Erase
    BY <2>11, OtherIdle DEF Erase, casterVars, ScanStillValid, Casters
  <2>12. CASE Sync
    BY <2>12 DEF Sync, casterVars, ScanStillValid
  <2>13. ASSUME NEW f \in Fetchers, FetchSend(f) \/ FetchDone(f)
         PROVE  ScanStillValid'
    BY <2>13 DEF FetchSend, FetchDone, casterVars, ScanStillValid
  <2>14. ASSUME NEW r \in inflight, Complete(r) \/ Lose(r)
         PROVE  ScanStillValid'
    BY <2>14 DEF Complete, Lose, casterVars, ScanStillValid
  <2>15. CASE UNCHANGED vars
    BY <2>15 DEF vars, casterVars, ScanStillValid
  <2>16. QED
    BY <2>1, <2>2, <2>3, <2>5, <2>6, <2>7, <2>8, <2>9, <2>10, <2>11,
       <2>12, <2>13, <2>14, <2>15 DEF Next
<1>3. QED
  BY <1>1, <1>2, TypeCorrect, PTL DEF Spec

(* A step that sends nothing new adds no CAST_VOTE.                      *)
LEMMA NoNewCast ==
    ASSUME requests' = requests \/ \E who : SendGet(who)
    PROVE  NewCasts = {}
BY DEF NewCasts, SendGet, SendRequest

(* The double-vote guard: no step of the specification posts a           *)
(* CAST_VOTE for a vote id the ledger already holds an entry for.  The    *)
(* only steps that post one are the signing steps, which by              *)
(* ScanStillValid run while the vote id is still absent from the ledger. *)
THEOREM NoCastOverLedger == Spec => NoCastOverLedgerEntry
<1> DEFINE A == \A m \in NewCasts : m.vid \notin VotedIds(ledger)
<1>1. TypeOK /\ ScanStillValid /\ [Next]_vars => [A]_vars
  <2> SUFFICES ASSUME TypeOK, ScanStillValid, [Next]_vars
               PROVE  A
    OBVIOUS
  <2>1. ASSUME NEW c \in Casters, pc[c] = "sign", NEW addrs,
               SignAndSend(c, addrs),
               UNCHANGED <<ledger, cvid, ncast, synced, okCasts, fpc, nfetch>>
        PROVE  A
    <3>1. cvid[c] \notin VotedIds(ledger)
      BY <2>1 DEF ScanStillValid
    <3>2. CASE addrs \subseteq KeyOK /\ SendCast(c, cvid[c], addrs)
      BY <2>1, <3>1, <3>2 DEF NewCasts, SendCast, SendRequest
    <3>3. CASE ~(addrs \subseteq KeyOK)
      BY <2>1, <3>3, NoNewCast DEF SignAndSend, clientVars
    <3>4. QED
      BY <2>1, <3>2, <3>3 DEF SignAndSend
  <2>2. CASE GuiSign
    BY <2>2, <2>1 DEF GuiSign, Casters
  <2>3. CASE RpcSign
    BY <2>3, <2>1 DEF RpcSign, Casters
  <2>4. CASE GuiFinish
    BY <2>4, NoNewCast DEF GuiFinish, clientVars
  <2>5. ASSUME NEW f \in Fetchers, FetchSend(f)
        PROVE  A
    BY <2>5, NoNewCast DEF FetchSend
  <2>6. CASE ~GuiSign /\ ~RpcSign /\ ~GuiFinish /\ ~\E f \in Fetchers : FetchSend(f)
    <3>1. requests' = requests
      BY <2>6 DEF Next, vars, clientVars, GuiVote, GuiConfirm, GuiRefreshed,
                  RpcVote, RpcFinish, AwaitReply, Erase, Sync, FetchDone,
                  Complete, Lose
    <3>2. QED
      BY <3>1, NoNewCast
  <2>7. QED
    BY <2>2, <2>3, <2>4, <2>5, <2>6
<1>2. QED
  BY <1>1, ScanInvariant, TypeCorrect, PTL DEF Spec, NoCastOverLedgerEntry


-----------------------------------------------------------------------------
(* Facts about the ledger                                                 *)

(* A caster waiting for or reading the answer to its CAST_VOTE has sent   *)
(* it, and its vote id still has no entry: cs_wallet is held from the     *)
(* scan to the tally.                                                     *)
CastPending ==
    \A c \in Casters : pc[c] \in {"wait", "read"} =>
       /\ cvid[c] \notin VotedIds(ledger)
       /\ \E m \in requests : m.kind = "CAST" /\ m.vid = cvid[c]


(* No caster waits for or reads an answer.                                *)
NoneWaiting == \A c \in Casters : pc[c] \notin {"wait", "read"}

LEMMA NoneWaitingPending == NoneWaiting' => CastPending'
BY DEF NoneWaiting, CastPending

(* A step that leaves the ledger, the vote ids and the program counters   *)
(* alone, and only adds requests, keeps CastPending.                      *)
LEMMA PendingFrame ==
    ASSUME CastPending, UNCHANGED <<ledger, pc, cvid>>, requests \subseteq requests'
    PROVE  CastPending'
BY DEF CastPending

LEMMA CastPendingStep ==
    ASSUME TypeOK, ScanStillValid, CastPending, [Next]_vars
    PROVE  CastPending'
<1> USE ConstAssumption
<1>1. CASE GuiVote \/ RpcVote
  <2>1. \A c \in Casters : pc[c] = "idle"
    BY <1>1 DEF GuiVote, RpcVote, ScanStillValid
  <2>2. NoneWaiting'
    BY <1>1, <2>1 DEF GuiVote, RpcVote, NoneWaiting, TypeOK, Casters
  <2>3. QED
    BY <2>2, NoneWaitingPending
<1>2. CASE GuiConfirm \/ GuiFinish \/ GuiRefreshed
  <2>1. pc["rpc"] = "idle"
    BY <1>2, OtherIdle DEF GuiConfirm, GuiFinish, GuiRefreshed, ScanStillValid,
                           Casters
  <2>2. NoneWaiting'
    BY <1>2, <2>1 DEF GuiConfirm, GuiFinish, GuiRefreshed, NoneWaiting, TypeOK,
                      Casters
  <2>3. QED
    BY <2>2, NoneWaitingPending
<1>3. CASE RpcFinish
  <2>1. pc["gui"] = "idle"
    BY <1>3, OtherIdle DEF RpcFinish, ScanStillValid, Casters
  <2>2. NoneWaiting'
    BY <1>3, <2>1 DEF RpcFinish, NoneWaiting, TypeOK, Casters
  <2>3. QED
    BY <2>2, NoneWaitingPending
<1>4. ASSUME NEW c \in Casters, pc[c] = "sign", NEW addrs,
             SignAndSend(c, addrs),
             UNCHANGED <<ledger, cvid, ncast, synced, okCasts, fpc, nfetch>>
      PROVE  CastPending'
  <2>1. \A d \in Casters : d # c => pc[d] = "idle"
    BY <1>4, OtherIdle DEF ScanStillValid
  <2>2. cvid[c] \notin VotedIds(ledger)
    BY <1>4 DEF ScanStillValid
  <2>3. CASE addrs \subseteq KeyOK /\ SendCast(c, cvid[c], addrs)
    <3> DEFINE cast == [id |-> NextId, kind |-> "CAST", by |-> c, vid |-> cvid[c],
                        addrs |-> addrs]
    <3>0. cast \in requests' /\ cast.kind = "CAST" /\ cast.vid = cvid[c]
      BY <2>3 DEF SendCast, SendRequest
    <3>1. \E m \in requests' : m.kind = "CAST" /\ m.vid = cvid[c]
      BY <3>0
    <3>2. QED
      BY <1>4, <2>1, <2>2, <2>3, <3>1 DEF SignAndSend, CastPending, TypeOK
  <2>4. CASE ~(addrs \subseteq KeyOK)
    <3>1. NoneWaiting'
      BY <1>4, <2>1, <2>4 DEF SignAndSend, NoneWaiting, TypeOK
    <3>2. QED
      BY <3>1, NoneWaitingPending
  <2>5. QED
    BY <1>4, <2>3, <2>4 DEF SignAndSend
<1>5. CASE GuiSign
  BY <1>5, <1>4 DEF GuiSign, Casters
<1>6. CASE RpcSign
  BY <1>6, <1>4 DEF RpcSign, Casters
<1>7. ASSUME NEW c \in Casters, AwaitReply(c)
      PROVE  CastPending'
  BY <1>7 DEF AwaitReply, CastPending, TypeOK, clientVars
<1>8. CASE Erase
  <2>1. \A c \in Casters : pc[c] = "idle"
    BY <1>8 DEF Erase, ScanStillValid
  <2>2. NoneWaiting'
    BY <1>8, <2>1 DEF Erase, casterVars, NoneWaiting
  <2>3. QED
    BY <2>2, NoneWaitingPending
<1>9. ASSUME NEW f \in Fetchers, FetchSend(f)
      PROVE  CastPending'
  BY <1>9, PendingFrame DEF FetchSend, SendGet, SendRequest, casterVars
<1>10. CASE \/ Sync \/ \E f \in Fetchers : FetchDone(f)
            \/ \E r \in inflight : Complete(r) \/ Lose(r)
            \/ UNCHANGED vars
  BY <1>10, PendingFrame DEF Sync, FetchDone, Complete, Lose, vars, casterVars,
                             clientVars
<1>11. QED
  BY <1>1, <1>2, <1>3, <1>5, <1>6, <1>7, <1>8, <1>9, <1>10 DEF Next


(* WriteGovernanceEntry adds the vote id to the ledger's set of ids.      *)
LEMMA VotedWrite ==
    ASSUME NEW l, NEW v, NEW w
    PROVE  VotedIds(WriteEntry(l, v, w)) = VotedIds(l) \cup {v}
<1>1. VotedIds(WriteEntry(l, v, w)) \subseteq VotedIds(l) \cup {v}
  BY DEF VotedIds, WriteEntry
<1>2. v \in VotedIds(WriteEntry(l, v, w))
  <2>1. [vid |-> v, weight |-> w] \in WriteEntry(l, v, w)
    BY DEF WriteEntry
  <2>2. [vid |-> v, weight |-> w].vid = v
    OBVIOUS
  <2>3. QED
    BY <2>1, <2>2 DEF VotedIds
<1>3. VotedIds(l) \subseteq VotedIds(WriteEntry(l, v, w))
  <2> SUFFICES ASSUME NEW e \in l PROVE e.vid \in VotedIds(WriteEntry(l, v, w))
    BY DEF VotedIds
  <2>1. CASE e.vid = v
    BY <2>1, <1>2
  <2>2. CASE e.vid # v
    BY <2>2 DEF VotedIds, WriteEntry
  <2>3. QED
    BY <2>1, <2>2
<1>4. QED
  BY <1>1, <1>2, <1>3

(* A GET_PROPOSALS adds no CAST_VOTE.                                     *)
LEMMA SentGet ==
    ASSUME NEW who, SendGet(who)
    PROVE  SentCasts' = SentCasts
BY DEF SendGet, SendRequest, SentCasts

-----------------------------------------------------------------------------
(* No ledger entry is overwritten                                         *)

(* Writing a vote id the ledger has no entry for keeps every entry.      *)
LEMMA WriteNewKeeps ==
    ASSUME NEW l, NEW v, NEW w, v \notin VotedIds(l)
    PROVE  l \subseteq WriteEntry(l, v, w)
BY DEF VotedIds, WriteEntry

LEMMA GrowOrShrinkStep ==
    ASSUME TypeOK, CastPending, [Next]_vars
    PROVE  ledger' \subseteq ledger \/ ledger \subseteq ledger'
<1>1. ASSUME NEW c \in Casters, pc[c] = "read", Tally(c)
      PROVE  ledger' \subseteq ledger \/ ledger \subseteq ledger'
  <2> DEFINE w == AggregateWeight(cvid[c], votes)
  <2>1. cvid[c] \notin VotedIds(ledger)
    BY <1>1 DEF CastPending
  <2>2. ledger' = WriteEntry(ledger, cvid[c], w) \/ ledger' = ledger
    BY <1>1 DEF Tally
  <2>3. QED
    BY <2>1, <2>2, WriteNewKeeps
<1>2. CASE GuiFinish
  BY <1>2, <1>1 DEF GuiFinish, Casters
<1>3. CASE RpcFinish
  BY <1>3, <1>1 DEF RpcFinish, Casters
<1>4. CASE Erase
  BY <1>4 DEF Erase
<1>5. CASE ~GuiFinish /\ ~RpcFinish /\ ~Erase
  BY <1>5 DEF Next, vars, GuiVote, GuiConfirm, GuiSign, GuiRefreshed, RpcVote,
              RpcSign, AwaitReply, Sync, FetchSend, FetchDone, Complete, Lose
<1>6. QED
  BY <1>2, <1>3, <1>4, <1>5

(* The tally never writes over an existing entry: every step either only *)
(* adds ledger entries or only removes them (erasegoventries), because   *)
(* a caster reading its answer still has a vote id absent from the       *)
(* ledger (CastPending).                                                 *)
THEOREM NoOverwrite == Spec => EntryNeverOverwritten
<1>1. Init => CastPending
  BY DEF Init, CastPending
<1>2. Spec => [](TypeOK /\ ScanStillValid /\ CastPending)
  BY <1>1, CastPendingStep, TypeCorrect, ScanInvariant, PTL DEF Spec
<1>3. TypeOK /\ CastPending /\ [Next]_vars
        => [ledger' \subseteq ledger \/ ledger \subseteq ledger']_vars
  BY GrowOrShrinkStep
<1>4. QED
  BY <1>2, <1>3, PTL DEF Spec, EntryNeverOverwritten


=============================================================================
