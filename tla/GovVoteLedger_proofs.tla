------------------------ MODULE GovVoteLedger_proofs ------------------------
(***************************************************************************)
(* Proof that the casters, erasegoventries and the service implement      *)
(* GovLedger when no getoffchainproposals caller shares g_governance: an   *)
(* entry is written only for a vote id that has none and whose latest      *)
(* CAST_VOTE the service accepted.  It rests on ReplyInv (the caster reads *)
(* the answer to its own CAST_VOTE) and on the order of request ids: a     *)
(* caster's CAST_VOTE is the newest request until its tally, because      *)
(* cs_wallet keeps the other caster out and nobody else sends.            *)
(***************************************************************************)
EXTENDS GovVoteReply_proofs

(* Request ids are 1..n for the n requests sent, one request per id.     *)
IdsBounded == \A m \in requests : m.id \in 1..Cardinality(requests)
IdsUnique == \A m1, m2 \in requests : m1.id = m2.id => m1 = m2

(* Every answer is to a request that was sent.                           *)
RepliesSent == \A r \in replies : \E m \in requests : m.id = r.id

(* A caster waiting for or reading its answer sent the newest request,   *)
(* a CAST_VOTE for its vote id.                                           *)
CastIsLatest ==
    \A c \in Casters : pc[c] \in {"wait", "read"} =>
       /\ [id |-> creq[c], vid |-> cvid[c]] \in SentCasts
       /\ \A m \in requests : m.id <= creq[c]

OrderInv == IdsBounded /\ IdsUnique /\ RepliesSent /\ CastIsLatest

-----------------------------------------------------------------------------
(* Request ids                                                            *)

LEMMA OrderInit == Init => OrderInv
BY DEF Init, OrderInv, IdsBounded, IdsUnique, RepliesSent, CastIsLatest

(* A new request gets the id after every id in use.                       *)
LEMMA NextIdFresh ==
    ASSUME TypeOK, IdsBounded
    PROVE  /\ NextId = Cardinality(requests) + 1
           /\ Cardinality(requests) \in Nat
           /\ \A m \in requests : m.id < NextId
<1>1. Cardinality(requests) \in Nat
  BY FS_CardinalityType DEF TypeOK
<1>2. QED
  BY <1>1 DEF NextId, IdsBounded

(* Sending request r with the next id keeps the ids in order.             *)
LEMMA SendOrder ==
    ASSUME TypeOK, IdsBounded, IdsUnique, RepliesSent, NEW r, r.id = NextId,
           requests' = requests \cup {r}, replies' = replies
    PROVE  /\ IdsBounded' /\ IdsUnique' /\ RepliesSent'
           /\ \A m \in requests' : m.id <= NextId
<1>1. r \notin requests
  BY NextIdFresh
<1>2. Cardinality(requests') = Cardinality(requests) + 1
  BY <1>1, FS_AddElement DEF TypeOK
<1>3. IdsBounded'
  BY <1>2, NextIdFresh DEF IdsBounded
<1>4. IdsUnique'
  BY NextIdFresh DEF IdsUnique
<1>5. RepliesSent'
  BY DEF RepliesSent
<1>6. QED
  BY <1>2, <1>3, <1>4, <1>5, NextIdFresh DEF IdsBounded

(* A step that sends nothing, lands nothing, and starts no wait.         *)
LEMMA OrderFrame ==
    ASSUME OrderInv, UNCHANGED <<requests, replies>>,
           \A c \in Casters : pc'[c] \in {"wait", "read"} =>
               pc[c] \in {"wait", "read"} /\ creq'[c] = creq[c] /\ cvid'[c] = cvid[c]
    PROVE  OrderInv'
BY DEF OrderInv, IdsBounded, IdsUnique, RepliesSent, CastIsLatest, SentCasts

LEMMA OrderStep ==
    ASSUME ReplyContext, OrderInv, [Next]_vars
    PROVE  OrderInv'
<1> USE DEF ReplyContext
<1>1. ASSUME NEW c \in Casters, pc[c] = "sign", NEW a, SignAndSend(c, a),
             UNCHANGED cvid
      PROVE  OrderInv'
  <2>1. \A d \in Casters : d # c => pc[d] = "idle" /\ pc'[d] = "idle"
    <3>1. pc' = [pc EXCEPT ![c] = pc'[c]]
      BY <1>1 DEF SignAndSend, TypeOK
    <3>2. QED
      BY <1>1, <3>1, OtherFrame DEF ScanStillValid
  <2>2. CASE a \subseteq KeyOK
    <3> DEFINE cast == [id |-> NextId, kind |-> "CAST", by |-> c, vid |-> cvid[c],
                        addrs |-> a]
    <3>1. requests' = requests \cup {cast} /\ replies' = replies
      BY <1>1, <2>2 DEF SignAndSend, SendCast, SendRequest
    <3>2. /\ IdsBounded' /\ IdsUnique' /\ RepliesSent'
          /\ \A m \in requests' : m.id <= NextId
      BY <3>1, SendOrder DEF OrderInv
    <3>3. creq'[c] = NextId /\ pc'[c] = "wait"
      BY <1>1, <2>2 DEF SignAndSend, TypeOK
    <3>4. [id |-> creq'[c], vid |-> cvid'[c]] \in SentCasts'
      <4>1. cast \in {m \in requests' : m.kind = "CAST"}
        BY <3>1
      <4>2. [id |-> cast.id, vid |-> cast.vid] = [id |-> creq'[c], vid |-> cvid'[c]]
        BY <1>1, <3>3
      <4>3. QED
        BY <4>1, <4>2 DEF SentCasts
    <3>5. QED
      BY <2>1, <3>2, <3>3, <3>4 DEF OrderInv, CastIsLatest
  <2>3. CASE ~(a \subseteq KeyOK)
    <3>1. UNCHANGED <<requests, replies>> /\ pc'[c] = "idle"
      BY <1>1, <2>3 DEF SignAndSend, clientVars, TypeOK
    <3>2. QED
      BY <2>1, <3>1, OrderFrame
  <2>4. QED
    BY <2>2, <2>3
<1>2. CASE GuiSign \/ RpcSign
  BY <1>2, <1>1 DEF GuiSign, RpcSign, Casters
<1>3. CASE GuiFinish
  <2>1. pc["gui"] = "read" /\ pc["rpc"] = "idle" /\ pc'["rpc"] = "idle"
    <3>1. pc' = [pc EXCEPT !["gui"] = pc'["gui"]]
      BY <1>3 DEF GuiFinish, TypeOK
    <3>2. QED
      BY <1>3, <3>1, OtherFrame DEF GuiFinish, ScanStillValid, Casters
  <2>2. pc'["gui"] \in {"refresh", "idle"}
    BY <1>3 DEF GuiFinish, TypeOK, Casters
  <2>3. CASE SendGet("gui")
    <3> DEFINE get == [id |-> NextId, kind |-> "GET", by |-> "gui"]
    <3>1. requests' = requests \cup {get} /\ replies' = replies
      BY <2>3 DEF SendGet, SendRequest
    <3>2. IdsBounded' /\ IdsUnique' /\ RepliesSent'
      BY <3>1, SendOrder DEF OrderInv
    <3>3. CastIsLatest'
      BY <2>1, <2>2 DEF CastIsLatest, Casters
    <3>4. QED
      BY <3>2, <3>3 DEF OrderInv
  <2>4. CASE UNCHANGED clientVars
    BY <1>3, <2>1, <2>2, <2>4, OrderFrame DEF clientVars, Casters
  <2>5. QED
    BY <1>3, <2>3, <2>4 DEF GuiFinish
<1>4. ASSUME NEW r \in inflight, Complete(r)
      PROVE  OrderInv'
  <2>1. UNCHANGED <<requests, pc, creq, cvid>>
    BY <1>4 DEF Complete, casterVars
  <2>2. \E x : x.id = r.id /\ replies' = replies \cup {x}
    BY <1>4 DEF Complete
  <2>3. r \in requests
    BY DEF TypeOK
  <2>4. RepliesSent'
    BY <2>1, <2>2, <2>3 DEF OrderInv, RepliesSent
  <2>5. QED
    BY <2>1, <2>4 DEF OrderInv, IdsBounded, IdsUnique, CastIsLatest, SentCasts
<1>5. ASSUME NEW f \in Fetchers
      PROVE  ~FetchSend(f) /\ ~FetchDone(f)
  OBVIOUS
<1>6. CASE GuiVote \/ RpcVote
  <2>1. \A c \in Casters : pc[c] = "idle"
    BY <1>6, ConstAssumption DEF GuiVote, RpcVote, ScanStillValid, Casters
  <2>2. \A c \in Casters : pc'[c] \notin {"wait", "read"}
    BY <1>6, <2>1 DEF GuiVote, RpcVote, TypeOK, Casters
  <2>3. UNCHANGED <<requests, replies>>
    BY <1>6 DEF GuiVote, RpcVote, clientVars
  <2>4. QED
    BY <2>2, <2>3, OrderFrame
<1>7. CASE \/ GuiConfirm \/ GuiRefreshed \/ RpcFinish \/ Erase \/ Sync
           \/ \E c \in Casters : AwaitReply(c)
           \/ \E r \in inflight : Lose(r)
           \/ UNCHANGED vars
  <2>1. UNCHANGED <<requests, replies, creq, cvid>>
    BY <1>7 DEF GuiConfirm, GuiRefreshed, RpcFinish, Erase, Sync, AwaitReply, Lose,
                vars, clientVars, casterVars
  <2>2. \A c \in Casters : pc'[c] \in {"wait", "read"} => pc[c] \in {"wait", "read"}
    BY <1>7 DEF GuiConfirm, GuiRefreshed, RpcFinish, Erase, Sync, AwaitReply, Lose,
                vars, casterVars, TypeOK
  <2>3. QED
    BY <2>1, <2>2, OrderFrame
<1>8. QED
  BY <1>2, <1>3, <1>4, <1>5, <1>6, <1>7 DEF Next

-----------------------------------------------------------------------------
(* The ledger steps                                                       *)

(* A write for a vote id with no entry adds one record and keeps the rest. *)
LEMMA WriteNewEntry ==
    ASSUME NEW l, NEW v, NEW w, v \notin VotedIds(l)
    PROVE  WriteEntry(l, v, w) = l \cup {[vid |-> v, weight |-> w]}
BY DEF VotedIds, WriteEntry

(* A step that touches neither the ledger nor the service is a stutter of *)
(* GovLedger.                                                             *)
LEMMA LedgerStutter ==
    ASSUME UNCHANGED <<ledger, requests, replies>>
    PROVE  UNCHANGED Ledger!ledgerVars
BY DEF Ledger!ledgerVars, SentCasts, AcceptedCasts

(* A successful post is GovLedger's CastVote: the new request id has no   *)
(* answer yet, so the accepted ids stay as they are.                      *)
LEMMA SendLedger ==
    ASSUME ReplyContext, OrderInv, NEW c \in Casters, pc[c] = "sign", NEW a,
           SendCast(c, cvid[c], a), UNCHANGED ledger
    PROVE  Ledger!CastVote(cvid[c])
<1> USE DEF ReplyContext
<1> DEFINE cast == [id |-> NextId, kind |-> "CAST", by |-> c, vid |-> cvid[c], addrs |-> a]
           m == [id |-> NextId, vid |-> cvid[c]]
<1>1. requests' = requests \cup {cast} /\ replies' = replies
  BY DEF SendCast, SendRequest, cast
<1>2. SentCasts' = SentCasts \cup {m}
  <2>1. {q \in requests' : q.kind = "CAST"} = {q \in requests : q.kind = "CAST"} \cup {cast}
    BY <1>1 DEF cast
  <2>2. [id |-> cast.id, vid |-> cast.vid] = m
    BY DEF cast, m
  <2>3. QED
    BY <2>1, <2>2 DEF SentCasts
<1>3. \A r \in replies : r.id # NextId
  BY NextIdFresh DEF OrderInv, RepliesSent
<1>4. AcceptedCasts' = AcceptedCasts
  BY <1>1, <1>2, <1>3 DEF AcceptedCasts, m
<1>5. cvid[c] \notin VotedIds(ledger)
  BY DEF ScanStillValid
<1>6. m \in SentCasts' /\ m.vid = cvid[c]
  BY <1>2 DEF m
<1>7. QED
  BY <1>2, <1>4, <1>5, <1>6 DEF Ledger!CastVote, Ledger!Voted, VotedIds

(* A tally that writes is GovLedger's Record: the caster's CAST_VOTE is   *)
(* the newest request for its vote id (CastIsLatest), the answer it reads *)
(* is that request's (BufferIsReply) and says success, and the scan found *)
(* no entry (CastPending).                                                *)
LEMMA TallyLedger ==
    ASSUME ReplyContext, OrderInv, CastPending, NEW c \in Casters, pc[c] = "read",
           Tally(c), SentCasts' = SentCasts, replies' = replies
    PROVE  [Ledger!Next]_Ledger!ledgerVars
<1> USE DEF ReplyContext
<1> DEFINE v == cvid[c]
           w == AggregateWeight(v, votes)
           m == [id |-> creq[c], vid |-> v]
<1>1. AcceptedCasts' = AcceptedCasts
  BY DEF AcceptedCasts
<1>2. CASE statusOK /\ w # 0
  <2>1. v \notin VotedIds(ledger)
    BY DEF CastPending
  <2>2. ledger' = ledger \cup {[vid |-> v, weight |-> w]}
    BY <1>2, <2>1, WriteNewEntry DEF Tally
  <2>3. m \in SentCasts /\ \A m2 \in SentCasts : m2.id <= m.id
    BY DEF OrderInv, CastIsLatest, SentCasts
  <2>4. \E r \in replies : r.id = creq[c] /\ r.ok
    BY <1>2 DEF ReplyInv, ReadReady, BufferIsReply
  <2>5. m.id \in AcceptedCasts
    BY <2>3, <2>4 DEF AcceptedCasts
  <2>6. v \in Ledger!LatestAccepted
    BY <2>3, <2>5 DEF Ledger!LatestAccepted, Ledger!SentIds
  <2>7. Ledger!Record(v)
    BY <1>1, <2>1, <2>2, <2>6 DEF Ledger!Record, Ledger!Voted, VotedIds
  <2>8. QED
    BY <2>7 DEF Ledger!Next, TypeOK
<1>3. CASE ~(statusOK /\ w # 0)
  BY <1>1, <1>3 DEF Tally, Ledger!ledgerVars
<1>4. QED
  BY <1>2, <1>3

(* An answer landing is GovLedger's Accept when it is a success for a     *)
(* CAST_VOTE, and a stutter otherwise: a GET_PROPOSALS shares its id with *)
(* no CAST_VOTE (IdsUnique).                                             *)
LEMMA CompleteLedger ==
    ASSUME ReplyContext, OrderInv, NEW r \in inflight, Complete(r)
    PROVE  [Ledger!Next]_Ledger!ledgerVars
<1> USE DEF ReplyContext
<1>1. UNCHANGED <<ledger, requests>> /\ SentCasts' = SentCasts
  BY DEF Complete, SentCasts
<1>2. PICK x : x.id = r.id /\ replies' = replies \cup {x}
  BY DEF Complete
<1>3. r \in requests
  BY DEF TypeOK
<1>4. CASE r.kind = "CAST" /\ x.ok
  <2> DEFINE m == [id |-> r.id, vid |-> r.vid]
  <2>1. m \in SentCasts
    BY <1>3, <1>4 DEF SentCasts
  <2>2. AcceptedCasts' = AcceptedCasts \cup {m.id}
    BY <1>1, <1>2, <1>4, <2>1 DEF AcceptedCasts
  <2>3. Ledger!Accept
    BY <1>1, <2>1, <2>2 DEF Ledger!Accept
  <2>4. QED
    BY <2>3 DEF Ledger!Next
<1>5. CASE ~(r.kind = "CAST" /\ x.ok)
  <2>1. \A m \in SentCasts : m.id = r.id => ~x.ok
    BY <1>3, <1>5 DEF OrderInv, IdsUnique, SentCasts
  <2>2. AcceptedCasts' = AcceptedCasts
    BY <1>1, <1>2, <2>1 DEF AcceptedCasts
  <2>3. QED
    BY <1>1, <2>2 DEF Ledger!ledgerVars
<1>6. QED
  BY <1>4, <1>5

LEMMA LedgerStep ==
    ASSUME ReplyContext, OrderInv, CastPending, [Next]_vars
    PROVE  [Ledger!Next]_Ledger!ledgerVars
<1> USE DEF ReplyContext
<1>1. ASSUME NEW c \in Casters, pc[c] = "sign", NEW a, SignAndSend(c, a),
             UNCHANGED ledger
      PROVE  [Ledger!Next]_Ledger!ledgerVars
  <2>1. CASE a \subseteq KeyOK
    <3>1. Ledger!CastVote(cvid[c])
      BY <1>1, <2>1, SendLedger DEF SignAndSend
    <3>2. QED
      BY <3>1 DEF Ledger!Next, TypeOK
  <2>4. CASE ~(a \subseteq KeyOK)
    BY <1>1, <2>4, LedgerStutter DEF SignAndSend, clientVars
  <2>5. QED
    BY <2>1, <2>4
<1>2. CASE GuiSign \/ RpcSign
  BY <1>2, <1>1 DEF GuiSign, RpcSign, Casters
<1>3. CASE GuiFinish
  <2>1. SentCasts' = SentCasts /\ replies' = replies
    <3>1. CASE SendGet("gui")
      BY <3>1, SentGet DEF SendGet, SendRequest
    <3>2. CASE UNCHANGED clientVars
      BY <3>2 DEF SentCasts, clientVars
    <3>3. QED
      BY <1>3, <3>1, <3>2 DEF GuiFinish
  <2>2. QED
    BY <1>3, <2>1, TallyLedger DEF GuiFinish, Casters
<1>4. CASE RpcFinish
  <2>1. SentCasts' = SentCasts /\ replies' = replies
    BY <1>4 DEF RpcFinish, SentCasts, clientVars
  <2>2. QED
    BY <1>4, <2>1, TallyLedger DEF RpcFinish, Casters
<1>5. CASE \E r \in inflight : Complete(r)
  BY <1>5, CompleteLedger
<1>6. CASE Erase
  <2>1. UNCHANGED <<requests, replies>> /\ ledger' \subseteq ledger
    BY <1>6 DEF Erase, clientVars
  <2>2. UNCHANGED <<SentCasts, AcceptedCasts>>
    BY <2>1 DEF SentCasts, AcceptedCasts
  <2>3. QED
    BY <2>1, <2>2 DEF Ledger!Next, Ledger!EraseSome
<1>7. ASSUME NEW f \in Fetchers
      PROVE  ~FetchSend(f) /\ ~FetchDone(f)
  OBVIOUS
<1>8. CASE \/ GuiVote \/ GuiConfirm \/ GuiRefreshed \/ RpcVote \/ Sync
           \/ \E c \in Casters : AwaitReply(c)
           \/ \E r \in inflight : Lose(r)
           \/ UNCHANGED vars
  <2>1. UNCHANGED <<ledger, requests, replies>>
    BY <1>8 DEF GuiVote, GuiConfirm, GuiRefreshed, RpcVote, Sync, AwaitReply, Lose,
                vars, clientVars
  <2>2. QED
    BY <2>1, LedgerStutter
<1>9. QED
  BY <1>2, <1>3, <1>4, <1>5, <1>6, <1>7, <1>8 DEF Next

-----------------------------------------------------------------------------
(* The refinement                                                         *)

(* When no getoffchainproposals caller shares g_governance (the Fetchers  *)
(* stand for every other GET_PROPOSALS sender, the governance page's own *)
(* updateProposalList among them), the two casters, erasegoventries and   *)
(* the service implement GovLedger: OffChainGovernance::vote and          *)
(* postoffchainproposals post a CAST_VOTE only for a vote id with no     *)
(* entry, and write an entry only for a vote id with none whose latest    *)
(* CAST_VOTE the service accepted.  The invariant it rests on:  ReplyInv  *)
(* (the buffers a caster reads are its own answer's), OrderInv (its       *)
(* CAST_VOTE is the newest request) and CastPending (no entry appeared    *)
(* for its vote id since the scan).                                       *)
THEOREM LedgerRefinement ==
    ASSUME Fetchers = {}
    PROVE  Spec => ImplementsLedger
<1> DEFINE I == ReplyInv /\ OrderInv /\ CastPending
<1>1. Init => Ledger!Init
  BY DEF Init, Ledger!Init, SentCasts, AcceptedCasts
<1>2. Init => I
  BY ReplyInit, OrderInit DEF Init, CastPending
<1>3. TypeOK /\ ScanStillValid /\ I /\ [Next]_vars => I'
  BY ReplyStep, OrderStep, CastPendingStep DEF ReplyContext
<1>4. Spec => [](TypeOK /\ ScanStillValid /\ I)
  BY <1>2, <1>3, TypeCorrect, ScanInvariant, PTL DEF Spec
<1>5. TypeOK /\ ScanStillValid /\ I /\ [Next]_vars => [Ledger!Next]_Ledger!ledgerVars
  BY LedgerStep DEF ReplyContext
<1>6. QED
  BY <1>1, <1>4, <1>5, PTL DEF Spec, ImplementsLedger, Ledger!Spec

(* Every vote id with a ledger entry has a CAST_VOTE that the service     *)
(* answered with success, whatever erasegoventries and the later casts   *)
(* did in between: the wallet never records a vote the service refused.  *)
THEOREM EntriesWereAccepted ==
    ASSUME Fetchers = {}
    PROVE  Spec => []Ledger!RecordedWereAccepted
BY LedgerRefinement, Ledger!RecordedAccepted DEF ImplementsLedger

=============================================================================
