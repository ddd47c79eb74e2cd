------------------------ MODULE GovVoteReply_proofs ------------------------
(***************************************************************************)
(* Proof that a caster reports the service's answer to its own CAST_VOTE  *)
(* (ResultIsOwnReply) when no getoffchainproposals caller shares           *)
(* g_governance.  Both casters read statusOK and the votes buffer once    *)
(* isReady() is true (rpcwallet.cpp 6175-6200, offchaingovernance.cpp     *)
(* 368-397); the property rests on nobody else being able to send a       *)
(* request, or land an answer, between the caster's send and its read.   *)
(* With a fetcher the property fails: run stale.                          *)
(***************************************************************************)
EXTENDS GovVote_proofs

(* A request is in flight only while a caster holds cs_wallet and spins *)
(* on isReady() for it (after the CAST, or after the GUI's refresh GET). *)
ClientHeld ==
    inflight # {} => \E c \in Casters : holder = c /\ pc[c] \in {"wait", "refresh"}

(* At most one request is in flight.                                     *)
OneInflight == \A r1, r2 \in inflight : r1 = r2

(* isReady() is true only once every request sent has been answered or   *)
(* lost.                                                                 *)
ReadyDrained == ready => inflight = {}

(* A caster spinning after its CAST_VOTE waits for that request alone.   *)
WaitOwnRequest ==
    \A c \in Casters : pc[c] = "wait" => \A r \in inflight : r.kind = "CAST" /\ r.id = creq[c]

(* A caster reads the buffers only with isReady() true.                  *)
ReadReady == \A c \in Casters : pc[c] = "read" => ready

(* Once isReady() is true for a caster, statusOK and the votes buffer    *)
(* are those of the answer to its CAST_VOTE.                              *)
BufferIsReply ==
    \A c \in Casters :
       pc[c] \in {"wait", "read"} /\ ready =>
          \E r \in replies : /\ r.id = creq[c] /\ r.ok = statusOK
                             /\ statusOK => r.recs = votes

ReplyInv ==
    /\ ClientHeld /\ OneInflight /\ ReadyDrained /\ WaitOwnRequest
    /\ ReadReady /\ BufferIsReply /\ ResultIsOwnReply

ReplyContext == Fetchers = {} /\ TypeOK /\ ScanStillValid /\ ReplyInv

-----------------------------------------------------------------------------
(* When cs_wallet is free or held by c, and c is not spinning on a       *)
(* request, nothing is in flight.                                        *)
LEMMA IdleClient ==
    ASSUME TypeOK, ClientHeld, NEW c \in Casters, holder \in {c, NoHolder},
           pc[c] \notin {"wait", "refresh"}
    PROVE  inflight = {}
BY ConstAssumption DEF ClientHeld, Casters

(* The reports stand while they and the answers they cite stay.          *)
LEMMA ResultFrame ==
    ASSUME ResultIsOwnReply, result' = result, replies \subseteq replies'
    PROVE  ResultIsOwnReply'
BY DEF ResultIsOwnReply

(* The other caster is idle and stays so.                                *)
LEMMA OtherFrame ==
    ASSUME TypeOK, ScanStillValid, NEW c \in Casters, holder \in {c, NoHolder},
           pc' = [pc EXCEPT ![c] = pc'[c]]
    PROVE  \A d \in Casters : d # c => pc[d] = "idle" /\ pc'[d] = "idle"
BY OtherIdle DEF TypeOK


(* A step that leaves the lock, the casters and the client alone.        *)
LEMMA FrameStep ==
    ASSUME ReplyInv, UNCHANGED <<holder, pc, creq, result, clientVars>>
    PROVE  ReplyInv'
BY DEF ReplyInv, ClientHeld, OneInflight, ReadyDrained, WaitOwnRequest, ReadReady,
       BufferIsReply, ResultIsOwnReply, clientVars

(* A step of caster c (or of nobody) that sends nothing, lands nothing,  *)
(* and leaves both casters outside the spin and the read: nothing is in  *)
(* flight before or after, and no report it writes cites an answer.      *)
LEMMA QuietStep ==
    ASSUME ReplyContext, NEW c \in Casters, holder \in {c, NoHolder},
           pc[c] \in {"idle", "confirm", "sign"},
           pc' = [pc EXCEPT ![c] = pc'[c]], pc'[c] \in {"idle", "confirm", "sign"},
           UNCHANGED <<clientVars, creq>>,
           \A d \in Casters : result'[d] = result[d] \/ result'[d].kind \notin {"ok", "failed"}
    PROVE  ReplyInv'
<1> USE DEF ReplyContext
<1>1. inflight = {}
  BY IdleClient DEF ReplyInv
<1>2. \A d \in Casters : d # c => pc[d] = "idle" /\ pc'[d] = "idle"
  BY OtherFrame
<1>3. (ClientHeld /\ OneInflight /\ ReadyDrained /\ WaitOwnRequest)'
  BY <1>1 DEF ClientHeld, OneInflight, ReadyDrained, WaitOwnRequest, clientVars
<1>4. (ReadReady /\ BufferIsReply)'
  BY <1>2 DEF ReadReady, BufferIsReply, TypeOK
<1>5. ResultIsOwnReply'
  BY DEF ResultIsOwnReply, ReplyInv, clientVars
<1>6. QED
  BY <1>3, <1>4, <1>5 DEF ReplyInv

(* The scans, the dialog, a failed signing loop, erasegoventries and the *)
(* chain sync are quiet steps.                                           *)
LEMMA QuietActions ==
    ASSUME ReplyContext,
           \/ GuiVote \/ GuiConfirm \/ RpcVote \/ Erase \/ Sync
           \/ \E c \in Casters : pc[c] = "sign" /\ pc'[c] = "idle"
                                 /\ \E a \in SUBSET Addrs : SignAndSend(c, a)
                                 /\ UNCHANGED cvid
    PROVE  ReplyInv'
<1> USE DEF ReplyContext
<1>1. CASE GuiVote
  <2>1. holder = NoHolder /\ pc["gui"] = "idle"
    BY <1>1 DEF GuiVote
  <2>2. QED
    BY <1>1, <2>1, QuietStep DEF GuiVote, TypeOK, Casters
<1>2. CASE RpcVote
  <2>1. holder = NoHolder /\ pc["rpc"] = "idle"
    BY <1>2 DEF RpcVote
  <2>2. QED
    BY <1>2, <2>1, QuietStep DEF RpcVote, TypeOK, Casters
<1>3. CASE GuiConfirm
  <2>1. holder = "gui" /\ pc["gui"] = "confirm"
    BY <1>3 DEF GuiConfirm, ScanStillValid, Casters
  <2>2. QED
    BY <1>3, <2>1, QuietStep DEF GuiConfirm, TypeOK, Casters
<1>4. CASE Erase \/ Sync
  <2>1. UNCHANGED <<holder, pc, creq, result, clientVars>>
    BY <1>4 DEF Erase, Sync, casterVars
  <2>2. QED
    BY <2>1, FrameStep
<1>5. ASSUME NEW c \in Casters, pc[c] = "sign", pc'[c] = "idle",
             NEW a \in SUBSET Addrs, SignAndSend(c, a)
      PROVE  ReplyInv'
  <2>1. ~(a \subseteq KeyOK)
    BY <1>5 DEF SignAndSend, TypeOK
  <2>2. holder = c
    BY <1>5 DEF ScanStillValid
  <2>3. QED
    <3>1. pc' = [pc EXCEPT ![c] = "idle"] /\ UNCHANGED <<clientVars, creq>>
          /\ result' = [result EXCEPT ![c] = [kind |-> "signfail"]]
      BY <1>5, <2>1 DEF SignAndSend
    <3>2. pc' = [pc EXCEPT ![c] = pc'[c]]
      BY <3>1 DEF TypeOK
    <3>3. \A d \in Casters : result'[d] = result[d] \/ result'[d].kind \notin {"ok", "failed"}
      BY <3>1 DEF TypeOK
    <3>4. QED
      BY <1>5, <2>2, <3>1, <3>2, <3>3, QuietStep
<1>6. QED
  BY <1>1, <1>2, <1>3, <1>4, <1>5


(* A successful signing loop sends the CAST_VOTE: it is now the only     *)
(* request in flight, creq names it and isReady() turns false.           *)
LEMMA SendStep ==
    ASSUME ReplyContext, NEW c \in Casters, pc[c] = "sign", NEW a,
           a \subseteq KeyOK, SendCast(c, cvid[c], a),
           creq' = [creq EXCEPT ![c] = NextId], pc' = [pc EXCEPT ![c] = "wait"],
           UNCHANGED <<holder, result>>
    PROVE  ReplyInv'
<1> USE DEF ReplyContext
<1> DEFINE cast == [id |-> NextId, kind |-> "CAST", by |-> c, vid |-> cvid[c], addrs |-> a]
<1>1. holder = c
  BY DEF ScanStillValid
<1>2. inflight = {}
  BY <1>1, IdleClient DEF ReplyInv
<1>3. inflight' = {cast} /\ ~ready' /\ UNCHANGED <<statusOK, votes, replies>>
  BY <1>2 DEF SendCast, SendRequest
<1>4. \A d \in Casters : d # c => pc[d] = "idle" /\ pc'[d] = "idle"
  <2>1. pc' = [pc EXCEPT ![c] = pc'[c]]
    BY DEF TypeOK
  <2>2. QED
    BY <1>1, <2>1, OtherFrame
<1>5. (ClientHeld /\ OneInflight /\ ReadyDrained)'
  BY <1>1, <1>3 DEF ClientHeld, OneInflight, ReadyDrained, TypeOK
<1>6. WaitOwnRequest'
  BY <1>3, <1>4 DEF WaitOwnRequest, TypeOK
<1>7. (ReadReady /\ BufferIsReply)'
  BY <1>3, <1>4 DEF ReadReady, BufferIsReply, TypeOK
<1>8. ResultIsOwnReply'
  BY <1>3, ResultFrame DEF ReplyInv
<1>9. QED
  BY <1>5, <1>6, <1>7, <1>8 DEF ReplyInv

(* The spin ends only with isReady() true.                               *)
LEMMA AwaitStep ==
    ASSUME ReplyContext, NEW c \in Casters, AwaitReply(c)
    PROVE  ReplyInv'
<1> USE DEF ReplyContext
<1>1. ready /\ UNCHANGED <<holder, creq, result, clientVars>>
  BY DEF AwaitReply
<1>2. pc' = [pc EXCEPT ![c] = "read"] /\ pc[c] = "wait"
  BY DEF AwaitReply
<1>3. inflight = {}
  BY <1>1 DEF ReplyInv, ReadyDrained
<1>4. (ClientHeld /\ OneInflight /\ ReadyDrained /\ WaitOwnRequest)'
  BY <1>1, <1>3 DEF ClientHeld, OneInflight, ReadyDrained, WaitOwnRequest, clientVars
<1>5. (ReadReady /\ BufferIsReply)'
  BY <1>1, <1>2 DEF ReplyInv, ReadReady, BufferIsReply, clientVars, TypeOK
<1>6. ResultIsOwnReply'
  BY <1>1, ResultFrame DEF clientVars, ReplyInv
<1>7. QED
  BY <1>4, <1>5, <1>6 DEF ReplyInv

(* The GUI's refresh ends with isReady() true and lets go of cs_wallet.  *)
LEMMA RefreshedStep ==
    ASSUME ReplyContext, GuiRefreshed
    PROVE  ReplyInv'
<1> USE DEF ReplyContext
<1>1. ready /\ UNCHANGED <<creq, result, clientVars>> /\ holder' = NoHolder
  BY DEF GuiRefreshed
<1>2. pc' = [pc EXCEPT !["gui"] = "idle"] /\ pc["gui"] = "refresh"
  BY DEF GuiRefreshed
<1>3. inflight = {}
  BY <1>1 DEF ReplyInv, ReadyDrained
<1>4. pc["rpc"] = "idle"
  BY <1>2, OtherIdle DEF ScanStillValid, Casters
<1>5. \A d \in Casters : pc'[d] = "idle"
  BY <1>2, <1>4 DEF TypeOK, Casters
<1>6. (ClientHeld /\ OneInflight /\ ReadyDrained /\ WaitOwnRequest)'
  BY <1>1, <1>3 DEF ClientHeld, OneInflight, ReadyDrained, WaitOwnRequest, clientVars
<1>7. (ReadReady /\ BufferIsReply)'
  BY <1>5 DEF ReadReady, BufferIsReply
<1>8. ResultIsOwnReply'
  BY <1>1, ResultFrame DEF clientVars, ReplyInv
<1>9. QED
  BY <1>6, <1>7, <1>8 DEF ReplyInv


(* The tally reports the answer to the caster's own CAST_VOTE: the sum   *)
(* it writes is taken over the very buffer that answer filled.           *)
LEMMA TallyReport ==
    ASSUME ReplyContext, NEW c \in Casters, pc[c] = "read", Tally(c),
           UNCHANGED <<replies, statusOK, votes>>
    PROVE  ResultIsOwnReply'
<1> USE DEF ReplyContext
<1>1. PICK r \in replies : /\ r.id = creq[c] /\ r.ok = statusOK
                           /\ statusOK => r.recs = votes
  BY DEF ReplyInv, ReadReady, BufferIsReply
<1>2. CASE statusOK
  <2>1. result' = [result EXCEPT ![c] = [kind |-> "ok", vid |-> cvid[c], req |-> creq[c],
                                         weight |-> AggregateWeight(cvid[c], votes)]]
    BY <1>2 DEF Tally
  <2>2. /\ r \in replies' /\ r.id = result'[c].req /\ r.ok
        /\ result'[c].weight = AggregateWeight(result'[c].vid, r.recs)
    BY <1>1, <1>2, <2>1 DEF TypeOK
  <2>3. QED
    BY <2>1, <2>2 DEF ResultIsOwnReply, ReplyInv, TypeOK
<1>3. CASE ~statusOK
  <2>1. result' = [result EXCEPT ![c] = [kind |-> "failed", req |-> creq[c]]]
    BY <1>3 DEF Tally
  <2>2. r \in replies' /\ r.id = result'[c].req /\ ~r.ok
    BY <1>1, <1>3, <2>1 DEF TypeOK
  <2>3. QED
    BY <2>1, <2>2 DEF ResultIsOwnReply, ReplyInv, TypeOK
<1>4. QED
  BY <1>2, <1>3

(* postoffchainproposals reports and returns, letting go of cs_wallet.   *)
LEMMA RpcFinishStep ==
    ASSUME ReplyContext, RpcFinish
    PROVE  ReplyInv'
<1> USE DEF ReplyContext
<1>1. pc["rpc"] = "read" /\ pc' = [pc EXCEPT !["rpc"] = "idle"] /\ holder' = NoHolder
      /\ UNCHANGED <<creq, clientVars>>
  BY DEF RpcFinish
<1>2. ResultIsOwnReply'
  BY <1>1, TallyReport DEF RpcFinish, clientVars, Casters
<1>3. inflight = {}
  BY <1>1 DEF ReplyInv, ReadReady, ReadyDrained, Casters
<1>4. \A d \in Casters : pc'[d] = "idle"
  <2>1. pc["gui"] = "idle"
    BY <1>1, OtherIdle DEF ScanStillValid, Casters
  <2>2. QED
    BY <1>1, <2>1 DEF TypeOK, Casters
<1>5. (ClientHeld /\ OneInflight /\ ReadyDrained /\ WaitOwnRequest)'
  BY <1>1, <1>3 DEF ClientHeld, OneInflight, ReadyDrained, WaitOwnRequest, clientVars
<1>6. (ReadReady /\ BufferIsReply)'
  BY <1>4 DEF ReadReady, BufferIsReply
<1>7. QED
  BY <1>2, <1>5, <1>6 DEF ReplyInv

(* The GUI reports, then on success refreshes with a GET_PROPOSALS it    *)
(* spins on; on failure it returns at once.                              *)
LEMMA GuiFinishStep ==
    ASSUME ReplyContext, GuiFinish
    PROVE  ReplyInv'
<1> USE DEF ReplyContext
<1>1. pc["gui"] = "read" /\ UNCHANGED creq /\ Tally("gui")
  BY DEF GuiFinish
<1>2. inflight = {} /\ ready
  BY <1>1 DEF ReplyInv, ReadReady, ReadyDrained, Casters
<1>3. pc["rpc"] = "idle"
  BY <1>1, OtherIdle DEF ScanStillValid, Casters
<1>4. UNCHANGED <<replies, statusOK, votes>>
  BY DEF GuiFinish, SendGet, SendRequest, clientVars
<1>5. ResultIsOwnReply'
  BY <1>1, <1>4, TallyReport DEF Casters
<1>6. CASE statusOK
  <2>1. /\ pc' = [pc EXCEPT !["gui"] = "refresh"] /\ holder' = holder
        /\ inflight' = {[id |-> NextId, kind |-> "GET", by |-> "gui"]} /\ ~ready'
    BY <1>2, <1>6 DEF GuiFinish, SendGet, SendRequest
  <2>2. holder = "gui"
    BY <1>1 DEF ScanStillValid, Casters
  <2>3. pc'["gui"] = "refresh" /\ pc'["rpc"] = "idle"
    BY <2>1, <1>3 DEF TypeOK, Casters
  <2>4. (ClientHeld /\ OneInflight /\ ReadyDrained /\ WaitOwnRequest)'
    BY <2>1, <2>2, <2>3 DEF ClientHeld, OneInflight, ReadyDrained, WaitOwnRequest, Casters
  <2>5. (ReadReady /\ BufferIsReply)'
    BY <2>3 DEF ReadReady, BufferIsReply, Casters
  <2>6. QED
    BY <1>5, <2>4, <2>5 DEF ReplyInv
<1>7. CASE ~statusOK
  <2>1. pc' = [pc EXCEPT !["gui"] = "idle"] /\ holder' = NoHolder /\ UNCHANGED clientVars
    BY <1>7 DEF GuiFinish
  <2>2. pc'["gui"] = "idle" /\ pc'["rpc"] = "idle"
    BY <2>1, <1>3 DEF TypeOK, Casters
  <2>3. (ClientHeld /\ OneInflight /\ ReadyDrained /\ WaitOwnRequest)'
    BY <1>2, <2>1 DEF ClientHeld, OneInflight, ReadyDrained, WaitOwnRequest, clientVars
  <2>4. (ReadReady /\ BufferIsReply)'
    BY <2>2 DEF ReadReady, BufferIsReply, Casters
  <2>5. QED
    BY <1>5, <2>3, <2>4 DEF ReplyInv
<1>8. QED
  BY <1>6, <1>7


(* The service answers the one request in flight: it is the CAST_VOTE of *)
(* the caster spinning on it, or the GUI's refresh GET.                   *)
LEMMA CompleteStep ==
    ASSUME ReplyContext, NEW r \in inflight, Complete(r)
    PROVE  ReplyInv'
<1> USE DEF ReplyContext
<1>1. ~ready /\ inflight = {r}
  BY DEF ReplyInv, ReadyDrained, OneInflight
<1>2. PICK c \in Casters : holder = c /\ pc[c] \in {"wait", "refresh"}
  BY DEF ReplyInv, ClientHeld
<1>3. PICK ok \in BOOLEAN, acc \in SUBSET (IF r.kind = "CAST" THEN r.addrs ELSE {}) :
        LET recs == {[vid |-> r.vid, addr |-> a, weight |-> Weight[a]] : a \in acc}
        IN  /\ inflight' = inflight \ {r}
            /\ ready' = TRUE
            /\ statusOK' = ok
            /\ votes' = IF ok /\ r.kind = "CAST" THEN recs ELSE votes
            /\ replies' = replies \cup {[id |-> r.id, ok |-> ok, recs |-> recs]}
  BY DEF Complete
<1>4. UNCHANGED <<holder, pc, creq, result>>
  BY DEF Complete, casterVars
<1>5. inflight' = {} /\ ready'
  BY <1>1, <1>3
<1>6. (ClientHeld /\ OneInflight /\ ReadyDrained /\ WaitOwnRequest /\ ReadReady)'
  BY <1>5 DEF ClientHeld, OneInflight, ReadyDrained, WaitOwnRequest, ReadReady
<1>7. BufferIsReply'
  <2> SUFFICES ASSUME NEW d \in Casters, pc'[d] \in {"wait", "read"}
               PROVE  \E q \in replies' : /\ q.id = creq'[d] /\ q.ok = statusOK'
                                          /\ statusOK' => q.recs = votes'
    BY DEF BufferIsReply
  <2>1. d = c /\ pc[c] = "wait"
    BY <1>1, <1>2, <1>4, OtherIdle DEF ReplyInv, ReadReady, TypeOK
  <2>2. r.kind = "CAST" /\ r.id = creq[c]
    BY <2>1 DEF ReplyInv, WaitOwnRequest
  <2> DEFINE recs == {[vid |-> r.vid, addr |-> a, weight |-> Weight[a]] : a \in acc}
              nr == [id |-> r.id, ok |-> ok, recs |-> recs]
  <2>3. nr \in replies'
    BY <1>3
  <2>4. nr.id = creq'[d] /\ nr.ok = statusOK'
    BY <1>3, <1>4, <2>1, <2>2
  <2>5. statusOK' => nr.recs = votes'
    BY <1>3, <2>2
  <2>6. QED
    BY <2>3, <2>4, <2>5
<1>8. ResultIsOwnReply'
  BY <1>3, <1>4, ResultFrame DEF ReplyInv
<1>9. QED
  BY <1>6, <1>7, <1>8 DEF ReplyInv

(* A request or its answer is lost: isReady() stays false.               *)
LEMMA LoseStep ==
    ASSUME ReplyContext, NEW r \in inflight, Lose(r)
    PROVE  ReplyInv'
<1> USE DEF ReplyContext
<1>1. ~ready
  BY DEF ReplyInv, ReadyDrained
<1>2. inflight' \subseteq inflight
      /\ UNCHANGED <<holder, pc, creq, result, ready, statusOK, votes, replies>>
  BY DEF Lose, casterVars
<1>3. QED
  BY <1>1, <1>2 DEF ReplyInv, ClientHeld, OneInflight, ReadyDrained, WaitOwnRequest,
                    ReadReady, BufferIsReply, ResultIsOwnReply

LEMMA ReplyStep ==
    ASSUME ReplyContext, [Next]_vars
    PROVE  ReplyInv'
<1> USE DEF ReplyContext
<1>1. CASE GuiVote \/ GuiConfirm \/ RpcVote \/ Erase \/ Sync
  BY <1>1, QuietActions
<1>3. ASSUME NEW c \in Casters, pc[c] = "sign", NEW a \in SUBSET Addrs, SignAndSend(c, a),
             UNCHANGED cvid
      PROVE  ReplyInv'
  <2>1. CASE a \subseteq KeyOK
    <3>1. /\ SendCast(c, cvid[c], a) /\ creq' = [creq EXCEPT ![c] = NextId]
          /\ pc' = [pc EXCEPT ![c] = "wait"] /\ UNCHANGED <<holder, result>>
      BY <1>3, <2>1 DEF SignAndSend
    <3>2. QED
      BY <1>3, <2>1, <3>1, SendStep
  <2>2. CASE ~(a \subseteq KeyOK)
    <3>0. pc' = [pc EXCEPT ![c] = "idle"]
      BY <1>3, <2>2 DEF SignAndSend
    <3>1. pc'[c] = "idle"
      BY <3>0 DEF TypeOK
    <3>2. QED
      BY <1>3, <3>1, QuietActions
  <2>3. QED
    BY <2>1, <2>2
<1>4. CASE GuiSign
  <2>1. GuiVotingAddresses \in SUBSET Addrs
    BY StakeScriptsType DEF GuiVotingAddresses
  <2>2. QED
    BY <1>4, <2>1, <1>3 DEF GuiSign, Casters
<1>5. CASE RpcSign
  <2>1. RpcVotingAddresses \in SUBSET Addrs
    BY StakeScriptsType DEF RpcVotingAddresses
  <2>2. QED
    BY <1>5, <2>1, <1>3 DEF RpcSign, Casters
<1>6. CASE GuiFinish
  BY <1>6, GuiFinishStep
<1>7. CASE RpcFinish
  BY <1>7, RpcFinishStep
<1>8. CASE GuiRefreshed
  BY <1>8, RefreshedStep
<1>9. CASE \E c \in Casters : AwaitReply(c)
  BY <1>9, AwaitStep
<1>10. CASE \E r \in inflight : Complete(r) \/ Lose(r)
  BY <1>10, CompleteStep, LoseStep
<1>11. CASE \E f \in Fetchers : FetchSend(f) \/ FetchDone(f)
  BY <1>11
<1>12. CASE UNCHANGED vars
  BY <1>12, FrameStep DEF vars, casterVars, clientVars
<1>13. QED
  BY <1>1, <1>4, <1>5, <1>6, <1>7, <1>8, <1>9, <1>10, <1>11, <1>12 DEF Next


LEMMA ReplyInit == Init => ReplyInv
BY DEF Init, ReplyInv, ClientHeld, OneInflight, ReadyDrained, WaitOwnRequest,
       ReadReady, BufferIsReply, ResultIsOwnReply

(* With no getoffchainproposals caller on g_governance, what each caster *)
(* reports (OffChainGovernance::vote's message, postoffchainproposals'   *)
(* result) is the service's answer to its own CAST_VOTE: success with    *)
(* the weight its records add up to, or failure.  The hypothesis is the  *)
(* one the code needs: run stale shows the report taken from a           *)
(* GET_PROPOSALS answer once a fetcher shares the client.                 *)
THEOREM ReplyInvariant ==
    ASSUME Fetchers = {}
    PROVE  Spec => []ResultIsOwnReply
<1>1. TypeOK /\ ScanStillValid /\ ReplyInv /\ [Next]_vars => ReplyInv'
  BY ReplyStep DEF ReplyContext
<1>2. Spec => []ReplyInv
  BY <1>1, ReplyInit, TypeCorrect, ScanInvariant, PTL DEF Spec
<1>3. QED
  BY <1>2, PTL DEF ReplyInv

====
