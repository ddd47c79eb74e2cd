------------------------------- MODULE GovVote -------------------------------
(***************************************************************************)
(* The off-chain governance cast path of the NIX wallet.                   *)
(*                                                                         *)
(*  - the GUI caster: OffChainGovernance::vote (src/qt/offchaingovernance.cpp) *)
(*  - the RPC caster: postoffchainproposals (src/wallet/rpcwallet.cpp)     *)
(*  - the RPC threads running getoffchainproposals, which share the       *)
(*    process-wide client g_governance with both casters                   *)
(*  - erasegoventries, which empties the wallet's governance ledger       *)
(*  - the client g_governance and the coordination service behind it     *)
(*    (governance/networking-governance.h is not part of src/: modelled  *)
(*    from the spec, Section 4.3 and 5)                                    *)
(*                                                                         *)
(* Both casters run under LOCK2(cs_main, cs_wallet); getoffchainproposals *)
(* takes no lock.  The only synchronisation on g_governance is its        *)
(* ready flag, polled by `while(!g_governance.isReady()){}`.              *)
(***************************************************************************)
EXTENDS Naturals, FiniteSets, FiniteSetsExt

CONSTANTS
    VoteIds,        \* vote identifiers of the published proposals
    Addrs,          \* the scripts (addresses) appearing in wallet outputs
    Outputs,        \* the wallet's transaction outputs, see OutputRec
    Weight,         \* Weight[a]: the weight the service counts for address a
    KeyOK,          \* addresses whose private key the wallet can sign with
    Fetchers,       \* RPC threads that call getoffchainproposals
    NoHolder,       \* model value: cs_wallet is free
    LossyService,   \* whether a request may go unanswered forever
    MaxCasts,       \* bound on the casts each caster starts
    MaxFetches      \* bound on the getoffchainproposals calls of a fetcher

Casters == {"gui", "rpc"}

(* An output of a wallet transaction, with what the collector tests of it: *)
(* IsCoinStake of its transaction, IsMine and IsPayToScriptHashAny of its  *)
(* script, and whether GetTxTime lies inside the 46-day vote timeframe.    *)
OutputRec == [addr: Addrs, coinstake: BOOLEAN, mine: BOOLEAN,
              p2sh: BOOLEAN, inWindow: BOOLEAN]

ASSUME ConstAssumption ==
    /\ VoteIds # {}
    /\ Outputs \subseteq OutputRec
    /\ Weight \in [Addrs -> Nat]
    /\ KeyOK \subseteq Addrs
    /\ NoHolder \notin Casters
    /\ LossyService \in BOOLEAN
    /\ MaxCasts \in Nat
    /\ MaxFetches \in Nat

VARIABLES
    ledger,     \* the wallet DB's CGovernanceEntry records
    holder,     \* the caster holding cs_wallet, or NoHolder
    pc,         \* pc[c]: where caster c is in its handler
    cvid,       \* cvid[c]: the vote_id caster c is voting on
    creq,       \* creq[c]: the id of c's CAST request
    result,     \* result[c]: what c last reported to its user
    ncast,      \* ncast[c]: casts started by c (bounded by MaxCasts)
    synced,     \* ~IsInitialBlockDownload()
    ready,      \* g_governance.isReady()
    statusOK,   \* g_governance.statusOK
    votes,      \* g_governance.votes: the buffered VoteRecords
    proposals,  \* g_governance.proposals: id of the GET reply that filled it
    requests,   \* every request ever sent to the service (history)
    inflight,   \* the requests the service has not answered yet
    replies,    \* every answer of the service (history)
    okCasts,    \* vote ids whose cast reported success since the last erase
    fpc,        \* fpc[f]: where fetcher f is in getoffchainproposals
    nfetch      \* nfetch[f]: calls made by fetcher f (bounded by MaxFetches)

casterVars == <<pc, cvid, creq, result, ncast>>
clientVars == <<ready, statusOK, votes, proposals, requests, inflight, replies>>
vars == <<ledger, holder, casterVars, synced, clientVars, okCasts, fpc, nfetch>>

-----------------------------------------------------------------------------
(* Data *)

(* A VoteRecord as the service returns it: the weight is the address's.  *)
VoteRec == {[vid |-> v, addr |-> a, weight |-> Weight[a]] : v \in VoteIds, a \in Addrs}

(* The vote weight the aggregation loop adds up over a buffer of records. *)
AggregateWeight(v, recs) ==
    MapThenSumSet(LAMBDA r : r.weight, {r \in recs : r.vid = v})

WeightSums == {AggregateWeight(v, S) : v \in VoteIds, S \in SUBSET VoteRec}

Entry == [vid: VoteIds, weight: WeightSums]

VotedIds(l) == {e.vid : e \in l}

(* CWalletDB::WriteGovernanceEntry: one record per vote id.              *)
WriteEntry(l, v, w) == {e \in l : e.vid # v} \cup {[vid |-> v, weight |-> w]}

(* The scripts of the owned, non-P2SH outputs of coinstake transactions,  *)
(* duplicates collapsed.  windowed: only outputs inside the timeframe.   *)
StakeScripts(windowed) ==
    {o.addr : o \in {o \in Outputs : o.coinstake /\ o.mine /\ ~o.p2sh
                                    /\ (windowed => o.inWindow)}}

(* The GUI collects every coinstake output, whatever its time.           *)
GuiVotingAddresses == StakeScripts(FALSE)

(* The RPC skips transactions older than the 46-day timeframe.            *)
RpcVotingAddresses == StakeScripts(TRUE)

Request == [id: Nat, kind: {"CAST"}, by: Casters, vid: VoteIds, addrs: SUBSET Addrs]
           \cup [id: Nat, kind: {"GET"}, by: Casters \cup Fetchers]

Reply == [id: Nat, ok: BOOLEAN, recs: SUBSET VoteRec]

Result == [kind: {"none", "already", "cancelled", "signfail"}]
          \cup [kind: {"failed"}, req: Nat]
          \cup [kind: {"ok"}, vid: VoteIds, req: Nat, weight: WeightSums]

-----------------------------------------------------------------------------
(* g_governance (spec-modelled)                                           *)

NextId == Cardinality(requests) + 1

(* g_governance.SendRequests: the request goes out, isReady() turns false. *)
SendRequest(r) ==
    /\ requests' = requests \cup {r}
    /\ inflight' = inflight \cup {r}
    /\ ready' = FALSE
    /\ UNCHANGED <<statusOK, votes, proposals, replies>>

SendCast(c, v, addrs) ==
    SendRequest([id |-> NextId, kind |-> "CAST", by |-> c, vid |-> v, addrs |-> addrs])

SendGet(who) == SendRequest([id |-> NextId, kind |-> "GET", by |-> who])

(* The service answers request r.  ok = FALSE covers a transport failure *)
(* and a rejection alike.  On success it returns a VoteRecord for every   *)
(* ballot whose signature it accepted, and the buffer of the request's   *)
(* kind is replaced.  Whichever answer lands sets isReady().             *)
Complete(r) ==
    /\ r \in inflight
    /\ \E ok \in BOOLEAN, accepted \in SUBSET (IF r.kind = "CAST" THEN r.addrs ELSE {}) :
         LET recs == {[vid |-> r.vid, addr |-> a, weight |-> Weight[a]] : a \in accepted}
         IN  /\ inflight' = inflight \ {r}
             /\ ready' = TRUE
             /\ statusOK' = ok
             /\ votes' = IF ok /\ r.kind = "CAST" THEN recs ELSE votes
             /\ proposals' = IF ok /\ r.kind = "GET" THEN r.id ELSE proposals
             /\ replies' = replies \cup {[id |-> r.id, ok |-> ok, recs |-> recs]}
    /\ UNCHANGED <<ledger, holder, casterVars, synced, requests, okCasts, fpc, nfetch>>

(* The request or its answer is lost: nothing ever lands for it.  The  *)
(* spins on isReady() have no timeout.                                   *)
Lose(r) ==
    /\ LossyService
    /\ r \in inflight
    /\ inflight' = inflight \ {r}
    /\ UNCHANGED <<ledger, holder, casterVars, synced, ready, statusOK, votes,
                   proposals, requests, replies, okCasts, fpc, nfetch>>

-----------------------------------------------------------------------------
(* The casters *)

(* vote(decision) up to the dialog: the IsInitialBlockDownload gate, then *)
(* under LOCK2 the ledger scan that rejects a vote id already voted on.  *)
GuiVote ==
    /\ pc["gui"] = "idle"
    /\ holder = NoHolder
    /\ synced
    /\ ncast["gui"] < MaxCasts
    /\ \E v \in VoteIds :
         /\ cvid' = [cvid EXCEPT !["gui"] = v]
         /\ \/ /\ v \in VotedIds(ledger)
               /\ result' = [result EXCEPT !["gui"] = [kind |-> "already"]]
               /\ UNCHANGED <<holder, pc>>
            \/ /\ v \notin VotedIds(ledger)
               /\ holder' = "gui"
               /\ pc' = [pc EXCEPT !["gui"] = "confirm"]
               /\ UNCHANGED result
    /\ ncast' = [ncast EXCEPT !["gui"] = @ + 1]
    /\ UNCHANGED <<ledger, creq, synced, clientVars, okCasts, fpc, nfetch>>

(* The SendConfirmationDialog: the user confirms or backs out.           *)
GuiConfirm ==
    /\ pc["gui"] = "confirm"
    /\ \/ /\ pc' = [pc EXCEPT !["gui"] = "sign"]
          /\ UNCHANGED <<holder, result>>
       \/ /\ pc' = [pc EXCEPT !["gui"] = "idle"]
          /\ holder' = NoHolder
          /\ result' = [result EXCEPT !["gui"] = [kind |-> "cancelled"]]
    /\ UNCHANGED <<ledger, cvid, creq, ncast, synced, clientVars, okCasts, fpc, nfetch>>
(* Mutant: postoffchainproposals without the ledger scan.                 *)
RpcVote_noScan ==
    /\ pc["rpc"] = "idle"
    /\ holder = NoHolder
    /\ ncast["rpc"] < MaxCasts
    /\ \E v \in VoteIds :
         /\ cvid' = [cvid EXCEPT !["rpc"] = v]
         /\ holder' = "rpc"
         /\ pc' = [pc EXCEPT !["rpc"] = "sign"]
         /\ UNCHANGED result
    /\ ncast' = [ncast EXCEPT !["rpc"] = @ + 1]
    /\ UNCHANGED <<ledger, creq, synced, clientVars, okCasts, fpc, nfetch>>

(* Mutant: postoffchainproposals without LOCK2.                          *)
RpcVote_noLock ==
    /\ pc["rpc"] = "idle"
    /\ ncast["rpc"] < MaxCasts
    /\ \E v \in VoteIds :
         /\ cvid' = [cvid EXCEPT !["rpc"] = v]
         /\ \/ /\ v \in VotedIds(ledger)
               /\ result' = [result EXCEPT !["rpc"] = [kind |-> "already"]]
               /\ UNCHANGED <<holder, pc>>
            \/ /\ v \notin VotedIds(ledger)
               /\ holder' = "rpc"
               /\ pc' = [pc EXCEPT !["rpc"] = "sign"]
               /\ UNCHANGED result
    /\ ncast' = [ncast EXCEPT !["rpc"] = @ + 1]
    /\ UNCHANGED <<ledger, creq, synced, clientVars, okCasts, fpc, nfetch>>

(* postoffchainproposals up to the address scan: LOCK2, then the ledger  *)
(* scan that throws "You have already voted for this proposal!".  There  *)
(* is no IsInitialBlockDownload gate on this path.                       *)
RpcVote ==
    /\ pc["rpc"] = "idle"
    /\ holder = NoHolder
    /\ ncast["rpc"] < MaxCasts
    /\ \E v \in VoteIds :
         /\ cvid' = [cvid EXCEPT !["rpc"] = v]
         /\ \/ /\ v \in VotedIds(ledger)
               /\ result' = [result EXCEPT !["rpc"] = [kind |-> "already"]]
               /\ UNCHANGED <<holder, pc>>
            \/ /\ v \notin VotedIds(ledger)
               /\ holder' = "rpc"
               /\ pc' = [pc EXCEPT !["rpc"] = "sign"]
               /\ UNCHANGED result
    /\ ncast' = [ncast EXCEPT !["rpc"] = @ + 1]
    /\ UNCHANGED <<ledger, creq, synced, clientVars, okCasts, fpc, nfetch>>

(* The signing loop and the post: one ballot per collected address; the  *)
(* first address without a usable key aborts the whole batch, otherwise *)
(* the batch (possibly "[]") goes out as CAST_VOTE.                      *)
SignAndSend(c, addrs) ==
    \/ /\ addrs \subseteq KeyOK
       /\ SendCast(c, cvid[c], addrs)
       /\ creq' = [creq EXCEPT ![c] = NextId]
       /\ pc' = [pc EXCEPT ![c] = "wait"]
       /\ UNCHANGED <<holder, result>>
    \/ /\ ~(addrs \subseteq KeyOK)
       /\ pc' = [pc EXCEPT ![c] = "idle"]
       /\ holder' = NoHolder
       /\ result' = [result EXCEPT ![c] = [kind |-> "signfail"]]
       /\ UNCHANGED <<creq, clientVars>>

GuiSign ==
    /\ pc["gui"] = "sign"
    /\ SignAndSend("gui", GuiVotingAddresses)
    /\ UNCHANGED <<ledger, cvid, ncast, synced, okCasts, fpc, nfetch>>

RpcSign ==
    /\ pc["rpc"] = "sign"
    /\ SignAndSend("rpc", RpcVotingAddresses)
    /\ UNCHANGED <<ledger, cvid, ncast, synced, okCasts, fpc, nfetch>>

(* Mutant: the spin dropped; the buffers are read at once.                *)
AwaitReply_noSpin(c) ==
    /\ pc[c] = "wait"
    /\ pc' = [pc EXCEPT ![c] = "read"]
    /\ UNCHANGED <<ledger, holder, cvid, creq, result, ncast, synced,
                   clientVars, okCasts, fpc, nfetch>>
(* while(!g_governance.isReady()){}                                       *)
AwaitReply(c) ==
    /\ pc[c] = "wait"
    /\ ready
    /\ pc' = [pc EXCEPT ![c] = "read"]
    /\ UNCHANGED <<ledger, holder, cvid, creq, result, ncast, synced,
                   clientVars, okCasts, fpc, nfetch>>

(* Mutant: the entry is stored before statusOK is looked at.             *)
Tally_writeFirst(c) ==
    LET w == AggregateWeight(cvid[c], votes) IN
    /\ ledger' = IF w # 0 THEN WriteEntry(ledger, cvid[c], w) ELSE ledger
    /\ \/ /\ statusOK
          /\ result' = [result EXCEPT ![c] = [kind |-> "ok", vid |-> cvid[c],
                                              req |-> creq[c], weight |-> w]]
          /\ okCasts' = okCasts \cup {cvid[c]}
       \/ /\ ~statusOK
          /\ result' = [result EXCEPT ![c] = [kind |-> "failed", req |-> creq[c]]]
          /\ UNCHANGED okCasts

(* After the wait: statusOK decides; on success the weights of the       *)
(* buffered records carrying this vote id are summed and, when the sum  *)
(* is not 0, written to the ledger.                                      *)
Tally(c) ==
    LET w == AggregateWeight(cvid[c], votes) IN
    \/ /\ statusOK
       /\ ledger' = IF w # 0 THEN WriteEntry(ledger, cvid[c], w) ELSE ledger
       /\ result' = [result EXCEPT ![c] = [kind |-> "ok", vid |-> cvid[c],
                                           req |-> creq[c], weight |-> w]]
       /\ okCasts' = okCasts \cup {cvid[c]}
    \/ /\ ~statusOK
       /\ result' = [result EXCEPT ![c] = [kind |-> "failed", req |-> creq[c]]]
       /\ UNCHANGED <<ledger, okCasts>>
(* The GUI then refreshes: SendRequests(GET_PROPOSALS) and another spin, *)
(* still under LOCK2; a failed cast returns at once.                     *)
GuiFinish ==
    /\ pc["gui"] = "read"
    /\ Tally("gui")
    /\ \/ /\ statusOK
          /\ SendGet("gui")
          /\ pc' = [pc EXCEPT !["gui"] = "refresh"]
          /\ UNCHANGED holder
       \/ /\ ~statusOK
          /\ pc' = [pc EXCEPT !["gui"] = "idle"]
          /\ holder' = NoHolder
          /\ UNCHANGED clientVars
    /\ UNCHANGED <<cvid, creq, ncast, synced, fpc, nfetch>>

GuiRefreshed ==
    /\ pc["gui"] = "refresh"
    /\ ready
    /\ pc' = [pc EXCEPT !["gui"] = "idle"]
    /\ holder' = NoHolder
    /\ UNCHANGED <<ledger, cvid, creq, result, ncast, synced, clientVars,
                   okCasts, fpc, nfetch>>

RpcFinish ==
    /\ pc["rpc"] = "read"
    /\ Tally("rpc")
    /\ pc' = [pc EXCEPT !["rpc"] = "idle"]
    /\ holder' = NoHolder
    /\ UNCHANGED <<cvid, creq, ncast, synced, clientVars, fpc, nfetch>>

-----------------------------------------------------------------------------
(* The other wallet RPCs *)

(* erasegoventries: under LOCK2, erase the listed entries one by one; a   *)
(* failing EraseGovernanceEntry throws and leaves the rest in place.     *)
Erase ==
    /\ holder = NoHolder
    /\ \E rest \in SUBSET ledger :
         /\ ledger' = rest
         /\ okCasts' = okCasts \cap VotedIds(rest)
    /\ UNCHANGED <<holder, casterVars, synced, clientVars, fpc, nfetch>>

(* getoffchainproposals: no lock; post GET_PROPOSALS and spin on ready.  *)
FetchSend(f) ==
    /\ fpc[f] = "idle"
    /\ nfetch[f] < MaxFetches
    /\ SendGet(f)
    /\ fpc' = [fpc EXCEPT ![f] = "wait"]
    /\ nfetch' = [nfetch EXCEPT ![f] = @ + 1]
    /\ UNCHANGED <<ledger, holder, casterVars, synced, okCasts>>

(* ... then read statusOK and the proposal buffer and return them.       *)
FetchDone(f) ==
    /\ fpc[f] = "wait"
    /\ ready
    /\ fpc' = [fpc EXCEPT ![f] = "idle"]
    /\ UNCHANGED <<ledger, holder, casterVars, synced, clientVars, okCasts, nfetch>>

(* The node finishes its initial block download.                         *)
Sync ==
    /\ ~synced
    /\ synced' = TRUE
    /\ UNCHANGED <<ledger, holder, casterVars, clientVars, okCasts, fpc, nfetch>>

-----------------------------------------------------------------------------

Init ==
    /\ ledger = {}
    /\ holder = NoHolder
    /\ pc = [c \in Casters |-> "idle"]
    /\ cvid = [c \in Casters |-> CHOOSE v \in VoteIds : TRUE]
    /\ creq = [c \in Casters |-> 0]
    /\ result = [c \in Casters |-> [kind |-> "none"]]
    /\ ncast = [c \in Casters |-> 0]
    /\ synced \in BOOLEAN
    /\ ready = TRUE
    /\ statusOK = FALSE
    /\ votes = {}
    /\ proposals = 0
    /\ requests = {}
    /\ inflight = {}
    /\ replies = {}
    /\ okCasts = {}
    /\ fpc = [f \in Fetchers |-> "idle"]
    /\ nfetch = [f \in Fetchers |-> 0]

Next ==
    \/ GuiVote \/ GuiConfirm \/ GuiSign \/ GuiFinish \/ GuiRefreshed
    \/ RpcVote \/ RpcSign \/ RpcFinish
    \/ \E c \in Casters : AwaitReply(c)
    \/ Erase \/ Sync
    \/ \E f \in Fetchers : FetchSend(f) \/ FetchDone(f)
    \/ \E r \in inflight : Complete(r) \/ Lose(r)

(* The service eventually answers or loses the request, and a running handler keeps running;  *)
(* the users (vote, confirm, erase, fetch) and the chain sync need not.  *)
Fairness ==
    /\ WF_vars(\E r \in inflight : Complete(r) \/ Lose(r))
    /\ WF_vars(GuiSign) /\ WF_vars(RpcSign)
    /\ \A c \in Casters : WF_vars(AwaitReply(c))
    /\ WF_vars(GuiFinish) /\ WF_vars(GuiRefreshed) /\ WF_vars(RpcFinish)
    /\ \A f \in Fetchers : WF_vars(FetchDone(f))

Spec == Init /\ [][Next]_vars /\ Fairness

-----------------------------------------------------------------------------
(* Properties *)

TypeOK ==
    /\ ledger \subseteq Entry
    /\ holder \in Casters \cup {NoHolder}
    /\ pc \in [Casters -> {"idle", "confirm", "sign", "wait", "read", "refresh"}]
    /\ cvid \in [Casters -> VoteIds]
    /\ creq \in [Casters -> Nat]
    /\ result \in [Casters -> Result]
    /\ ncast \in [Casters -> 0..MaxCasts]
    /\ synced \in BOOLEAN
    /\ ready \in BOOLEAN
    /\ statusOK \in BOOLEAN
    /\ votes \subseteq VoteRec
    /\ proposals \in Nat
    /\ requests \subseteq Request
    /\ IsFiniteSet(requests)
    /\ inflight \subseteq requests
    /\ replies \subseteq Reply
    /\ okCasts \subseteq VoteIds
    /\ fpc \in [Fetchers -> {"idle", "wait"}]
    /\ nfetch \in [Fetchers -> 0..MaxFetches]

NewCasts == {m \in requests' \ requests : m.kind = "CAST"}

(* The double-vote guard: no CAST_VOTE for a vote id leaves the wallet    *)
(* while the ledger holds an entry for that id.  The ledger is scanned   *)
(* in GuiVote/RpcVote and the CAST goes out a step (for the GUI, a        *)
(* dialog) later, so this rests on cs_wallet being held in between by    *)
(* both casters and by erasegoventries.                                  *)
NoCastOverLedgerEntry ==
    [][\A m \in NewCasts : m.vid \notin VotedIds(ledger)]_vars

(* The ledger scan is still true when it is used: while a caster sits in *)
(* the confirmation dialog or the signing loop, it alone holds cs_wallet *)
(* and the ledger still has no entry for its vote id, whatever the other *)
(* caster or erasegoventries did in between.                             *)
ScanStillValid ==
    \A c \in Casters :
       /\ pc[c] # "idle" => holder = c
       /\ pc[c] \in {"confirm", "sign"} => cvid[c] \notin VotedIds(ledger)

(* What a caster reports is the service's answer to its own CAST_VOTE:    *)
(* "success, weight w" only if that request was answered with success    *)
(* and its records for the vote id add up to w, and "vote not casted"    *)
(* only if that request failed.  Both casters read statusOK and the       *)
(* shared votes buffer of g_governance after the ready flag turns true.  *)
ResultIsOwnReply ==
    \A c \in Casters :
       /\ result[c].kind = "ok" =>
            \E r \in replies : /\ r.id = result[c].req /\ r.ok
                              /\ result[c].weight = AggregateWeight(result[c].vid, r.recs)
       /\ result[c].kind = "failed" =>
            \E r \in replies : r.id = result[c].req /\ ~r.ok

(* A caster that has sent its CAST_VOTE eventually finishes and lets go   *)
(* of cs_wallet (the spin on isReady() has no timeout).                  *)
CastCompletes ==
    \A c \in Casters : pc[c] \in {"wait", "read", "refresh"} ~> pc[c] = "idle"

(* The CAST_VOTE requests sent so far, by request id and vote id.        *)
SentCasts == {[id |-> m.id, vid |-> m.vid] : m \in {m \in requests : m.kind = "CAST"}}

(* The ids of the CAST_VOTE requests the service answered with success.  *)
AcceptedCasts ==
    {m.id : m \in {m \in SentCasts : \E r \in replies : r.id = m.id /\ r.ok}}

Ledger == INSTANCE GovLedger
          WITH entries <- ledger, sent <- SentCasts, accepted <- AcceptedCasts

(* Both casters, erasegoventries and the service together implement the  *)
(* ledger of GovLedger: every CAST_VOTE leaves while its vote id has no    *)
(* entry; every entry the tally writes is for a vote id that has none     *)
(* (no DuplicateVoteError, no replaced weight) and whose latest CAST_VOTE *)
(* the service accepted ("store vote only on successful request"), so    *)
(* the statusOK and votes a caster reads after its spin are its own       *)
(* answer's; erasegoventries only removes.                                *)
ImplementsLedger == Ledger!Spec

(* CWalletDB::WriteGovernanceEntry keeps one record per vote id and       *)
(* replaces what is there; the tally writes only for a vote id the scan   *)
(* found absent, so no step replaces an entry by another weight: a step   *)
(* either only adds entries (a tally) or only removes them                *)
(* (erasegoventries).  The scan and the write are several steps of one   *)
(* caster apart, with the other caster and erasegoventries in between.    *)
EntryNeverOverwritten == [][ledger' \subseteq ledger \/ ledger \subseteq ledger']_vars

(* Spec, Section 8: casting twice on the same vote id yields AlreadyVoted *)
(* and performs no network request the second time.                     *)
RepeatCastBlocked ==
    [][\A m \in NewCasts : m.vid \notin okCasts]_vars

(* Spec, Section 4.1: ballots are signed only for addresses of coinstake  *)
(* outputs inside the eligibility window.                                *)
EligibleBallotsOnly ==
    \A m \in requests : m.kind = "CAST" => m.addrs \subseteq RpcVotingAddresses

(* Spec, Section 6: no vote is cast while the node is still syncing.     *)
NoCastBeforeSync ==
    [][NewCasts # {} => synced]_vars

=============================================================================
