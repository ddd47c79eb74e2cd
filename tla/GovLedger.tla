----------------------------- MODULE GovLedger -----------------------------
(***************************************************************************)
(* What the governance ledger promises (spec.md, GovernanceLedger, the     *)
(* AlreadyVoted error and "store vote only on successful request"), with   *)
(* every cast one atomic step:                                             *)
(*  - a CAST_VOTE for a vote id leaves the wallet only while the ledger    *)
(*    has no entry for it (AlreadyVoted: no network call);                 *)
(*  - the service accepts CAST_VOTE requests;                              *)
(*  - an entry is written only for a vote id whose latest CAST_VOTE the    *)
(*    service accepted, and never over an existing entry (Write fails with *)
(*    DuplicateVoteError: the caller's check must make that unreachable);  *)
(*  - erasegoventries only removes entries.                                *)
(* entries are the ledger's records (vote id and weight), sent the         *)
(* CAST_VOTE requests sent so far (request id and vote id), accepted the   *)
(* ids of those the service answered with success.                         *)
(***************************************************************************)

EXTENDS Naturals, TLAPS

CONSTANT VoteIds

VARIABLES entries, sent, accepted

ledgerVars == <<entries, sent, accepted>>

Voted == {e.vid : e \in entries}

SentIds == {m.vid : m \in sent}

(* The vote ids whose most recent CAST_VOTE was accepted.                 *)
LatestAccepted ==
    {v \in SentIds :
        \E m \in sent : /\ m.vid = v /\ m.id \in accepted
                        /\ \A m2 \in sent : m2.vid = v => m2.id <= m.id}

Init == entries = {} /\ sent = {} /\ accepted = {}

CastVote(v) ==
    /\ v \notin Voted
    /\ \E m \in sent' : m.vid = v /\ sent' = sent \cup {m}
    /\ UNCHANGED <<entries, accepted>>

Accept ==
    /\ \E m \in sent : accepted' = accepted \cup {m.id}
    /\ UNCHANGED <<entries, sent>>

Record(v) ==
    /\ v \in LatestAccepted
    /\ v \notin Voted
    /\ \E e \in entries' : e.vid = v /\ entries' = entries \cup {e}
    /\ UNCHANGED <<sent, accepted>>

EraseSome ==
    /\ entries' \subseteq entries
    /\ UNCHANGED <<sent, accepted>>

Next == \/ \E v \in VoteIds : CastVote(v) \/ Record(v)
        \/ Accept \/ EraseSome

Spec == Init /\ [][Next]_ledgerVars

(* The ledger records only votes the service accepted: every vote id with *)
(* an entry has a CAST_VOTE the service answered with success.           *)
RecordedWereAccepted ==
    \A v \in Voted : \E m \in sent : m.vid = v /\ m.id \in accepted

(* Nothing enters the ledger but through an accepted CAST_VOTE, whatever *)
(* the erases and the later casts in between.                            *)
THEOREM RecordedAccepted == Spec => []RecordedWereAccepted
<1>1. Init => RecordedWereAccepted
  BY DEF Init, RecordedWereAccepted, Voted
<1>2. RecordedWereAccepted /\ [Next]_ledgerVars => RecordedWereAccepted'
  <2> SUFFICES ASSUME RecordedWereAccepted, [Next]_ledgerVars,
                      NEW v \in Voted'
               PROVE  \E m \in sent' : m.vid = v /\ m.id \in accepted'
    BY DEF RecordedWereAccepted
  <2>1. CASE \E w \in VoteIds : CastVote(w)
    BY <2>1 DEF CastVote, RecordedWereAccepted, Voted
  <2>2. CASE \E w \in VoteIds : Record(w)
    BY <2>2 DEF Record, RecordedWereAccepted, LatestAccepted, Voted
  <2>3. CASE Accept
    BY <2>3 DEF Accept, RecordedWereAccepted, Voted
  <2>4. CASE EraseSome
    BY <2>4 DEF EraseSome, RecordedWereAccepted, Voted
  <2>5. CASE UNCHANGED ledgerVars
    BY <2>5 DEF ledgerVars, RecordedWereAccepted, Voted
  <2>6. QED
    BY <2>1, <2>2, <2>3, <2>4, <2>5 DEF Next
<1>3. QED
  BY <1>1, <1>2, PTL DEF Spec

=============================================================================
