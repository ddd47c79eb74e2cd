---------------------------- MODULE ProposalView ----------------------------
(***************************************************************************)
(* The proposal table of the governance page (src/qt/offchaingovernance.cpp)*)
(* and the handlers that go from the selected row back to a proposal.     *)
(*                                                                         *)
(*  - updateProposalList: once the cooldown is over, clear the table       *)
(*    (which clears the selection), post GET_PROPOSALS and, without        *)
(*    waiting for the answer, fill the table from the current              *)
(*    g_governance.proposals buffer through the filter, then sort it       *)
(*  - on_filterLineEdit_textChanged: new filter text, restart the cooldown *)
(*  - on_refreshListButton_clicked: GET_PROPOSALS, spin on isReady(), then *)
(*    updateProposalList                                                   *)
(*  - on_tableWidgetProposals_doubleClicked / on_expandProposalButton:     *)
(*    look the selected row's name up in the buffer, std::stoi(end_time)   *)
(*  - vote: take the selected QModelIndex, ask for the wallet to be        *)
(*    unlocked (a modal dialog when it is locked), then read the name at   *)
(*    that index, look it up in the buffer and take its vote_id            *)
(* A row holds only the proposal's name; the lookups match on the name    *)
(* and a miss leaves a default-constructed Proposals, whose vote_id and    *)
(* end_time are empty strings.  The modal unlock dialog runs a nested      *)
(* event loop: the ClientModel timer's strGhostnodesChanged still reaches  *)
(* updateProposalList (vote holds cs_main and cs_wallet, not cs_mnlist),   *)
(* and answers still land in the buffer, while the user can touch nothing  *)
(* else on the page.                                                       *)
(***************************************************************************)
EXTENDS Naturals, FiniteSets

CONSTANTS
    Props,      \* proposals the service may publish
    Name,       \* Name[p]: the proposal's display name
    NoName,     \* the empty name read from an index past the last row
    Vid,        \* Vid[p]: its vote_id
    NoVid,      \* the empty vote_id of a default-constructed Proposals
    Rank,       \* Rank[p]: p's place in the table's sort order
    Filters,    \* filter texts the user may type
    NoFilter,   \* the empty filter text, strCurrentFilter == ""
    Matches,    \* Matches[f]: the proposals whose row text contains f
    Growing,    \* the service only ever adds proposals
    NoProp,     \* no proposal
    MaxGets     \* bound on the GET_PROPOSALS requests

(* The table of the rows of S once setSortingEnabled(true) has sorted it. *)
SortedBy(s) == \A i, j \in DOMAIN s : i < j => Rank[s[i]] < Rank[s[j]]

ASSUME ViewAssumption ==
    /\ IsFiniteSet(Props) /\ NoProp \notin Props
    /\ DOMAIN Name = Props /\ NoName \notin {Name[p] : p \in Props}
    /\ DOMAIN Vid = Props /\ NoVid \notin {Vid[p] : p \in Props}
    /\ Rank \in [Props -> Nat]
    /\ NoFilter \in Filters /\ Matches \in [Filters -> SUBSET Props]
    /\ Matches[NoFilter] = Props
    /\ Growing \in BOOLEAN /\ MaxGets \in Nat

(* Every set of rows can be put in the sort order: the sort key tells all *)
(* proposals apart.                                                       *)
ASSUME TableSortable ==
    \A S \in SUBSET Props : \E s \in [1..Cardinality(S) -> S] : SortedBy(s)

VARIABLES
    published,     \* the proposals the service publishes now
    buffer,        \* g_governance.proposals
    ready,         \* g_governance.isReady()
    pendingGets,   \* GET_PROPOSALS requests not answered yet
    sent,          \* GET_PROPOSALS requests sent so far
    rows,          \* rows[i]: the proposal whose name row i shows
    filter,        \* strCurrentFilter
    filterUpdated, \* fFilterUpdated
    due,           \* the cooldown updateProposalList waits for is over
    sel,           \* the selected row, 0 for none
    refreshing,    \* on_refreshListButton_clicked is spinning
    pendingVote,   \* vote() waits in requestUnlock: its row and proposal
    lastCast,      \* the last vote: the row's proposal, the vote_id found
    crashed        \* an exception escaped a Qt slot

vars == <<published, buffer, ready, pendingGets, sent, rows, filter,
          filterUpdated, due, sel, refreshing, pendingVote, lastCast, crashed>>

NoVote == [row |-> 0, prop |-> NoProp]

Table(S) == CHOOSE s \in [1..Cardinality(S) -> S] : SortedBy(s)

(* The proposals updateProposalList puts in the table.                    *)
Shown(buf, f) == buf \cap Matches[f]

(* sel.data(0): the name in column 0 of row i; empty past the last row.  *)
RowName(i) == IF i \in DOMAIN rows THEN Name[rows[i]] ELSE NoName

(* The proposals of the buffer the name loop can stop at.                 *)
Lookup(buf, n) == {q \in buf : Name[q] = n}

(* The vote_id the loop leaves in selectedProp: the first match, in the   *)
(* service's order, which is unknown; empty on a miss.                    *)
FoundVids(buf, n) ==
    IF Lookup(buf, n) = {} THEN {NoVid} ELSE {Vid[q] : q \in Lookup(buf, n)}

(* g_governance.SendRequests(GET_PROPOSALS).                              *)
SendGet ==
    /\ sent < MaxGets
    /\ sent' = sent + 1 /\ pendingGets' = pendingGets + 1
    /\ ready' = FALSE

(* The page takes user input: no spin in on_refreshListButton_clicked, no *)
(* modal unlock dialog open, no slot has thrown.                          *)
GuiFree == ~refreshing /\ ~crashed /\ pendingVote = NoVote

(* The body of updateProposalList once nSecondsToWait <= 0: restart the  *)
(* cooldown, clear the filter flag, clear the table (setRowCount(0) drops *)
(* the selection), post the GET and fill and sort the table from the      *)
(* buffer as it is, the answer not being in yet.                          *)
RenderList ==
    /\ due' = FALSE /\ filterUpdated' = FALSE
    /\ SendGet
    /\ rows' = Table(Shown(buffer, filter))
    /\ sel' = 0

(* updateProposalList, on strGhostnodesChanged, also inside the modal     *)
(* unlock dialog; before the cooldown is over it only updates the label.  *)
updateProposalList ==
    /\ ~refreshing /\ ~crashed /\ due /\ sent < MaxGets
    /\ RenderList
    /\ UNCHANGED <<published, buffer, filter, refreshing, pendingVote, lastCast,
                   crashed>>

on_filterLineEdit_textChanged ==
    /\ GuiFree
    /\ \E f \in Filters : filter' = f
    /\ filterUpdated' = TRUE /\ due' = FALSE
    /\ UNCHANGED <<published, buffer, ready, pendingGets, sent, rows, sel,
                   refreshing, pendingVote, lastCast, crashed>>

(* Room is left for the GET that updateProposalList posts afterwards.     *)
on_refreshListButton_clicked ==
    /\ GuiFree /\ sent + 1 < MaxGets
    /\ SendGet
    /\ refreshing' = TRUE
    /\ UNCHANGED <<published, buffer, rows, filter, filterUpdated, due, sel,
                   pendingVote, lastCast, crashed>>

(* while(!g_governance.isReady()){} then updateProposalList().             *)
RefreshDone ==
    /\ refreshing /\ ready
    /\ refreshing' = FALSE
    /\ \/ /\ due
          /\ RenderList
       \/ /\ ~due
          /\ UNCHANGED <<due, filterUpdated, ready, pendingGets, sent, rows, sel>>
    /\ UNCHANGED <<published, buffer, filter, pendingVote, lastCast, crashed>>

(* The cooldown the list is waiting for runs out.                          *)
Tick ==
    /\ ~due
    /\ due' = TRUE
    /\ UNCHANGED <<published, buffer, ready, pendingGets, sent, rows, filter,
                   filterUpdated, sel, refreshing, pendingVote, lastCast, crashed>>

(* The user selects a row.                                                 *)
selectedRow ==
    /\ GuiFree
    /\ \E i \in DOMAIN rows : sel' = i
    /\ UNCHANGED <<published, buffer, ready, pendingGets, sent, rows, filter,
                   filterUpdated, due, refreshing, pendingVote, lastCast, crashed>>

(* Lines 241-252 of vote() for the index of row i, selected when the row *)
(* showed p: read the name at the index now, look it up, keep the vote_id *)
(* (GovVote models the ledger scan, the ballots and the CAST_VOTE).       *)
CastFor(i, p) ==
    \E v \in FoundVids(buffer, RowName(i)) : lastCast' = [sel |-> p, vid |-> v]

(* vote(decision), lines 215-239: a valid selection; requestUnlock either *)
(* returns at once (the wallet is unlocked) and the lookup follows, or it *)
(* opens the modal dialog holding the QModelIndex taken at line 217.      *)
vote ==
    /\ GuiFree /\ sel # 0
    /\ \/ CastFor(sel, rows[sel]) /\ UNCHANGED pendingVote
       \/ pendingVote' = [row |-> sel, prop |-> rows[sel]] /\ UNCHANGED lastCast
    /\ UNCHANGED <<published, buffer, ready, pendingGets, sent, rows, filter,
                   filterUpdated, due, sel, refreshing, crashed>>

(* The unlock dialog closes: cancelled (lines 235-239), or the wallet is  *)
(* unlocked and vote() goes on with the index it took before the dialog.  *)
UnlockDone ==
    /\ pendingVote # NoVote /\ ~crashed
    /\ \/ UNCHANGED lastCast
       \/ CastFor(pendingVote.row, pendingVote.prop)
    /\ pendingVote' = NoVote
    /\ UNCHANGED <<published, buffer, ready, pendingGets, sent, rows, filter,
                   filterUpdated, due, sel, refreshing, crashed>>

(* Mutant: the !selection.isEmpty() guard is dropped.                    *)
on_tableWidgetProposals_doubleClicked_noSelCheck ==
    /\ GuiFree
    /\ crashed' = (Lookup(buffer, RowName(sel)) = {})
    /\ UNCHANGED <<published, buffer, ready, pendingGets, sent, rows, filter,
                   filterUpdated, due, sel, refreshing, pendingVote, lastCast>>

(* on_tableWidgetProposals_doubleClicked (also run by                     *)
(* on_expandProposalButton_clicked): on a miss, std::stoi of the empty    *)
(* end_time throws std::invalid_argument out of the slot; on a hit the    *)
(* dialog opens and the page's state is as before.                        *)
on_tableWidgetProposals_doubleClicked ==
    /\ GuiFree /\ sel # 0
    /\ crashed' = (Lookup(buffer, RowName(sel)) = {})
    /\ UNCHANGED <<published, buffer, ready, pendingGets, sent, rows, filter,
                   filterUpdated, due, sel, refreshing, pendingVote, lastCast>>

-----------------------------------------------------------------------------
(* The coordination service (spec-modelled).                              *)

(* An answer to one of the pending GETs lands: on success the buffer is   *)
(* replaced by what the service publishes now; isReady() turns true.      *)
GetAnswer ==
    /\ pendingGets > 0
    /\ pendingGets' = pendingGets - 1 /\ ready' = TRUE
    /\ \E ok \in BOOLEAN : buffer' = IF ok THEN published ELSE buffer
    /\ UNCHANGED <<published, sent, rows, filter, filterUpdated, due, sel,
                   refreshing, pendingVote, lastCast, crashed>>

(* Proposals are published and expire.                                    *)
Publish ==
    /\ \E new \in SUBSET Props :
          /\ Growing => published \subseteq new
          /\ published' = new
    /\ UNCHANGED <<buffer, ready, pendingGets, sent, rows, filter, filterUpdated,
                   due, sel, refreshing, pendingVote, lastCast, crashed>>

-----------------------------------------------------------------------------

NoLookup == [sel |-> NoProp, vid |-> NoVid]

(* The page opens with an empty table and an empty buffer; the first     *)
(* update is due.                                                        *)
Init ==
    /\ published \in SUBSET Props
    /\ buffer = {} /\ ready = TRUE /\ pendingGets = 0 /\ sent = 0
    /\ rows = Table({}) /\ filter = NoFilter /\ filterUpdated = FALSE
    /\ due = TRUE /\ sel = 0 /\ refreshing = FALSE
    /\ pendingVote = NoVote /\ lastCast = NoLookup /\ crashed = FALSE

Next ==
    \/ updateProposalList \/ on_filterLineEdit_textChanged
    \/ on_refreshListButton_clicked \/ RefreshDone \/ Tick
    \/ selectedRow \/ vote \/ UnlockDone \/ on_tableWidgetProposals_doubleClicked
    \/ GetAnswer \/ Publish

Spec == Init /\ [][Next]_vars

-----------------------------------------------------------------------------
(* Properties *)

TypeOK ==
    /\ published \subseteq Props /\ buffer \subseteq Props
    /\ ready \in BOOLEAN
    /\ pendingGets \in 0..MaxGets /\ sent \in 0..MaxGets
    /\ \E n \in 0..Cardinality(Props) : rows \in [1..n -> Props]
    /\ filter \in Filters /\ filterUpdated \in BOOLEAN /\ due \in BOOLEAN
    /\ sel \in {0} \cup DOMAIN rows /\ refreshing \in BOOLEAN
    /\ pendingVote \in [row : Nat, prop : Props \cup {NoProp}]
    /\ lastCast \in [sel : Props \cup {NoProp}, vid : {Vid[p] : p \in Props} \cup {NoVid}]
    /\ crashed \in BOOLEAN

(* The details dialog of on_tableWidgetProposals_doubleClicked never      *)
(* meets a default-constructed Proposals: the selected row's name is in   *)
(* the buffer, so std::stoi(end_time) at line 162 does not throw out of   *)
(* the slot, whatever answers landed since the table was filled.          *)
DetailsNeverThrow == ~crashed

(* "a distinct vote identifier (the key voting is keyed on, not the        *)
(* proposal's display name)" (spec.md): the vote_id vote() carries on to  *)
(* the ledger scan and the ballots is the one of the proposal the user    *)
(* selected, even when the table was redrawn while the unlock dialog was  *)
(* open.                                                                  *)
VoteIsSelected ==
    lastCast.sel # NoProp => lastCast.vid = Vid[lastCast.sel]

=============================================================================
