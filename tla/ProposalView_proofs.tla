------------------------ MODULE ProposalView_proofs ------------------------
(***************************************************************************)
(* Proofs about ProposalView, for every set of proposals, names, vote ids, *)
(* sort keys and filters that satisfies ViewAssumption and TableSortable.  *)
(***************************************************************************)
EXTENDS ProposalView, TLAPS

(* updateProposalList fills the table with exactly the rows it draws,    *)
(* sorted: the table is a function from 1..|S| into S.                   *)
LEMMA TableRows ==
    ASSUME NEW S \in SUBSET Props
    PROVE  Table(S) \in [1..Cardinality(S) -> S]
BY TableSortable DEF Table

-----------------------------------------------------------------------------
(* When the service never drops a proposal, the buffer only grows: every *)
(* answer replaces it by what is published now, a superset of it, so     *)
(* every row the table shows, the selected one included, still names a   *)
(* proposal of the buffer when the details dialog looks it up            *)
(* (offchaingovernance.cpp 149-164).  The selection is a row of the      *)
(* table, since each redraw clears it (setRowCount(0) at line 104).      *)

RowsInBuffer ==
    /\ published \subseteq Props
    /\ buffer \subseteq published
    /\ \A i \in DOMAIN rows : rows[i] \in buffer
    /\ sel \in {0} \cup DOMAIN rows

(* A redraw keeps the rows in the buffer and clears the selection.        *)
LEMMA RenderStep ==
    ASSUME RowsInBuffer, RenderList, UNCHANGED <<published, buffer>>
    PROVE  RowsInBuffer'
<1>1. Shown(buffer, filter) \in SUBSET Props
  BY DEF RowsInBuffer, Shown
<1>2. rows' \in [1..Cardinality(Shown(buffer, filter)) -> Shown(buffer, filter)]
  BY <1>1, TableRows DEF RenderList
<1>3. \A i \in DOMAIN rows' : rows'[i] \in buffer'
  BY <1>2 DEF Shown
<1>4. QED
  BY <1>3 DEF RenderList, RowsInBuffer

LEMMA GrowStep ==
    ASSUME Growing, RowsInBuffer, DetailsNeverThrow, [Next]_vars
    PROVE  RowsInBuffer' /\ DetailsNeverThrow'
<1>1. CASE updateProposalList
  BY <1>1, RenderStep DEF updateProposalList, DetailsNeverThrow
<1>2. CASE RefreshDone
  <2>1. UNCHANGED <<published, buffer, crashed>>
    BY <1>2 DEF RefreshDone
  <2>2. CASE due
    BY <1>2, <2>1, <2>2, RenderStep DEF RefreshDone, DetailsNeverThrow
  <2>3. CASE ~due
    <3>1. rows' = rows /\ sel' = sel
      BY <1>2, <2>3 DEF RefreshDone
    <3>2. QED
      BY <2>1, <3>1 DEF DetailsNeverThrow, RowsInBuffer
  <2>4. QED
    BY <2>2, <2>3
<1>3. CASE selectedRow
  BY <1>3 DEF selectedRow, RowsInBuffer, DetailsNeverThrow
<1>4. CASE vote \/ UnlockDone
  BY <1>4 DEF vote, UnlockDone, RowsInBuffer, DetailsNeverThrow
<1>5. CASE on_tableWidgetProposals_doubleClicked
  <2>1. sel \in DOMAIN rows /\ rows[sel] \in buffer
    BY <1>5 DEF on_tableWidgetProposals_doubleClicked, RowsInBuffer
  <2>2. rows[sel] \in Lookup(buffer, RowName(sel))
    BY <2>1 DEF Lookup, RowName
  <2>3. crashed' = FALSE
    BY <1>5, <2>2 DEF on_tableWidgetProposals_doubleClicked
  <2>4. QED
    BY <1>5, <2>3 DEF on_tableWidgetProposals_doubleClicked, RowsInBuffer,
                      DetailsNeverThrow
<1>6. CASE GetAnswer
  BY <1>6 DEF GetAnswer, RowsInBuffer, DetailsNeverThrow
<1>7. CASE Publish
  BY <1>7 DEF Publish, RowsInBuffer, DetailsNeverThrow
<1>8. CASE on_filterLineEdit_textChanged \/ on_refreshListButton_clicked \/ Tick
           \/ UNCHANGED vars
  BY <1>8 DEF on_filterLineEdit_textChanged, on_refreshListButton_clicked, Tick, vars,
              RowsInBuffer, DetailsNeverThrow
<1>9. QED
  BY <1>1, <1>2, <1>3, <1>4, <1>5, <1>6, <1>7, <1>8 DEF Next

(* If the service never drops a published proposal, the details dialog   *)
(* of on_tableWidgetProposals_doubleClicked never throws out of its slot *)
(* at std::stoi(end_time), whatever answers, redraws and filters come in *)
(* between the table fill and the lookup.  Run pv_expired shows the      *)
(* throw once a proposal expires, so expiry is the only way to it.       *)
THEOREM DetailsSafe ==
    ASSUME Growing
    PROVE  Spec => []DetailsNeverThrow
<1>1. Init => RowsInBuffer /\ DetailsNeverThrow
  <2> SUFFICES ASSUME Init PROVE RowsInBuffer /\ DetailsNeverThrow
    OBVIOUS
  <2>1. Table({}) \in [1..Cardinality({}) -> {}]
    BY TableRows
  <2>2. \A i \in DOMAIN rows : rows[i] \in buffer
    BY <2>1 DEF Init
  <2>3. QED
    BY <2>2 DEF Init, RowsInBuffer, DetailsNeverThrow
<1>2. RowsInBuffer /\ DetailsNeverThrow /\ [Next]_vars
        => RowsInBuffer' /\ DetailsNeverThrow'
  BY GrowStep
<1>3. QED
  BY <1>1, <1>2, PTL DEF Spec

=============================================================================
