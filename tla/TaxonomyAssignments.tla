------------------------ MODULE TaxonomyAssignments ------------------------
(***************************************************************************)
(* The rows of product_taxonomy_assignments of one tool, as the statements *)
(* of src/taxonomy_shadow.py change them.  Both classifiers write through  *)
(* these statements, each committed by itself, so the operators here take  *)
(* a table and return the next one; the modules that use them decide in    *)
(* which order the statements run and where a process may stop.            *)
(***************************************************************************)
EXTENDS Naturals, FiniteSets

CONSTANTS
  Markets,       \* terms of the primary_category dimension a tool may get
  Capabilities   \* terms of the capability dimension

Terms == Markets \cup Capabilities

(* An absent row is NoRow; run 0 stands for "written by no run". *)
NoRow == [source |-> "none", status |-> "none", primary |-> FALSE, run |-> 0]
NoRows == [term \in Terms |-> NoRow]

AutoStatuses == {"provisional", "unresolved", "auto_accepted"}
TrustedStatuses == {"verified", "auto_accepted"}

Rows == [Terms -> [source : {"none", "auto", "manual"},
                   status : AutoStatuses \cup {"none", "verified", "superseded"},
                   primary : BOOLEAN, run : Nat]]

(* load_verified_manual_primary_term_id: the human lock, if there is one. *)
ManualPrimaries(rows) ==
  {m \in Markets : /\ rows[m].primary
                   /\ rows[m].source = "manual"
                   /\ rows[m].status = "verified"}

(* The trusted primary that keeps a tool out of full classification. *)
HasTrustedPrimary(rows) ==
  \E m \in Markets : rows[m].primary /\ rows[m].status \in TrustedStatuses

HasActiveCapability(rows) ==
  \E c \in Capabilities : rows[c].status \in TrustedStatuses \cup {"provisional"}

(* Mutant: the human lock is not asked. *)
PrimaryWriteAlways(manual) == [primary |-> TRUE, status |-> "auto_accepted"]

(* auto_primary_write_state with decide_primary_status for an answer that
   passed the admission gate: accepted, unless a human owns the primary. *)
PrimaryWrite(manual) ==
  IF manual THEN [primary |-> FALSE, status |-> "superseded"]
            ELSE [primary |-> TRUE, status |-> "auto_accepted"]

(* Mutant: only primaries that were trusted are retired. *)
RetireTrustedPrimaries(rows, term) ==
  [x \in Terms |->
     IF x \in Markets \ {term} /\ rows[x].primary /\ rows[x].status \in TrustedStatuses
       THEN [rows[x] EXCEPT !.primary = FALSE]
       ELSE rows[x]]

(* First statement of upsert_assignment with is_primary: retire the other
   primaries of the tool.  A manual row loses the flag, not the status. *)
RetireOtherPrimaries(rows, term) ==
  [x \in Terms |->
     IF x \in Markets \ {term} /\ rows[x].primary
       THEN [rows[x] EXCEPT !.primary = FALSE,
                            !.status = IF @ \in AutoStatuses THEN "superseded" ELSE @]
       ELSE rows[x]]

(* Second statement: insert, or update a row that no human wrote. *)
UpsertAssignment(rows, term, primary, status, run) ==
  IF rows[term].source = "manual"
    THEN rows
    ELSE [rows EXCEPT ![term] = [source |-> "auto", status |-> status,
                                 primary |-> primary, run |-> run]]

(* supersede_auto_assignments for the dimensions whose terms are `terms`. *)
SupersedeAuto(rows, terms, run) ==
  [x \in Terms |->
     IF x \in terms /\ rows[x].source = "auto" /\ rows[x].status \in AutoStatuses
                    /\ rows[x].run # run
       THEN [rows[x] EXCEPT !.status = "superseded", !.primary = FALSE]
       ELSE rows[x]]

(* A reviewer verifies a market as the primary of the tool (external code). *)
VerifyManually(rows, term) ==
  [RetireOtherPrimaries(rows, term) EXCEPT
     ![term] = [source |-> "manual", status |-> "verified", primary |-> TRUE, run |-> 0]]
=============================================================================
