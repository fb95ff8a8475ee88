--------------------------- MODULE BaselineSelection ---------------------------
(***************************************************************************)
(* The baseline a publish request gets: select_for_publish tries the       *)
(* compatible ones, the last refreshed first; what the baseline pages show *)
(* of them comes from BaselineEligibilityExplanationService.               *)
(***************************************************************************)
EXTENDS Naturals

CONSTANT NumBaselines  \* the baselines of the system, by refreshed_at

ASSUME SelectionAssumption == NumBaselines \in Nat

Baselines == 1 .. NumBaselines

Reports == {"none", "eligible", "not_eligible"}

VARIABLES
  baseline,      \* what decides about each baseline
  candidates,    \* compatible: those still to be tried
  storageIssue,  \* saw_storage_issue
  chosen,        \* the baseline returned, 0 for none
  outcome        \* how far the selection is, or how it has ended

selectionVars == <<baseline, candidates, storageIssue, chosen, outcome>>

Errors == {"no_compatible", "not_stored", "not_validated"}

\* is_selectable; same system, profile, environment type and engine as the
\* request; whether assets are recorded; the latest report.
BaselineFacts ==
  [selectable : BOOLEAN, matches : BOOLEAN, stored : BOOLEAN, report : Reports]

SelectionOK ==
  /\ baseline \in [Baselines -> BaselineFacts]
  /\ candidates \in SUBSET Baselines
  /\ storageIssue \in BOOLEAN
  /\ chosen \in Baselines \cup {0}
  /\ outcome \in Errors \cup {"list", "try", "returned"}

SelectionInit ==
  /\ baseline \in [Baselines -> BaselineFacts]
  /\ candidates = {}
  /\ storageIssue = FALSE
  /\ chosen = 0
  /\ outcome = "list"

IsCompatible(b) == baseline[b].selectable /\ baseline[b].matches

ListCompatible ==
  /\ outcome = "list"
  /\ candidates' = {b \in Baselines : IsCompatible(b)}
  /\ outcome' = IF candidates' = {} THEN "no_compatible" ELSE "try"
  /\ UNCHANGED <<baseline, storageIssue, chosen>>

Latest(b) == b \in candidates /\ \A c \in candidates : c <= b

\* Fault: the first candidate decides.
TryOnly == \E b \in Baselines :
  /\ outcome = "try" /\ Latest(b)
  /\ ~baseline[b].stored \/ baseline[b].report # "eligible"
  /\ candidates' = {}
  /\ storageIssue' = (storageIssue \/ ~baseline[b].stored)
  /\ UNCHANGED <<baseline, chosen, outcome>>

\* require_storage_ready or require_publish_eligible raises.
TryNext == \E b \in Baselines :
  /\ outcome = "try" /\ Latest(b)
  /\ ~baseline[b].stored \/ baseline[b].report # "eligible"
  /\ candidates' = candidates \ {b}
  /\ storageIssue' = (storageIssue \/ ~baseline[b].stored)
  /\ UNCHANGED <<baseline, chosen, outcome>>

ReturnBaseline == \E b \in Baselines :
  /\ outcome = "try" /\ Latest(b)
  /\ baseline[b].stored /\ baseline[b].report = "eligible"
  /\ outcome' = "returned" /\ chosen' = b
  /\ UNCHANGED <<baseline, candidates, storageIssue>>

RaiseLast ==
  /\ outcome = "try" /\ candidates = {}
  /\ outcome' = IF storageIssue THEN "not_stored" ELSE "not_validated"
  /\ UNCHANGED <<baseline, candidates, storageIssue, chosen>>

SelectionNext == ListCompatible \/ TryNext \/ ReturnBaseline \/ RaiseLast

SelectionSpec == SelectionInit /\ [][SelectionNext]_selectionVars

-----------------------------------------------------------------------------
\* explain: the reason the pages give, the first that applies.
Explanation(b) ==
  LET facts == baseline[b] IN
  CASE ~facts.selectable -> "baseline_not_active"
    [] facts.selectable /\ ~facts.stored -> "missing_materialized_assets"
    [] facts.selectable /\ facts.stored /\ facts.report = "none" -> "missing_validation_report"
    [] facts.selectable /\ facts.stored /\ facts.report = "not_eligible" -> "validation_not_eligible"
    [] OTHER -> "eligible"

Matching(reason) == {b \in Baselines : baseline[b].matches /\ Explanation(b) = reason}

\* A publish gets the last refreshed of the matching baselines that the pages
\* call eligible, and is refused only if there is none; the refusal blames the
\* storage exactly when the pages blame it for one of them.
SelectionAgrees ==
  /\ outcome = "returned" =>
       chosen \in Matching("eligible") /\ \A b \in Matching("eligible") : b <= chosen
  /\ outcome \in Errors => Matching("eligible") = {}
  /\ outcome = "not_stored" => Matching("missing_materialized_assets") # {}
  /\ outcome = "not_validated" => Matching("missing_materialized_assets") = {}
=============================================================================
