--------------------------- MODULE PolicyGovernance ---------------------------
(***************************************************************************)
(* Two readers of the transformation policies of a system: the coverage    *)
(* report a publish request must pass, which goes by the sensitivity tags  *)
(* of the columns and by their foreign keys, and the transformation of the *)
(* rows an extraction writes, which looks at neither and has the policies  *)
(* only if its pipeline was constructed with their repository.  Every      *)
(* column has a value that is not null somewhere (nulls are never          *)
(* transformed).                                                           *)
(***************************************************************************)
EXTENDS Naturals, Sequences, FiniteSets

CONSTANTS
  Columns,       \* the active columns of the source
  ColumnPairs,   \* those that a foreign key may join
  TagNames,      \* sensitivity tag names policies may be for
  AssignedTags,  \* those of them assigned to columns
  Handlings,     \* <<transformation_type, reversible>> of the policies
  Spellings,     \* whether policies may spell the name of their column as it is
  MaxPolicies,
  PoliciesGiven  \* the pipelines are constructed with the policies: the wiring of
                 \* the workers does not give them, tests of the pipelines do

Pseudo == "deterministic_pseudonymization"
Masking == "irreversible_masking"
Hashing == "hashing"
Tokenization == "reversible_tokenization"

Types == {h[1] : h \in Handlings}

\* What _transform_value does something for; tokenization needs a vault, which
\* the production wiring does not have.
Supported == {Pseudo, Masking, Hashing}

ASSUME GovernanceAssumption ==
  /\ ColumnPairs \subseteq Columns \X Columns
  /\ AssignedTags \subseteq TagNames
  /\ {"needs_review", "non_sensitive"} \cap TagNames = {}
  /\ Spellings \subseteq BOOLEAN
  /\ MaxPolicies \in Nat
  /\ PoliciesGiven \in BOOLEAN

VARIABLES
  tags,         \* the active tags of each column
  foreignKeys,  \* the pairs of columns that an active foreign key joins
  policies,     \* the active policies of the system, as they are listed
  verdict,      \* of assert_publish_ready
  rewrite,      \* "done", or "raised" by a transformation
  output        \* what is done to each column in the files

givenVars == <<tags, foreignKeys, policies>>
governanceVars == <<givenVars, verdict, rewrite, output>>

\* exact: the policy has the column's name letter by letter, not only up to case.
Policy == [column : Columns, tag : TagNames, handling : Handlings, exact : Spellings]

\* A tag that needs review, one for non-sensitive, or an approved sensitive one.
Tags == {"needs_review", "non_sensitive"} \cup AssignedTags

GovernanceOK ==
  /\ tags \in [Columns -> SUBSET Tags]
  /\ foreignKeys \in SUBSET ColumnPairs
  /\ policies \in Seq(Policy) /\ Len(policies) <= MaxPolicies
  /\ verdict \in {"none", "ready", "refused"}
  /\ rewrite \in {"none", "done", "raised"}
  /\ output \in [Columns -> Types \cup {"raw"}]

GovernanceInit ==
  /\ tags \in [Columns -> SUBSET Tags]
  /\ foreignKeys \in SUBSET ColumnPairs
  /\ \E n \in 0 .. MaxPolicies : policies \in [1 .. n -> Policy]
  /\ verdict = "none"
  /\ rewrite = "none"
  /\ output = [c \in Columns |-> "raw"]

-----------------------------------------------------------------------------
(* PolicyCoverageEvaluationService.                                        *)

SensitiveTags(c) == tags[c] \cap TagNames

\* applies_to, the column compared up to case.
AppliesTo(i, c) == policies[i].column = c /\ policies[i].tag \in SensitiveTags(c)

\* The first one listed.
MatchingPolicy(i, c) == AppliesTo(i, c) /\ \A j \in 1 .. i - 1 : ~AppliesTo(j, c)

HasPolicy(c) == \E i \in DOMAIN policies : AppliesTo(i, c)

State(c) ==
  CASE tags[c] = {} -> "unclassified"
    [] "needs_review" \in tags[c] -> "needs_review"
    [] tags[c] = {"non_sensitive"} -> "non_sensitive"
    [] OTHER -> IF HasPolicy(c) THEN "sensitive_with_policy" ELSE "sensitive_without_policy"

\* A column without classification is reported, but blocks nothing by itself.
ColumnBlocks(c) == State(c) \in {"needs_review", "sensitive_without_policy"}

PoliciesAreConsistent(c, d) == \E i, j \in DOMAIN policies :
  /\ MatchingPolicy(i, c) /\ MatchingPolicy(j, d)
  /\ policies[i].handling = policies[j].handling

\* Fault: fields that have not been classified are passed over.
LinkBlocksClassified(c, d) ==
  LET states == {State(c), State(d)}
      sensitive == {"sensitive_with_policy", "sensitive_without_policy"}
  IN /\ {"needs_review", "unclassified"} \cap states = {}
     /\ \/ states \cap sensitive # {} /\ "non_sensitive" \in states
        \/ states = sensitive
        \/ states = {"sensitive_with_policy"} /\ ~PoliciesAreConsistent(c, d)

LinkBlocks(c, d) ==
  LET states == {State(c), State(d)}
      sensitive == {"sensitive_with_policy", "sensitive_without_policy"}
  IN /\ "needs_review" \notin states
     /\ \/ states \cap sensitive # {} /\ states \cap {"non_sensitive", "unclassified"} # {}
        \/ states = sensitive
        \/ states = {"sensitive_with_policy"} /\ ~PoliciesAreConsistent(c, d)

BlockingGaps ==
  \/ \E c \in Columns : ColumnBlocks(c)
  \/ \E link \in foreignKeys : LinkBlocks(link[1], link[2])

AssertPublishReady ==
  /\ verdict = "none"
  /\ verdict' = IF BlockingGaps THEN "refused" ELSE "ready"
  /\ UNCHANGED <<givenVars, rewrite, output>>

-----------------------------------------------------------------------------
(* The extraction pipeline and RowTransformationService.apply_to_rows.     *)

\* _list_active_policies.
ActivePolicies == IF PoliciesGiven THEN policies ELSE <<>>

\* matching_policies: the last one listed under the very name of the column.
ActsOn(i, c) ==
  /\ ActivePolicies[i].column = c /\ ActivePolicies[i].exact
  /\ \A j \in i + 1 .. Len(ActivePolicies) : ActivePolicies[j].column = c => ~ActivePolicies[j].exact

Acting(type, c) == \E i \in DOMAIN ActivePolicies : ActsOn(i, c) /\ ActivePolicies[i].handling[1] = type

\* Types that are not supported leave the value as it is, and so do no policies.
Treatment(c) ==
  LET acting == {type \in Types \cap Supported : Acting(type, c)} IN
  IF acting = {} THEN "raw" ELSE CHOOSE type \in acting : TRUE

ApplyToRows ==
  /\ rewrite = "none"
  /\ ~\E c \in Columns : Acting(Tokenization, c)
  /\ rewrite' = "done"
  /\ output' = [c \in Columns |-> Treatment(c)]
  /\ UNCHANGED <<givenVars, verdict>>

\* Tokenization without a vault.
RaiseTokenization ==
  /\ rewrite = "none"
  /\ \E c \in Columns : Acting(Tokenization, c)
  /\ rewrite' = "raised"
  /\ UNCHANGED <<givenVars, verdict, output>>

GovernanceNext == AssertPublishReady \/ ApplyToRows \/ RaiseTokenization

GovernanceSpec == GovernanceInit /\ [][GovernanceNext]_governanceVars

-----------------------------------------------------------------------------
LinkClosed(S) == \A link \in foreignKeys : link[1] \in S <=> link[2] \in S

\* Foreign keys lead from one column to the other, in whatever direction.
Joined(c, d) == \A S \in SUBSET Columns : c \in S /\ LinkClosed(S) => d \in S

\* The report looks at one foreign key at a time, and says nothing of columns
\* that are unclassified or not sensitive on both ends.  All the same, in a
\* source it lets pass, whatever can be joined to a sensitive column by any
\* number of foreign keys is under a policy of the same type and reversibility.
ReadyIsConsistent ==
  verdict = "ready" =>
    \A c, d \in Columns : SensitiveTags(c) # {} /\ Joined(c, d) => PoliciesAreConsistent(c, d)

Released == verdict = "ready" /\ rewrite = "done"

\* What the report takes for granted of the policies, one by one: the type is
\* one that transforms, and the column is named as the source names it.
Effective == \A i \in DOMAIN policies : policies[i].exact /\ policies[i].handling[1] \in Supported

\* docs/security/security-model.md:242, "masking prima della pubblicazione": of
\* a source that is ready to be published, with effective policies on all its
\* sensitive columns, no sensitive column is written as it is.
GovernedIsTransformed ==
  Released /\ Effective => \A c \in Columns : SensitiveTags(c) # {} => output[c] # "raw"
=============================================================================
