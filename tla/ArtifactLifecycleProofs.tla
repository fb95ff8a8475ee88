----------------------- MODULE ArtifactLifecycleProofs -----------------------
(* Proofs about ArtifactLifecycle, for any set of artifacts and any number *)
(* of calls and runs that overlap.                                         *)
EXTENDS ArtifactLifecycle, TLAPS

USE DEF RecordStatus

-----------------------------------------------------------------------------
(* The invariant.  Beside the two properties it says what each process may *)
(* still rely on when it acts on what it read: a record never disappears,  *)
(* never becomes available again, and what was due stays due.              *)

Over(a) == record[a] \in {"expired", "deleted"}

OverIsDue == \A a \in Artifacts : Over(a) => a \in due

UnrecordedFile == extracting # NoArtifact => extracting \in files /\ record[extracting] = "none"

LookedUp == \A c \in Callers : looked[c] # NoArtifact => record[looked[c]] # "none"

ListedDue == \A r \in Retentions : \A a \in listed[r] : a \in due /\ record[a] # "none"

ExpiredOver == \A d \in Cleanups : \A a \in expired[d] : Over(a)

RemovingOver ==
  \A d \in Cleanups : removing[d] # NoArtifact => Over(removing[d]) /\ removing[d] \notin files

Kept ==
  /\ TypeOK
  /\ AvailableHasFile
  /\ DeletedHasNoFile
  /\ OverIsDue
  /\ UnrecordedFile
  /\ LookedUp
  /\ ListedDue
  /\ ExpiredOver
  /\ RemovingOver

LEMMA InitKept == Init => Kept
BY ArtifactAssumption DEF Init, Kept, TypeOK, AvailableHasFile, DeletedHasNoFile, OverIsDue, Over,
   UnrecordedFile, LookedUp, ListedDue, ExpiredOver, RemovingOver

\* What the steps of the extraction worker, the calls, the retention and the
\* cleanup runs leave true.
LEMMA NextKept == Kept /\ [Next]_vars => Kept'
<1> SUFFICES ASSUME Kept, [Next]_vars
             PROVE  Kept'
  OBVIOUS
<1> USE ArtifactAssumption
        DEF Kept, TypeOK, AvailableHasFile, DeletedHasNoFile, OverIsDue, Over, UnrecordedFile,
            LookedUp, ListedDue, ExpiredOver, RemovingOver, SaveRecord
<1>1. ASSUME NEW a \in Artifacts, Materialize(a)
      PROVE  Kept'
  BY <1>1 DEF Materialize, callerVars, cleanupVars
<1>2. ASSUME NEW a \in Artifacts, ComeDue(a)
      PROVE  Kept'
  BY <1>2 DEF ComeDue, callerVars, cleanupVars
<1>3. CASE RecordArtifact
  BY <1>3 DEF RecordArtifact, callerVars, cleanupVars
<1>4. ASSUME NEW c \in Callers, EvaluateAvailability(c)
      PROVE  Kept'
  BY <1>4 DEF EvaluateAvailability, EndLookUp, cleanupVars
<1>5. ASSUME NEW c \in Callers, NEW a \in Artifacts, LookUp(c, a)
      PROVE  Kept'
  BY <1>5 DEF LookUp, cleanupVars
<1>6. ASSUME NEW r \in Retentions, ListDue(r)
      PROVE  Kept'
  BY <1>6 DEF ListDue, callerVars, cleanupVars
<1>7. ASSUME NEW r \in Retentions, ExpireListed(r)
      PROVE  Kept'
  BY <1>7 DEF ExpireListed, callerVars, cleanupVars
<1>8. ASSUME NEW d \in Cleanups, ListExpired(d)
      PROVE  Kept'
  BY <1>8 DEF ListExpired, callerVars
<1>9. ASSUME NEW d \in Cleanups, RemoveFile(d)
      PROVE  Kept'
  BY <1>9 DEF RemoveFile, callerVars
<1>10. ASSUME NEW d \in Cleanups, MarkDeleted(d)
       PROVE  Kept'
  BY <1>10 DEF MarkDeleted, callerVars
<1>11. CASE \/ LoseArtifact
            \/ \E c \in Callers : AbandonCall(c)
            \/ \E r \in Retentions : AbortRetention(r)
            \/ \E d \in Cleanups : RemoveFails(d) \/ AbortCleanup(d)
  BY <1>11 DEF LoseArtifact, AbandonCall, AbortRetention, RemoveFails, AbortCleanup,
     EndLookUp, callerVars, cleanupVars
<1>12. CASE UNCHANGED vars
  BY <1>12 DEF vars, callerVars, cleanupVars
<1> QED
  BY <1>1, <1>2, <1>3, <1>4, <1>5, <1>6, <1>7, <1>8, <1>9, <1>10, <1>11, <1>12
     DEF Next, RetentionStep, CleanupStep

LEMMA AlwaysKept == Spec => []Kept
BY InitKept, NextKept, PTL DEF Spec

\* However many calls, retentions and cleanups overlap, die or fail: an
\* available artifact has its file, and files stay until their retention is
\* over.
THEOREM SpecAvailableHasFile == Spec => []AvailableHasFile
BY AlwaysKept, PTL DEF Kept

\* And an artifact marked deleted has no file, not even if its removal failed in
\* one run while another was under way.
THEOREM SpecDeletedHasNoFile == Spec => []DeletedHasNoFile
BY AlwaysKept, PTL DEF Kept

\* And no save of a record that was read earlier makes it available again.
THEOREM StaysOver == Spec => NeverAvailableAgain
<1>1. Kept /\ [Next]_vars
        => [\A a \in Artifacts :
              record[a] \in {"expired", "deleted"} => record'[a] \in {"expired", "deleted"}]_vars
  <2> SUFFICES ASSUME Kept, [Next]_vars, NEW a \in Artifacts, record[a] \in {"expired", "deleted"}
               PROVE  record'[a] \in {"expired", "deleted"}
    OBVIOUS
  <2> USE DEF Kept, TypeOK, SaveRecord
  <2>1. CASE record' = record
    BY <2>1
  <2>2. CASE RecordArtifact
    BY <2>2 DEF RecordArtifact, UnrecordedFile
  <2>3. CASE \E c \in Callers : EvaluateAvailability(c)
    BY <2>3 DEF EvaluateAvailability
  <2>4. CASE \E r \in Retentions : ExpireListed(r)
    BY <2>4 DEF ExpireListed
  <2>5. CASE \E d \in Cleanups : MarkDeleted(d)
    BY <2>5 DEF MarkDeleted
  <2> QED
    BY <2>1, <2>2, <2>3, <2>4, <2>5
       DEF Next, Materialize, ComeDue, LookUp, RetentionStep, ListDue, CleanupStep, ListExpired,
           RemoveFile, LoseArtifact, AbandonCall, AbortRetention, RemoveFails, AbortCleanup, vars
<1> QED
  BY <1>1, AlwaysKept, PTL DEF Spec, NeverAvailableAgain
=============================================================================
