------------------------- MODULE RefreshScheduleProofs -------------------------
(* Proofs about RefreshSchedule, for any number of schedules, jobs, and of *)
(* dispatchers and recoveries that overlap.                                *)
EXTENDS RefreshSchedule, FiniteSetTheorems, TLAPS

\* The invariant: the jobs that are pending without having been put back after
\* their end, and the dispatchers about to create one, are counted together.
Own(s) == PendingJobs(s) \ revived

Creating(s) == {d \in Dispatchers : chosen[d] = s /\ ~created[d]}

Load(s) == Cardinality(Own(s)) + Cardinality(Creating(s))

OwnBounded == \A s \in Schedules : Load(s) <= Cardinality(Dispatchers)

LEMMA Counts ==
  /\ Cardinality(Dispatchers) \in Nat
  /\ \A S \in SUBSET Jobs : IsFiniteSet(S) /\ Cardinality(S) \in Nat
  /\ \A S \in SUBSET Dispatchers : /\ IsFiniteSet(S) /\ Cardinality(S) \in Nat
                                   /\ Cardinality(S) <= Cardinality(Dispatchers)
BY ScheduleAssumption, FS_Subset, FS_CardinalityType

LEMMA Parts ==
  \A s : Own(s) \in SUBSET Jobs /\ Creating(s) \in SUBSET Dispatchers
BY DEF Own, PendingJobs, Creating

-----------------------------------------------------------------------------
(* Types.  A job that is over keeps the schedule it was created for as     *)
(* long as a recovery may put it back.                                     *)

ListedHasOrigin == \A r \in Recoveries : \A j \in rjobs[r] : origin[j] # NoSchedule

Typed == ScheduleOK /\ ListedHasOrigin

LEMMA InitTyped == ScheduleInit => Typed
BY DEF ScheduleInit, Typed, ScheduleOK, ListedHasOrigin, Pending

LEMMA NewJobIsFree == FreeJobs # {} => NewJob \in FreeJobs
BY DEF NewJob

LEMMA NextTyped == Typed /\ [ScheduleNext]_scheduleVars => Typed'
<1> SUFFICES ASSUME Typed, [ScheduleNext]_scheduleVars
             PROVE  Typed'
  OBVIOUS
<1> USE ScheduleAssumption DEF Typed, ScheduleOK, ListedHasOrigin, Pending, jobVars, dispatchVars
<1>1. ASSUME NEW s \in Schedules, CreateSchedule(s) \/ ScheduleComesDue(s)
      PROVE  Typed'
  BY <1>1 DEF CreateSchedule, ScheduleComesDue
<1>2. ASSUME NEW j \in Jobs, StartJob(j) \/ EndJob(j)
      PROVE  Typed'
  BY <1>2 DEF StartJob, EndJob, SaveJob
<1>3. ASSUME NEW r \in Recoveries, ListRunning(r)
      PROVE  Typed'
  BY <1>3 DEF ListRunning
<1>4. ASSUME NEW r \in Recoveries, PutBack(r)
      PROVE  Typed'
  BY <1>4 DEF PutBack, SaveJob
<1>5. ASSUME NEW r \in Recoveries, SkipLeased(r) \/ AbortRecovery(r)
      PROVE  Typed'
  BY <1>5 DEF SkipLeased, AbortRecovery
<1>6. ASSUME NEW d \in Dispatchers, ListDueSchedules(d) \/ SkipPending(d) \/ FindIdle(d)
      PROVE  Typed'
  BY <1>6 DEF ListDueSchedules, SkipPending, FindIdle
<1>7. ASSUME NEW d \in Dispatchers, CreateJob(d)
      PROVE  Typed'
  <2>1. NewJob \in Jobs
    BY <1>7, NewJobIsFree DEF CreateJob, FreeJobs
  <2> QED BY <1>7, <2>1 DEF CreateJob
<1>8. ASSUME NEW d \in Dispatchers, MarkDispatched(d) \/ AbortDispatch(d)
      PROVE  Typed'
  BY <1>8 DEF MarkDispatched, AbortDispatch, EndSchedule
<1>9. CASE UNCHANGED scheduleVars
  BY <1>9 DEF scheduleVars
<1> QED BY <1>1, <1>2, <1>3, <1>4, <1>5, <1>6, <1>7, <1>8, <1>9 DEF ScheduleNext, DispatchStep

-----------------------------------------------------------------------------
(* The bound.  A step adds to the jobs, and to the dispatchers about to    *)
(* create one, only when a dispatcher has found the schedule idle; then no *)
(* job is left.                                                            *)

\* Steps that add to neither.
LEMMA NoneAdded ==
  ASSUME NEW s, Own(s)' \subseteq Own(s), Creating(s)' \subseteq Creating(s),
         Load(s) <= Cardinality(Dispatchers)
  PROVE  Load(s)' <= Cardinality(Dispatchers)
<1>1. Cardinality(Own(s)') <= Cardinality(Own(s))
  BY Counts, Parts, FS_Subset
<1>2. Cardinality(Creating(s)') <= Cardinality(Creating(s))
  BY Counts, Parts, FS_Subset
<1>3. Own(s)' \in SUBSET Jobs /\ Creating(s)' \in SUBSET Dispatchers
  BY Parts
<1> QED BY <1>1, <1>2, <1>3, Counts, Parts DEF Load

LEMMA NextBounded == Typed /\ OwnBounded /\ [ScheduleNext]_scheduleVars => OwnBounded'
<1> SUFFICES ASSUME Typed, OwnBounded, [ScheduleNext]_scheduleVars, NEW s \in Schedules
             PROVE  Load(s)' <= Cardinality(Dispatchers)
  BY DEF OwnBounded
<1>1. Load(s) <= Cardinality(Dispatchers)
  BY DEF OwnBounded
<1> USE DEF Typed, ScheduleOK, jobVars, dispatchVars
<1>2. CASE \E d \in Dispatchers : FindIdle(d) /\ chosen'[d] = s
  <2>1. PendingJobs(s) = {} /\ UNCHANGED jobVars
    BY <1>2 DEF FindIdle
  <2>2. Cardinality(Own(s)') = 0
    BY <2>1, FS_EmptySet DEF Own, PendingJobs
  <2>3. Creating(s)' \in SUBSET Dispatchers
    BY DEF Creating
  <2> QED BY <2>2, <2>3, Counts DEF Load
<1>3. CASE \E d \in Dispatchers : CreateJob(d) /\ chosen[d] = s
  <2>1. PICK d \in Dispatchers : CreateJob(d) /\ chosen[d] = s
    BY <1>3
  <2>2. NewJob \in FreeJobs
    BY <2>1, NewJobIsFree DEF CreateJob
  <2>3. Own(s)' \subseteq Own(s) \cup {NewJob}
    BY <2>1, <2>2 DEF CreateJob, Own, PendingJobs
  <2>4. d \in Creating(s) /\ Creating(s)' = Creating(s) \ {d}
    BY <2>1 DEF CreateJob, Creating
  <2>5. Cardinality(Creating(s)') = Cardinality(Creating(s)) - 1
    BY <2>4, Counts, Parts, FS_RemoveElement
  <2>6. Cardinality(Own(s)') <= Cardinality(Own(s)) + 1
    <3> DEFINE U == Own(s)
               j == NewJob
    <3>4. IsFiniteSet(U) /\ Cardinality(U) \in Nat
      BY Counts, Parts
    <3>1. IsFiniteSet(U \cup {j}) /\ Cardinality(U \cup {j}) <= Cardinality(U) + 1
      <4> HIDE DEF U, j
      <4>1. /\ IsFiniteSet(U \cup {j})
            /\ Cardinality(U \cup {j}) = IF j \in U THEN Cardinality(U) ELSE Cardinality(U) + 1
        BY <3>4, FS_AddElement, Zenon
      <4> QED BY <3>4, <4>1
    <3>2. Cardinality(Own(s)') <= Cardinality(Own(s) \cup {NewJob})
      BY <2>3, <3>1, FS_Subset
    <3>3. Cardinality(Own(s)') \in Nat /\ Cardinality(Own(s) \cup {NewJob}) \in Nat
      BY <2>3, <3>1, FS_Subset, FS_CardinalityType
    <3> QED BY <3>1, <3>2, <3>3, Counts, Parts
  <2>7. Own(s)' \in SUBSET Jobs /\ Creating(s)' \in SUBSET Dispatchers
    BY DEF Own, PendingJobs, Creating
  <2> QED BY <1>1, <2>5, <2>6, <2>7, Counts, Parts DEF Load
<1>4. CASE ~(\E d \in Dispatchers : FindIdle(d) /\ chosen'[d] = s)
           /\ ~(\E d \in Dispatchers : CreateJob(d) /\ chosen[d] = s)
  <2> SUFFICES Own(s)' \subseteq Own(s) /\ Creating(s)' \subseteq Creating(s)
    BY <1>1, NoneAdded
  <2> USE ScheduleAssumption DEF Own, PendingJobs, Creating, Pending
  <2>1. ASSUME NEW t \in Schedules, CreateSchedule(t) \/ ScheduleComesDue(t)
        PROVE  Own(s)' \subseteq Own(s) /\ Creating(s)' \subseteq Creating(s)
    BY <2>1 DEF CreateSchedule, ScheduleComesDue
  <2>2. ASSUME NEW j \in Jobs, StartJob(j) \/ EndJob(j)
        PROVE  Own(s)' \subseteq Own(s) /\ Creating(s)' \subseteq Creating(s)
    BY <2>2 DEF StartJob, EndJob, SaveJob
  <2>3. ASSUME NEW r \in Recoveries, ListRunning(r)
        PROVE  Own(s)' \subseteq Own(s) /\ Creating(s)' \subseteq Creating(s)
    BY <2>3 DEF ListRunning
  <2>4. ASSUME NEW r \in Recoveries, PutBack(r)
        PROVE  Own(s)' \subseteq Own(s) /\ Creating(s)' \subseteq Creating(s)
    BY <2>4 DEF PutBack, SaveJob
  <2>5. ASSUME NEW r \in Recoveries, SkipLeased(r) \/ AbortRecovery(r)
        PROVE  Own(s)' \subseteq Own(s) /\ Creating(s)' \subseteq Creating(s)
    BY <2>5 DEF SkipLeased, AbortRecovery
  <2>6. ASSUME NEW d \in Dispatchers, ListDueSchedules(d) \/ SkipPending(d)
        PROVE  Own(s)' \subseteq Own(s) /\ Creating(s)' \subseteq Creating(s)
    BY <2>6 DEF ListDueSchedules, SkipPending
  <2>7. ASSUME NEW d \in Dispatchers, FindIdle(d)
        PROVE  Own(s)' \subseteq Own(s) /\ Creating(s)' \subseteq Creating(s)
    BY <1>4, <2>7 DEF FindIdle
  <2>8. ASSUME NEW d \in Dispatchers, CreateJob(d)
        PROVE  Own(s)' \subseteq Own(s) /\ Creating(s)' \subseteq Creating(s)
    BY <1>4, <2>8, NewJobIsFree DEF CreateJob, FreeJobs
  <2>9. ASSUME NEW d \in Dispatchers, MarkDispatched(d) \/ AbortDispatch(d)
        PROVE  Own(s)' \subseteq Own(s) /\ Creating(s)' \subseteq Creating(s)
    BY <2>9 DEF MarkDispatched, AbortDispatch, EndSchedule
  <2>10. CASE UNCHANGED scheduleVars
    BY <2>10 DEF scheduleVars
  <2> QED BY <2>1, <2>2, <2>3, <2>4, <2>5, <2>6, <2>7, <2>8, <2>9, <2>10 DEF ScheduleNext, DispatchStep
<1> QED BY <1>2, <1>3, <1>4

LEMMA InitBounded == ScheduleInit => OwnBounded
<1> SUFFICES ASSUME ScheduleInit, NEW s \in Schedules
             PROVE  Load(s) <= Cardinality(Dispatchers)
  BY DEF OwnBounded
<1>1. Own(s) = {} /\ Creating(s) = {}
  BY ScheduleAssumption DEF ScheduleInit, Own, PendingJobs, Creating, Pending
<1> QED BY <1>1, FS_EmptySet, Counts DEF Load

-----------------------------------------------------------------------------
\* Every state has the types the model states, for any schedules, jobs,
\* dispatchers and recoveries.
THEOREM SpecScheduleOK == ScheduleSpec => []ScheduleOK
<1>1. Typed => ScheduleOK
  BY DEF Typed
<1> QED BY InitTyped, NextTyped, <1>1, PTL DEF ScheduleSpec

\* Of the pending jobs of a schedule, those that no recovery has put back after
\* their end are no more than the dispatchers that may overlap, for any number
\* of them and of recoveries.
THEOREM SpecPendingBounded == ScheduleSpec => []PendingBounded
<1>1. OwnBounded => PendingBounded
  BY Counts, Parts DEF OwnBounded, PendingBounded, Own, Load
<1> QED BY InitTyped, NextTyped, InitBounded, NextBounded, <1>1, PTL DEF ScheduleSpec
=============================================================================
