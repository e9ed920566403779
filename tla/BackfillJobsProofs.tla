------------------------- MODULE BackfillJobsProofs -------------------------
(***************************************************************************)
(* The registry of backfill jobs, for any number of requests, permits,     *)
(* retained entries and jobs.                                              *)
(***************************************************************************)
EXTENDS BackfillJobs, FiniteSetTheorems, WellFoundedInduction, TLAPS

-----------------------------------------------------------------------------
(* Sets of ids.                                                            *)

LEMMA IdsAreFinite ==
  ASSUME NEW S \in SUBSET Ids
  PROVE  IsFiniteSet(S) /\ Cardinality(S) \in Nat
<1>1. IsFiniteSet(Ids)
  BY MaxJobsAssumption, FS_Interval DEF Ids
<1>2. IsFiniteSet(S)
  BY <1>1, FS_Subset
<1> QED
  BY <1>2, FS_CardinalityType

LEMMA IdsHaveMinimum ==
  ASSUME NEW S \in SUBSET Nat, S # {}
  PROVE  \E m \in S : \A i \in S : m <= i
<1>1. PICK m \in S : \A i \in S : <<i, m>> \notin OpToRel(<, Nat)
  BY NatLessThanWellFounded, WFMin
<1>2. \A i \in S : ~(i < m)
  BY <1>1 DEF OpToRel
<1> QED
  BY <1>2

LEMMA IdsHaveMaximum ==
  ASSUME NEW S \in SUBSET Ids, S # {}
  PROVE  \E m \in S : \A i \in S : i <= m
<1> DEFINE T == {MaxJobs - i : i \in S}
<1>1. T \in SUBSET Nat /\ T # {}
  <2>1. \A i \in S : MaxJobs - i \in Nat
    BY MaxJobsAssumption DEF Ids
  <2> QED
    BY <2>1
<1> HIDE DEF T
<1>2. PICK n \in T : \A k \in T : n <= k
  BY <1>1, IdsHaveMinimum
<1>3. PICK m \in S : n = MaxJobs - m
  BY <1>2 DEF T
<1>4. \A i \in S : n <= MaxJobs - i
  BY <1>2 DEF T
<1> QED
  BY <1>3, <1>4, MaxJobsAssumption DEF Ids

\* Above(F, i) are the members of F that are younger than i; a finished job is
\* kept while there are fewer of them than MAX_FINISHED_JOBS_RETAINED.
Above(F, i) == {j \in F : j > i}
Kept(F) == {i \in F : Cardinality(Above(F, i)) < MaxRetained}

\* No more than the retained number of members is kept.
LEMMA KeptAreFew ==
  ASSUME NEW F \in SUBSET Ids
  PROVE  Cardinality(Kept(F)) <= MaxRetained
<1>1. CASE Kept(F) = {}
  BY <1>1, FS_EmptySet, LimitsAssumption
<1>2. CASE Kept(F) # {}
  <2>1. Kept(F) \in SUBSET Ids /\ Kept(F) \in SUBSET Nat
    <3>1. Kept(F) \subseteq F
      BY DEF Kept
    <3>2. \A i \in Ids : i \in Nat
      BY MaxJobsAssumption DEF Ids
    <3> QED
      BY <3>1, <3>2
  <2>2. PICK m \in Kept(F) : \A i \in Kept(F) : m <= i
    BY <1>2, <2>1, IdsHaveMinimum
  <2>3. Kept(F) \ {m} \in SUBSET Above(F, m)
    BY <2>1, <2>2 DEF Kept, Above
  <2>4. Above(F, m) \in SUBSET Ids
    BY DEF Above
  <2>5. Cardinality(Kept(F) \ {m}) <= Cardinality(Above(F, m))
    BY <2>3, <2>4, IdsAreFinite, FS_Subset
  <2>6. Cardinality(Kept(F) \ {m}) = Cardinality(Kept(F)) - 1
    BY <2>1, <2>2, IdsAreFinite, FS_RemoveElement
  <2>7. Cardinality(Above(F, m)) < MaxRetained
    BY <2>2 DEF Kept
  <2> QED
    BY <2>1, <2>4, <2>5, <2>6, <2>7, IdsAreFinite, LimitsAssumption
<1> QED
  BY <1>1, <1>2

\* Above a member that is not kept, the retained number of members is kept.
LEMMA KeptAreEnough ==
  ASSUME NEW F \in SUBSET Ids, NEW i \in F \ Kept(F)
  PROVE  Cardinality(Above(F, i) \cap Kept(F)) >= MaxRetained
<1> DEFINE A == Above(F, i)
           K == A \cap Kept(F)
<1>1. A \in SUBSET Ids /\ K \in SUBSET Ids /\ A \ K \in SUBSET Ids
  BY DEF Above
<1>2. Cardinality(A) >= MaxRetained
  BY <1>1, IdsAreFinite, LimitsAssumption DEF Kept
<1>3. CASE A \ K = {}
  <2>1. A = K
    BY <1>3
  <2> QED
    BY <1>2, <2>1
<1>4. CASE A \ K # {}
  <2>1. PICK m \in A \ K : \A j \in A \ K : j <= m
    BY <1>1, <1>4, IdsHaveMaximum
  <2>2. m \in F \ Kept(F) /\ m > i
    BY <2>1 DEF Above
  <2>3. Above(F, m) \in SUBSET K
    <3> SUFFICES ASSUME NEW j \in Above(F, m) PROVE j \in K
      OBVIOUS
    <3>1. j \in A /\ ~(j <= m)
      BY <2>2 DEF Above, Ids
    <3> QED
      BY <2>1, <3>1
  <2>4. Cardinality(Above(F, m)) >= MaxRetained
    <3>1. Above(F, m) \in SUBSET Ids
      BY DEF Above
    <3> QED
      BY <2>2, <3>1, IdsAreFinite, LimitsAssumption DEF Kept
  <2>5. Cardinality(Above(F, m)) <= Cardinality(K)
    BY <1>1, <2>3, IdsAreFinite, FS_Subset
  <2>6. Cardinality(Above(F, m)) \in Nat /\ Cardinality(K) \in Nat
    <3>1. Above(F, m) \in SUBSET Ids
      BY DEF Above
    <3> QED
      BY <1>1, <3>1, IdsAreFinite
  <2> QED
    BY <2>4, <2>5, <2>6, LimitsAssumption
<1> QED
  BY <1>3, <1>4

-----------------------------------------------------------------------------
(* Pruning.                                                                *)

Statuses == {"absent", "running", "succeeded", "failed"}

LEMMA PrunedShape ==
  ASSUME NEW s \in [Ids -> Statuses]
  PROVE  /\ Pruned(s) \in [Ids -> Statuses]
         /\ FinishedIn(s) \in SUBSET Ids
         /\ \A i \in Ids : Pruned(s)[i] =
              IF i \in FinishedIn(s) \ Kept(FinishedIn(s)) THEN "absent" ELSE s[i]
<1> DEFINE F == FinishedIn(s)
<1>1. F \in SUBSET Ids
  BY DEF FinishedIn
<1>2. \A i \in F : Cardinality({j \in F : j > i}) \in Nat
  BY <1>1, IdsAreFinite
<1>3. \A i \in F : i \in Kept(F) <=> ~(Cardinality({j \in F : j > i}) >= MaxRetained)
  BY <1>2, LimitsAssumption DEF Kept, Above
<1>4. Pruned(s) = [i \in Ids |-> IF i \in F \ Kept(F) THEN "absent" ELSE s[i]]
  BY <1>3 DEF Pruned
<1> QED
  BY <1>1, <1>4 DEF Statuses

\* What is left of the finished jobs after pruning.
LEMMA FinishedAfterPruning ==
  ASSUME NEW s \in [Ids -> Statuses]
  PROVE  FinishedIn(Pruned(s)) = Kept(FinishedIn(s))
<1>1. Kept(FinishedIn(s)) \subseteq FinishedIn(s)
  BY DEF Kept
<1> QED
  BY <1>1, PrunedShape DEF FinishedIn

-----------------------------------------------------------------------------
(* Types, and what goes with them: ids above nextId are unused.            *)

Types ==
    /\ nextId \in 1..(MaxJobs + 1)
    /\ status \in [Ids -> Statuses]
    /\ request \in [Ids -> Requests \cup {NoRequest}]
    /\ permits \in Nat
    /\ active \in Int
    /\ task \in [Ids -> TaskPcs]
    /\ \A i \in Ids : i >= nextId => task[i] = "none"

LEMMA TypesInit == Init => Types
BY MaxJobsAssumption, LimitsAssumption DEF Init, Types, Statuses, TaskPcs, Ids

LEMMA TypesStep == Types /\ [Next]_vars => Types'
<1> SUFFICES ASSUME Types, [Next]_vars PROVE Types'
  OBVIOUS
<1> USE DEF Types
<1>1. ASSUME NEW r \in Requests, Register(r) PROVE Types'
  <2> DEFINE s == [status EXCEPT ![nextId] = "running"]
  <2>1. s \in [Ids -> Statuses] /\ status' = Pruned(s)
    BY <1>1 DEF Register, Statuses
  <2>2. status' \in [Ids -> Statuses]
    BY <2>1, PrunedShape
  <2>3. nextId' \in 1..(MaxJobs + 1) /\ permits' \in Nat
    BY <1>1, MaxJobsAssumption DEF Register, Ids
  <2>4. /\ request' \in [Ids -> Requests \cup {NoRequest}]
        /\ task' \in [Ids -> TaskPcs]
        /\ active' \in Int
    BY <1>1 DEF Register, TaskPcs
  <2>5. \A i \in Ids : i >= nextId' => task'[i] = "none"
    BY <1>1 DEF Register, Ids
  <2> QED
    BY <2>2, <2>3, <2>4, <2>5
<1>2. ASSUME NEW i \in Ids, TaskStep(i) \/ Panic(i) PROVE Types'
  <2>1. task' \in [Ids -> TaskPcs] /\ active' \in Int /\ permits' \in Nat
    BY <1>2 DEF TaskStep, Spawn, RunEnds, Panic, Record, ReleasePermit, EndOperation, TaskPcs
  <2>2. status' \in [Ids -> Statuses]
    BY <1>2 DEF TaskStep, Spawn, RunEnds, Panic, Record, ReleasePermit, EndOperation, Statuses
  <2>3. nextId' = nextId /\ request' = request
    BY <1>2 DEF TaskStep, Spawn, RunEnds, Panic, Record, ReleasePermit, EndOperation
  <2>4. \A j \in Ids : task[j] = "none" => task'[j] = "none"
    BY <1>2 DEF TaskStep, Spawn, RunEnds, Panic, Record, ReleasePermit, EndOperation
  <2> QED
    BY <2>1, <2>2, <2>3, <2>4
<1>3. CASE UNCHANGED vars
  BY <1>3 DEF vars
<1> QED
  BY <1>1, <1>2, <1>3 DEF Next

-----------------------------------------------------------------------------
(* Listing and exclusion.                                                  *)

\* Exclusion holds for as long as a job is listed as running, which is a little
\* longer than it runs.
Listing ==
    /\ UnfinishedIsListed
    /\ \A i, j \in Unrecorded : request[i] = request[j] => i = j

LEMMA ListingInit == Init => Listing
BY DEF Init, Listing, UnfinishedIsListed, Unrecorded

LEMMA ListingStep == Types /\ Listing /\ [Next]_vars => Listing'
<1> SUFFICES ASSUME Types, Listing, [Next]_vars PROVE Listing'
  OBVIOUS
<1> USE DEF Listing, UnfinishedIsListed
<1>1. ASSUME NEW r \in Requests, Register(r) PROVE Listing'
  <2> DEFINE s == [status EXCEPT ![nextId] = "running"]
  <2>1. s \in [Ids -> Statuses] /\ status' = Pruned(s) /\ nextId \in Ids
    BY <1>1 DEF Register, Statuses, Types
  <2>2. \A i \in Ids : s[i] = "running" => status'[i] = "running"
    BY <2>1, PrunedShape DEF FinishedIn
  <2>3. Unrecorded' = Unrecorded \cup {nextId}
    BY <1>1, <2>1 DEF Register, Unrecorded, Types
  <2>4. nextId \notin Unrecorded
    BY <2>1 DEF Unrecorded, Types, Ids
  <2>5. \A i \in Unrecorded' : status'[i] = "running"
    BY <2>1, <2>2, <2>3 DEF Types, Unrecorded
  <2>6. \A i \in Unrecorded : request[i] # r
    BY <1>1 DEF Register, FindActive, Unrecorded
  <2>7. request' = [request EXCEPT ![nextId] = r]
    BY <1>1 DEF Register
  <2>8. \A i, j \in Unrecorded' : request'[i] = request'[j] => i = j
    BY <2>1, <2>3, <2>4, <2>6, <2>7 DEF Types, Unrecorded
  <2> QED
    BY <2>5, <2>8
<1>2. ASSUME NEW i \in Ids, TaskStep(i) \/ Panic(i) PROVE Listing'
  <2>1. Unrecorded' \subseteq Unrecorded /\ request' = request
    BY <1>2 DEF Types, Unrecorded, TaskStep, Spawn, RunEnds, Panic, Record, ReleasePermit,
                EndOperation
  <2>2. \A j \in Unrecorded' : status'[j] = status[j]
    BY <1>2 DEF Types, Unrecorded, TaskStep, Spawn, RunEnds, Panic, Record, ReleasePermit,
                EndOperation
  <2> QED
    BY <2>1, <2>2
<1>3. CASE UNCHANGED vars
  BY <1>3 DEF vars, Unrecorded
<1> QED
  BY <1>1, <1>2, <1>3 DEF Next

-----------------------------------------------------------------------------
(* Permits and guards.                                                     *)

LEMMA CountsInit == Init => PermitsAccounted /\ GuardsCounted
<1> SUFFICES ASSUME Init PROVE PermitsAccounted /\ GuardsCounted
  OBVIOUS
<1>1. HoldingPermit = {} /\ Guarded = {}
  BY DEF Init, HoldingPermit, Guarded
<1> QED
  BY <1>1, FS_EmptySet, LimitsAssumption DEF Init, PermitsAccounted, GuardsCounted

LEMMA PermitsStep == Types /\ PermitsAccounted /\ [Next]_vars => PermitsAccounted'
<1> SUFFICES ASSUME Types, PermitsAccounted, [Next]_vars PROVE PermitsAccounted'
  OBVIOUS
<1> USE DEF PermitsAccounted
<1>0. HoldingPermit \in SUBSET Ids
      /\ IsFiniteSet(HoldingPermit) /\ Cardinality(HoldingPermit) \in Nat
  <2>1. HoldingPermit \in SUBSET Ids
    BY DEF HoldingPermit
  <2> QED
    BY <2>1, IdsAreFinite
<1>1. ASSUME NEW r \in Requests, Register(r) PROVE PermitsAccounted'
  <2>1. HoldingPermit' = HoldingPermit \cup {nextId} /\ nextId \notin HoldingPermit
    BY <1>1 DEF Register, HoldingPermit, Types, Ids
  <2>2. Cardinality(HoldingPermit') = Cardinality(HoldingPermit) + 1
    BY <1>0, <2>1, FS_AddElement
  <2>3. permits' = permits - 1
    BY <1>1 DEF Register
  <2> QED
    BY <1>0, <2>2, <2>3 DEF Types
<1>2. ASSUME NEW i \in Ids, Spawn(i) \/ RunEnds(i) \/ Record(i) \/ EndOperation(i) \/ Panic(i)
      PROVE  PermitsAccounted'
  <2>1. HoldingPermit' = HoldingPermit /\ permits' = permits
    BY <1>2 DEF Types, HoldingPermit, Spawn, RunEnds, Record, EndOperation, Panic
  <2> QED
    BY <2>1
<1>3. ASSUME NEW i \in Ids, ReleasePermit(i) PROVE PermitsAccounted'
  <2>1. HoldingPermit' = HoldingPermit \ {i} /\ i \in HoldingPermit
    BY <1>3 DEF Types, HoldingPermit, ReleasePermit
  <2>2. Cardinality(HoldingPermit') = Cardinality(HoldingPermit) - 1
    BY <1>0, <2>1, FS_RemoveElement
  <2>3. permits' = permits + 1
    BY <1>3 DEF ReleasePermit
  <2> QED
    BY <1>0, <2>2, <2>3 DEF Types
<1>4. CASE UNCHANGED vars
  BY <1>4 DEF vars, HoldingPermit
<1> QED
  BY <1>1, <1>2, <1>3, <1>4 DEF Next, TaskStep

LEMMA GuardsStep == Types /\ GuardsCounted /\ [Next]_vars => GuardsCounted'
<1> SUFFICES ASSUME Types, GuardsCounted, [Next]_vars PROVE GuardsCounted'
  OBVIOUS
<1> USE DEF GuardsCounted
<1>0. IsFiniteSet(Guarded)
  <2>1. Guarded \in SUBSET Ids
    BY DEF Guarded
  <2> QED
    BY <2>1, IdsAreFinite
<1>1. ASSUME NEW r \in Requests, Register(r) PROVE GuardsCounted'
  <2>1. task[nextId] = "none" /\ nextId \in Ids
    BY <1>1 DEF Register, Types, Ids
  <2>2. task' = [task EXCEPT ![nextId] = "registered"] /\ active' = active
    BY <1>1 DEF Register
  <2>3. Guarded' = Guarded
    BY <2>1, <2>2 DEF Guarded, Types
  <2> QED
    BY <2>2, <2>3
<1>2. ASSUME NEW i \in Ids, Spawn(i) PROVE GuardsCounted'
  <2>1. Guarded' = Guarded \cup {i} /\ i \notin Guarded /\ active' = active + 1
    BY <1>2 DEF Spawn, Guarded, Types
  <2> QED
    BY <1>0, <2>1, FS_AddElement
<1>3. ASSUME NEW i \in Ids, RunEnds(i) \/ Record(i) \/ ReleasePermit(i) \/ Panic(i)
      PROVE  GuardsCounted'
  BY <1>3 DEF Types, Guarded, RunEnds, Record, ReleasePermit, Panic
<1>4. ASSUME NEW i \in Ids, EndOperation(i) PROVE GuardsCounted'
  <2>1. Guarded' = Guarded \ {i} /\ i \in Guarded /\ active' = active - 1
    BY <1>4 DEF EndOperation, Guarded, Types
  <2> QED
    BY <1>0, <2>1, FS_RemoveElement
<1>5. CASE UNCHANGED vars
  BY <1>5 DEF vars, Guarded
<1> QED
  BY <1>1, <1>2, <1>3, <1>4, <1>5 DEF Next, TaskStep

-----------------------------------------------------------------------------
(* The size of the table.                                                  *)

LEMMA BoundInit == Init => FinishedIsBounded
<1> SUFFICES ASSUME Init PROVE FinishedIsBounded
  OBVIOUS
<1>1. Finished = {} /\ Unrecorded = {}
  BY DEF Init, Finished, FinishedIn, Unrecorded
<1> QED
  BY <1>1, FS_EmptySet, LimitsAssumption DEF FinishedIsBounded

LEMMA BoundStep ==
  Types /\ Listing /\ PermitsAccounted /\ PermitsAccounted' /\ Types'
  /\ FinishedIsBounded /\ [Next]_vars => FinishedIsBounded'
<1> SUFFICES ASSUME Types, Listing, PermitsAccounted, PermitsAccounted', Types',
                    FinishedIsBounded, [Next]_vars
             PROVE  FinishedIsBounded'
  OBVIOUS
<1> USE DEF FinishedIsBounded
<1>0. /\ IsFiniteSet(Finished) /\ Cardinality(Finished) \in Nat
      /\ IsFiniteSet(Unrecorded) /\ Cardinality(Unrecorded) \in Nat
  <2>1. Finished \in SUBSET Ids /\ Unrecorded \in SUBSET Ids
    BY DEF Finished, FinishedIn, Unrecorded
  <2> QED
    BY <2>1, IdsAreFinite
<1>1. ASSUME NEW r \in Requests, Register(r) PROVE FinishedIsBounded'
  <2> DEFINE s == [status EXCEPT ![nextId] = "running"]
  <2>1. s \in [Ids -> Statuses] /\ status' = Pruned(s)
    BY <1>1 DEF Register, Statuses, Types
  <2>2. Finished' = Kept(FinishedIn(s)) /\ FinishedIn(s) \in SUBSET Ids
    BY <2>1, FinishedAfterPruning, PrunedShape DEF Finished, FinishedIn
  <2>3. Cardinality(Finished') <= MaxRetained
    BY <2>2, KeptAreFew
  <2>4. Unrecorded' \in SUBSET HoldingPermit' /\ HoldingPermit' \in SUBSET Ids
    BY DEF Unrecorded, HoldingPermit
  <2>5. /\ Cardinality(Unrecorded') <= Cardinality(HoldingPermit')
        /\ Cardinality(HoldingPermit') \in Nat
    BY <2>4, IdsAreFinite, FS_Subset
  <2>6. Cardinality(HoldingPermit') <= MaxConcurrent
    BY <2>5, LimitsAssumption DEF PermitsAccounted, Types
  <2>7. Finished' \in SUBSET Ids /\ Unrecorded' \in SUBSET Ids
    BY DEF Finished, FinishedIn, Unrecorded
  <2>8. Cardinality(Finished') \in Nat /\ Cardinality(Unrecorded') \in Nat
    BY <2>7, IdsAreFinite
  <2> QED
    BY <2>3, <2>5, <2>6, <2>8, LimitsAssumption
<1>2. ASSUME NEW i \in Ids,
             Spawn(i) \/ RunEnds(i) \/ ReleasePermit(i) \/ EndOperation(i)
      PROVE  FinishedIsBounded'
  <2>1. Finished' = Finished /\ Unrecorded' = Unrecorded
    BY <1>2 DEF Types, Finished, FinishedIn, Unrecorded, Spawn, RunEnds, ReleasePermit,
                EndOperation
  <2> QED
    BY <2>1
<1>3. ASSUME NEW i \in Ids, Record(i) PROVE FinishedIsBounded'
  <2>1. status[i] = "running" /\ i \in Unrecorded
    BY <1>3 DEF Record, Listing, UnfinishedIsListed, Unrecorded
  <2>2. Finished' = Finished \cup {i} /\ i \notin Finished
    BY <1>3, <2>1 DEF Record, Types, Finished, FinishedIn
  <2>3. Unrecorded' = Unrecorded \ {i}
    BY <1>3 DEF Record, Types, Unrecorded
  <2>4. /\ Cardinality(Finished') = Cardinality(Finished) + 1
        /\ Cardinality(Unrecorded') = Cardinality(Unrecorded) - 1
    BY <1>0, <2>1, <2>2, <2>3, FS_AddElement, FS_RemoveElement
  <2> QED
    BY <1>0, <2>4, LimitsAssumption
<1>4. ASSUME NEW i \in Ids, Panic(i) PROVE FinishedIsBounded'
  <2>1. Finished' = Finished /\ Unrecorded' = Unrecorded \ {i} /\ i \in Unrecorded
    BY <1>4 DEF Panic, Types, Finished, FinishedIn, Unrecorded
  <2>2. Cardinality(Unrecorded') = Cardinality(Unrecorded) - 1
    BY <1>0, <2>1, FS_RemoveElement
  <2> QED
    BY <1>0, <2>1, <2>2, LimitsAssumption
<1>5. CASE UNCHANGED vars
  BY <1>5 DEF vars, Finished, FinishedIn, Unrecorded
<1> QED
  BY <1>1, <1>2, <1>3, <1>4, <1>5 DEF Next, TaskStep

-----------------------------------------------------------------------------
(* The theorems.                                                           *)

JobsInv ==
    Types /\ Listing /\ PermitsAccounted /\ GuardsCounted /\ FinishedIsBounded

LEMMA JobsInvInit == Init => JobsInv
BY TypesInit, ListingInit, CountsInit, BoundInit DEF JobsInv

LEMMA JobsInvStep == JobsInv /\ [Next]_vars => JobsInv'
BY TypesStep, ListingStep, PermitsStep, GuardsStep, BoundStep DEF JobsInv

LEMMA JobsInvAlways == Spec => []JobsInv
BY JobsInvInit, JobsInvStep, PTL DEF Spec

\* Every variable has its type; the bound on free permits needs the accounting
\* of permits.
THEOREM JobsTypeCorrect == Spec => []TypeOK
<1>1. JobsInv => TypeOK
  <2> SUFFICES ASSUME JobsInv PROVE TypeOK
    OBVIOUS
  <2>1. HoldingPermit \in SUBSET Ids
    BY DEF HoldingPermit
  <2>2. Cardinality(HoldingPermit) \in Nat
    BY <2>1, IdsAreFinite
  <2>3. permits \in 0..MaxConcurrent
    BY <2>2, LimitsAssumption DEF JobsInv, Types, PermitsAccounted
  <2> QED
    BY <2>3 DEF JobsInv, Types, TypeOK, Statuses
<1> QED
  BY <1>1, JobsInvAlways, PTL

\* No permit is lost or made up, whatever happens to a job.
THEOREM PermitsNeverLeak == Spec => []PermitsAccounted
<1>1. JobsInv => PermitsAccounted
  BY DEF JobsInv
<1> QED
  BY <1>1, JobsInvAlways, PTL

\* The shutdown's counter is the number of tasks that hold a guard.
THEOREM GuardsAreCounted == Spec => []GuardsCounted
<1>1. JobsInv => GuardsCounted
  BY DEF JobsInv
<1> QED
  BY <1>1, JobsInvAlways, PTL

\* Two backfills of the same kind and input never run at once.
THEOREM RunsAreExclusive == Spec => []ExclusiveRuns
<1>1. JobsInv => ExclusiveRuns
  BY DEF JobsInv, Listing, ExclusiveRuns, Executing, Unrecorded
<1> QED
  BY <1>1, JobsInvAlways, PTL

\* Pruning never removes the entry of a job that has still to end.
THEOREM UnfinishedStaysListed == Spec => []UnfinishedIsListed
<1>1. JobsInv => UnfinishedIsListed
  BY DEF JobsInv, Listing
<1> QED
  BY <1>1, JobsInvAlways, PTL

\* The table stays as small as it is meant to, although it is pruned only when
\* the next job starts.
THEOREM TableIsBounded == Spec => []FinishedIsBounded
<1>1. JobsInv => FinishedIsBounded
  BY DEF JobsInv
<1> QED
  BY <1>1, JobsInvAlways, PTL

\* Only the oldest finished jobs leave the table.
THEOREM PruningIsFair == Spec => OldestGoFirst
<1>1. JobsInv /\ [Next]_vars => [OldestLeave]_vars
  <2> SUFFICES ASSUME JobsInv, Next,
                      NEW i \in Ids, status[i] # "absent", status'[i] = "absent"
               PROVE  /\ i \in Finished
                      /\ Cardinality({j \in Finished : j > i /\ status'[j] = status[j]})
                           >= MaxRetained
    BY DEF OldestLeave
  <2>0. Types
    BY DEF JobsInv
  <2>1. PICK r \in Requests : Register(r)
    <3>1. ASSUME NEW k \in Ids, TaskStep(k) \/ Panic(k) PROVE FALSE
      BY <2>0, <3>1 DEF Types, TaskStep, Spawn, RunEnds, Panic, Record, ReleasePermit,
                        EndOperation
    <3> QED
      BY <3>1 DEF Next
  <2> DEFINE s == [status EXCEPT ![nextId] = "running"]
             F == FinishedIn(s)
  <2>2. s \in [Ids -> Statuses] /\ status' = Pruned(s) /\ nextId \in Ids
    BY <2>0, <2>1 DEF Register, Statuses, Types
  <2>3. /\ F \in SUBSET Ids
        /\ \A j \in Ids : status'[j] = IF j \in F \ Kept(F) THEN "absent" ELSE s[j]
    BY <2>2, PrunedShape
  <2> HIDE DEF F
  <2>4. i \in F \ Kept(F)
    BY <2>0, <2>2, <2>3 DEF Types
  <2>5. nextId \notin F /\ F \subseteq Finished
    BY <2>0, <2>2 DEF F, FinishedIn, Finished, Types
  <2>6. Above(F, i) \cap Kept(F)
          \subseteq {j \in Finished : j > i /\ status'[j] = status[j]}
    BY <2>0, <2>2, <2>3, <2>5 DEF Above, Types
  <2>7. /\ Above(F, i) \cap Kept(F) \in SUBSET Ids
        /\ {j \in Finished : j > i /\ status'[j] = status[j]} \in SUBSET Ids
    BY <2>3 DEF Above, Finished, FinishedIn
  <2>8. Cardinality(Above(F, i) \cap Kept(F)) >= MaxRetained
    BY <2>3, <2>4, KeptAreEnough
  <2> QED
    BY <2>4, <2>5, <2>6, <2>7, <2>8, IdsAreFinite, FS_Subset, LimitsAssumption
<1> QED
  BY <1>1, JobsInvAlways, PTL DEF Spec, OldestGoFirst
=============================================================================
