----------------------- MODULE RollupSchedule_proofs -----------------------
(***************************************************************************)
(* What holds of IntervalScheduler for any number of controllers,          *)
(* registrations and calls of start, and of the rollups that it runs, for  *)
(* any number of channels, periods, restarts and failures.  The first part *)
(* is about the scheduler alone (Spec), the second about the composition   *)
(* (RollupSpec), which implements it.                                      *)
(***************************************************************************)
EXTENDS RollupSchedule, FiniteSetTheorems, SequenceTheorems, TLAPS

-----------------------------------------------------------------------------
(* The scheduler.                                                          *)

\* The calls of start that have not reached registration r yet.
Pending(r) == {c \in Controllers : position[c] \in 1..r}

\* Each call of start has put at most one chain on a registration, and none
\* on those it has still to reach: a chain keeps its length when a timer
\* becomes a job and a job becomes a timer.
ChainsInv == \A r \in Registrations : Chains(r) + Cardinality(Pending(r)) <= starts

\* The inductive invariant.
SchedulerInv == TypeOK /\ StoppedIsQuiet /\ ChainsInv

----------------------------------------------------------------------------
LEMMA PendingFinite ==
    ASSUME NEW r \in Registrations
    PROVE  IsFiniteSet(Pending(r)) /\ Cardinality(Pending(r)) \in Nat
<1>1. Pending(r) \subseteq Controllers
  BY DEF Pending
<1>2. IsFiniteSet(Pending(r))
  BY <1>1, ControllersAssumption, FS_Subset
<1>3. \A S : IsFiniteSet(S) => Cardinality(S) \in Nat
  BY FS_CardinalityType
<1> QED BY <1>2, <1>3

LEMMA InvInit == Init => SchedulerInv
<1> SUFFICES ASSUME Init PROVE SchedulerInv
  OBVIOUS
<1>1. TypeOK
  <2>1. 0 \in 0..MaxRegistrations /\ 0 \in 0..(MaxRegistrations + 1) /\ 0 \in 0..MaxStarts
    BY BoundsAssumption
  <2> QED BY <2>1 DEF Init, TypeOK
<1>2. StoppedIsQuiet
  BY DEF Init, StoppedIsQuiet
<1>3. ASSUME NEW r \in Registrations PROVE Chains(r) + Cardinality(Pending(r)) <= starts
  <2>1. Pending(r) = {}
    BY DEF Init, Pending, Registrations
  <2> QED BY <2>1, FS_EmptySet DEF Init, Chains
<1> QED BY <1>1, <1>2, <1>3 DEF SchedulerInv, ChainsInv

LEMMA TypeStep == TypeOK /\ [Next]_vars => TypeOK'
<1> SUFFICES ASSUME TypeOK, [Next]_vars PROVE TypeOK'
  OBVIOUS
<1> USE BoundsAssumption DEF TypeOK, Schedule, Registrations
<1>1. ASSUME NEW c \in Controllers, Every(c) PROVE TypeOK'
  <2>1. registered' \in 0..MaxRegistrations
    BY <1>1 DEF Every
  <2> QED BY <1>1, <2>1 DEF Every
<1>2. ASSUME NEW c \in Controllers, Start(c) PROVE TypeOK'
  <2>1. starts' \in 0..MaxStarts
    BY <1>2 DEF Start
  <2>2. 1 \in 0..(MaxRegistrations + 1)
    OBVIOUS
  <2>3. position' \in [Controllers -> 0..(MaxRegistrations + 1)]
    BY <1>2, <2>2 DEF Start
  <2> QED BY <1>2, <2>1, <2>3 DEF Start
<1>3. ASSUME NEW c \in Controllers, StartNext(c) PROVE TypeOK'
  <2>1. position[c] + 1 \in 0..(MaxRegistrations + 1)
    BY <1>3 DEF StartNext
  <2>2. waiting' \in [Registrations -> Nat]
    BY <1>3 DEF StartNext
  <2> QED BY <1>3, <2>1, <2>2 DEF StartNext
<1>4. ASSUME NEW c \in Controllers, StartReturns(c) PROVE TypeOK'
  BY <1>4 DEF StartReturns
<1>5. ASSUME NEW c \in Controllers, Stop(c) PROVE TypeOK'
  BY <1>5 DEF Stop
<1>6. ASSUME NEW r \in Registrations, Fire(r) PROVE TypeOK'
  <2>1. waiting' \in [Registrations -> Nat]
    BY <1>6 DEF Fire
  <2>2. firing' \in [Registrations -> Nat]
    BY <1>6 DEF Fire
  <2> QED BY <1>6, <2>1, <2>2 DEF Fire
<1>7. ASSUME NEW r \in Registrations, JobEnds(r) PROVE TypeOK'
  <2>1. waiting' \in [Registrations -> Nat]
    BY <1>7 DEF JobEnds
  <2>2. firing' \in [Registrations -> Nat]
    BY <1>7 DEF JobEnds
  <2> QED BY <1>7, <2>1, <2>2 DEF JobEnds
<1>8. CASE UNCHANGED vars
  BY <1>8 DEF vars
<1> QED BY <1>1, <1>2, <1>3, <1>4, <1>5, <1>6, <1>7, <1>8 DEF Next

\* Timers are set up only while running, and stop takes them all down.
LEMMA QuietStep == TypeOK /\ StoppedIsQuiet /\ [Next]_vars => StoppedIsQuiet'
<1> SUFFICES ASSUME TypeOK, StoppedIsQuiet, [Next]_vars PROVE StoppedIsQuiet'
  OBVIOUS
<1> USE DEF TypeOK, Schedule, StoppedIsQuiet
<1>1. ASSUME NEW c \in Controllers,
             Every(c) \/ Start(c) \/ StartNext(c) \/ StartReturns(c) \/ Stop(c)
      PROVE  StoppedIsQuiet'
  BY <1>1 DEF Every, Start, StartNext, StartReturns, Stop
<1>2. ASSUME NEW r \in Registrations, Fire(r) PROVE StoppedIsQuiet'
  BY <1>2 DEF Fire
<1>3. ASSUME NEW r \in Registrations, JobEnds(r) PROVE StoppedIsQuiet'
  BY <1>3 DEF JobEnds
<1>4. CASE UNCHANGED vars
  BY <1>4 DEF vars
<1> QED BY <1>1, <1>2, <1>3, <1>4 DEF Next

\* A step that adds no chain and puts no call of start before r.
LEMMA NothingAdded ==
    ASSUME TypeOK, TypeOK', ChainsInv, NEW r \in Registrations,
           Chains(r)' <= Chains(r), Pending(r)' \subseteq Pending(r), starts' >= starts
    PROVE  (Chains(r) + Cardinality(Pending(r)) <= starts)'
<1>1. Cardinality(Pending(r)') <= Cardinality(Pending(r))
  BY PendingFinite, FS_Subset
<1>2. Cardinality(Pending(r)') \in Nat /\ Cardinality(Pending(r)) \in Nat
  BY PendingFinite, FS_Subset, FS_CardinalityType
<1>3. /\ waiting[r] \in Nat /\ firing[r] \in Nat /\ starts \in Nat
      /\ waiting'[r] \in Nat /\ firing'[r] \in Nat /\ starts' \in Nat
  BY DEF TypeOK
<1>4. Chains(r) + Cardinality(Pending(r)) <= starts
  BY DEF ChainsInv
<1> QED BY <1>1, <1>2, <1>3, <1>4 DEF Chains

LEMMA ChainsStep == TypeOK /\ TypeOK' /\ ChainsInv /\ [Next]_vars => ChainsInv'
<1> SUFFICES ASSUME TypeOK, TypeOK', ChainsInv, [Next]_vars, NEW r \in Registrations
             PROVE  (Chains(r) + Cardinality(Pending(r)) <= starts)'
  BY DEF ChainsInv
<1>0. /\ waiting[r] \in Nat /\ firing[r] \in Nat /\ starts \in Nat
      /\ waiting'[r] \in Nat /\ firing'[r] \in Nat /\ starts' \in Nat
      /\ r \in 1..MaxRegistrations
  BY DEF TypeOK, Registrations
<1>1. ASSUME NEW c \in Controllers, Every(c)
      PROVE  (Chains(r) + Cardinality(Pending(r)) <= starts)'
  BY <1>0, <1>1, NothingAdded DEF Every, Chains, Pending
<1>2. ASSUME NEW c \in Controllers, Start(c)
      PROVE  (Chains(r) + Cardinality(Pending(r)) <= starts)'
  <2>1. c \notin Pending(r) /\ Pending(r)' = Pending(r) \cup {c}
    BY <1>2, <1>0 DEF Start, Pending, TypeOK
  <2>2. Cardinality(Pending(r)') = Cardinality(Pending(r)) + 1
    BY <2>1, PendingFinite, FS_AddElement
  <2>3. Chains(r)' = Chains(r) /\ starts' = starts + 1
    BY <1>2 DEF Start, Chains
  <2>4. Chains(r) + Cardinality(Pending(r)) <= starts
    BY DEF ChainsInv
  <2> QED BY <2>2, <2>3, <2>4, <1>0, PendingFinite DEF Chains
<1>3. ASSUME NEW c \in Controllers, StartNext(c)
      PROVE  (Chains(r) + Cardinality(Pending(r)) <= starts)'
  <2>1. /\ position[c] \in Nat /\ position[c] >= 1 /\ starts' = starts
        /\ firing' = firing /\ position' = [position EXCEPT ![c] = position[c] + 1]
    BY <1>3 DEF StartNext, TypeOK
  <2>2. CASE position[c] = r
    <3>1. c \in Pending(r) /\ Pending(r)' = Pending(r) \ {c}
      BY <2>1, <2>2, <1>0 DEF Pending, TypeOK
    <3>2. Cardinality(Pending(r)') = Cardinality(Pending(r)) - 1
      BY <3>1, PendingFinite, FS_RemoveElement
    <3>3. Chains(r)' <= Chains(r) + 1
      BY <1>3, <2>1, <2>2, <1>0 DEF StartNext, Schedule, Chains, TypeOK
    <3>4. Chains(r) + Cardinality(Pending(r)) <= starts
      BY DEF ChainsInv
    <3> QED BY <2>1, <3>2, <3>3, <3>4, <1>0, PendingFinite DEF Chains
  <2>3. CASE position[c] # r
    <3>1. Pending(r)' \subseteq Pending(r)
      BY <2>1, <2>3, <1>0 DEF Pending, TypeOK
    <3>2. Chains(r)' <= Chains(r)
      BY <1>3, <2>1, <2>3, <1>0 DEF StartNext, Schedule, Chains, TypeOK
    <3> QED BY <2>1, <3>1, <3>2, <1>0, NothingAdded
  <2> QED BY <2>2, <2>3
<1>4. ASSUME NEW c \in Controllers, StartReturns(c)
      PROVE  (Chains(r) + Cardinality(Pending(r)) <= starts)'
  <2>1. Pending(r)' \subseteq Pending(r)
    BY <1>4, <1>0 DEF StartReturns, Pending, TypeOK
  <2> QED BY <1>0, <1>4, <2>1, NothingAdded DEF StartReturns, Chains
<1>5. ASSUME NEW c \in Controllers, Stop(c)
      PROVE  (Chains(r) + Cardinality(Pending(r)) <= starts)'
  BY <1>0, <1>5, NothingAdded DEF Stop, Chains, Pending
<1>6. ASSUME NEW s \in Registrations, Fire(s)
      PROVE  (Chains(r) + Cardinality(Pending(r)) <= starts)'
  <2>1. Chains(r)' <= Chains(r)
    BY <1>0, <1>6 DEF Fire, Chains, TypeOK
  <2> QED BY <1>0, <1>6, <2>1, NothingAdded DEF Fire, Pending
<1>7. ASSUME NEW s \in Registrations, JobEnds(s)
      PROVE  (Chains(r) + Cardinality(Pending(r)) <= starts)'
  <2>1. Chains(r)' <= Chains(r)
    BY <1>0, <1>7 DEF JobEnds, Schedule, Chains, TypeOK
  <2> QED BY <1>0, <1>7, <2>1, NothingAdded DEF JobEnds, Pending
<1>8. CASE UNCHANGED vars
  BY <1>0, <1>8, NothingAdded DEF vars, Chains, Pending
<1> QED BY <1>1, <1>2, <1>3, <1>4, <1>5, <1>6, <1>7, <1>8 DEF Next

LEMMA InvBoundsChains == SchedulerInv => ChainsBoundedByStarts
<1> SUFFICES ASSUME SchedulerInv, NEW r \in Registrations PROVE Chains(r) <= starts
  BY DEF ChainsBoundedByStarts
<1>1. waiting[r] \in Nat /\ firing[r] \in Nat /\ starts \in Nat
  BY DEF SchedulerInv, TypeOK
<1>2. Chains(r) + Cardinality(Pending(r)) <= starts
  BY DEF SchedulerInv, ChainsInv
<1> QED BY <1>1, <1>2, PendingFinite DEF Chains

LEMMA InvStep == SchedulerInv /\ [Next]_vars => SchedulerInv'
  BY TypeStep, QuietStep, ChainsStep DEF SchedulerInv

----------------------------------------------------------------------------
THEOREM SchedulerInvariant == Spec => []SchedulerInv
  BY InvInit, InvStep, PTL DEF Spec

\* IntervalScheduler never leaves its type.
THEOREM TypeCorrect == Spec => []TypeOK
<1>1. SchedulerInv => TypeOK
  BY DEF SchedulerInv
<1> QED BY <1>1, SchedulerInvariant, PTL

\* No timer waits on a stopped scheduler, whatever jobs and calls of start
\* were under way when it was stopped.
THEOREM StaysQuiet == Spec => []StoppedIsQuiet
<1>1. SchedulerInv => StoppedIsQuiet
  BY DEF SchedulerInv
<1> QED BY <1>1, SchedulerInvariant, PTL

\* A registration has no more chains of timers than start was called: the
\* fan-out of the restart race is bounded by the number of restarts.
THEOREM ChainsBounded == Spec => []ChainsBoundedByStarts
<1> QED BY InvBoundsChains, SchedulerInvariant, PTL

-----------------------------------------------------------------------------
(* The rollups it runs.                                                    *)

\* Nothing runs for a period that has not begun, and nothing is in the log
\* without its key.
PeriodsInv ==
    \A r \in Registrations :
        /\ \A p \in Periods : covering[r][p] > 0 => p <= now
        /\ \A i \in DOMAIN log[r] : log[r][i] <= now /\ log[r][i] \in keys[r]

\* What one chain, which has at most one job running, does to its log: that
\* job is for a period no earlier than those recorded.
ChainInv(r) ==
    /\ \A p \in Periods : covering[r][p] <= firing[r]
    /\ \A p, q \in Periods : covering[r][p] > 0 /\ covering[r][q] > 0 => p = q
    /\ \A p \in Periods : covering[r][p] > 0 => \A i \in DOMAIN log[r] : log[r][i] <= p

Increasing(s) == \A i, j \in DOMAIN s : i < j => s[i] < s[j]

\* The inductive invariant.  A second start may leave a second chain, of
\* which nothing is claimed.
OrderInv ==
    starts <= 1 => \A r \in Registrations : ChainInv(r) /\ Increasing(log[r])

RollupInv == RollupTypeOK /\ SchedulerInv /\ PeriodsInv /\ OrderInv

\* A job that is over leaves the store alone, or has left a key there, or a
\* key and an entry.
Effect(r, p) ==
    \/ UNCHANGED <<keys, log>>
    \/ keys' = [keys EXCEPT ![r] = @ \cup {p}] /\ UNCHANGED log
    \/ /\ p \notin keys[r]
       /\ keys' = [keys EXCEPT ![r] = @ \cup {p}]
       /\ log' = [log EXCEPT ![r] = Append(@, p)]

JobOver(r, p) == Leave(r, p) /\ Effect(r, p) /\ failures' \in 0..MaxFailures

----------------------------------------------------------------------------
LEMMA AppendAt ==
    ASSUME NEW S, NEW s \in Seq(S), NEW e \in S
    PROVE  /\ DOMAIN s = 1..Len(s) /\ Len(s) \in Nat
           /\ DOMAIN Append(s, e) = 1..(Len(s) + 1)
           /\ \A i \in DOMAIN s : s[i] \in S /\ Append(s, e)[i] = s[i]
           /\ Append(s, e)[Len(s) + 1] = e
  BY AppendProperties

LEMMA JobEndsOver ==
    ASSUME RollupTypeOK, NEW r \in Registrations, NEW p \in Periods,
           JobReturns(r, p) \/ JobRaises(r, p)
    PROVE  JobOver(r, p)
<1>1. failures \in 0..MaxFailures /\ MaxFailures \in Nat
  BY PeriodsAssumption DEF RollupTypeOK
<1>2. CASE JobReturns(r, p)
  BY <1>1, <1>2 DEF JobReturns, Record, JobOver, Effect
<1>3. CASE JobRaises(r, p)
  BY <1>1, <1>3 DEF JobRaises, Record, JobOver, Effect
<1> QED BY <1>2, <1>3

\* What the end of a job for period p does to each registration.
LEMMA JobOverEffect ==
    ASSUME RollupTypeOK, NEW r \in Registrations, NEW p \in Periods, JobOver(r, p),
           NEW s \in Registrations
    PROVE  /\ now' = now /\ starts' = starts
           /\ s # r => /\ covering'[s] = covering[s] /\ firing'[s] = firing[s]
                       /\ keys'[s] = keys[s] /\ log'[s] = log[s]
           /\ s = r =>
                /\ covering[s][p] > 0
                /\ \A q \in Periods :
                      covering'[s][q] = IF q = p THEN covering[s][p] - 1 ELSE covering[s][q]
                /\ firing'[s] = firing[s] - 1
                /\ keys'[s] \in {keys[s], keys[s] \cup {p}}
                /\ \/ log'[s] = log[s]
                   \/ /\ p \notin keys[s] /\ keys'[s] = keys[s] \cup {p}
                      /\ log'[s] = Append(log[s], p)
<1> USE DEF RollupTypeOK, TypeOK
<1>1. now' = now /\ starts' = starts
  BY DEF JobOver, Leave, JobEnds
<1>2. firing'[s] = IF s = r THEN firing[s] - 1 ELSE firing[s]
  BY DEF JobOver, Leave, JobEnds
<1>3. covering[r][p] > 0 /\ covering' = [covering EXCEPT ![r][p] = @ - 1]
  BY DEF JobOver, Leave
<1>4. covering[s] \in [Periods -> Nat]
  OBVIOUS
<1>5. covering'[s] = IF s = r THEN [covering[s] EXCEPT ![p] = @ - 1] ELSE covering[s]
  BY <1>3
<1>6. CASE UNCHANGED <<keys, log>>
  BY <1>1, <1>2, <1>3, <1>4, <1>5, <1>6
<1>7. CASE keys' = [keys EXCEPT ![r] = @ \cup {p}] /\ UNCHANGED log
  BY <1>1, <1>2, <1>3, <1>4, <1>5, <1>7
<1>8. CASE /\ p \notin keys[r]
           /\ keys' = [keys EXCEPT ![r] = @ \cup {p}]
           /\ log' = [log EXCEPT ![r] = Append(@, p)]
  BY <1>1, <1>2, <1>3, <1>4, <1>5, <1>8
<1> QED BY <1>6, <1>7, <1>8 DEF JobOver, Effect

\* Every step of the composition is a step of the scheduler, or leaves it.
LEMMA SchedulerStep == [RollupNext]_rollupVars => [Next]_vars
<1> SUFFICES ASSUME [RollupNext]_rollupVars PROVE [Next]_vars
  OBVIOUS
<1>1. CASE Control
  BY <1>1 DEF Control, Next
<1>2. CASE PeriodEnds
  BY <1>2 DEF PeriodEnds
<1>3. ASSUME NEW r \in Registrations, JobBegins(r) PROVE [Next]_vars
  BY <1>3 DEF JobBegins, Next
<1>4. ASSUME NEW r \in Registrations, NEW p \in Periods, JobReturns(r, p) \/ JobRaises(r, p)
      PROVE  [Next]_vars
  BY <1>4 DEF JobReturns, JobRaises, Leave, Next
<1>5. CASE UNCHANGED rollupVars
  BY <1>5 DEF rollupVars
<1> QED BY <1>1, <1>2, <1>3, <1>4, <1>5 DEF RollupNext

LEMMA RollupInvInit == RollupInit => RollupInv
<1> SUFFICES ASSUME RollupInit PROVE RollupInv
  OBVIOUS
<1>1. SchedulerInv
  BY InvInit DEF RollupInit
<1>2. RollupTypeOK
  <2>1. 1 \in Periods /\ 0 \in 0..MaxFailures
    BY PeriodsAssumption DEF Periods
  <2>2. TypeOK
    BY <1>1 DEF SchedulerInv
  <2> QED BY <2>1, <2>2 DEF RollupInit, RollupTypeOK
<1>3. PeriodsInv
  BY DEF RollupInit, PeriodsInv
<1>4. OrderInv
  BY DEF RollupInit, Init, OrderInv, ChainInv, Increasing
<1> QED BY <1>1, <1>2, <1>3, <1>4 DEF RollupInv

LEMMA RollupTypeStep ==
    ASSUME RollupTypeOK, TypeOK', [RollupNext]_rollupVars
    PROVE  RollupTypeOK'
<1> USE DEF RollupTypeOK
<1>1. CASE Control
  BY <1>1 DEF Control, jobVars
<1>2. CASE PeriodEnds
  BY <1>2, PeriodsAssumption DEF PeriodEnds, Periods
<1>3. ASSUME NEW r \in Registrations, JobBegins(r) PROVE RollupTypeOK'
  <2>1. covering' \in [Registrations -> [Periods -> Nat]]
    BY <1>3 DEF JobBegins
  <2> QED BY <1>3, <2>1 DEF JobBegins
<1>4. ASSUME NEW r \in Registrations, NEW p \in Periods, JobOver(r, p) PROVE RollupTypeOK'
  <2>1. covering' \in [Registrations -> [Periods -> Nat]]
    BY <1>4 DEF JobOver, Leave
  <2>2. keys[r] \cup {p} \in SUBSET Periods /\ Append(log[r], p) \in Seq(Periods)
    OBVIOUS
  <2>3. keys' \in [Registrations -> SUBSET Periods] /\ log' \in [Registrations -> Seq(Periods)]
    BY <1>4, <2>2 DEF JobOver, Effect
  <2> QED BY <1>4, <2>1, <2>2, <2>3 DEF JobOver, Leave
<1>5. CASE UNCHANGED rollupVars
  BY <1>5 DEF rollupVars, jobVars
<1> QED BY <1>1, <1>2, <1>3, <1>4, <1>5, JobEndsOver DEF RollupNext

LEMMA PeriodsStep ==
    ASSUME RollupTypeOK, PeriodsInv, [RollupNext]_rollupVars
    PROVE  PeriodsInv'
<1> USE DEF RollupTypeOK, PeriodsInv, Periods
<1>1. CASE Control
  BY <1>1 DEF Control, jobVars
<1>2. CASE PeriodEnds
  BY <1>2 DEF PeriodEnds
<1>3. ASSUME NEW r \in Registrations, JobBegins(r) PROVE PeriodsInv'
  BY <1>3 DEF JobBegins
<1>4. ASSUME NEW r \in Registrations, NEW p \in Periods, JobOver(r, p) PROVE PeriodsInv'
  <2> SUFFICES ASSUME NEW s \in Registrations
               PROVE  /\ \A q \in Periods : covering'[s][q] > 0 => q <= now'
                      /\ \A i \in DOMAIN log'[s] : log'[s][i] <= now' /\ log'[s][i] \in keys'[s]
    OBVIOUS
  <2>1. p \in Nat /\ p <= now /\ now' = now /\ covering[s] \in [Periods -> Nat]
    BY <1>4, JobOverEffect DEF JobOver, Leave
  <2>2. \A q \in Periods : covering'[s][q] > 0 => q <= now'
    BY <1>4, <2>1, JobOverEffect
  <2>3. \A i \in DOMAIN log'[s] : log'[s][i] <= now' /\ log'[s][i] \in keys'[s]
    <3>1. log[s] \in Seq(Periods) /\ p \in Periods
      OBVIOUS
    <3>2. \/ log'[s] = log[s] /\ keys[s] \subseteq keys'[s]
          \/ log'[s] = Append(log[s], p) /\ keys'[s] = keys[s] \cup {p}
      BY <1>4, JobOverEffect
    <3>3. CASE log'[s] = log[s] /\ keys[s] \subseteq keys'[s]
      BY <2>1, <3>3
    <3>4. CASE log'[s] = Append(log[s], p) /\ keys'[s] = keys[s] \cup {p}
      <4> SUFFICES ASSUME NEW i \in 1..(Len(log[s]) + 1)
                   PROVE  log'[s][i] <= now' /\ log'[s][i] \in keys'[s]
        BY <3>1, <3>4, AppendAt
      <4>1. CASE i \in DOMAIN log[s]
        <5>1. log'[s][i] = log[s][i]
          BY <3>1, <3>4, <4>1, AppendAt
        <5> QED BY <2>1, <3>4, <4>1, <5>1
      <4>2. CASE i \notin DOMAIN log[s]
        <5>1. i = Len(log[s]) + 1
          BY <3>1, <4>2, AppendAt
        <5> QED BY <2>1, <3>1, <3>4, <5>1, AppendAt
      <4> QED BY <4>1, <4>2
    <3> QED BY <3>2, <3>3, <3>4
  <2> QED BY <2>2, <2>3
<1>5. CASE UNCHANGED rollupVars
  BY <1>5 DEF rollupVars, jobVars
<1> QED BY <1>1, <1>2, <1>3, <1>4, <1>5, JobEndsOver DEF RollupNext

LEMMA OrderStep ==
    ASSUME RollupInv, TypeOK', [RollupNext]_rollupVars
    PROVE  OrderInv'
<1> SUFFICES ASSUME starts' <= 1, NEW s \in Registrations
             PROVE  ChainInv(s)' /\ Increasing(log'[s])
  BY DEF OrderInv, Increasing
<1>a. RollupTypeOK /\ TypeOK /\ PeriodsInv /\ OrderInv /\ ChainsBoundedByStarts
  BY InvBoundsChains DEF RollupInv, SchedulerInv
<1>b. Periods \subseteq Nat
  BY DEF Periods
<1>c. /\ waiting[s] \in Nat /\ firing[s] \in Nat /\ starts \in Nat /\ starts' \in Nat
      /\ covering[s] \in [Periods -> Nat] /\ log[s] \in Seq(Periods) /\ now \in Periods
  BY <1>a DEF RollupTypeOK, TypeOK
<1>0. /\ RollupTypeOK /\ TypeOK /\ PeriodsInv /\ OrderInv /\ ChainsBoundedByStarts
      /\ waiting[s] \in Nat /\ firing[s] \in Nat /\ starts \in Nat /\ starts' \in Nat
      /\ covering[s] \in [Periods -> Nat] /\ log[s] \in Seq(Periods) /\ now \in Periods
      /\ Periods \subseteq Nat
  BY <1>a, <1>b, <1>c
<1>1. CASE Control
  <2>1. starts <= starts' /\ firing' = firing
    BY <1>0, <1>1 DEF Control, Every, Start, StartNext, StartReturns, Stop
  <2>2. ChainInv(s) /\ Increasing(log[s])
    BY <1>0, <2>1 DEF OrderInv
  <2> QED BY <1>1, <2>1, <2>2 DEF Control, jobVars, ChainInv, Increasing
<1>2. CASE PeriodEnds \/ UNCHANGED rollupVars
  BY <1>0, <1>2 DEF PeriodEnds, rollupVars, jobVars, vars, OrderInv, ChainInv, Increasing
<1>3. ASSUME NEW r \in Registrations, JobBegins(r) PROVE ChainInv(s)' /\ Increasing(log'[s])
  <2>1. starts' = starts /\ log' = log
    BY <1>3 DEF JobBegins, Fire
  <2>2. ChainInv(s) /\ Increasing(log[s])
    BY <1>0, <2>1 DEF OrderInv
  <2>3. CASE r = s
    <3>1. firing[s] = 0 /\ firing'[s] = 1
      BY <1>0, <1>3, <2>1, <2>3 DEF JobBegins, Fire, Chains, ChainsBoundedByStarts, TypeOK
    <3>2. \A p \in Periods : covering[s][p] = 0
      BY <1>0, <2>2, <3>1 DEF ChainInv
    <3>3. \A p \in Periods : covering'[s][p] = IF p = now THEN 1 ELSE 0
      BY <1>0, <1>3, <2>3, <3>2 DEF JobBegins, RollupTypeOK
    <3>4. \A i \in DOMAIN log[s] : log[s][i] <= now
      BY <1>0 DEF PeriodsInv
    <3> QED BY <1>0, <2>1, <2>2, <3>1, <3>3, <3>4 DEF ChainInv
  <2>4. CASE r # s
    <3>1. firing'[s] = firing[s] /\ covering'[s] = covering[s]
      BY <1>0, <1>3, <2>4 DEF JobBegins, Fire, TypeOK, RollupTypeOK
    <3> QED BY <2>1, <2>2, <3>1 DEF ChainInv
  <2> QED BY <2>3, <2>4
<1>4. ASSUME NEW r \in Registrations, NEW p \in Periods, JobOver(r, p)
      PROVE  ChainInv(s)' /\ Increasing(log'[s])
  <2>1. starts' = starts
    BY <1>0, <1>4, JobOverEffect
  <2>2. ChainInv(s) /\ Increasing(log[s])
    BY <1>0, <2>1 DEF OrderInv
  <2>3. CASE r = s
    <3>1. /\ covering[s][p] > 0
          /\ \A q \in Periods : covering'[s][q] = IF q = p THEN covering[s][p] - 1 ELSE covering[s][q]
          /\ firing'[s] = firing[s] - 1
      BY <1>0, <1>4, <2>3, JobOverEffect
    <3>2. /\ \A q \in Periods : q # p => covering[s][q] = 0
          /\ \A i \in DOMAIN log[s] : log[s][i] <= p
      BY <1>0, <2>2, <3>1 DEF ChainInv
    <3>3. \/ log'[s] = log[s]
          \/ log'[s] = Append(log[s], p) /\ p \notin keys[s]
      BY <1>0, <1>4, <2>3, JobOverEffect
    <3>a. p \in Nat /\ \A i \in DOMAIN log[s] : log[s][i] \in Nat
      BY <1>0, AppendAt
    <3>4. (\A i \in DOMAIN log'[s] : log'[s][i] <= p) /\ Increasing(log'[s])
      <4>1. CASE log'[s] = log[s]
        BY <2>2, <3>2, <4>1
      <4>2. CASE log'[s] = Append(log[s], p) /\ p \notin keys[s]
        <5>1. \A i \in DOMAIN log[s] : log[s][i] < p
          <6>1. \A i \in DOMAIN log[s] : log[s][i] # p
            BY <1>0, <4>2 DEF PeriodsInv
          <6> QED BY <3>2, <3>a, <6>1
        <5>2. \A i \in 1..(Len(log[s]) + 1) :
                log'[s][i] = IF i \in DOMAIN log[s] THEN log[s][i] ELSE p
          <6>1. \A i \in 1..(Len(log[s]) + 1) : i \in DOMAIN log[s] \/ i = Len(log[s]) + 1
            BY <1>0, AppendAt
          <6> QED BY <1>0, <4>2, <6>1, AppendAt
        <5>3. /\ DOMAIN log'[s] = 1..(Len(log[s]) + 1)
              /\ DOMAIN log[s] = 1..Len(log[s]) /\ Len(log[s]) \in Nat
          BY <1>0, <4>2, AppendAt
        <5>4. \A i \in DOMAIN log'[s] : log'[s][i] <= p
          BY <3>2, <3>a, <5>2, <5>3
        <5>5. ASSUME NEW i \in DOMAIN log'[s], NEW j \in DOMAIN log'[s], i < j
              PROVE  log'[s][i] < log'[s][j]
          <6>1. i \in DOMAIN log[s] /\ log'[s][i] = log[s][i]
            BY <5>2, <5>3, <5>5
          <6>2. CASE j \in DOMAIN log[s]
            BY <2>2, <5>2, <5>3, <5>5, <6>1, <6>2 DEF Increasing
          <6>3. CASE j \notin DOMAIN log[s]
            BY <5>1, <5>2, <5>3, <6>1, <6>3
          <6> QED BY <6>2, <6>3
        <5> QED BY <5>4, <5>5 DEF Increasing
      <4> QED BY <3>3, <4>1, <4>2
    <3>5. ChainInv(s)'
      <4>1. covering[s][p] \in Nat /\ covering[s][p] <= firing[s]
        BY <1>0, <2>2 DEF ChainInv
      <4>2. \A q \in Periods : covering'[s][q] <= firing'[s]
        BY <1>0, <3>1, <3>2, <4>1
      <4>3. \A q \in Periods : covering'[s][q] > 0 => q = p
        BY <3>1, <3>2
      <4> QED BY <3>4, <4>2, <4>3 DEF ChainInv
    <3> QED BY <3>4, <3>5
  <2>4. CASE r # s
    <3>1. firing'[s] = firing[s] /\ covering'[s] = covering[s] /\ log'[s] = log[s]
      BY <1>0, <1>4, <2>4, JobOverEffect
    <3> QED BY <2>2, <3>1 DEF ChainInv, Increasing
  <2> QED BY <2>3, <2>4
<1> QED BY <1>0, <1>1, <1>2, <1>3, <1>4, JobEndsOver DEF RollupNext

----------------------------------------------------------------------------
\* The scheduler does the same whatever its jobs do: the composition
\* implements IntervalScheduler, so that what is proved of it holds here.
THEOREM ComposesScheduler == RollupSpec => Spec
<1>1. RollupInit => Init
  BY DEF RollupInit
<1> QED BY <1>1, SchedulerStep, PTL DEF RollupSpec, Spec

THEOREM RollupInvariant == RollupSpec => []RollupInv
<1>1. RollupInv /\ [RollupNext]_rollupVars => RollupInv'
  <2> SUFFICES ASSUME RollupInv, [RollupNext]_rollupVars PROVE RollupInv'
    OBVIOUS
  <2>1. SchedulerInv'
    BY SchedulerStep, InvStep DEF RollupInv
  <2>2. TypeOK'
    BY <2>1 DEF SchedulerInv
  <2>3. RollupTypeOK' /\ PeriodsInv'
    BY <2>2, RollupTypeStep, PeriodsStep DEF RollupInv
  <2>4. OrderInv'
    BY <2>2, OrderStep
  <2> QED BY <2>1, <2>3, <2>4 DEF RollupInv
<1> QED BY RollupInvInit, <1>1, PTL DEF RollupSpec

\* The composition never leaves its type.
THEOREM RollupTypeCorrect == RollupSpec => []RollupTypeOK
<1>1. RollupInv => RollupTypeOK
  BY DEF RollupInv
<1> QED BY <1>1, RollupInvariant, PTL

\* A scheduler that was started once writes the rollups of every channel in
\* the order of their periods, for any number of channels and periods.
THEOREM WrittenInOrder == RollupSpec => []InPeriodOrder
<1>1. RollupInv => InPeriodOrder
  BY DEF RollupInv, OrderInv, Increasing, InPeriodOrder
<1> QED BY <1>1, RollupInvariant, PTL
=============================================================================
