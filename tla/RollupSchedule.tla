--------------------------- MODULE RollupSchedule ---------------------------
(***************************************************************************)
(* schedule_rollup of service.py on an IntervalScheduler: each registered  *)
(* job is the rollup of a channel of its own.  A job asks for the period   *)
(* key when it begins and appends to the log of its channel when it ends,  *)
(* some time later, while periods go by, the scheduler is stopped and      *)
(* started, and other chains of the same registration run.                 *)
(*                                                                         *)
(* The scheduler is IntervalScheduler; every step of it is a step of this  *)
(* module that says what its jobs do.  The append is the one step          *)
(* that AuditTrail and DigestService take it for.                          *)
(***************************************************************************)
EXTENDS IntervalScheduler, Sequences

CONSTANTS
    MaxPeriods,  \* bound: the periods that begin
    MaxFailures  \* bound: jobs that raise

ASSUME PeriodsAssumption == MaxPeriods \in Nat \ {0} /\ MaxFailures \in Nat

VARIABLES
    now,       \* what the period key provider returns
    covering,  \* per registration and period: jobs that run for it
    keys,      \* per registration: the periods in its sidecar
    log,       \* per registration: the periods in its log, in order
    failures   \* jobs that raised

jobVars == <<now, covering, keys, log, failures>>
rollupVars == <<vars, jobVars>>

Periods == 1..MaxPeriods

RollupInit ==
    /\ Init
    /\ now = 1
    /\ covering = [r \in Registrations |-> [p \in Periods |-> 0]]
    /\ keys = [r \in Registrations |-> {}]
    /\ log = [r \in Registrations |-> <<>>]
    /\ failures = 0

\* The calls of every, start and stop touch no job.
Control ==
    /\ \E c \in Controllers : Every(c) \/ Start(c) \/ StartNext(c) \/ StartReturns(c) \/ Stop(c)
    /\ UNCHANGED jobVars

\* The job calls period_key_provider before anything else.
JobBegins(r) ==
    /\ Fire(r)
    /\ covering' = [covering EXCEPT ![r][now] = @ + 1]
    /\ UNCHANGED <<now, keys, log, failures>>

\* The job of period p is over, and its chain goes on.
Leave(r, p) ==
    /\ covering[r][p] > 0
    /\ covering' = [covering EXCEPT ![r][p] = @ - 1]
    /\ JobEnds(r)
    /\ UNCHANGED now

\* append: the period is recorded, unless it is there.
Record(r, p) ==
    IF p \in keys[r]
    THEN UNCHANGED <<keys, log>>
    ELSE /\ keys' = [keys EXCEPT ![r] = @ \cup {p}]
         /\ log' = [log EXCEPT ![r] = Append(@, p)]

JobReturns(r, p) ==
    /\ Leave(r, p)
    /\ Record(r, p)
    /\ UNCHANGED failures

\* The fetch, the model or the append raises: the store has nothing of it,
\* the key alone, or the entry as well.
JobRaises(r, p) ==
    /\ failures < MaxFailures
    /\ failures' = failures + 1
    /\ Leave(r, p)
    /\ \/ UNCHANGED <<keys, log>>
       \/ keys' = [keys EXCEPT ![r] = @ \cup {p}] /\ UNCHANGED log
       \/ Record(r, p)

PeriodEnds ==
    /\ now < MaxPeriods
    /\ now' = now + 1
    /\ UNCHANGED <<vars, covering, keys, log, failures>>

RollupNext ==
    \/ Control
    \/ PeriodEnds
    \/ \E r \in Registrations :
           JobBegins(r) \/ \E p \in Periods : JobReturns(r, p) \/ JobRaises(r, p)

RollupSpec == RollupInit /\ [][RollupNext]_rollupVars

\* Every timer and every job is a thread of its own, and a call of start is
\* carried through.  How a job ends is not subject to fairness; that it can
\* raise only so often is.  Nothing makes a period end.
RollupFairness ==
    /\ \A r \in Registrations :
           /\ WF_rollupVars(JobBegins(r))
           /\ \A p \in Periods : WF_rollupVars(JobReturns(r, p) \/ JobRaises(r, p))
    /\ \A c \in Controllers :
           WF_rollupVars((StartNext(c) \/ StartReturns(c)) /\ UNCHANGED jobVars)

FairRollupSpec == RollupSpec /\ RollupFairness

----------------------------------------------------------------------------
(* Properties *)

RollupTypeOK ==
    /\ TypeOK
    /\ now \in Periods
    /\ covering \in [Registrations -> [Periods -> Nat]]
    /\ keys \in [Registrations -> SUBSET Periods]
    /\ log \in [Registrations -> Seq(Periods)]
    /\ failures \in 0..MaxFailures

\* A scheduler that was started once writes the rollups of a channel in the
\* order of their periods, however long a job takes and however many periods
\* pass meanwhile; only a second chain, which a restart can leave behind, may
\* record a period after a later one.
InPeriodOrder ==
    starts <= 1 =>
      \A r \in Registrations : \A i, j \in DOMAIN log[r] : i < j => log[r][i] < log[r][j]

\* As long as the scheduler runs, the job that was scheduled keeps coming
\* back: a period that does not end has its key in the end, even if jobs
\* raised before.
LastingPeriodRolledUp ==
    \A r \in Registrations, p \in Periods :
        [](Chains(r) > 0 /\ [](running /\ now = p) => <>(p \in keys[r]))
=============================================================================
