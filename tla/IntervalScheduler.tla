-------------------------- MODULE IntervalScheduler --------------------------
(***************************************************************************)
(* IntervalScheduler of schedule.py: registered jobs fired by background   *)
(* timer threads that each set up their successor when the job is over.    *)
(*                                                                         *)
(* A chain is a timer and its successors.  Which timer object a chain is   *)
(* at does not matter, so a registration has two counts: its timers that   *)
(* are waiting and its jobs that are running.  Every waiting timer is in   *)
(* the list that stop cancels, since it is put there when it starts, under *)
(* the same lock.  start is not atomic: each registration is scheduled     *)
(* under the lock, and others may take it in between.                      *)
(***************************************************************************)
EXTENDS Naturals, FiniteSets

CONSTANTS
    Controllers,       \* threads that call every, start and stop
    MaxRegistrations,  \* bound: jobs registered
    MaxStarts          \* bound: calls of start

ASSUME ControllersAssumption == IsFiniteSet(Controllers)
ASSUME BoundsAssumption == MaxRegistrations \in Nat /\ MaxStarts \in Nat

VARIABLES
    registered,  \* how many registrations there are: they are 1..registered
    running,     \* _running
    position,    \* per controller: the registration start is at, 0 outside start
    waiting,     \* per registration: timers waiting for their interval
    firing,      \* per registration: jobs running
    starts       \* calls of start so far

vars == <<registered, running, position, waiting, firing, starts>>

Registrations == 1..MaxRegistrations

Init ==
    /\ registered = 0
    /\ running = FALSE
    /\ position = [c \in Controllers |-> 0]
    /\ waiting = [r \in Registrations |-> 0]
    /\ firing = [r \in Registrations |-> 0]
    /\ starts = 0

\* Variant: a timer is set up whether or not the scheduler was stopped.
ScheduleAlways(r) == waiting' = [waiting EXCEPT ![r] = @ + 1]

\* _schedule, under the lock: nothing once the scheduler is stopped.
Schedule(r) == waiting' = IF running THEN [waiting EXCEPT ![r] = @ + 1] ELSE waiting

\* every(seconds, job) with a positive interval; it only adds to the list.
Every(c) ==
    /\ position[c] = 0
    /\ registered < MaxRegistrations
    /\ registered' = registered + 1
    /\ UNCHANGED <<running, position, waiting, firing, starts>>

Start(c) ==
    /\ position[c] = 0
    /\ starts < MaxStarts
    /\ running' = TRUE
    /\ position' = [position EXCEPT ![c] = 1]
    /\ starts' = starts + 1
    /\ UNCHANGED <<registered, waiting, firing>>

\* The loop of start, over the list as it is by then.
StartNext(c) ==
    /\ position[c] \in 1..registered
    /\ Schedule(position[c])
    /\ position' = [position EXCEPT ![c] = @ + 1]
    /\ UNCHANGED <<registered, running, firing, starts>>

StartReturns(c) ==
    /\ position[c] > registered
    /\ position' = [position EXCEPT ![c] = 0]
    /\ UNCHANGED <<registered, running, waiting, firing, starts>>

\* Timers that wait are cancelled; a job that runs is not.
Stop(c) ==
    /\ position[c] = 0
    /\ running' = FALSE
    /\ waiting' = [r \in Registrations |-> 0]
    /\ UNCHANGED <<registered, position, firing, starts>>

\* Variant: the successor is set up when the job begins.
FireAndSchedule(r) ==
    /\ waiting[r] > 0
    /\ firing' = [firing EXCEPT ![r] = @ + 1]
    /\ UNCHANGED <<registered, running, position, waiting, starts>>

\* The interval of a timer is over: its thread runs the job.
Fire(r) ==
    /\ waiting[r] > 0
    /\ waiting' = [waiting EXCEPT ![r] = @ - 1]
    /\ firing' = [firing EXCEPT ![r] = @ + 1]
    /\ UNCHANGED <<registered, running, position, starts>>

\* Variant: a job that raises is not scheduled again.
JobEndsUnlessRaises(r) ==
    /\ firing[r] > 0
    /\ firing' = [firing EXCEPT ![r] = @ - 1]
    /\ Schedule(r) \/ UNCHANGED waiting
    /\ UNCHANGED <<registered, running, position, starts>>

\* The job returned or raised; finally, the registration is scheduled again.
JobEnds(r) ==
    /\ firing[r] > 0
    /\ firing' = [firing EXCEPT ![r] = @ - 1]
    /\ Schedule(r)
    /\ UNCHANGED <<registered, running, position, starts>>

Next ==
    \/ \E c \in Controllers : Every(c) \/ Start(c) \/ StartNext(c) \/ StartReturns(c) \/ Stop(c)
    \/ \E r \in Registrations : Fire(r) \/ JobEnds(r)

Spec == Init /\ [][Next]_vars

----------------------------------------------------------------------------
(* Properties *)

TypeOK ==
    /\ registered \in 0..MaxRegistrations
    /\ running \in BOOLEAN
    /\ position \in [Controllers -> 0..(MaxRegistrations + 1)]
    /\ waiting \in [Registrations -> Nat]
    /\ firing \in [Registrations -> Nat]
    /\ starts \in 0..MaxStarts

Chains(r) == waiting[r] + firing[r]

\* After stop no timer waits, so nothing begins to run: neither a job that
\* was running at that moment nor a start under way sets one up later.
StoppedIsQuiet == ~running => \A r \in Registrations : waiting[r] = 0

\* A registration never has more chains than there were calls of start: in
\* particular a scheduler that was started once never runs a job next to
\* itself, however long the job takes.
ChainsBoundedByStarts == \A r \in Registrations : Chains(r) <= starts
=============================================================================
