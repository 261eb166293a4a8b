------------------------------ MODULE BuildQueue ------------------------------
(***************************************************************************)
(* The build queue of ci-controller: which builds run when many arrive, a  *)
(* newer push replacing the older build of its branch, and the queue made  *)
(* again from the Jobs in the cluster after a restart.                     *)
(*                                                                         *)
(* Every method of Queue holds its mutex, so one call is one action.  The  *)
(* controller, which carries out a Decision one Job at a time and may stop *)
(* between two of them, and the Jobs are modelled from the package comment *)
(* and from what Restore and RunningBuilds expect.                         *)
(***************************************************************************)
EXTENDS Naturals, FiniteSets, Sequences, SequencesExt

CONSTANTS
    Repos, Refs, Shas,
    DefaultRef,             \* the default branch of every repository
    Ids,                    \* build ids; one is used again when its build is over
    MaxRunning, MaxPerRepo, MaxWaiting, KeepRunning, CancelDefaultBranch,
    Crashes,                \* whether the controller may stop
    None

ASSUME SettingsAssumption ==
    /\ MaxRunning \in Nat \ {0} /\ MaxPerRepo \in Nat \ {0} /\ MaxWaiting \in Nat \ {0}
    /\ MaxPerRepo <= MaxRunning
    /\ KeepRunning \in BOOLEAN /\ CancelDefaultBranch \in BOOLEAN /\ Crashes \in BOOLEAN

ASSUME NoneAssumption == None \notin Ids

Branches == Repos \X Refs
Build    == [id : Ids, branch : Branches, sha : Shas]

VARIABLES
    q,          \* the Queue
    up,         \* the controller runs and has restored the queue
    jobs,       \* the unfinished Jobs in the cluster, oldest first
    toStart,    \* builds whose Jobs the controller still has to create
    toCancel,   \* builds whose Jobs it still has to delete
    ended       \* builds whose Jobs have ended, Finish not called yet

vars == <<q, up, jobs, toStart, toCancel, ended>>

Queue == [running : SUBSET Build, runningGroup : [Branches -> Ids \cup {None}],
          perRepo : [Repos -> Nat],
          waiting : Seq(Build), waitingGroup : [Branches -> Ids \cup {None}]]

TypeOK ==
    /\ q \in Queue
    /\ up \in BOOLEAN
    /\ jobs \in Seq(Build)
    /\ toStart \subseteq Build /\ toCancel \subseteq Build /\ ended \subseteq Build

New == [running |-> {}, runningGroup |-> [g \in Branches |-> None],
        perRepo |-> [r \in Repos |-> 0],
        waiting |-> <<>>, waitingGroup |-> [g \in Branches |-> None]]

-----------------------------------------------------------------------------
(* The methods, as functions of the queue.                                 *)

Repo(b) == b.branch[1]

\* Mutant of Release: the branch stays taken.
ReleaseKeepingBranch(s, b) ==
    [s EXCEPT !.running = @ \ {b}, !.perRepo[Repo(b)] = IF @ = 0 THEN 0 ELSE @ - 1]

Release(s, b) ==
    [s EXCEPT !.running = @ \ {b},
              !.runningGroup[b.branch] = None,
              !.perRepo[Repo(b)] = IF @ = 0 THEN 0 ELSE @ - 1]

\* Mutant of Place: the index gets the commit instead of the id.
PlaceBySha(s, b) ==
    [s EXCEPT !.running = @ \cup {b},
              !.runningGroup[b.branch] = b.sha,
              !.perRepo[Repo(b)] = @ + 1]

Place(s, b) ==
    [s EXCEPT !.running = @ \cup {b},
              !.runningGroup[b.branch] = b.id,
              !.perRepo[Repo(b)] = @ + 1]

\* Mutant of CanStart: one build too many of a repository.
CanStartOneMore(s, b) ==
    /\ Cardinality(s.running) < MaxRunning
    /\ s.perRepo[Repo(b)] <= MaxPerRepo
    /\ s.runningGroup[b.branch] = None

CanStart(s, b) ==
    /\ Cardinality(s.running) < MaxRunning
    /\ s.perRepo[Repo(b)] < MaxPerRepo
    /\ s.runningGroup[b.branch] = None

\* One round of fill's loop: w starts or is kept.
FillStep(s, w) ==
    IF CanStart(s, w) THEN [Place(s, w) EXCEPT !.waitingGroup[w.branch] = None]
    ELSE [s EXCEPT !.waiting = Append(@, w)]

\* With no free place the list is not walked.
Fill(s) ==
    IF Cardinality(s.running) >= MaxRunning THEN s
    ELSE LET walk[k \in 0..Len(s.waiting)] ==
               IF k = 0 THEN [s EXCEPT !.waiting = <<>>] ELSE FillStep(walk[k - 1], s.waiting[k])
         IN walk[Len(s.waiting)]

\* indexOf and removeAt.
RemoveWaiting(s, b) ==
    [s EXCEPT !.waiting = RemoveFirst(@, b), !.waitingGroup[b.branch] = None]

IsDuplicate(s, b) ==
    \/ \E r \in s.running : r.id = s.runningGroup[b.branch] /\ r.sha = b.sha
    \/ \E w \in Range(s.waiting) : w.id = s.waitingGroup[b.branch] /\ w.sha = b.sha

\* The running build that a newer push of the branch cancels.
Cancelled(s, b) ==
    {r \in s.running : /\ r.id = s.runningGroup[b.branch]
                       /\ ~KeepRunning
                       /\ b.branch[2] # DefaultRef \/ CancelDefaultBranch}

\* The replaced build leaves the line and the new one joins its end.
Enqueue(s, b) ==
    LET old == {w \in Range(s.waiting) : w.id = s.waitingGroup[b.branch]}
        t == IF old = {} THEN s ELSE RemoveWaiting(s, CHOOSE w \in old : TRUE)
    IN [t EXCEPT !.waiting = Append(@, b), !.waitingGroup[b.branch] = b.id]

SubmitTo(s, b) ==
    LET t == Enqueue(s, b)
        c == Cancelled(s, b)
    IN Fill(IF c = {} THEN t ELSE Release(t, CHOOSE r \in c : TRUE))

\* Restore's loop: a later Job of the same branch takes the earlier one's place.
RestoreStep(s, b) ==
    LET old == {r \in s.running : r.id = s.runningGroup[b.branch]}
    IN Place(IF old = {} THEN s ELSE Release(s, CHOOSE r \in old : TRUE), b)

RestoreOf(builds) ==
    LET walk[k \in 0..Len(builds)] == IF k = 0 THEN New ELSE RestoreStep(walk[k - 1], builds[k])
    IN walk[Len(builds)]

-----------------------------------------------------------------------------
Init ==
    /\ q = New
    /\ up = TRUE
    /\ jobs = <<>>
    /\ toStart = {} /\ toCancel = {} /\ ended = {}

Known == q.running \cup Range(q.waiting) \cup Range(jobs) \cup toStart \cup toCancel \cup ended

\* ErrDuplicate and ErrFull leave the queue as it is.
Submit(b) ==
    /\ up
    /\ \A k \in Known : k.id # b.id
    /\ ~IsDuplicate(q, b)
    /\ q.waitingGroup[b.branch] = None => Len(q.waiting) < MaxWaiting
    /\ q' = SubmitTo(q, b)
    /\ toStart' = toStart \cup (q'.running \ q.running)
    /\ toCancel' = toCancel \cup Cancelled(q, b)
    /\ UNCHANGED <<up, jobs, ended>>

\* Mutants of Finish: a build that no longer runs is released again, and the
\* free place is not filled.
FinishAnyBuild(b) ==
    /\ up
    /\ b \in ended
    /\ q' = Fill(Release(q, b))
    /\ toStart' = toStart \cup (q'.running \ q.running)
    /\ ended' = ended \ {b}
    /\ UNCHANGED <<up, jobs, toCancel>>

FinishWithoutFill(b) ==
    /\ up
    /\ b \in ended
    /\ q' = IF b \in q.running THEN Release(q, b) ELSE q
    /\ ended' = ended \ {b}
    /\ UNCHANGED <<up, jobs, toStart, toCancel>>

\* Called for every Job that ended, also of a build that no longer runs.
Finish(b) ==
    /\ up
    /\ b \in ended
    /\ q' = Fill(IF b \in q.running THEN Release(q, b) ELSE q)
    /\ toStart' = toStart \cup (q'.running \ q.running)
    /\ ended' = ended \ {b}
    /\ UNCHANGED <<up, jobs, toCancel>>

\* A person cancels a waiting build.
RemoveBuild(b) ==
    /\ up
    /\ b \in Range(q.waiting)
    /\ q' = RemoveWaiting(q, b)
    /\ UNCHANGED <<up, jobs, toStart, toCancel, ended>>

-----------------------------------------------------------------------------
(* The controller and the cluster.                                         *)

CreateJob(b) ==
    /\ b \in toStart
    /\ jobs' = Append(jobs, b)
    /\ toStart' = toStart \ {b}
    /\ UNCHANGED <<q, up, toCancel, ended>>

\* Created first, if the same controller was still to create it.
DeleteJob(b) ==
    /\ b \in toCancel \ toStart
    /\ jobs' = RemoveFirst(jobs, b)
    /\ toCancel' = toCancel \ {b}
    /\ UNCHANGED <<q, up, toStart, ended>>

JobEnds(b) ==
    /\ b \in Range(jobs)
    /\ jobs' = RemoveFirst(jobs, b)
    /\ ended' = IF up THEN ended \cup {b} ELSE ended
    /\ UNCHANGED <<q, up, toStart, toCancel>>

\* The controller stops: the queue and what was left of its decisions go.
Crash ==
    /\ Crashes
    /\ up
    /\ up' = FALSE
    /\ q' = New
    /\ toStart' = {} /\ toCancel' = {} /\ ended' = {}
    /\ UNCHANGED jobs

\* Mutant of Restore: its Decision is dropped.
RestoreWithoutCancel ==
    /\ ~up
    /\ up' = TRUE
    /\ q' = RestoreOf(jobs)
    /\ UNCHANGED <<jobs, toStart, toCancel, ended>>

\* Restore with RunningBuilds: the unfinished Jobs by age.
Restore ==
    /\ ~up
    /\ up' = TRUE
    /\ q' = RestoreOf(jobs)
    /\ toCancel' = Range(jobs) \ q'.running
    /\ UNCHANGED <<jobs, toStart, ended>>

Next ==
    \/ \E b \in Build : Submit(b)
    \/ \E b \in ended : Finish(b)
    \/ \E b \in Range(q.waiting) : RemoveBuild(b)
    \/ \E b \in toStart : CreateJob(b)
    \/ \E b \in toCancel : DeleteJob(b)
    \/ \E b \in Range(jobs) : JobEnds(b)
    \/ Crash
    \/ Restore

Spec == Init /\ [][Next]_vars

-----------------------------------------------------------------------------
(* Properties.                                                             *)

\* The three indexes say what the lists say: one running and one waiting build
\* per branch, and as many as perRepo counts per repository.  Submit removes
\* from the waiting list at the index it looked up (removeAt), a stale entry
\* would make it panic or leave a branch locked for ever.
IndexesAgree ==
    /\ \A g \in Branches :
         /\ {b \in q.running : b.branch = g} = {b \in q.running : b.id = q.runningGroup[g]}
         /\ (q.runningGroup[g] # None) = (\E b \in q.running : b.branch = g)
         /\ (q.waitingGroup[g] # None) = (\E b \in Range(q.waiting) : b.branch = g)
         /\ \A k \in 1..Len(q.waiting) : q.waiting[k].branch = g =>
              /\ q.waiting[k].id = q.waitingGroup[g]
              /\ \A m \in 1..Len(q.waiting) : q.waiting[m].branch = g => m = k
    /\ \A r \in Repos : q.perRepo[r] = Cardinality({b \in q.running : Repo(b) = r})

\* No build waits for a place that is free: after every call, what is left
\* waiting is held back by the cap, by its repository's share or by the
\* running build of its branch.
NoIdlePlace ==
    \A w \in Range(q.waiting) : ~CanStart(q, w)

\* Every Job belongs to a running build or is about to be deleted, and every
\* running build has a Job, is about to get one or has just ended; across
\* crashes in the middle of a decision too.
JobsAccountedFor ==
    up =>
    /\ Range(jobs) \subseteq q.running \cup toCancel
    /\ q.running \subseteq Range(jobs) \cup toStart \cup ended

\* A build is only started within the caps, which a restart may have left
\* exceeded: then nothing starts until enough has ended.
StartsWithinCaps ==
    [][up => \A b \in q'.running \ q.running :
         /\ Cardinality(q'.running) <= MaxRunning
         /\ Cardinality({r \in q'.running : Repo(r) = Repo(b)}) <= MaxPerRepo]_vars

-----------------------------------------------------------------------------
\* The controller gets round to every Job it has to create or delete and to
\* every Job that ended, and builds end (a Job has a deadline).
Fairness ==
    \A i \in Ids :
        /\ WF_vars(\E b \in toStart : b.id = i /\ CreateJob(b))
        /\ WF_vars(\E b \in toCancel : b.id = i /\ DeleteJob(b))
        /\ WF_vars(\E b \in Range(jobs) : b.id = i /\ JobEnds(b))
        /\ WF_vars(\E b \in ended : b.id = i /\ Finish(b))

FairSpec == Spec /\ Fairness

Waits(i) == \E b \in Range(q.waiting) : b.id = i

\* No build waits for ever, however many builds of other branches keep coming:
\* it starts, a newer push replaces it, somebody removes it, or the controller
\* stops and the line is gone with it.
WaitingEnds == \A i \in Ids : Waits(i) ~> ~Waits(i)
===============================================================================
