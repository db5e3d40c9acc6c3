----------------------------- MODULE JobHistory -----------------------------
(***************************************************************************)
(* The job history of pv.db (crates/state/src/database.rs): rows, their    *)
(* diagnostic outcomes, pruning, and the unresolved failures that status,  *)
(* doctor and the background error recorder derive from them.              *)
(*                                                                         *)
(* Timestamps have a granularity of one second: many steps share one.      *)
(***************************************************************************)
EXTENDS Naturals, Sequences, FiniteSets

CONSTANTS Scopes,   \* scopes in use, a subset of AllScopes
          Observed, \* subjects observed, a subset of Observable
          Errors,   \* error messages
          Limit,    \* RECENT_JOB_LIMIT, 100 in the code
          MaxJobs,  \* bound: rows ever inserted
          MaxTime   \* bound: seconds

AllScopes == {"update", "system", "project", "php", "mysql"}

\* Subjects that a runtime or env observation can verify.
Observable == {"gateway", "project", "resource"}

ASSUME HistoryAssumption ==
    /\ Scopes \subseteq AllScopes /\ Observed \subseteq Observable
    /\ {Limit, MaxJobs, MaxTime} \subseteq Nat \ {0}

Ids == 1..MaxJobs
Subjects == {"assessment", "system", "gateway", "project", "resource"}

\* JobDiagnosticSubject::from_job_identity
SubjectOf(scope) ==
    [update |-> "assessment", system |-> "system", project |-> "project",
     php |-> "gateway", mysql |-> "resource"][scope]

\* The subjects a job that succeeds covers, in the code's lists: ok holds
\* "project" if the project's own work succeeded, demanded says that the
\* project uses the resource.
SystemCoverage(ok, demanded) ==
    {"system", "gateway"} \cup ok \cup (IF demanded /\ ok # {} THEN {"resource"} ELSE {})
Coverage(scope, ok, demanded) ==
    CASE scope = "update" -> {"assessment"} \cup SystemCoverage(ok, demanded)
      [] scope = "system" -> SystemCoverage(ok, demanded)
      [] scope = "project" -> {"project", "gateway"}
      [] scope = "php" -> {"gateway"}
      [] scope = "mysql" -> {"resource"} \cup ok

VARIABLES
    rows,      \* the jobs table: ids in it
    job,       \* the columns of a row: scope, status, started, finished, error
    outcomes,  \* job_diagnostic_outcomes in the order of its sequence
    observed,  \* time of a subject's healthy observation, 0 if not healthy
    now,       \* the clock
    used,      \* ids that were ever given out
    ending     \* the job whose success is recorded but not yet reported, or 0

vars == <<rows, job, outcomes, observed, now, used, ending>>

NoJob == [scope |-> "none", status |-> "none", started |-> 0, finished |-> 0,
          error |-> "none"]

HistoryTypeOK ==
    /\ rows \subseteq Ids /\ used \subseteq Ids
    /\ job \in [Ids -> [scope : Scopes \cup {"none"},
                        status : {"none", "running", "succeeded", "failed"},
                        started : 0..MaxTime, finished : 0..MaxTime,
                        error : Errors \cup {"none"}]]
    /\ \A i \in rows : job[i].status # "none"
    /\ outcomes \in Seq([job : rows, subject : Subjects, ok : BOOLEAN])
    /\ observed \in [Subjects -> 0..MaxTime]
    /\ now \in 1..MaxTime /\ ending \in 0..MaxJobs

\* A database that was upgraded may hold a failed job without outcomes.
Init ==
    /\ \/ rows = {} /\ job = [i \in Ids |-> NoJob]
       \/ /\ rows = {1}
          /\ \E s \in Scopes, e \in Errors :
               job = [i \in Ids |->
                        IF i = 1 THEN [scope |-> s, status |-> "failed", started |-> 1,
                                       finished |-> 1, error |-> e]
                                 ELSE NoJob]
    /\ outcomes = <<>>
    /\ observed = [s \in Subjects |-> 0]
    /\ now = 1 /\ used = rows /\ ending = 0

-----------------------------------------------------------------------------
\* ORDER BY started_at DESC, id DESC
Newer(j, i, i1) ==
    \/ j[i].started > j[i1].started
    \/ j[i].started = j[i1].started /\ i > i1

\* The first Limit rows of a set in that order.
Newest(j, set) == {i \in set : Cardinality({i1 \in set : Newer(j, i1, i)}) < Limit}

\* Mutant: pruning looks at every row.
KeepNewestRows(j, set) == Newest(j, set)

\* prune_old_jobs
PruneOldJobs(j, set) ==
    LET finished == {i \in set : j[i].status # "running"} IN
    {i \in set : j[i].status = "running"} \cup Newest(j, finished)

\* next_job_id
NextJobId == CHOOSE i \in Ids : (\A i1 \in rows : i1 < i)
                                /\ (i = 1 \/ (i - 1) \in rows)

\* The elements of s at some of its places, in their order (SelectSeq by places,
\* which the proofs can reason about).
Subsequence(s, places) ==
    [k \in 1..Cardinality(places) |->
       s[CHOOSE n \in places : Cardinality({m \in places : m <= n}) = k]]

\* insert_job_diagnostic_outcome: INSERT OR IGNORE, for every subject of set,
\* in the order of the coverage list.
InsertOutcomes(os, i, set, ok) ==
    LET recorded == {os[n].subject : n \in {n \in 1..Len(os) : os[n].job = i /\ os[n].ok = ok}}
        order == <<"assessment", "system", "gateway", "project", "resource">>
        new == Subsequence(order, {n \in DOMAIN order : order[n] \in set \ recorded})
    IN  os \o [n \in 1..Len(new) |->
                 [job |-> i, subject |-> new[n], ok |-> ok]]

\* REFERENCES jobs(id) ON DELETE CASCADE
DeleteCascade(os, set) == Subsequence(os, {n \in DOMAIN os : os[n].job \in set})

PruneTo(j, set, os) ==
    /\ rows' = PruneOldJobs(j, set)
    /\ job' = [i \in Ids |-> IF i \in rows' THEN j[i] ELSE NoJob]
    /\ outcomes' = DeleteCascade(os, rows')

-----------------------------------------------------------------------------
\* recent_jobs: running rows count against the limit.
RecentJobs == Newest(job, rows)

\* Mutant: an observation of the same second counts.
HealthyObservationOfThatSecond(i, s) == s \in Observable /\ observed[s] >= job[i].finished

\* has_newer_healthy_observation
NewerHealthyObservation(i, s) == s \in Observable /\ observed[s] > job[i].finished

\* job_diagnostic_outcomes: ORDER BY sequence DESC.
NthOutcome(n) == outcomes[Len(outcomes) - n + 1]

\* unresolved_job_failures, first pass: what the loop does with an outcome.
Visit(acc, o) ==
    LET resolved == \/ o.subject \in acc.visited \cup acc.successes
                    \/ NewerHealthyObservation(o.job, o.subject)
    IN  IF o.ok THEN [acc EXCEPT !.successes = @ \cup {o.subject}]
        ELSE IF o.job \notin RecentJobs
          THEN [acc EXCEPT !.recorded = @ \cup {o.job}]
        ELSE [acc EXCEPT !.recorded = @ \cup {o.job},
                         !.visited = @ \cup {o.subject},
                         !.unresolved = IF resolved THEN @
                                        ELSE @ \cup {<<o.job, o.subject>>}]

\* Its accumulators after n outcomes.
Scan[n \in 0..Len(outcomes)] ==
    IF n = 0
      THEN [successes |-> {}, visited |-> {}, recorded |-> {}, unresolved |-> {}]
      ELSE Visit(Scan[n - 1], NthOutcome(n))

\* Second pass: failed rows without an outcome, newest first.
LegacyFailures ==
    LET acc == Scan[Len(outcomes)]
        legacy == {i \in RecentJobs : job[i].status = "failed" /\ i \notin acc.recorded}
        subject == [i \in legacy |-> SubjectOf(job[i].scope)]
    IN  {<<i, subject[i]>> : i \in
           {i \in legacy : /\ subject[i] \notin acc.visited \cup acc.successes
                           /\ ~NewerHealthyObservation(i, subject[i])
                           /\ \A i1 \in legacy : Newer(job, i1, i) => subject[i1] # subject[i]}}

UnresolvedJobFailures == Scan[Len(outcomes)].unresolved \cup LegacyFailures

-----------------------------------------------------------------------------
StartJob(scope) ==
    /\ Cardinality(used) < MaxJobs
    /\ LET i == NextJobId IN
         /\ rows' = rows \cup {i} /\ used' = used \cup {i}
         /\ job' = [job EXCEPT ![i] = [scope |-> scope, status |-> "running",
                                       started |-> now, finished |-> 0, error |-> "none"]]
    /\ UNCHANGED <<outcomes, observed, now, ending>>

\* complete_job_with_coverage, and then the terminal event, until which the
\* queue may still abandon the job.  A succeeding project job covers a project
\* that did succeed; the other jobs go on when a project fails.
CompleteJob(i) ==
    /\ job[i].status = "running" /\ ending = 0
    /\ \E ok \in SUBSET {"project"}, demanded \in BOOLEAN :
         /\ job[i].scope = "project" => ok # {}
         /\ PruneTo([job EXCEPT ![i].status = "succeeded", ![i].finished = now],
                    rows,
                    InsertOutcomes(outcomes, i, Coverage(job[i].scope, ok, demanded), TRUE))
    /\ ending' = i
    /\ UNCHANGED <<observed, now, used>>

\* An update that changes nothing covers the assessment only.
CompleteUnchangedUpdate(i) ==
    /\ job[i].status = "running" /\ job[i].scope = "update" /\ ending = 0
    /\ PruneTo([job EXCEPT ![i].status = "succeeded", ![i].finished = now],
               rows, InsertOutcomes(outcomes, i, {"assessment"}, TRUE))
    /\ ending' = i
    /\ UNCHANGED <<observed, now, used>>

ReportTerminal == ending # 0 /\ ending' = 0 /\ UNCHANGED <<rows, job, outcomes, observed, now, used>>

\* fail_job_with_optional_subject
FailJob(i, s, e) ==
    PruneTo([job EXCEPT ![i].status = "failed", ![i].finished = now, ![i].error = e],
            rows, InsertOutcomes(outcomes, i, {s}, FALSE))

\* A running job fails, or the queue abandons it; also one whose success is
\* recorded but not reported.  An update job names the subject that failed.
JobFails(i, e) ==
    /\ job[i].status = "running" \/ i = ending
    /\ \E s \in IF job[i].scope = "update" THEN {"assessment", "system", "gateway"}
                ELSE {SubjectOf(job[i].scope)} : FailJob(i, s, e)
    /\ ending' = IF i = ending THEN 0 ELSE ending
    /\ UNCHANGED <<observed, now, used>>

\* The outcomes fail_running_jobs inserts, ORDER BY id.
FailInterrupted(os, i) ==
    IF i \in rows /\ job[i].status = "running"
      THEN InsertOutcomes(os, i, {SubjectOf(job[i].scope)}, FALSE) ELSE os
Interrupted[n \in 0..MaxJobs] ==
    IF n = 0 THEN outcomes ELSE FailInterrupted(Interrupted[n - 1], n)

\* fail_running_jobs at the next start of the daemon.
FailRunningJobs(e) ==
    /\ \E i \in rows : job[i].status = "running"
    /\ PruneTo([i \in Ids |-> IF i \in rows /\ job[i].status = "running"
                                THEN [job[i] EXCEPT !.status = "failed", !.finished = now,
                                                    !.error = e]
                                ELSE job[i]],
               rows, Interrupted[MaxJobs])
    /\ ending' = 0
    /\ UNCHANGED <<observed, now, used>>

\* Mutant: any retained failure with that error is enough.
AlreadyInHistory(scope, e) ==
    \E i \in rows : job[i].scope = scope /\ job[i].status = "failed" /\ job[i].error = e

\* record_background_reconciliation_error: start_job and fail_job, unless an
\* unresolved failure says the same.
AlreadyRecorded(scope, e) ==
    \E f \in UnresolvedJobFailures :
      job[f[1]].scope = scope /\ job[f[1]].error = e

RecordBackgroundError(scope, e) ==
    /\ scope # "update" /\ Cardinality(used) < MaxJobs
    /\ LET i == NextJobId
           new == [scope |-> scope, status |-> "failed", started |-> now,
                   finished |-> now, error |-> e]
       IN  /\ used' = used \cup {i}
           /\ ~AlreadyRecorded(scope, e)
           /\ PruneTo([job EXCEPT ![i] = new], rows \cup {i},
                      InsertOutcomes(outcomes, i, {SubjectOf(scope)}, FALSE))
    /\ UNCHANGED <<observed, now, ending>>

\* A runtime or an env is observed, healthy or not.
Observe(s) ==
    /\ \E t \in {0, now} : observed' = [observed EXCEPT ![s] = t]
    /\ UNCHANGED <<rows, job, outcomes, now, used, ending>>

Tick ==
    /\ now < MaxTime /\ now' = now + 1
    /\ UNCHANGED <<rows, job, outcomes, observed, used, ending>>

Next ==
    \/ \E s \in Scopes : StartJob(s)
    \/ \E i \in rows : CompleteJob(i) \/ CompleteUnchangedUpdate(i)
    \/ \E i \in rows, e \in Errors : JobFails(i, e)
    \/ ReportTerminal
    \/ \E e \in Errors : FailRunningJobs(e)
    \/ \E s \in Scopes, e \in Errors : RecordBackgroundError(s, e)
    \/ \E s \in Observed : Observe(s)
    \/ Tick

Spec == Init /\ [][Next]_vars

-----------------------------------------------------------------------------
(* The failures that are current, as a definition: the newest failure outcome
   of its subject among the recent jobs, with no success of that subject after
   it and no strictly later healthy observation. *)
FailureAt(n) == ~outcomes[n].ok /\ outcomes[n].job \in RecentJobs
CurrentFailures ==
    {<<outcomes[n].job, outcomes[n].subject>> : n \in
       {n \in 1..Len(outcomes) :
          /\ FailureAt(n)
          /\ \A m \in (n + 1)..Len(outcomes) :
               outcomes[m].subject = outcomes[n].subject
                 => ~outcomes[m].ok /\ ~FailureAt(m)
          /\ ~(outcomes[n].subject \in Observable
               /\ observed[outcomes[n].subject] > job[outcomes[n].job].finished)}}

(* The same error after a resolved episode is reported again: an error that is
   not to be recorded again is unresolved, and then its subject has neither a
   later success nor a later healthy observation. *)
DedupOnlyWithinEpisode ==
    \A s \in Scopes, e \in Errors :
      AlreadyRecorded(s, e) =>
        \E f \in UnresolvedJobFailures :
          /\ job[f[1]].scope = s /\ job[f[1]].error = e
          /\ ~NewerHealthyObservation(f[1], f[2])
          /\ \A n \in 1..Len(outcomes) :
               outcomes[n].ok /\ outcomes[n].subject = f[2]
                 => \E m \in (n + 1)..Len(outcomes) : outcomes[m].job = f[1] /\ ~outcomes[m].ok

(* Of the retained history, unresolved_job_failures reports exactly the current
   failures, plus the failed rows of an upgraded database, never two for a
   subject, and what is deduplicated is among them.  What the history loses is
   the matter of FailureStaysReported and of the two properties after it. *)
UnresolvedIsCurrent ==
    /\ HistoryTypeOK /\ DedupOnlyWithinEpisode
    /\ Scan[Len(outcomes)].unresolved = CurrentFailures
    /\ \A f, g \in UnresolvedJobFailures : f[2] = g[2] => f = g

(* Pruning takes nothing that is still needed: not the row with the largest id,
   from which next_job_id counts, so no id is given out twice; not the row of a
   running job, however many background errors come; and a background error is
   visible right after it is reported, recorded now or before. *)
PruningTakesNothingNeeded ==
    [][/\ \A i \in used : i \in rows' => i \in rows
       /\ \A s \in Scopes, e \in Errors : RecordBackgroundError(s, e) =>
            /\ AlreadyRecorded(s, e)'
            /\ \A i \in rows : job[i].status = "running" => i \in rows']_vars

\* What ends a failure's episode in a step: a success of its subject after the
\* failure, or a healthy observation strictly after it.
Verified(f) ==
    \/ \E n \in DOMAIN outcomes' :
         /\ outcomes'[n].ok /\ outcomes'[n].subject = f[2]
         /\ \A m \in n..Len(outcomes') : outcomes'[m].ok \/ outcomes'[m].job # f[1]
    \/ f[2] \in Observable /\ observed'[f[2]] > job[f[1]].finished
StillReported(f) == \E g \in UnresolvedJobFailures' : g[2] = f[2]

(* A subject whose failure is reported stays reported, with that failure or a
   newer one, until it is verified or Limit jobs have started after the failed
   one. *)
FailureStaysReported ==
    [][\A f \in UnresolvedJobFailures :
         \/ Cardinality({i \in used' : i > f[1]}) >= Limit
         \/ Verified(f) \/ StillReported(f)]_<<rows, job, outcomes, observed>>

(* DESIGN.md:1382, "A failed job outcome remains current until PV records newer
   successful verification for the same subject." *)
CurrentUntilVerified ==
    [][\A f \in UnresolvedJobFailures : Verified(f) \/ StillReported(f)]_vars

(* DESIGN.md:1392, "Historical failures remain visible through `pv jobs` but do
   not make aggregate status fail after their subjects have newer successful
   verification." *)
VerifiedStaysResolved ==
    [][\A n \in DOMAIN outcomes : \A m \in (n + 1)..Len(outcomes) :
         ~outcomes[n].ok /\ outcomes[m].ok /\ outcomes[m].subject = outcomes[n].subject
           => <<outcomes[n].job, outcomes[n].subject>> \notin UnresolvedJobFailures']_vars
=============================================================================
