--------------------------- MODULE RepositoryScans ---------------------------
(***************************************************************************)
(* The GitHub control loop for one repository: webhooks and the scheduler  *)
(* insert ingest_run rows, scanners claim them under a lease, acquire the  *)
(* head of the default branch, scan it and publish its snapshot            *)
(* (github_control_loop.py, github_webhook_store.py, scanner_ingest.py).   *)
(*                                                                         *)
(* A revision is a number, and stands for the facts its scan asserts; a    *)
(* revision in Oversized is scanned only partially.  Which of several      *)
(* available runs is claimed first is left open (the code orders them by   *)
(* trigger, priority and backoff).  One version of the extractor is in     *)
(* use, so a published revision has its scanner snapshot.                  *)
(***************************************************************************)
EXTENDS Integers, FiniteSets, FiniteSetsExt

CONSTANTS
    Scanners,         \* control loop processes
    MaxScanAttempts,  \* MAX_ATTEMPTS
    Oversized,        \* revisions beyond the scan limits
    ScanAdversity,    \* what the environment may do: "revert", "policy"
    MaxRevisions,     \* bound: revisions of the branch
    MaxScans,         \* bound: rows of ingest_run
    MaxDisturbances   \* bound: crashes, leases outlived by their holder, and changes to the
                      \* connector, to the target's listing and to its policy

Revisions == 1 .. MaxRevisions
Scans == 1 .. MaxScans
NoRevision == 0
NoScan == 0
NoScanner == "no scanner"
ASSUME ScanAssumption ==
    /\ MaxScanAttempts \in Nat \ {0} /\ MaxRevisions \in Nat \ {0}
    /\ MaxScans \in Nat /\ MaxDisturbances \in Nat
    /\ Oversized \subseteq Revisions
    /\ IsFiniteSet(Scanners) /\ NoScanner \notin Scanners
    /\ ScanAdversity \subseteq {"revert", "policy"}

VARIABLES
    head,         \* the default branch at GitHub
    hooks,        \* push webhooks not yet processed
    connector,    \* connector_account.status
    target,       \* the repository's ingest_target
    scan,         \* ingest_run, by id; its holder is the owner of a lease that has not run out
    scanner,      \* each control loop process
    published,    \* revisions with a PUBLISHED source_snapshot
    latest,       \* the one published last
    facts,        \* revisions whose facts have system_to IS NULL
    fresh,        \* freshness_state
    rescan,       \* the operator's rescan_job
    disturbances  \* counter for the bound

github == <<head, hooks>>
snapshots == <<published, latest, facts>>
scanVars == <<github, connector, target, scan, scanner, snapshots, fresh, rescan, disturbances>>

Active == {"PENDING", "RUNNING"}
EndedWell == {"SUCCEEDED", "PARTIAL"}
Ended == EndedWell \cup {"FAILED", "CANCELLED"}

NoRun == [status |-> "NONE", requested |-> NoRevision, holder |-> NoScanner,
          attempt |-> 1, rescan |-> FALSE]
Rows == {i \in Scans : scan[i].status # "NONE"}
ActiveRuns == {i \in Rows : scan[i].status \in Active}

\* INSERT INTO ingest_run
NewRun(requested) == [NoRun EXCEPT !.status = "PENDING", !.requested = requested]
Inserted(rows, run) == [rows EXCEPT ![Min(Scans \ Rows)] = run]

\* Bound: whoever is about to insert a row finds one.
Room == Cardinality(Scans \ Rows) > Cardinality({w \in Scanners : scanner[w].pc = "scheduling"})

\* _cancel_pending_for_target
Cancelled(superseded) ==
    [i \in Scans |-> IF i \in superseded /\ scan[i].status = "PENDING"
                     THEN [scan[i] EXCEPT !.status = "CANCELLED"] ELSE scan[i]]

Disturbance == disturbances < MaxDisturbances /\ disturbances' = disturbances + 1

-----------------------------------------------------------------------------
(* GitHub and its webhooks.                                                *)

\* The branch moves on, or is forced back, and GitHub sends a push event.
Push(r) ==
    /\ IF "revert" \in ScanAdversity THEN r # head ELSE r = head + 1
    /\ head' = r
    /\ hooks' = hooks \cup {r}
    /\ UNCHANGED <<connector, target, scan, scanner, snapshots, fresh, rescan, disturbances>>

\* Fault: the target is enabled and not made due.
EnabledOnly(t) == [t EXCEPT !.enabled = TRUE]
MadeDue(t) == [t EXCEPT !.enabled = TRUE, !.due = "now"]

\* An earlier run of this revision, unless it failed or was cancelled.
Scheduled(r) == \E i \in Rows : scan[i].requested = r /\ scan[i].status \in Active \cup EndedWell

\* _route_push, in the order GitHub delivers.  A delivery that has been processed is
\* ignored when it is sent again.
RoutePush(r) ==
    /\ r \in hooks
    /\ hooks' = hooks \ {r}
    /\ IF connector # "ACTIVE" THEN UNCHANGED <<target, scan>>
       ELSE LET kept == Cancelled({i \in Scans : scan[i].requested # r})
            IN  /\ target' = [MadeDue(target) EXCEPT !.desired = r]
                /\ Scheduled(r) \/ Room
                /\ scan' = IF Scheduled(r) THEN kept ELSE Inserted(kept, NewRun(r))
    /\ UNCHANGED <<head, connector, scanner, snapshots, fresh, rescan, disturbances>>

Disabled(t) == [t EXCEPT !.enabled = FALSE, !.due = "never"]
Quiet == \A w \in Scanners : scanner[w].pc \in {"out", "scheduling"}

\* _suspend_installation, revoke_installation_connection
Disconnect(status) ==
    /\ Disturbance
    /\ connector # "REVOKED" /\ (status = "DISABLED" => connector = "ACTIVE")
    /\ connector' = status
    /\ target' = IF target.enabled THEN Disabled(target) ELSE target
    /\ scan' = IF target.enabled THEN Cancelled(Scans) ELSE scan
    /\ UNCHANGED <<github, scanner, snapshots, fresh, rescan>>

\* _activate_installation: repositories wait for the reconciliation.
Unsuspend ==
    /\ connector = "DISABLED"
    /\ connector' = "ACTIVE"
    /\ UNCHANGED <<github, target, scan, scanner, snapshots, fresh, rescan, disturbances>>

\* What reconcile_installation_connection and the installation_repositories and repository
\* webhooks do to a repository that is, or is no longer, in the installation.
Reconcile(listed) ==
    /\ Disturbance
    /\ connector = "ACTIVE"
    /\ target' = IF listed THEN MadeDue(target)
                 ELSE IF target.enabled THEN Disabled(target) ELSE target
    /\ scan' = IF target.enabled /\ ~listed THEN Cancelled(Scans) ELSE scan
    /\ UNCHANGED <<github, connector, scanner, snapshots, fresh, rescan>>

\* The operator's scan policy: a manual cadence turns the schedule off.
SetPolicy(on) ==
    /\ Disturbance
    /\ "policy" \in ScanAdversity \/ Quiet
    /\ target' = [target EXCEPT !.scheduled = on,
                      !.due = IF ~on THEN "never" ELSE IF @ = "never" THEN "now" ELSE @]
    /\ UNCHANGED <<github, connector, scan, scanner, snapshots, fresh, rescan>>

-----------------------------------------------------------------------------
(* The rescan job.                                                         *)

\* request_rescan links the job to the newest run in progress, or queues one.
RequestRescan ==
    /\ rescan = "NONE"
    /\ IF ~target.enabled THEN rescan' = "SUCCEEDED" /\ UNCHANGED scan
       ELSE /\ rescan' = "PENDING"
            /\ ActiveRuns # {} \/ Room
            /\ scan' = IF ActiveRuns # {} THEN [scan EXCEPT ![Max(ActiveRuns)].rescan = TRUE]
                       ELSE Inserted(scan, [NewRun(NoRevision) EXCEPT !.rescan = TRUE])
    /\ UNCHANGED <<github, connector, target, scanner, snapshots, fresh, disturbances>>

Linked == {i \in Rows : scan[i].rescan}
Started(run) == run.status \notin {"PENDING", "CANCELLED"} \/ run.attempt > 1

\* Fault: a cancelled run counts as done.
RolledUpLeniently ==
    IF \A i \in Linked : scan[i].status \in Ended
    THEN IF \E i \in Linked : scan[i].status = "FAILED" THEN "FAILED" ELSE "SUCCEEDED"
    ELSE IF \E i \in Linked : Started(scan[i]) THEN "RUNNING" ELSE "PENDING"

RolledUp ==
    IF \A i \in Linked : scan[i].status \in Ended
    THEN IF Linked \subseteq {i \in Rows : scan[i].status \in EndedWell} THEN "SUCCEEDED" ELSE "FAILED"
    ELSE IF \E i \in Linked : Started(scan[i]) THEN "RUNNING" ELSE "PENDING"

\* reconcile_rescan_jobs
RollUp ==
    /\ rescan \in Active
    /\ rescan' = RolledUp
    /\ UNCHANGED <<github, connector, target, scan, scanner, snapshots, fresh, disturbances>>

-----------------------------------------------------------------------------
(* The control loop.                                                       *)

Out == [pc |-> "out", scan |-> NoScan, rev |-> NoRevision, scheduled |-> TRUE]
PC(w, pc) == scanner[w].pc = pc
Becomes(w, pc) == scanner' = [scanner EXCEPT ![w].pc = pc]
Leaves(w) == scanner' = [scanner EXCEPT ![w] = Out]

DueTarget == connector = "ACTIVE" /\ target.enabled /\ target.scheduled /\ target.due = "now"

\* The statement of schedule_due_targets takes its snapshot of ingest_run ...
ScheduleReads(w) ==
    /\ PC(w, "out")
    /\ DueTarget /\ ActiveRuns = {} /\ Room
    /\ Becomes(w, "scheduling")
    /\ UNCHANGED <<github, connector, target, scan, snapshots, fresh, rescan, disturbances>>

\* ... and gets to the target's row: only the target's own columns are looked at again.
ScheduleInserts(w) ==
    /\ PC(w, "scheduling")
    /\ scan' = IF DueTarget THEN Inserted(scan, NewRun(target.desired)) ELSE scan
    /\ Leaves(w)
    /\ UNCHANGED <<github, connector, target, snapshots, fresh, rescan, disturbances>>

CadenceElapses ==
    /\ target.due = "later"
    /\ target' = [target EXCEPT !.due = "now"]
    /\ UNCHANGED <<github, connector, scan, scanner, snapshots, fresh, rescan, disturbances>>

Expired(i) == scan[i].status = "RUNNING" /\ scan[i].holder = NoScanner

\* Fault: only queued runs are looked at.
ClaimableIfPending(i) == scan[i].status = "PENDING"
\* Fault: the attempts are not counted.
ClaimableForever(i) == scan[i].status = "PENDING" \/ Expired(i)
Claimable(i) == scan[i].status = "PENDING" \/ (Expired(i) /\ scan[i].attempt < MaxScanAttempts)

\* claim_run, and the read of the revision published last.
ClaimRun(w, i) ==
    /\ PC(w, "out")
    /\ connector = "ACTIVE" /\ target.enabled
    /\ i \in Rows /\ Claimable(i)
    /\ scan' = [scan EXCEPT ![i].status = "RUNNING", ![i].holder = w,
                    ![i].attempt = IF Expired(i) THEN @ + 1 ELSE @]
    /\ scanner' = [scanner EXCEPT ![w] = [pc |-> "claimed", scan |-> i, rev |-> latest,
                                          scheduled |-> target.scheduled]]
    /\ UNCHANGED <<github, connector, target, snapshots, fresh, rescan, disturbances>>

\* Fault: updates by id alone.
HoldsById(w) == scan[scanner[w].scan].status # "NONE"
HoldsScan(w) ==
    LET run == scan[scanner[w].scan] IN run.status = "RUNNING" /\ run.holder = w

\* _renew_lease, then the acquisition compares the branch with the revision read before.
Acquire(w) ==
    /\ PC(w, "claimed")
    /\ IF HoldsScan(w)
       THEN scanner' = [scanner EXCEPT ![w].rev = head,
                            ![w].pc = IF head = scanner[w].rev THEN "unchanged" ELSE "acquired"]
       ELSE Leaves(w)
    /\ UNCHANGED <<github, connector, target, scan, snapshots, fresh, rescan, disturbances>>

\* The scan, and the last look at the lease before the result is published.
ScanRepository(w) ==
    /\ PC(w, "acquired")
    /\ IF HoldsScan(w) THEN Becomes(w, "scanned") ELSE Leaves(w)
    /\ UNCHANGED <<github, connector, target, scan, snapshots, fresh, rescan, disturbances>>

\* The attempts of a run that has ended are not looked at again.
Closed(run, status) == [run EXCEPT !.status = status, !.holder = NoScanner, !.attempt = 1]

\* persist_scanner_result_connection: one transaction, whoever has the lease by now.
\* publish_source_snapshot closes the earlier facts if the scan is complete.
Publish(w) ==
    /\ PC(w, "scanned")
    /\ LET r == scanner[w].rev  i == scanner[w].scan
       IN  IF r \in published
           THEN Becomes(w, "replayed") /\ UNCHANGED <<scan, target, snapshots>>
           ELSE /\ published' = published \cup {r} /\ latest' = r
                /\ facts' = IF r \in Oversized THEN facts \cup {r} ELSE {r}
                /\ scan' = [scan EXCEPT ![i] =
                                Closed(@, IF r \in Oversized THEN "PARTIAL" ELSE "SUCCEEDED")]
                /\ target' = [target EXCEPT !.due = "later"]
                /\ Becomes(w, "published")
    /\ UNCHANGED <<github, connector, fresh, rescan, disturbances>>

\* Fault: the head of the branch as it is by now.
BranchRevision(w) == head
MarkedRevision(w) == scanner[w].rev

NextDue(w) == IF scanner[w].scheduled THEN "later" ELSE "never"
Marked(w) ==
    /\ target' = [target EXCEPT !.desired = MarkedRevision(w), !.due = NextDue(w)]
    /\ fresh' = [status |-> "FRESH", rev |-> MarkedRevision(w)]

\* _mark_target_fresh, in a transaction of its own
MarkFresh(w) ==
    /\ PC(w, "published")
    /\ Marked(w)
    /\ Leaves(w)
    /\ UNCHANGED <<github, connector, scan, snapshots, rescan, disturbances>>

\* _complete_run
CompleteRun(w) ==
    /\ PC(w, "unchanged") \/ PC(w, "replayed")
    /\ Leaves(w)
    /\ IF HoldsScan(w)
       THEN scan' = [scan EXCEPT ![scanner[w].scan] = Closed(@, "SUCCEEDED")] /\ Marked(w)
       ELSE UNCHANGED <<scan, target, fresh>>
    /\ UNCHANGED <<github, connector, snapshots, rescan, disturbances>>

\* _fail_run: provider errors are retried, everything else is terminal.
FailRun(w, retryable) ==
    /\ scanner[w].pc \notin {"out", "scheduling"}
    /\ Leaves(w)
    /\ IF ~HoldsScan(w) THEN UNCHANGED <<scan, target, fresh>>
       ELSE LET i == scanner[w].scan
                terminal == ~retryable \/ scan[i].attempt >= MaxScanAttempts
            IN  /\ scan' = [scan EXCEPT ![i] =
                       [Closed(@, IF terminal THEN "FAILED" ELSE "PENDING") EXCEPT
                            !.attempt = IF terminal THEN 1 ELSE scan[i].attempt + 1]]
                /\ fresh' = [fresh EXCEPT !.status = "ERROR"]
                /\ target' = IF terminal THEN [target EXCEPT !.due = NextDue(w)] ELSE target
    /\ UNCHANGED <<github, connector, snapshots, rescan, disturbances>>

\* fail_exhausted_leases; the policy is read again here.
FailExhausted(i) ==
    /\ i \in Rows /\ Expired(i) /\ scan[i].attempt >= MaxScanAttempts
    /\ scan' = [scan EXCEPT ![i] = Closed(@, "FAILED")]
    /\ target' = [target EXCEPT !.due = IF target.scheduled THEN "later" ELSE "never"]
    /\ UNCHANGED <<github, connector, scanner, snapshots, fresh, rescan, disturbances>>

ScannerCrash(w) ==
    /\ ~PC(w, "out")
    /\ Disturbance
    /\ Leaves(w)
    /\ UNCHANGED <<github, connector, target, scan, snapshots, fresh, rescan>>

\* Thirty minutes pass without a renewal.
ScanLeaseExpires(i) ==
    /\ i \in Rows /\ scan[i].holder # NoScanner
    /\ IF scanner[scan[i].holder].scan = i
       THEN Disturbance ELSE UNCHANGED disturbances
    /\ scan' = [scan EXCEPT ![i].holder = NoScanner]
    /\ UNCHANGED <<github, connector, target, scanner, snapshots, fresh, rescan>>

\* The repository has just been connected.
ScanInit ==
    /\ head = 1 /\ hooks = {} /\ connector = "ACTIVE"
    /\ target = [enabled |-> TRUE, scheduled |-> TRUE, due |-> "now", desired |-> NoRevision]
    /\ scan = [i \in Scans |-> NoRun]
    /\ scanner = [w \in Scanners |-> Out]
    /\ published = {} /\ latest = NoRevision /\ facts = {}
    /\ fresh = [status |-> "NONE", rev |-> NoRevision]
    /\ rescan = "NONE" /\ disturbances = 0

ScanWork(w) ==
    ScheduleInserts(w) \/ Acquire(w) \/ ScanRepository(w) \/ Publish(w) \/ MarkFresh(w) \/ CompleteRun(w)

ScanNext ==
    \/ \E r \in Revisions : Push(r) \/ RoutePush(r)
    \/ \E status \in {"DISABLED", "REVOKED"} : Disconnect(status)
    \/ Unsuspend
    \/ \E yes \in BOOLEAN : Reconcile(yes) \/ SetPolicy(yes)
    \/ RequestRescan \/ RollUp \/ CadenceElapses
    \/ \E w \in Scanners : \/ ScheduleReads(w) \/ ScanWork(w) \/ ScannerCrash(w)
                           \/ \E i \in Scans : ClaimRun(w, i)
                           \/ \E retryable \in BOOLEAN : FailRun(w, retryable)
    \/ \E i \in Scans : FailExhausted(i) \/ ScanLeaseExpires(i)

ScanSpec == ScanInit /\ [][ScanNext]_scanVars

\* The loop polls, work that was started goes on and the clock runs; nobody is obliged to
\* push, to schedule or to operate.
ScanFairness ==
    /\ \A i \in Scans : /\ WF_scanVars(\E w \in Scanners : ClaimRun(w, i))
                        /\ WF_scanVars(FailExhausted(i)) /\ WF_scanVars(ScanLeaseExpires(i))
    /\ \A w \in Scanners : WF_scanVars(ScanWork(w))
    /\ WF_scanVars(RollUp)
-----------------------------------------------------------------------------
(* Properties.                                                             *)

Run == [status : {"NONE"} \cup Active \cup Ended,
        requested : Revisions \cup {NoRevision}, holder : Scanners \cup {NoScanner},
        attempt : 1 .. MaxScanAttempts, rescan : BOOLEAN]

\* The columns stay within their types; an attempt is never past MAX_ATTEMPTS.
ScansTypeOK ==
    /\ head \in Revisions /\ hooks \subseteq Revisions
    /\ connector \in {"ACTIVE", "DISABLED", "REVOKED"}
    /\ target \in [enabled : BOOLEAN, scheduled : BOOLEAN, due : {"never", "later", "now"},
                   desired : Revisions \cup {NoRevision}]
    /\ scan \in [Scans -> Run]
    /\ scanner \in [Scanners -> [pc : {"out", "scheduling", "claimed", "unchanged", "acquired", "scanned",
                                       "replayed", "published"},
                                 scan : Scans \cup {NoScan}, rev : Revisions \cup {NoRevision},
                                 scheduled : BOOLEAN]]
    /\ published \subseteq Revisions /\ latest \in Revisions \cup {NoRevision} /\ facts \subseteq published
    /\ fresh \in [status : {"NONE", "FRESH", "ERROR"}, rev : Revisions \cup {NoRevision}]
    /\ rescan \in {"NONE", "PENDING", "RUNNING", "SUCCEEDED", "FAILED"}
    /\ disturbances \in 0 .. MaxDisturbances

\* A run that has ended stays ended, whatever scanners that lost its lease do afterwards;
\* only a snapshot that is published late turns a failed or cancelled run into a success.
EndedScansStayEnded ==
    [][\A i \in Scans : scan[i].status \in Ended =>
           \/ scan'[i].status = scan[i].status
           \/ scan'[i].status \in EndedWell /\ published' # published]_scanVars

\* freshness_state never names a revision whose snapshot has not been published, whatever
\* was requested, replayed, unchanged or scanned by somebody else in the meantime.
FreshMeansPublished == fresh.rev \in published \cup {NoRevision}

\* A repository that is connected and on a schedule comes up again, after every failure,
\* cancellation, suspension and rescan.  (While the policy is not changed under a scan.)
ScheduledTargetsAreDue == target.enabled /\ target.scheduled => target.due # "never"

\* A rescan that is reported as successful has all its runs ended well.
RescanReportsItsRuns == rescan = "SUCCEEDED" => \A i \in Linked : scan[i].status \in EndedWell

\* Every run ends, through crashes and lost leases, and the rescan job that waits for it is
\* told, unless the repository is taken off in the meantime.
EveryScanEnds ==
    /\ \A i \in Scans : scan[i].status \in Active ~> scan[i].status \in Ended \/ ~target.enabled
    /\ rescan \in Active ~> rescan \notin Active \/ ~target.enabled
=============================================================================
