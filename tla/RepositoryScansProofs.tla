------------------------ MODULE RepositoryScansProofs ------------------------
(***************************************************************************)
(* The safety of the GitHub control loop, for any number of scanners, runs,*)
(* revisions, attempts and disturbances.                                   *)
(***************************************************************************)
EXTENDS RepositoryScans, Extrema

Idle(w) == scanner[w].pc \in {"out", "scheduling"}
Inserters == {w \in Scanners : scanner[w].pc = "scheduling"}
FreeScans == Scans \ Rows

\* What a scanner has read stays true of the past: its run has been queued, the revision it
\* saw as the latest one was published, and so was the one it is about to call fresh.
KnowsHistory(it) ==
    it.pc \notin {"out", "scheduling"} =>
        /\ it.scan \in Rows
        /\ it.pc = "claimed" => it.rev \in published \cup {NoRevision}
        /\ it.pc \in {"unchanged", "replayed", "published"} => it.rev \in published
        /\ it.pc \in {"acquired", "scanned"} => it.rev \in Revisions

ReadsAreHistory ==
    /\ latest \in published \cup {NoRevision}
    /\ \A w \in Scanners : KnowsHistory(scanner[w])

\* Whoever is about to insert a row finds one.
RoomIsKept == Cardinality(Inserters) <= Cardinality(FreeScans)

\* No run belongs to a rescan that was not asked for.
NobodyAsked == rescan = "NONE" => Linked = {}

ScanIInv ==
    ScansTypeOK /\ ReadsAreHistory /\ FreshMeansPublished /\ RoomIsKept
    /\ NobodyAsked /\ RescanReportsItsRuns

\* While the policy is not changed under a scan, every scanner knows it.
PolicyIsKnown == \A w \in Scanners : ~Idle(w) => scanner[w].scheduled = target.scheduled
PolicyIInv == PolicyIsKnown /\ ScheduledTargetsAreDue

-----------------------------------------------------------------------------
ScannerState == [pc : {"out", "scheduling", "claimed", "unchanged", "acquired", "scanned",
                       "replayed", "published"},
                 scan : Scans \cup {NoScan}, rev : Revisions \cup {NoRevision}, scheduled : BOOLEAN]
TargetState == [enabled : BOOLEAN, scheduled : BOOLEAN, due : {"never", "later", "now"},
                desired : Revisions \cup {NoRevision}]
Freshness == [status : {"NONE", "FRESH", "ERROR"}, rev : Revisions \cup {NoRevision}]

\* What the types have to say, without the runs and the scanners
ScanColumnsOK ==
    /\ head \in Revisions /\ hooks \subseteq Revisions
    /\ connector \in {"ACTIVE", "DISABLED", "REVOKED"}
    /\ target \in TargetState
    /\ published \subseteq Revisions /\ latest \in Revisions \cup {NoRevision} /\ facts \subseteq published
    /\ fresh \in Freshness
    /\ rescan \in {"NONE", "PENDING", "RUNNING", "SUCCEEDED", "FAILED"}
    /\ disturbances \in 0 .. MaxDisturbances

LEMMA ScanTypeSplit ==
    ScansTypeOK <=> /\ scan \in [Scans -> Run] /\ scanner \in [Scanners -> ScannerState]
                    /\ ScanColumnsOK
BY DEF ScansTypeOK, ScanColumnsOK, ScannerState, TargetState, Freshness

LEMMA ScanTypeSplitNext ==
    ASSUME scan' \in [Scans -> Run], scanner' \in [Scanners -> ScannerState], ScanColumnsOK'
    PROVE  ScansTypeOK'
BY DEF ScansTypeOK, ScanColumnsOK, ScannerState, TargetState, Freshness

LEMMA ScanTypes ==
    ASSUME ScanIInv
    PROVE  /\ scan \in [Scans -> Run] /\ scanner \in [Scanners -> ScannerState] /\ ScanColumnsOK
           /\ MaxScanAttempts \in Nat /\ 0 < MaxScanAttempts /\ MaxDisturbances \in Nat
           /\ NoScanner \notin Scanners
BY ScanTypeSplit, ScanAssumption DEF ScanIInv

LEMMA StatusSorts ==
    /\ Active \cap Ended = {} /\ "NONE" \notin Active \cup Ended /\ EndedWell \subseteq Ended
    /\ "PENDING" \in Active /\ "RUNNING" \in Active /\ "CANCELLED" \in Ended \ EndedWell
    /\ "FAILED" \in Ended \ EndedWell /\ "SUCCEEDED" \in EndedWell /\ "PARTIAL" \in EndedWell
BY DEF Active, Ended, EndedWell

LEMMA OutType == Out \in ScannerState /\ Out.pc = "out" /\ Out.scheduled = TRUE
BY DEF Out, ScannerState

LEMMA NewRunType ==
    ASSUME NEW r \in Revisions \cup {NoRevision}
    PROVE  /\ NewRun(r) \in Run /\ NewRun(r).status = "PENDING" /\ ~NewRun(r).rescan
           /\ [NewRun(r) EXCEPT !.rescan = TRUE] \in Run
           /\ [NewRun(r) EXCEPT !.rescan = TRUE].status = "PENDING"
<1>1. /\ NoRun \in Run /\ NoRun.rescan = FALSE
  BY ScanAssumption DEF NoRun, Run
<1>2. NewRun(r) \in Run /\ NewRun(r).status = "PENDING" /\ ~NewRun(r).rescan
  BY <1>1, StatusSorts DEF NewRun, Run
<1> QED BY <1>2 DEF Run

LEMMA ClosedType ==
    ASSUME NEW old \in Run, NEW status \in {"PENDING"} \cup Ended
    PROVE  /\ Closed(old, status) \in Run /\ Closed(old, status).status = status
           /\ Closed(old, status).rescan = old.rescan
<1>1. 1 \in 1 .. MaxScanAttempts
  BY ScanAssumption
<1>2. status \in {"NONE"} \cup Active \cup Ended
  BY StatusSorts
<1> QED BY <1>1, <1>2 DEF Closed, Run

LEMMA ScansAreFinite ==
    /\ IsFiniteSet(FreeScans) /\ IsFiniteSet(Inserters)
    /\ IsFiniteSet(FreeScans') /\ IsFiniteSet(Inserters')
    /\ Cardinality(FreeScans) \in Nat /\ Cardinality(Inserters) \in Nat
    /\ Cardinality(FreeScans') \in Nat /\ Cardinality(Inserters') \in Nat
<1>1. IsFiniteSet(Scans) /\ IsFiniteSet(Scanners)
  BY FS_Interval, ScanAssumption DEF Scans
<1>2. /\ FreeScans \subseteq Scans /\ FreeScans' \subseteq Scans
      /\ Inserters \subseteq Scanners /\ Inserters' \subseteq Scanners
  BY DEF FreeScans, Inserters
<1>3. /\ IsFiniteSet(FreeScans) /\ IsFiniteSet(Inserters)
      /\ IsFiniteSet(FreeScans') /\ IsFiniteSet(Inserters')
  BY <1>1, <1>2, FS_Subset
<1> QED BY <1>3, FS_CardinalityType

LEMMA RoomMeans == Room => Cardinality(Inserters) < Cardinality(FreeScans)
<1>1. Room => Cardinality(FreeScans) > Cardinality(Inserters)
  BY DEF Room, Inserters, FreeScans
<1> QED BY <1>1, ScansAreFinite

LEMMA NonemptyFree ==
    ASSUME NEW n \in Nat, n < Cardinality(FreeScans) PROVE FreeScans # {}
BY FS_EmptySet, ScansAreFinite

LEMMA RowsOf ==
    ASSUME NEW i \in Scans
    PROVE  /\ i \in Rows <=> scan[i].status # "NONE"
           /\ i \in FreeScans <=> scan[i].status = "NONE"
BY DEF Rows, FreeScans

\* A step that neither frees a row nor lets anybody start to insert keeps the room, and one
\* that lets somebody insert keeps it when it takes no more than one row.
LEMMA RoomStays ==
    ASSUME ScanIInv, FreeScans' = FreeScans, Inserters' \subseteq Inserters
    PROVE  RoomIsKept'
<1>1. Cardinality(Inserters') <= Cardinality(Inserters)
  BY ScansAreFinite, FS_Subset
<1>2. Cardinality(FreeScans') = Cardinality(FreeScans)
  OBVIOUS
<1> QED BY <1>1, <1>2, ScansAreFinite DEF ScanIInv, RoomIsKept

\* A row is taken, of rows that have the status of those of scan or are cancelled.
LEMMA InsertedEffect ==
    ASSUME ScanIInv, NEW rows \in [Scans -> Run], NEW new \in Run, new.status = "PENDING",
           \A j \in Scans : rows[j].status = "NONE" <=> scan[j].status = "NONE",
           FreeScans # {}, scan' = Inserted(rows, new)
    PROVE  \E i \in FreeScans :
               /\ i \in Scans /\ scan[i].status = "NONE"
               /\ scan' \in [Scans -> Run] /\ scan'[i] = new
               /\ \A j \in Scans \ {i} : scan'[j] = rows[j]
               /\ FreeScans' = FreeScans \ {i}
               /\ Cardinality(FreeScans') = Cardinality(FreeScans) - 1
<1> DEFINE i == Min(FreeScans)
<1>1. i \in FreeScans
  BY MinOfRows, ScanAssumption DEF FreeScans, Scans
<1>2. i \in Scans /\ scan[i].status = "NONE"
  BY <1>1, RowsOf DEF FreeScans
<1>3. scan' = [rows EXCEPT ![i] = new]
  BY DEF Inserted, FreeScans
<1> HIDE DEF i
<1>4. /\ scan' \in [Scans -> Run] /\ scan'[i] = new /\ \A j \in Scans \ {i} : scan'[j] = rows[j]
  BY <1>2, <1>3
<1>5. FreeScans' = FreeScans \ {i}
  BY <1>2, <1>4 DEF FreeScans, Rows
<1>6. Cardinality(FreeScans') = Cardinality(FreeScans) - 1
  BY <1>1, <1>5, ScansAreFinite, FS_RemoveElement
<1> QED BY <1>1, <1>2, <1>4, <1>5, <1>6

-----------------------------------------------------------------------------
\* What a step may do to a run: it stays, it does not become one of the rescan, and once it
\* has ended only a late publication changes it.
RunGoesOn(i) ==
    /\ scan[i].status # "NONE" => scan'[i].status # "NONE"
    /\ scan'[i].status # "NONE" /\ scan'[i].rescan => scan[i].status # "NONE" /\ scan[i].rescan
    /\ scan[i].status \in Ended =>
           \/ scan'[i].status = scan[i].status
           \/ scan'[i].status \in EndedWell /\ published' # published

RunsGoOn == \A i \in Scans : RunGoesOn(i)

LEMMA RescanKept ==
    ASSUME ScanIInv, RunsGoOn, rescan' = rescan PROVE NobodyAsked' /\ RescanReportsItsRuns'
<1>1. \A i \in Scans : i \in Linked' => i \in Linked
  BY DEF RunsGoOn, RunGoesOn, Linked, Rows
<1>2. \A i \in Scans : scan[i].status \in EndedWell => scan'[i].status \in EndedWell
  BY StatusSorts DEF RunsGoOn, RunGoesOn
<1>3. Linked' \subseteq Scans
  BY DEF Linked, Rows
<1> QED BY <1>1, <1>2, <1>3 DEF ScanIInv, NobodyAsked, RescanReportsItsRuns

LEMMA StepKeeps ==
    ASSUME ScanIInv, scan' \in [Scans -> Run], scanner' \in [Scanners -> ScannerState], ScanColumnsOK',
           RunsGoOn, RoomIsKept', rescan' = rescan,
           published \subseteq published', latest' \in published' \cup {NoRevision},
           fresh'.rev \in published' \cup {NoRevision},
           \A w \in Scanners : scanner'[w] = scanner[w] \/ KnowsHistory(scanner[w])'
    PROVE  ScanIInv'
<1>1. ReadsAreHistory'
  <2>1. \A i \in Scans : i \in Rows => i \in Rows'
    BY DEF RunsGoOn, RunGoesOn, Rows
  <2>2. Rows \subseteq Scans
    BY DEF Rows
  <2>3. ASSUME NEW w \in Scanners, scanner'[w] = scanner[w] PROVE KnowsHistory(scanner[w])'
    <3>1. KnowsHistory(scanner[w])
      BY DEF ScanIInv, ReadsAreHistory
    <3> QED BY <2>1, <2>2, <2>3, <3>1 DEF KnowsHistory
  <2> QED BY <2>3 DEF ReadsAreHistory
<1>2. FreshMeansPublished'
  BY DEF FreshMeansPublished
<1> QED BY <1>1, <1>2, RescanKept, ScanTypeSplitNext DEF ScanIInv

\* One run is updated.
LEMMA RunSet ==
    ASSUME ScanIInv, NEW i \in Scans, scan[i].status # "NONE", NEW new \in Run,
           scan' = [scan EXCEPT ![i] = new], new.status # "NONE", new.rescan = scan[i].rescan,
           scan[i].status \in Ended =>
               new.status = scan[i].status \/ (new.status \in EndedWell /\ published' # published)
    PROVE  scan' \in [Scans -> Run] /\ RunsGoOn /\ FreeScans' = FreeScans
<1>1. scan' \in [Scans -> Run] /\ scan'[i] = new /\ \A j \in Scans \ {i} : scan'[j] = scan[j]
  BY ScanTypes
<1>2. RunsGoOn
  BY <1>1 DEF RunsGoOn, RunGoesOn
<1>3. FreeScans' = FreeScans
  BY <1>1 DEF FreeScans, Rows
<1> QED BY <1>1, <1>2, <1>3

LEMMA NoRunSet ==
    ASSUME ScanIInv, scan' = scan
    PROVE  scan' \in [Scans -> Run] /\ RunsGoOn /\ FreeScans' = FreeScans
BY ScanTypes DEF RunsGoOn, RunGoesOn, FreeScans, Rows

\* A scanner that is at work goes on or stops.
LEMMA WorkerStep ==
    ASSUME ScanIInv, NEW w \in Scanners, NEW new \in ScannerState, new.pc # "scheduling",
           scanner' = [scanner EXCEPT ![w] = new],
           scan' \in [Scans -> Run], ScanColumnsOK', RunsGoOn, FreeScans' = FreeScans, rescan' = rescan,
           published \subseteq published', latest' \in published' \cup {NoRevision},
           fresh'.rev \in published' \cup {NoRevision},
           new.pc # "out" =>
               /\ new.scan \in Rows
               /\ new.pc = "claimed" => new.rev \in published' \cup {NoRevision}
               /\ new.pc \in {"unchanged", "replayed", "published"} => new.rev \in published'
               /\ new.pc \in {"acquired", "scanned"} => new.rev \in Revisions
    PROVE  ScanIInv'
<1>1. /\ scanner' \in [Scanners -> ScannerState]
      /\ \A v \in Scanners : scanner'[v] = IF v = w THEN new ELSE scanner[v]
  BY ScanTypes
<1>2. Inserters' \subseteq Inserters
  BY <1>1 DEF Inserters
<1>3. RoomIsKept'
  BY <1>2, RoomStays
<1>4. KnowsHistory(scanner[w])'
  <2>1. new.scan \in Rows => new.scan \in Rows'
    BY DEF RunsGoOn, RunGoesOn, Rows
  <2> QED BY <1>1, <2>1 DEF KnowsHistory
<1> QED BY <1>1, <1>3, <1>4, StepKeeps

\* Nobody at the control loop moves.
LEMMA RunsStep ==
    ASSUME ScanIInv, scanner' = scanner, scan' \in [Scans -> Run], RunsGoOn, FreeScans' = FreeScans,
           ScanColumnsOK', rescan' = rescan, UNCHANGED <<snapshots, fresh>>
    PROVE  ScanIInv'
<1>1. /\ published \subseteq published' /\ latest' \in published' \cup {NoRevision}
      /\ fresh'.rev \in published' \cup {NoRevision}
  BY DEF snapshots, ScanIInv, ReadsAreHistory, FreshMeansPublished
<1>2. RoomIsKept'
  BY RoomStays DEF Inserters
<1> QED BY <1>1, <1>2, ScanTypes, StepKeeps

LEMMA CancelledEffect ==
    ASSUME ScanIInv, NEW superseded
    PROVE  /\ Cancelled(superseded) \in [Scans -> Run]
           /\ \A i \in Scans :
                  \/ Cancelled(superseded)[i] = scan[i]
                  \/ /\ scan[i].status = "PENDING" /\ Cancelled(superseded)[i].status = "CANCELLED"
                     /\ Cancelled(superseded)[i].rescan = scan[i].rescan
<1>1. \A i \in Scans : /\ [scan[i] EXCEPT !.status = "CANCELLED"] \in Run
                       /\ [scan[i] EXCEPT !.status = "CANCELLED"].status = "CANCELLED"
                       /\ [scan[i] EXCEPT !.status = "CANCELLED"].rescan = scan[i].rescan
  BY ScanTypes DEF Run, Ended
<1>2. \A i \in Scans :
          Cancelled(superseded)[i] = IF i \in superseded /\ scan[i].status = "PENDING"
                                     THEN [scan[i] EXCEPT !.status = "CANCELLED"] ELSE scan[i]
  BY DEF Cancelled
<1>3. Cancelled(superseded) \in [Scans -> Run]
  BY <1>1, ScanTypes DEF Cancelled
<1> QED BY <1>1, <1>2, <1>3

LEMMA CancelledGoOn ==
    ASSUME ScanIInv, NEW superseded, scan' = Cancelled(superseded)
    PROVE  scan' \in [Scans -> Run] /\ RunsGoOn /\ FreeScans' = FreeScans
<1>1. /\ scan' \in [Scans -> Run]
      /\ \A i \in Scans :
             \/ scan'[i] = scan[i]
             \/ /\ scan[i].status = "PENDING" /\ scan'[i].status = "CANCELLED"
                /\ scan'[i].rescan = scan[i].rescan
  BY CancelledEffect
<1>2. RunsGoOn
  BY <1>1, StatusSorts DEF RunsGoOn, RunGoesOn
<1>3. FreeScans' = FreeScans
  BY <1>1 DEF FreeScans, Rows
<1> QED BY <1>1, <1>2, <1>3

-----------------------------------------------------------------------------
(* GitHub, the operator and the rescan job.                                *)

LEMMA ColumnsUnchanged ==
    ASSUME ScanIInv,
           UNCHANGED <<head, hooks, connector, target, published, latest, facts, fresh, rescan, disturbances>>
    PROVE  ScanColumnsOK'
BY ScanTypes DEF ScanColumnsOK

LEMMA DisturbanceCounts ==
    ASSUME ScanIInv, Disturbance PROVE disturbances' \in 0 .. MaxDisturbances
<1>1. /\ disturbances < MaxDisturbances /\ disturbances' = disturbances + 1
      /\ disturbances \in 0 .. MaxDisturbances /\ MaxDisturbances \in Nat
  BY ScanTypes DEF Disturbance, ScanColumnsOK
<1> QED BY <1>1

LEMMA TargetsMade ==
    ASSUME NEW t \in TargetState
    PROVE  MadeDue(t) \in TargetState /\ Disabled(t) \in TargetState
BY DEF MadeDue, Disabled, TargetState

LEMMA PushStep == ASSUME ScanIInv, NEW r \in Revisions, Push(r) PROVE ScanIInv' /\ RunsGoOn
<1>1. /\ head' = r /\ hooks' = hooks \cup {r}
      /\ UNCHANGED <<connector, target, scan, scanner, snapshots, fresh, rescan, disturbances>>
  BY DEF Push
<1>2. ScanColumnsOK'
  BY <1>1, ScanTypes DEF ScanColumnsOK, snapshots
<1> QED BY <1>1, <1>2, NoRunSet, RunsStep

LEMMA RoutePushStep == ASSUME ScanIInv, NEW r \in Revisions, RoutePush(r) PROVE ScanIInv' /\ RunsGoOn
<1> DEFINE kept == Cancelled({i \in Scans : scan[i].requested # r})
<1>1. /\ hooks' = hooks \ {r}
      /\ UNCHANGED <<head, connector, scanner, snapshots, fresh, rescan, disturbances>>
  BY DEF RoutePush
<1>2. target' \in TargetState
  <2>1. target' = target \/ target' = [MadeDue(target) EXCEPT !.desired = r]
    BY DEF RoutePush
  <2>2. target \in TargetState /\ MadeDue(target) \in TargetState
    BY ScanTypes, TargetsMade DEF ScanColumnsOK
  <2> QED BY <2>1, <2>2 DEF TargetState
<1>3. ScanColumnsOK'
  BY <1>1, <1>2, ScanTypes DEF ScanColumnsOK, snapshots
<1>4. CASE scan' = scan
  BY <1>1, <1>3, <1>4, NoRunSet, RunsStep
<1>5. CASE scan' = kept
  BY <1>1, <1>3, <1>5, CancelledGoOn, RunsStep
<1>6. CASE Room /\ scan' = Inserted(kept, NewRun(r))
  <2>1. /\ kept \in [Scans -> Run]
        /\ \A i \in Scans :
               \/ kept[i] = scan[i]
               \/ scan[i].status = "PENDING" /\ kept[i].status = "CANCELLED" /\ kept[i].rescan = scan[i].rescan
    BY CancelledEffect
  <2> HIDE DEF kept
  <2>2. NewRun(r) \in Run /\ NewRun(r).status = "PENDING" /\ ~NewRun(r).rescan
    BY NewRunType
  <2>3. Cardinality(Inserters) < Cardinality(FreeScans) /\ FreeScans # {}
    BY <1>6, RoomMeans, ScansAreFinite, NonemptyFree
  <2>4. \A j \in Scans : kept[j].status = "NONE" <=> scan[j].status = "NONE"
    BY <2>1
  <2>5. PICK i \in FreeScans :
            /\ i \in Scans /\ scan[i].status = "NONE"
            /\ scan' \in [Scans -> Run] /\ scan'[i] = NewRun(r)
            /\ \A j \in Scans \ {i} : scan'[j] = kept[j]
            /\ Cardinality(FreeScans') = Cardinality(FreeScans) - 1
    BY <1>6, <2>1, <2>2, <2>3, <2>4, InsertedEffect
  <2>6. RunsGoOn
    BY <2>1, <2>2, <2>5, StatusSorts DEF RunsGoOn, RunGoesOn
  <2>7. RoomIsKept'
    <3>1. Inserters' = Inserters
      BY <1>1 DEF Inserters
    <3> QED BY <2>3, <2>5, <3>1, ScansAreFinite DEF RoomIsKept
  <2>8. /\ published \subseteq published' /\ latest' \in published' \cup {NoRevision}
        /\ fresh'.rev \in published' \cup {NoRevision}
    BY <1>1 DEF snapshots, ScanIInv, ReadsAreHistory, FreshMeansPublished
  <2> QED BY <1>1, <1>3, <2>5, <2>6, <2>7, <2>8, ScanTypes, StepKeeps
<1> QED BY <1>4, <1>5, <1>6 DEF RoutePush

LEMMA DisconnectStep ==
    ASSUME ScanIInv, NEW status \in {"DISABLED", "REVOKED"}, Disconnect(status)
    PROVE  ScanIInv' /\ RunsGoOn
<1>1. /\ Disturbance /\ connector' = status
      /\ target' = IF target.enabled THEN Disabled(target) ELSE target
      /\ scan' = scan \/ scan' = Cancelled(Scans)
      /\ UNCHANGED <<head, hooks, scanner, snapshots, fresh, rescan>>
  BY DEF Disconnect, github
<1>2. target' \in TargetState
  BY <1>1, ScanTypes, TargetsMade DEF ScanColumnsOK
<1>3. ScanColumnsOK'
  BY <1>1, <1>2, ScanTypes, DisturbanceCounts DEF ScanColumnsOK, snapshots
<1> QED BY <1>1, <1>3, NoRunSet, CancelledGoOn, RunsStep

LEMMA ReconcileStep ==
    ASSUME ScanIInv, NEW listed \in BOOLEAN, Reconcile(listed) PROVE ScanIInv' /\ RunsGoOn
<1>1. /\ Disturbance
      /\ target' = MadeDue(target) \/ target' = Disabled(target) \/ target' = target
      /\ scan' = scan \/ scan' = Cancelled(Scans)
      /\ UNCHANGED <<head, hooks, connector, scanner, snapshots, fresh, rescan>>
  BY DEF Reconcile, github
<1>2. target' \in TargetState
  BY <1>1, ScanTypes, TargetsMade DEF ScanColumnsOK
<1>3. ScanColumnsOK'
  BY <1>1, <1>2, ScanTypes, DisturbanceCounts DEF ScanColumnsOK, snapshots
<1> QED BY <1>1, <1>3, NoRunSet, CancelledGoOn, RunsStep

LEMMA PolicyStep == ASSUME ScanIInv, NEW on \in BOOLEAN, SetPolicy(on) PROVE ScanIInv' /\ RunsGoOn
<1>1. /\ Disturbance
      /\ target' = [target EXCEPT !.scheduled = on,
                        !.due = IF ~on THEN "never" ELSE IF target.due = "never" THEN "now" ELSE target.due]
      /\ UNCHANGED <<head, hooks, connector, scan, scanner, snapshots, fresh, rescan>>
  BY DEF SetPolicy, github
<1>2. target' \in TargetState
  BY <1>1, ScanTypes DEF ScanColumnsOK, TargetState
<1>3. ScanColumnsOK'
  BY <1>1, <1>2, ScanTypes, DisturbanceCounts DEF ScanColumnsOK, snapshots
<1> QED BY <1>1, <1>3, NoRunSet, RunsStep

LEMMA UnsuspendStep == ASSUME ScanIInv, Unsuspend PROVE ScanIInv' /\ RunsGoOn
<1>1. /\ connector' = "ACTIVE"
      /\ UNCHANGED <<head, hooks, target, scan, scanner, snapshots, fresh, rescan, disturbances>>
  BY DEF Unsuspend, github
<1>2. ScanColumnsOK'
  BY <1>1, ScanTypes DEF ScanColumnsOK, snapshots
<1> QED BY <1>1, <1>2, NoRunSet, RunsStep

LEMMA CadenceStep == ASSUME ScanIInv, CadenceElapses PROVE ScanIInv' /\ RunsGoOn
<1>1. /\ target' = [target EXCEPT !.due = "now"]
      /\ UNCHANGED <<head, hooks, connector, scan, scanner, snapshots, fresh, rescan, disturbances>>
  BY DEF CadenceElapses, github
<1>2. target' \in TargetState
  BY <1>1, ScanTypes DEF ScanColumnsOK, TargetState
<1>3. ScanColumnsOK'
  BY <1>1, <1>2, ScanTypes DEF ScanColumnsOK, snapshots
<1> QED BY <1>1, <1>3, NoRunSet, RunsStep

\* The history that does not depend on the rescan job
LEMMA HistoryStays ==
    ASSUME ScanIInv, \A i \in Scans : scan[i].status # "NONE" => scan'[i].status # "NONE",
           UNCHANGED <<scanner, published, latest, fresh>>
    PROVE  ReadsAreHistory' /\ FreshMeansPublished'
<1>1. \A i \in Scans : i \in Rows => i \in Rows'
  BY DEF Rows
<1>2. Rows \subseteq Scans
  BY DEF Rows
<1>3. \A w \in Scanners : KnowsHistory(scanner[w])'
  BY <1>1, <1>2 DEF ScanIInv, ReadsAreHistory, KnowsHistory
<1> QED BY <1>3 DEF ScanIInv, ReadsAreHistory, FreshMeansPublished

LEMMA RollUpStep == ASSUME ScanIInv, RollUp PROVE ScanIInv' /\ RunsGoOn
<1>1. /\ rescan \in Active /\ rescan' = RolledUp
      /\ UNCHANGED <<head, hooks, connector, target, scan, scanner, published, latest, facts, fresh,
                     disturbances>>
  BY DEF RollUp, github, snapshots
<1>2. /\ RolledUp \in {"PENDING", "RUNNING", "SUCCEEDED", "FAILED"}
      /\ RolledUp = "SUCCEEDED" => \A i \in Linked : scan[i].status \in EndedWell
  BY DEF RolledUp
<1>3. ScanColumnsOK'
  BY <1>1, <1>2, ScanTypes DEF ScanColumnsOK
<1>4. RunsGoOn /\ FreeScans' = FreeScans /\ scan' \in [Scans -> Run]
  BY <1>1, NoRunSet
<1>5. RoomIsKept'
  BY <1>1, <1>4, RoomStays DEF Inserters
<1>6. NobodyAsked'
  BY <1>1, <1>2 DEF NobodyAsked
<1>7. RescanReportsItsRuns'
  <2>1. Linked' = Linked
    BY <1>1 DEF Linked, Rows
  <2> QED BY <1>1, <1>2, <2>1 DEF RescanReportsItsRuns
<1>8. scanner' \in [Scanners -> ScannerState]
  BY <1>1, ScanTypes
<1>9. ReadsAreHistory' /\ FreshMeansPublished'
  BY <1>1, HistoryStays
<1> QED BY <1>1, <1>3, <1>4, <1>5, <1>6, <1>7, <1>8, <1>9, ScanTypeSplitNext DEF ScanIInv

EndedStay ==
    \A i \in Scans : scan[i].status \in Ended =>
        \/ scan'[i].status = scan[i].status
        \/ scan'[i].status \in EndedWell /\ published' # published

\* The job may join a run, or bring a run of its own, but it has not succeeded then.
LEMMA RequestRescanStep == ASSUME ScanIInv, RequestRescan PROVE ScanIInv' /\ EndedStay
<1>1. /\ rescan = "NONE" /\ Linked = {}
      /\ UNCHANGED <<head, hooks, connector, target, scanner, published, latest, facts, fresh,
                     disturbances>>
  BY DEF RequestRescan, github, snapshots, ScanIInv, NobodyAsked
<1>2. scanner' \in [Scanners -> ScannerState] /\ Inserters' = Inserters
  BY <1>1, ScanTypes DEF Inserters
<1>3. ASSUME rescan' \in {"PENDING", "SUCCEEDED"} PROVE ScanColumnsOK'
  BY <1>1, <1>3, ScanTypes DEF ScanColumnsOK
<1>4. CASE ~target.enabled
  <2>1. rescan' = "SUCCEEDED" /\ scan' = scan
    BY <1>4 DEF RequestRescan
  <2>2. FreeScans' = FreeScans /\ scan' \in [Scans -> Run]
    BY <2>1, NoRunSet
  <2>3. RoomIsKept'
    BY <1>2, <2>2, RoomStays
  <2>4. Linked' = {}
    BY <1>1, <2>1 DEF Linked, Rows
  <2>5. NobodyAsked' /\ RescanReportsItsRuns'
    BY <2>4 DEF NobodyAsked, RescanReportsItsRuns
  <2>6. ReadsAreHistory' /\ FreshMeansPublished'
    BY <1>1, <2>1, HistoryStays
  <2>7. EndedStay
    BY <2>1 DEF EndedStay
  <2> QED BY <1>2, <1>3, <2>1, <2>2, <2>3, <2>5, <2>6, <2>7, ScanTypeSplitNext DEF ScanIInv
<1>5. CASE target.enabled /\ ActiveRuns # {}
  <2> DEFINE i == Max(ActiveRuns)
  <2>1. rescan' = "PENDING" /\ scan' = [scan EXCEPT ![i].rescan = TRUE]
    BY <1>5 DEF RequestRescan
  <2>2. i \in ActiveRuns
    BY <1>5, MaxOfRows, ScanAssumption DEF ActiveRuns, Rows, Scans
  <2> HIDE DEF i
  <2>3. i \in Scans
    BY <2>2 DEF ActiveRuns, Rows
  <2>4. scan' \in [Scans -> Run] /\ \A j \in Scans : scan'[j].status = scan[j].status
    BY <2>1, <2>3, ScanTypes DEF Run
  <2>5. FreeScans' = FreeScans
    BY <2>4 DEF FreeScans, Rows
  <2>6. RoomIsKept'
    BY <1>2, <2>5, RoomStays
  <2>7. NobodyAsked' /\ RescanReportsItsRuns'
    BY <2>1 DEF NobodyAsked, RescanReportsItsRuns
  <2>8. ReadsAreHistory' /\ FreshMeansPublished'
    BY <1>1, <2>4, HistoryStays
  <2>9. EndedStay
    BY <2>4 DEF EndedStay
  <2> QED BY <1>2, <1>3, <2>1, <2>4, <2>6, <2>7, <2>8, <2>9, ScanTypeSplitNext DEF ScanIInv
<1>6. CASE target.enabled /\ ActiveRuns = {}
  <2> DEFINE new == [NewRun(NoRevision) EXCEPT !.rescan = TRUE]
  <2>1. rescan' = "PENDING" /\ Room /\ scan' = Inserted(scan, new)
    BY <1>6 DEF RequestRescan
  <2>2. new \in Run /\ new.status = "PENDING"
    BY NewRunType
  <2> HIDE DEF new
  <2>3. Cardinality(Inserters) < Cardinality(FreeScans) /\ FreeScans # {}
    BY <2>1, RoomMeans, ScansAreFinite, NonemptyFree
  <2>4. PICK i \in FreeScans :
            /\ i \in Scans /\ scan[i].status = "NONE"
            /\ scan' \in [Scans -> Run] /\ scan'[i] = new
            /\ \A j \in Scans \ {i} : scan'[j] = scan[j]
            /\ Cardinality(FreeScans') = Cardinality(FreeScans) - 1
    BY <2>1, <2>2, <2>3, ScanTypes, InsertedEffect
  <2>5. RoomIsKept'
    BY <1>2, <2>3, <2>4, ScansAreFinite DEF RoomIsKept
  <2>6. NobodyAsked' /\ RescanReportsItsRuns'
    BY <2>1 DEF NobodyAsked, RescanReportsItsRuns
  <2>7. ReadsAreHistory' /\ FreshMeansPublished'
    BY <1>1, <2>2, <2>4, HistoryStays
  <2>8. EndedStay
    BY <2>4, StatusSorts DEF EndedStay
  <2> QED BY <1>2, <1>3, <2>1, <2>4, <2>5, <2>6, <2>7, <2>8, ScanTypeSplitNext DEF ScanIInv
<1> QED BY <1>4, <1>5, <1>6, ScanTypes DEF ScanColumnsOK, TargetState

-----------------------------------------------------------------------------
(* The control loop.                                                       *)

LEMMA ScheduleReadsStep ==
    ASSUME ScanIInv, NEW w \in Scanners, ScheduleReads(w) PROVE ScanIInv' /\ RunsGoOn
<1> DEFINE new == [scanner[w] EXCEPT !.pc = "scheduling"]
<1>1. /\ scanner[w].pc = "out" /\ Room /\ scanner' = [scanner EXCEPT ![w] = new]
      /\ UNCHANGED <<head, hooks, connector, target, scan, published, latest, facts, fresh, rescan,
                     disturbances>>
  BY DEF ScheduleReads, PC, Becomes, github, snapshots
<1>2. new \in ScannerState /\ new.pc = "scheduling"
  BY ScanTypes DEF ScannerState
<1> HIDE DEF new
<1>3. /\ scanner' \in [Scanners -> ScannerState]
      /\ \A v \in Scanners : scanner'[v] = IF v = w THEN new ELSE scanner[v]
  BY <1>1, <1>2, ScanTypes
<1>4. Inserters' = Inserters \cup {w} /\ w \notin Inserters
  BY <1>1, <1>2, <1>3 DEF Inserters
<1>5. Cardinality(Inserters') = Cardinality(Inserters) + 1
  BY <1>4, ScansAreFinite, FS_AddElement
<1>6. scan' \in [Scans -> Run] /\ RunsGoOn /\ FreeScans' = FreeScans
  BY <1>1, NoRunSet
<1>7. RoomIsKept'
  <2>1. Cardinality(FreeScans') = Cardinality(FreeScans)
    BY <1>6
  <2> QED BY <1>1, <1>5, <2>1, RoomMeans, ScansAreFinite DEF RoomIsKept
<1>8. KnowsHistory(scanner[w])'
  BY <1>2, <1>3 DEF KnowsHistory
<1>9. /\ published \subseteq published' /\ latest' \in published' \cup {NoRevision}
      /\ fresh'.rev \in published' \cup {NoRevision}
  BY <1>1 DEF ScanIInv, ReadsAreHistory, FreshMeansPublished
<1>10. ScanColumnsOK'
  BY <1>1, ColumnsUnchanged
<1> QED BY <1>1, <1>3, <1>6, <1>7, <1>8, <1>9, <1>10, StepKeeps

LEMMA ScheduleInsertsStep ==
    ASSUME ScanIInv, NEW w \in Scanners, ScheduleInserts(w) PROVE ScanIInv' /\ RunsGoOn
<1>1. /\ scanner[w].pc = "scheduling" /\ scanner' = [scanner EXCEPT ![w] = Out]
      /\ UNCHANGED <<head, hooks, connector, target, published, latest, facts, fresh, rescan,
                     disturbances>>
      /\ scan' = IF DueTarget THEN Inserted(scan, NewRun(target.desired)) ELSE scan
  BY DEF ScheduleInserts, PC, Leaves, github, snapshots
<1>2. /\ scanner' \in [Scanners -> ScannerState]
      /\ \A v \in Scanners : scanner'[v] = IF v = w THEN Out ELSE scanner[v]
  BY <1>1, OutType, ScanTypes
<1>3. Inserters' = Inserters \ {w} /\ w \in Inserters
  BY <1>1, <1>2, OutType DEF Inserters
<1>4. Cardinality(Inserters') = Cardinality(Inserters) - 1
  BY <1>3, ScansAreFinite, FS_RemoveElement
<1>5. /\ scan' \in [Scans -> Run] /\ RunsGoOn
      /\ Cardinality(FreeScans') >= Cardinality(FreeScans) - 1
  <2>1. CASE ~DueTarget
    <3>1. scan' \in [Scans -> Run] /\ RunsGoOn /\ FreeScans' = FreeScans
      BY <1>1, <2>1, NoRunSet
    <3> QED BY <3>1, ScansAreFinite
  <2>2. CASE DueTarget
    <3>1. FreeScans # {}
      BY <1>4, NonemptyFree, ScansAreFinite DEF ScanIInv, RoomIsKept
    <3>2. target.desired \in Revisions \cup {NoRevision}
      BY ScanTypes DEF ScanColumnsOK, TargetState
    <3>3. /\ NewRun(target.desired) \in Run /\ NewRun(target.desired).status = "PENDING"
          /\ ~NewRun(target.desired).rescan
      BY <3>2, NewRunType
    <3>4. PICK i \in FreeScans :
              /\ i \in Scans /\ scan[i].status = "NONE"
              /\ scan' \in [Scans -> Run] /\ scan'[i] = NewRun(target.desired)
              /\ \A j \in Scans \ {i} : scan'[j] = scan[j]
              /\ Cardinality(FreeScans') = Cardinality(FreeScans) - 1
      BY <1>1, <2>2, <3>1, <3>3, ScanTypes, InsertedEffect
    <3>5. RunsGoOn
      BY <3>3, <3>4, StatusSorts DEF RunsGoOn, RunGoesOn
    <3> QED BY <3>4, <3>5, ScansAreFinite
  <2> QED BY <2>1, <2>2
<1>6. RoomIsKept'
  BY <1>4, <1>5, ScansAreFinite DEF ScanIInv, RoomIsKept
<1>7. KnowsHistory(scanner[w])'
  BY <1>2, OutType DEF KnowsHistory
<1>8. /\ published \subseteq published' /\ latest' \in published' \cup {NoRevision}
      /\ fresh'.rev \in published' \cup {NoRevision}
  BY <1>1 DEF ScanIInv, ReadsAreHistory, FreshMeansPublished
<1>9. ScanColumnsOK'
  BY <1>1, ColumnsUnchanged
<1> QED BY <1>1, <1>2, <1>5, <1>6, <1>7, <1>8, <1>9, StepKeeps

\* A scanner at work has what it read, and its run.
LEMMA ScannerFacts ==
    ASSUME ScanIInv, NEW w \in Scanners
    PROVE  /\ scanner[w] \in ScannerState
           /\ scanner[w].pc \notin {"out", "scheduling"} =>
                  /\ scanner[w].scan \in Rows /\ scanner[w].scan \in Scans
                  /\ scan[scanner[w].scan].status # "NONE" /\ scan[scanner[w].scan] \in Run
           /\ scanner[w].pc = "claimed" => scanner[w].rev \in published \cup {NoRevision}
           /\ scanner[w].pc \in {"unchanged", "replayed", "published"} => scanner[w].rev \in published
           /\ scanner[w].pc \in {"acquired", "scanned"} => scanner[w].rev \in Revisions
<1>1. KnowsHistory(scanner[w]) /\ scanner[w] \in ScannerState
  BY ScanTypes DEF ScanIInv, ReadsAreHistory
<1> QED BY <1>1, ScanTypes DEF KnowsHistory, Rows

LEMMA HistoryUnchanged ==
    ASSUME ScanIInv, UNCHANGED <<published, latest, fresh>>
    PROVE  /\ published \subseteq published' /\ latest' \in published' \cup {NoRevision}
           /\ fresh'.rev \in published' \cup {NoRevision}
BY DEF ScanIInv, ReadsAreHistory, FreshMeansPublished

LEMMA ClaimRunStep ==
    ASSUME ScanIInv, NEW w \in Scanners, NEW i \in Scans, ClaimRun(w, i) PROVE ScanIInv' /\ RunsGoOn
<1> DEFINE new == [pc |-> "claimed", scan |-> i, rev |-> latest, scheduled |-> target.scheduled]
           held == [scan[i] EXCEPT !.status = "RUNNING", !.holder = w,
                        !.attempt = IF Expired(i) THEN scan[i].attempt + 1 ELSE scan[i].attempt]
<1>1. /\ i \in Rows /\ Claimable(i)
      /\ scanner' = [scanner EXCEPT ![w] = new] /\ scan' = [scan EXCEPT ![i] = held]
      /\ UNCHANGED <<head, hooks, connector, target, published, latest, facts, fresh, rescan,
                     disturbances>>
  BY DEF ClaimRun, github, snapshots
<1>2. /\ new \in ScannerState /\ new.pc = "claimed" /\ new.scan = i
      /\ new.rev \in published \cup {NoRevision}
  BY ScanTypes DEF ScanColumnsOK, TargetState, ScannerState, ScanIInv, ReadsAreHistory
<1>3. scan[i] \in Run /\ scan[i].status \in Active
  BY <1>1, ScanTypes, StatusSorts DEF Claimable, Expired
<1>4. (IF Expired(i) THEN scan[i].attempt + 1 ELSE scan[i].attempt) \in 1 .. MaxScanAttempts
  <2>1. scan[i].attempt \in 1 .. MaxScanAttempts
    BY <1>3 DEF Run
  <2>2. Expired(i) => scan[i].attempt < MaxScanAttempts
    BY <1>1 DEF Claimable, Expired
  <2> QED BY <2>1, <2>2, ScanTypes
<1>5. held \in Run /\ held.status = "RUNNING" /\ held.rescan = scan[i].rescan
  BY <1>3, <1>4, StatusSorts DEF Run
<1> HIDE DEF new, held
<1>6. scan' \in [Scans -> Run] /\ RunsGoOn /\ FreeScans' = FreeScans
  BY <1>1, <1>3, <1>5, StatusSorts, RunSet DEF Rows
<1>7. ScanColumnsOK'
  BY <1>1, ColumnsUnchanged
<1>8. /\ published \subseteq published' /\ latest' \in published' \cup {NoRevision}
      /\ fresh'.rev \in published' \cup {NoRevision}
  BY <1>1, HistoryUnchanged
<1> QED BY <1>1, <1>2, <1>6, <1>7, <1>8, WorkerStep

\* A scanner goes on, or leaves, and nothing else happens.
LEMMA ScannerMoves ==
    ASSUME ScanIInv, NEW w \in Scanners, NEW new \in ScannerState, new.pc # "scheduling",
           scanner' = [scanner EXCEPT ![w] = new],
           UNCHANGED <<head, hooks, connector, target, scan, published, latest, facts, fresh, rescan,
                       disturbances>>,
           new.pc # "out" =>
               /\ new.scan \in Rows
               /\ new.pc = "claimed" => new.rev \in published \cup {NoRevision}
               /\ new.pc \in {"unchanged", "replayed", "published"} => new.rev \in published
               /\ new.pc \in {"acquired", "scanned"} => new.rev \in Revisions
    PROVE  ScanIInv' /\ RunsGoOn
<1>1. scan' \in [Scans -> Run] /\ RunsGoOn /\ FreeScans' = FreeScans
  BY NoRunSet
<1>2. ScanColumnsOK'
  BY ColumnsUnchanged
<1>3. /\ published \subseteq published' /\ latest' \in published' \cup {NoRevision}
      /\ fresh'.rev \in published' \cup {NoRevision}
  BY HistoryUnchanged
<1> QED BY <1>1, <1>2, <1>3, WorkerStep

LEMMA AcquireStep ==
    ASSUME ScanIInv, NEW w \in Scanners, Acquire(w) PROVE ScanIInv' /\ RunsGoOn
<1>1. /\ scanner[w].pc = "claimed"
      /\ UNCHANGED <<head, hooks, connector, target, scan, published, latest, facts, fresh, rescan,
                     disturbances>>
  BY DEF Acquire, PC, github, snapshots
<1>2. CASE HoldsScan(w)
  <2> DEFINE new == [scanner[w] EXCEPT !.rev = head,
                        !.pc = IF head = scanner[w].rev THEN "unchanged" ELSE "acquired"]
  <2>1. scanner' = [scanner EXCEPT ![w] = new]
    BY <1>2 DEF Acquire
  <2>2. /\ new \in ScannerState /\ new.scan = scanner[w].scan /\ new.rev = head /\ head \in Revisions
        /\ \/ new.pc = "unchanged" /\ head = scanner[w].rev
           \/ new.pc = "acquired"
    BY ScanTypes DEF ScannerState, ScanColumnsOK
  <2> HIDE DEF new
  <2>3. new.pc = "unchanged" => new.rev \in published
    <3>1. head # NoRevision
      BY <2>2, ScanAssumption DEF Revisions, NoRevision
    <3> QED BY <1>1, <2>2, <3>1, ScannerFacts
  <2>4. new.scan \in Rows
    BY <1>1, <2>2, ScannerFacts
  <2> QED BY <1>1, <2>1, <2>2, <2>3, <2>4, ScannerMoves
<1>3. CASE ~HoldsScan(w)
  BY <1>1, <1>3, OutType, ScannerMoves DEF Acquire, Leaves
<1> QED BY <1>2, <1>3

LEMMA ScanRepositoryStep ==
    ASSUME ScanIInv, NEW w \in Scanners, ScanRepository(w) PROVE ScanIInv' /\ RunsGoOn
<1>1. /\ scanner[w].pc = "acquired"
      /\ UNCHANGED <<head, hooks, connector, target, scan, published, latest, facts, fresh, rescan,
                     disturbances>>
  BY DEF ScanRepository, PC, github, snapshots
<1>2. CASE HoldsScan(w)
  <2> DEFINE new == [scanner[w] EXCEPT !.pc = "scanned"]
  <2>1. scanner' = [scanner EXCEPT ![w] = new]
    BY <1>2 DEF ScanRepository, Becomes
  <2>2. /\ new \in ScannerState /\ new.scan = scanner[w].scan /\ new.rev = scanner[w].rev
        /\ new.pc = "scanned"
    BY ScanTypes DEF ScannerState
  <2> HIDE DEF new
  <2> QED BY <1>1, <2>1, <2>2, ScannerFacts, ScannerMoves
<1>3. CASE ~HoldsScan(w)
  BY <1>1, <1>3, OutType, ScannerMoves DEF ScanRepository, Leaves
<1> QED BY <1>2, <1>3

LEMMA PublishStep ==
    ASSUME ScanIInv, NEW w \in Scanners, Publish(w) PROVE ScanIInv' /\ RunsGoOn
<1> DEFINE r == scanner[w].rev
           i == scanner[w].scan
           status == IF r \in Oversized THEN "PARTIAL" ELSE "SUCCEEDED"
           new == [scanner[w] EXCEPT !.pc = IF r \in published THEN "replayed" ELSE "published"]
           ended == Closed(scan[i], status)
<1>1. /\ scanner[w].pc = "scanned" /\ scanner' = [scanner EXCEPT ![w] = new]
      /\ UNCHANGED <<head, hooks, connector, fresh, rescan, disturbances>>
  BY DEF Publish, PC, Becomes, github
<1>2. /\ i \in Rows /\ i \in Scans /\ scan[i].status # "NONE" /\ scan[i] \in Run /\ r \in Revisions
  BY <1>1, ScannerFacts
<1>3. /\ new \in ScannerState /\ new.scan = i /\ new.rev = r
      /\ new.pc = IF r \in published THEN "replayed" ELSE "published"
  BY ScanTypes DEF ScannerState
<1> HIDE DEF new
<1>4. CASE r \in published
  <2>1. UNCHANGED <<scan, target, published, latest, facts>>
    BY <1>4 DEF Publish, snapshots
  <2> QED BY <1>1, <1>2, <1>3, <1>4, <2>1, ScannerMoves
<1>5. CASE r \notin published
  <2>1. /\ published' = published \cup {r} /\ latest' = r
        /\ facts' = IF r \in Oversized THEN facts \cup {r} ELSE {r}
        /\ scan' = [scan EXCEPT ![i] = ended]
        /\ target' = [target EXCEPT !.due = "later"]
    BY <1>5 DEF Publish
  <2>2. ended \in Run /\ ended.status = status /\ ended.rescan = scan[i].rescan
    BY <1>2, StatusSorts, ClosedType
  <2>3. status \in EndedWell /\ ended.status # "NONE"
    BY <2>2, StatusSorts
  <2> HIDE DEF ended, status
  <2>4. published' # published
    BY <1>5, <2>1
  <2>5. scan' \in [Scans -> Run] /\ RunsGoOn /\ FreeScans' = FreeScans
    BY <1>2, <2>1, <2>2, <2>3, <2>4, RunSet
  <2>6. ScanColumnsOK'
    <3>1. target' \in TargetState
      BY <2>1, ScanTypes DEF ScanColumnsOK, TargetState
    <3>2. /\ published' \subseteq Revisions /\ latest' \in Revisions \cup {NoRevision}
          /\ facts' \subseteq published'
      BY <1>2, <2>1, ScanTypes DEF ScanColumnsOK
    <3> QED BY <1>1, <3>1, <3>2, ScanTypes DEF ScanColumnsOK
  <2>7. /\ published \subseteq published' /\ latest' \in published' \cup {NoRevision}
        /\ fresh'.rev \in published' \cup {NoRevision}
    BY <1>1, <2>1 DEF ScanIInv, FreshMeansPublished
  <2>8. new.pc = "published" /\ new.rev \in published'
    BY <1>3, <1>5, <2>1
  <2> QED BY <1>1, <1>2, <1>3, <2>5, <2>6, <2>7, <2>8, WorkerStep
<1> QED BY <1>4, <1>5

LEMMA MarkedEffect ==
    ASSUME ScanIInv, NEW w \in Scanners, scanner[w].rev \in published, Marked(w)
    PROVE  target' \in TargetState /\ fresh' \in Freshness /\ fresh'.rev \in published
<1>1. /\ fresh' = [status |-> "FRESH", rev |-> scanner[w].rev]
      /\ target' = [target EXCEPT !.desired = scanner[w].rev, !.due = NextDue(w)]
  BY DEF Marked, MarkedRevision
<1>2. /\ scanner[w].rev \in Revisions /\ NextDue(w) \in {"later", "never"} /\ target \in TargetState
  BY ScanTypes DEF NextDue, ScanColumnsOK
<1> QED BY <1>1, <1>2 DEF TargetState, Freshness

LEMMA MarkFreshStep ==
    ASSUME ScanIInv, NEW w \in Scanners, MarkFresh(w) PROVE ScanIInv' /\ RunsGoOn
<1>1. /\ scanner[w].pc = "published" /\ Marked(w) /\ scanner' = [scanner EXCEPT ![w] = Out]
      /\ UNCHANGED <<head, hooks, connector, scan, published, latest, facts, rescan, disturbances>>
  BY DEF MarkFresh, PC, Leaves, github, snapshots
<1>2. target' \in TargetState /\ fresh' \in Freshness /\ fresh'.rev \in published
  BY <1>1, ScannerFacts, MarkedEffect
<1>3. ScanColumnsOK'
  BY <1>1, <1>2, ScanTypes DEF ScanColumnsOK
<1>4. scan' \in [Scans -> Run] /\ RunsGoOn /\ FreeScans' = FreeScans
  BY <1>1, NoRunSet
<1>5. published \subseteq published' /\ latest' \in published' \cup {NoRevision}
  BY <1>1 DEF ScanIInv, ReadsAreHistory
<1> QED BY <1>1, <1>2, <1>3, <1>4, <1>5, OutType, WorkerStep

LEMMA CompleteRunStep ==
    ASSUME ScanIInv, NEW w \in Scanners, CompleteRun(w) PROVE ScanIInv' /\ RunsGoOn
<1> DEFINE i == scanner[w].scan
           ended == Closed(scan[i], "SUCCEEDED")
<1>1. /\ scanner[w].pc \in {"unchanged", "replayed"} /\ scanner' = [scanner EXCEPT ![w] = Out]
      /\ UNCHANGED <<head, hooks, connector, published, latest, facts, rescan, disturbances>>
  BY DEF CompleteRun, PC, Leaves, github, snapshots
<1>2. CASE ~HoldsScan(w)
  BY <1>1, <1>2, OutType, ScannerMoves DEF CompleteRun
<1>3. CASE HoldsScan(w)
  <2>1. scan' = [scan EXCEPT ![i] = ended] /\ Marked(w)
    BY <1>3 DEF CompleteRun
  <2>2. /\ i \in Scans /\ scan[i] \in Run /\ scanner[w].rev \in published /\ scan[i].status = "RUNNING"
    BY <1>1, <1>3, ScannerFacts DEF HoldsScan
  <2>3. ended \in Run /\ ended.status = "SUCCEEDED" /\ ended.rescan = scan[i].rescan
    BY <2>2, StatusSorts, ClosedType
  <2> HIDE DEF ended
  <2>4. scan' \in [Scans -> Run] /\ RunsGoOn /\ FreeScans' = FreeScans
    BY <2>1, <2>2, <2>3, StatusSorts, RunSet
  <2>5. target' \in TargetState /\ fresh' \in Freshness /\ fresh'.rev \in published
    BY <2>1, <2>2, MarkedEffect
  <2>6. ScanColumnsOK'
    BY <1>1, <2>5, ScanTypes DEF ScanColumnsOK
  <2>7. published \subseteq published' /\ latest' \in published' \cup {NoRevision}
    BY <1>1 DEF ScanIInv, ReadsAreHistory
  <2> QED BY <1>1, <2>4, <2>5, <2>6, <2>7, OutType, WorkerStep
<1> QED BY <1>2, <1>3

LEMMA FailRunStep ==
    ASSUME ScanIInv, NEW w \in Scanners, NEW retryable \in BOOLEAN, FailRun(w, retryable)
    PROVE  ScanIInv' /\ RunsGoOn
<1> DEFINE i == scanner[w].scan
           terminal == ~retryable \/ scan[i].attempt >= MaxScanAttempts
           closed == Closed(scan[i], IF terminal THEN "FAILED" ELSE "PENDING")
           new == [closed EXCEPT !.attempt = IF terminal THEN 1 ELSE scan[i].attempt + 1]
<1>1. /\ scanner[w].pc \notin {"out", "scheduling"} /\ scanner' = [scanner EXCEPT ![w] = Out]
      /\ UNCHANGED <<head, hooks, connector, published, latest, facts, rescan, disturbances>>
  BY DEF FailRun, Leaves, github, snapshots
<1>2. CASE ~HoldsScan(w)
  BY <1>1, <1>2, OutType, ScannerMoves DEF FailRun
<1>3. CASE HoldsScan(w)
  <2>1. /\ scan' = [scan EXCEPT ![i] = new]
        /\ fresh' = [fresh EXCEPT !.status = "ERROR"]
        /\ target' = IF terminal THEN [target EXCEPT !.due = NextDue(w)] ELSE target
    BY <1>3 DEF FailRun
  <2>2. i \in Scans /\ scan[i] \in Run /\ scan[i].status = "RUNNING"
    BY <1>1, <1>3, ScannerFacts DEF HoldsScan
  <2>3. /\ closed \in Run /\ closed.status \in {"FAILED", "PENDING"} /\ closed.rescan = scan[i].rescan
    BY <2>2, StatusSorts, ClosedType
  <2>4. (IF terminal THEN 1 ELSE scan[i].attempt + 1) \in 1 .. MaxScanAttempts
    <3>1. scan[i].attempt \in 1 .. MaxScanAttempts
      BY <2>2 DEF Run
    <3> QED BY <3>1, ScanTypes
  <2> HIDE DEF closed, terminal
  <2>5. new \in Run /\ new.status \in {"FAILED", "PENDING"} /\ new.rescan = scan[i].rescan
    BY <2>3, <2>4 DEF Run
  <2> HIDE DEF new
  <2>6. scan' \in [Scans -> Run] /\ RunsGoOn /\ FreeScans' = FreeScans
    BY <2>1, <2>2, <2>5, StatusSorts, RunSet
  <2>7. target' \in TargetState /\ fresh' \in Freshness /\ fresh'.rev = fresh.rev
    BY <2>1, ScanTypes DEF ScanColumnsOK, TargetState, Freshness, NextDue
  <2>8. ScanColumnsOK'
    BY <1>1, <2>7, ScanTypes DEF ScanColumnsOK
  <2>9. /\ published \subseteq published' /\ latest' \in published' \cup {NoRevision}
        /\ fresh'.rev \in published' \cup {NoRevision}
    BY <1>1, <2>7 DEF ScanIInv, ReadsAreHistory, FreshMeansPublished
  <2> QED BY <1>1, <2>6, <2>8, <2>9, OutType, WorkerStep
<1> QED BY <1>2, <1>3

LEMMA FailExhaustedStep ==
    ASSUME ScanIInv, NEW i \in Scans, FailExhausted(i) PROVE ScanIInv' /\ RunsGoOn
<1> DEFINE ended == Closed(scan[i], "FAILED")
<1>1. /\ Expired(i) /\ scan' = [scan EXCEPT ![i] = ended]
      /\ target' = [target EXCEPT !.due = IF target.scheduled THEN "later" ELSE "never"]
      /\ UNCHANGED <<head, hooks, connector, scanner, snapshots, fresh, rescan, disturbances>>
  BY DEF FailExhausted, github
<1>2. scan[i] \in Run /\ scan[i].status = "RUNNING"
  BY <1>1, ScanTypes DEF Expired
<1>3. ended \in Run /\ ended.status = "FAILED" /\ ended.rescan = scan[i].rescan
  BY <1>2, StatusSorts, ClosedType
<1> HIDE DEF ended
<1>4. scan' \in [Scans -> Run] /\ RunsGoOn /\ FreeScans' = FreeScans
  BY <1>1, <1>2, <1>3, StatusSorts, RunSet
<1>5. target' \in TargetState
  BY <1>1, ScanTypes DEF ScanColumnsOK, TargetState
<1>6. ScanColumnsOK'
  BY <1>1, <1>5, ScanTypes DEF ScanColumnsOK, snapshots
<1> QED BY <1>1, <1>4, <1>6, RunsStep

LEMMA ScannerCrashStep ==
    ASSUME ScanIInv, NEW w \in Scanners, ScannerCrash(w) PROVE ScanIInv' /\ RunsGoOn
<1>1. /\ Disturbance /\ scanner' = [scanner EXCEPT ![w] = Out]
      /\ UNCHANGED <<head, hooks, connector, target, scan, published, latest, facts, fresh, rescan>>
  BY DEF ScannerCrash, Leaves, github, snapshots
<1>2. scan' \in [Scans -> Run] /\ RunsGoOn /\ FreeScans' = FreeScans
  BY <1>1, NoRunSet
<1>3. ScanColumnsOK'
  BY <1>1, ScanTypes, DisturbanceCounts DEF ScanColumnsOK
<1>4. /\ published \subseteq published' /\ latest' \in published' \cup {NoRevision}
      /\ fresh'.rev \in published' \cup {NoRevision}
  BY <1>1, HistoryUnchanged
<1> QED BY <1>1, <1>2, <1>3, <1>4, OutType, WorkerStep

LEMMA ScanLeaseExpiresStep ==
    ASSUME ScanIInv, NEW i \in Scans, ScanLeaseExpires(i) PROVE ScanIInv' /\ RunsGoOn
<1> DEFINE new == [scan[i] EXCEPT !.holder = NoScanner]
<1>1. /\ Disturbance \/ UNCHANGED disturbances
      /\ scan' = [scan EXCEPT ![i] = new]
      /\ UNCHANGED <<head, hooks, connector, target, scanner, snapshots, fresh, rescan>>
  BY DEF ScanLeaseExpires, github
<1>2. scan[i] \in Run /\ scan[i].status # "NONE"
  BY ScanTypes DEF ScanLeaseExpires, Rows
<1>3. new \in Run /\ new.status = scan[i].status /\ new.rescan = scan[i].rescan
  BY <1>2 DEF Run
<1> HIDE DEF new
<1>4. scan' \in [Scans -> Run] /\ RunsGoOn /\ FreeScans' = FreeScans
  BY <1>1, <1>2, <1>3, RunSet
<1>5. ScanColumnsOK'
  BY <1>1, ScanTypes, DisturbanceCounts DEF ScanColumnsOK, snapshots
<1> QED BY <1>1, <1>4, <1>5, RunsStep

-----------------------------------------------------------------------------
LEMMA ScanInitHolds == ASSUME ScanInit PROVE ScanIInv
<1>1. /\ scan = [i \in Scans |-> NoRun] /\ scanner = [w \in Scanners |-> Out]
      /\ latest = NoRevision /\ fresh.rev = NoRevision /\ rescan = "NONE"
  BY DEF ScanInit
<1>2. NoRun \in Run /\ NoRun.status = "NONE"
  BY ScanAssumption DEF NoRun, Run
<1>3. Rows = {} /\ Inserters = {} /\ Linked = {}
  BY <1>1, <1>2, OutType DEF Rows, Inserters, Linked
<1>4. ScansTypeOK
  <2>1. scan \in [Scans -> Run] /\ scanner \in [Scanners -> ScannerState]
    BY <1>1, <1>2, OutType
  <2>2. ScanColumnsOK
    <3>1. /\ head = 1 /\ hooks = {} /\ connector = "ACTIVE"
          /\ target = [enabled |-> TRUE, scheduled |-> TRUE, due |-> "now", desired |-> NoRevision]
          /\ published = {} /\ latest = NoRevision /\ facts = {}
          /\ fresh = [status |-> "NONE", rev |-> NoRevision]
          /\ rescan = "NONE" /\ disturbances = 0
      BY DEF ScanInit
    <3>2. 1 \in Revisions /\ 0 \in 0 .. MaxDisturbances
      BY ScanAssumption DEF Revisions
    <3>3. target \in TargetState /\ fresh \in Freshness
      BY <3>1 DEF TargetState, Freshness
    <3> QED BY <3>1, <3>2, <3>3 DEF ScanColumnsOK
  <2> QED BY <2>1, <2>2, ScanTypeSplit
<1>5. ReadsAreHistory
  BY <1>1, OutType DEF ReadsAreHistory, KnowsHistory
<1>6. RoomIsKept
  BY <1>3, FS_EmptySet, ScansAreFinite DEF RoomIsKept
<1> QED BY <1>1, <1>3, <1>4, <1>5, <1>6
        DEF ScanIInv, FreshMeansPublished, NobodyAsked, RescanReportsItsRuns

LEMMA GoOnStay == ASSUME RunsGoOn PROVE EndedStay
BY DEF RunsGoOn, RunGoesOn, EndedStay

LEMMA ScanStep == ASSUME ScanIInv, ScanNext PROVE ScanIInv' /\ EndedStay
<1>1. ASSUME NEW r \in Revisions, Push(r) \/ RoutePush(r) PROVE ScanIInv' /\ EndedStay
  BY <1>1, PushStep, RoutePushStep, GoOnStay
<1>2. ASSUME NEW status \in {"DISABLED", "REVOKED"}, Disconnect(status) PROVE ScanIInv' /\ EndedStay
  BY <1>2, DisconnectStep, GoOnStay
<1>3. CASE Unsuspend \/ RollUp \/ CadenceElapses
  BY <1>3, UnsuspendStep, RollUpStep, CadenceStep, GoOnStay
<1>4. ASSUME NEW yes \in BOOLEAN, Reconcile(yes) \/ SetPolicy(yes) PROVE ScanIInv' /\ EndedStay
  BY <1>4, ReconcileStep, PolicyStep, GoOnStay
<1>5. CASE RequestRescan
  BY <1>5, RequestRescanStep
<1>6. ASSUME NEW w \in Scanners, ScheduleReads(w) \/ ScannerCrash(w) PROVE ScanIInv' /\ EndedStay
  BY <1>6, ScheduleReadsStep, ScannerCrashStep, GoOnStay
<1>7. ASSUME NEW w \in Scanners, ScanWork(w) PROVE ScanIInv' /\ EndedStay
  <2>1. CASE ScheduleInserts(w)
    BY <2>1, ScheduleInsertsStep, GoOnStay
  <2>2. CASE Acquire(w) \/ ScanRepository(w)
    BY <2>2, AcquireStep, ScanRepositoryStep, GoOnStay
  <2>3. CASE Publish(w)
    BY <2>3, PublishStep, GoOnStay
  <2>4. CASE MarkFresh(w) \/ CompleteRun(w)
    BY <2>4, MarkFreshStep, CompleteRunStep, GoOnStay
  <2> QED BY <1>7, <2>1, <2>2, <2>3, <2>4 DEF ScanWork
<1>8. ASSUME NEW w \in Scanners, NEW i \in Scans, ClaimRun(w, i) PROVE ScanIInv' /\ EndedStay
  BY <1>8, ClaimRunStep, GoOnStay
<1>9. ASSUME NEW w \in Scanners, NEW retryable \in BOOLEAN, FailRun(w, retryable)
      PROVE  ScanIInv' /\ EndedStay
  BY <1>9, FailRunStep, GoOnStay
<1>10. ASSUME NEW i \in Scans, FailExhausted(i) \/ ScanLeaseExpires(i) PROVE ScanIInv' /\ EndedStay
  BY <1>10, FailExhaustedStep, ScanLeaseExpiresStep, GoOnStay
<1> QED BY <1>1, <1>2, <1>3, <1>4, <1>5, <1>6, <1>7, <1>8, <1>9, <1>10 DEF ScanNext

LEMMA ScanStutter == ASSUME ScanIInv, UNCHANGED scanVars PROVE ScanIInv'
<1>1. UNCHANGED <<head, hooks, connector, target, scan, scanner, published, latest, facts, fresh, rescan,
                  disturbances>>
  BY DEF scanVars, github, snapshots
<1>2. ScanColumnsOK'
  BY <1>1, ColumnsUnchanged
<1>3. scan' \in [Scans -> Run] /\ RunsGoOn /\ FreeScans' = FreeScans
  BY <1>1, NoRunSet
<1> QED BY <1>1, <1>2, <1>3, RunsStep DEF snapshots

\* The inductive invariant of the control loop: what scanners remember of runs, snapshots and
\* revisions stays true (github_control_loop.py, github_webhook_store.py).
THEOREM ScanInvariance == ScanSpec => []ScanIInv
<1>1. ScanIInv /\ [ScanNext]_scanVars => ScanIInv'
  BY ScanStep, ScanStutter
<1> QED BY <1>1, ScanInitHolds, PTL DEF ScanSpec

\* The columns stay within their types; an attempt is never past MAX_ATTEMPTS, whoever claims,
\* fails or takes over the run (github_control_loop.py).
THEOREM ScansAreTyped == ScanSpec => []ScansTypeOK
<1>1. ScanIInv => ScansTypeOK
  BY DEF ScanIInv
<1> QED BY <1>1, ScanInvariance, PTL

\* The revision called fresh has been published, although _mark_target_fresh and _complete_run
\* look neither at the branch nor at the snapshots.
THEOREM FreshIsPublished == ScanSpec => []FreshMeansPublished
<1>1. ScanIInv => FreshMeansPublished
  BY DEF ScanIInv
<1> QED BY <1>1, ScanInvariance, PTL

\* A rescan reported as successful has all its runs ended well, and they stay so: nothing that
\* ends, cancels or publishes a run later takes the report back.
THEOREM RescansReportTheirRuns == ScanSpec => []RescanReportsItsRuns
<1>1. ScanIInv => RescanReportsItsRuns
  BY DEF ScanIInv
<1> QED BY <1>1, ScanInvariance, PTL

\* Whatever a scanner that lost its lease does, a run that has ended stays as it ended, unless
\* its snapshot is published late.
THEOREM EndedScansAreFinal == ScanSpec => EndedScansStayEnded
<1>1. ScanIInv /\ [ScanNext]_scanVars =>
        [\A i \in Scans : scan[i].status \in Ended =>
           \/ scan'[i].status = scan[i].status
           \/ scan'[i].status \in EndedWell /\ published' # published]_scanVars
  BY ScanStep DEF EndedStay
<1> QED BY <1>1, ScanInvariance, PTL DEF ScanSpec, EndedScansStayEnded

-----------------------------------------------------------------------------
(* The schedule.                                                           *)

LEMMA PolicyStutter ==
    ASSUME PolicyIInv, UNCHANGED <<target, scanner>> PROVE PolicyIInv'
BY DEF PolicyIInv, PolicyIsKnown, ScheduledTargetsAreDue, Idle

LEMMA TargetRoused ==
    ASSUME PolicyIInv, UNCHANGED scanner, target'.scheduled = target.scheduled,
           target'.enabled /\ target.scheduled => target'.due # "never"
    PROVE  PolicyIInv'
BY DEF PolicyIInv, PolicyIsKnown, ScheduledTargetsAreDue, Idle

\* A scanner that comes to rest, or schedules
LEMMA ScannerRests ==
    ASSUME ScanIInv, PolicyIInv, NEW w \in Scanners, NEW new,
           scanner' = [scanner EXCEPT ![w] = new], new.pc \in {"out", "scheduling"},
           target'.scheduled = target.scheduled,
           target'.enabled /\ target.scheduled => target'.due # "never"
    PROVE  PolicyIInv'
<1>1. \A v \in Scanners : scanner'[v] = IF v = w THEN new ELSE scanner[v]
  BY ScanTypes
<1> QED BY <1>1 DEF PolicyIInv, PolicyIsKnown, ScheduledTargetsAreDue, Idle

LEMMA ScannerWorks ==
    ASSUME ScanIInv, PolicyIInv, NEW w \in Scanners, NEW new,
           scanner' = [scanner EXCEPT ![w] = new], new.scheduled = target.scheduled,
           target'.scheduled = target.scheduled,
           target'.enabled /\ target.scheduled => target'.due # "never"
    PROVE  PolicyIInv'
<1>1. \A v \in Scanners : scanner'[v] = IF v = w THEN new ELSE scanner[v]
  BY ScanTypes
<1> QED BY <1>1 DEF PolicyIInv, PolicyIsKnown, ScheduledTargetsAreDue, Idle

LEMMA NextDueOfPolicy ==
    ASSUME PolicyIInv, NEW w \in Scanners, ~Idle(w), target.scheduled PROVE NextDue(w) = "later"
BY DEF PolicyIInv, PolicyIsKnown, NextDue

LEMMA PolicyStepHolds ==
    ASSUME ScanIInv, PolicyIInv, ScanNext, "policy" \notin ScanAdversity PROVE PolicyIInv'
<1>0. /\ target \in TargetState /\ \A w \in Scanners : scanner[w] \in ScannerState
      /\ target.enabled /\ target.scheduled => target.due # "never"
  BY ScanTypes DEF ScanColumnsOK, PolicyIInv, ScheduledTargetsAreDue
<1> USE <1>0 DEF TargetState
<1>1. CASE UNCHANGED <<target, scanner>>
  BY <1>1, PolicyStutter
<1>2. ASSUME NEW r \in Revisions, RoutePush(r) PROVE PolicyIInv'
  <2>1. /\ scanner' = scanner
        /\ target' = target \/ target' = [MadeDue(target) EXCEPT !.desired = r]
    BY <1>2 DEF RoutePush
  <2> QED BY <2>1, TargetRoused DEF MadeDue
<1>3. ASSUME NEW status \in {"DISABLED", "REVOKED"}, Disconnect(status) PROVE PolicyIInv'
  <2>1. scanner' = scanner /\ (target' = target \/ target' = Disabled(target))
    BY <1>3 DEF Disconnect
  <2> QED BY <2>1, TargetRoused DEF Disabled
<1>4. ASSUME NEW yes \in BOOLEAN, Reconcile(yes) PROVE PolicyIInv'
  <2>1. /\ scanner' = scanner
        /\ target' = target \/ target' = Disabled(target) \/ target' = MadeDue(target)
    BY <1>4 DEF Reconcile
  <2> QED BY <2>1, TargetRoused DEF Disabled, MadeDue
<1>5. ASSUME NEW on \in BOOLEAN, SetPolicy(on) PROVE PolicyIInv'
  <2>1. /\ Quiet /\ scanner' = scanner
        /\ target' = [target EXCEPT !.scheduled = on,
                         !.due = IF ~on THEN "never" ELSE IF target.due = "never" THEN "now" ELSE target.due]
    BY <1>5 DEF SetPolicy
  <2>2. \A w \in Scanners : Idle(w)
    BY <2>1 DEF Quiet, Idle
  <2>3. target'.scheduled = on /\ (on => target'.due # "never")
    BY <2>1
  <2> QED BY <2>1, <2>2, <2>3 DEF PolicyIInv, PolicyIsKnown, ScheduledTargetsAreDue, Idle
<1>6. CASE CadenceElapses
  <2>1. scanner' = scanner /\ target' = [target EXCEPT !.due = "now"]
    BY <1>6 DEF CadenceElapses
  <2> QED BY <2>1, TargetRoused
<1>7. ASSUME NEW w \in Scanners, ScheduleReads(w) PROVE PolicyIInv'
  <2> DEFINE new == [scanner[w] EXCEPT !.pc = "scheduling"]
  <2>1. target' = target /\ scanner' = [scanner EXCEPT ![w] = new]
    BY <1>7 DEF ScheduleReads, Becomes
  <2>2. new.pc = "scheduling"
    BY DEF ScannerState
  <2> QED BY <2>1, <2>2, ScannerRests
<1>8. ASSUME NEW w \in Scanners, ScheduleInserts(w) \/ ScannerCrash(w) PROVE PolicyIInv'
  BY <1>8, OutType, ScannerRests DEF ScheduleInserts, ScannerCrash, Leaves
<1>9. ASSUME NEW w \in Scanners, NEW i \in Scans, ClaimRun(w, i) PROVE PolicyIInv'
  <2> DEFINE new == [pc |-> "claimed", scan |-> i, rev |-> latest, scheduled |-> target.scheduled]
  <2>1. target' = target /\ scanner' = [scanner EXCEPT ![w] = new]
    BY <1>9 DEF ClaimRun
  <2>2. new.scheduled = target.scheduled
    OBVIOUS
  <2> HIDE DEF new
  <2> QED BY <2>1, <2>2, ScannerWorks
<1>10. ASSUME NEW w \in Scanners, Acquire(w) \/ ScanRepository(w) PROVE PolicyIInv'
  <2>1. /\ ~Idle(w) /\ target' = target
        /\ \/ scanner' = [scanner EXCEPT ![w] = Out]
           \/ \E pc, rev : scanner' = [scanner EXCEPT ![w] = [scanner[w] EXCEPT !.rev = rev, !.pc = pc]]
           \/ \E pc : scanner' = [scanner EXCEPT ![w] = [scanner[w] EXCEPT !.pc = pc]]
    BY <1>10 DEF Acquire, ScanRepository, Becomes, Leaves, PC, Idle
  <2>2. scanner[w].scheduled = target.scheduled
    BY <2>1 DEF PolicyIInv, PolicyIsKnown
  <2>3. CASE scanner' = [scanner EXCEPT ![w] = Out]
    BY <2>1, <2>3, OutType, ScannerRests
  <2>4. ASSUME NEW pc, NEW rev,
               scanner' = [scanner EXCEPT ![w] = [scanner[w] EXCEPT !.rev = rev, !.pc = pc]]
        PROVE  PolicyIInv'
    <3> DEFINE new == [scanner[w] EXCEPT !.rev = rev, !.pc = pc]
    <3>1. new.scheduled = target.scheduled
      BY <2>2 DEF ScannerState
    <3> QED BY <2>1, <2>4, <3>1, ScannerWorks
  <2>5. ASSUME NEW pc, scanner' = [scanner EXCEPT ![w] = [scanner[w] EXCEPT !.pc = pc]]
        PROVE  PolicyIInv'
    <3> DEFINE new == [scanner[w] EXCEPT !.pc = pc]
    <3>1. new.scheduled = target.scheduled
      BY <2>2 DEF ScannerState
    <3> QED BY <2>1, <2>5, <3>1, ScannerWorks
  <2> QED BY <2>1, <2>3, <2>4, <2>5
<1>11. ASSUME NEW w \in Scanners, Publish(w) PROVE PolicyIInv'
  <2> DEFINE new == [scanner[w] EXCEPT
                        !.pc = IF scanner[w].rev \in published THEN "replayed" ELSE "published"]
  <2>1. /\ ~Idle(w) /\ scanner' = [scanner EXCEPT ![w] = new]
        /\ target' = target \/ target' = [target EXCEPT !.due = "later"]
    BY <1>11 DEF Publish, Becomes, PC, Idle
  <2>2. new.scheduled = target.scheduled
    BY <2>1 DEF PolicyIInv, PolicyIsKnown, ScannerState
  <2> HIDE DEF new
  <2> QED BY <2>1, <2>2, ScannerWorks
<1>12. ASSUME NEW w \in Scanners, NEW retryable \in BOOLEAN,
              MarkFresh(w) \/ CompleteRun(w) \/ FailRun(w, retryable)
       PROVE  PolicyIInv'
  <2>1. /\ ~Idle(w) /\ scanner' = [scanner EXCEPT ![w] = Out]
        /\ \/ target' = target
           \/ target' = [target EXCEPT !.desired = scanner[w].rev, !.due = NextDue(w)]
           \/ target' = [target EXCEPT !.due = NextDue(w)]
    BY <1>12 DEF MarkFresh, CompleteRun, FailRun, Marked, MarkedRevision, Leaves, PC, Idle
  <2>2. target'.scheduled = target.scheduled
        /\ (target'.enabled /\ target.scheduled => target'.due # "never")
    BY <2>1, NextDueOfPolicy
  <2> QED BY <2>1, <2>2, OutType, ScannerRests
<1>13. ASSUME NEW i \in Scans, FailExhausted(i) PROVE PolicyIInv'
  <2>1. /\ scanner' = scanner
        /\ target' = [target EXCEPT !.due = IF target.scheduled THEN "later" ELSE "never"]
    BY <1>13 DEF FailExhausted
  <2> QED BY <2>1, TargetRoused
<1>14. ASSUME NEW r \in Revisions, Push(r) PROVE PolicyIInv'
  BY <1>1, <1>14 DEF Push
<1>15. CASE Unsuspend \/ RequestRescan \/ RollUp
  BY <1>1, <1>15 DEF Unsuspend, RequestRescan, RollUp
<1>16. ASSUME NEW i \in Scans, ScanLeaseExpires(i) PROVE PolicyIInv'
  BY <1>1, <1>16 DEF ScanLeaseExpires
<1>17. ASSUME NEW w \in Scanners, ScanWork(w) PROVE PolicyIInv'
  <2>1. CASE ScheduleInserts(w)
    BY <2>1, <1>8
  <2>2. CASE Acquire(w) \/ ScanRepository(w)
    BY <2>2, <1>10
  <2>3. CASE Publish(w)
    BY <2>3, <1>11
  <2>4. CASE MarkFresh(w) \/ CompleteRun(w)
    BY <2>4, <1>12
  <2> QED BY <1>17, <2>1, <2>2, <2>3, <2>4 DEF ScanWork
<1> QED BY <1>2, <1>3, <1>4, <1>5, <1>6, <1>7, <1>8, <1>9, <1>12, <1>13, <1>14, <1>15, <1>16, <1>17
        DEF ScanNext

\* A repository that is connected and on a schedule comes up again, after every failure,
\* cancellation, suspension and rescan: the cadence a scanner read before its scan is still
\* the one of the policy.
THEOREM SchedulesGoOn ==
    ASSUME "policy" \notin ScanAdversity
    PROVE  ScanSpec => []ScheduledTargetsAreDue
<1>1. ScanInit => PolicyIInv
  <2> SUFFICES ASSUME ScanInit PROVE PolicyIInv
    OBVIOUS
  <2>1. /\ \A w \in Scanners : scanner[w] = Out
        /\ target = [enabled |-> TRUE, scheduled |-> TRUE, due |-> "now", desired |-> NoRevision]
    BY DEF ScanInit
  <2> QED BY <2>1, OutType DEF PolicyIInv, PolicyIsKnown, ScheduledTargetsAreDue, Idle
<1>2. ScanIInv /\ PolicyIInv /\ [ScanNext]_scanVars => PolicyIInv'
  <2>1. UNCHANGED scanVars => UNCHANGED <<target, scanner>>
    BY DEF scanVars
  <2> QED BY <2>1, PolicyStepHolds, PolicyStutter
<1>3. PolicyIInv => ScheduledTargetsAreDue
  BY DEF PolicyIInv
<1> QED BY <1>1, <1>2, <1>3, ScanInvariance, PTL DEF ScanSpec
=============================================================================
