----------------------------- MODULE AuditHistory -----------------------------
(***************************************************************************)
(* What audits leave on disk: the end of cli/admissorium.ts writes the     *)
(* artifacts of reports/current one by one, then reports/history-writer.ts *)
(* takes a snapshot in reports/history/<run_id>, its manifest last.        *)
(*                                                                         *)
(* Audits are operating-system processes on one working tree: they may     *)
(* overlap, and each may be killed between or in the middle of two file    *)
(* operations.  The run_id is the start time in milliseconds, so it may    *)
(* come back after the clock is set back; SameMillisecond says whether two *)
(* live audits may share it.  A file's content is the audit that wrote it. *)
(***************************************************************************)
EXTENDS Naturals, Sequences

CONSTANTS
  Audits,          \* processes
  RunIds,          \* values of run_id
  Artifacts,       \* the files of a snapshot, beside its manifest
  CurrentOrder,    \* the order in which main() writes them
  HistoryOrder,    \* the order in which writeHistorySnapshot does
  SameMillisecond, \* may two live audits have the same run_id?
  Absent, Torn     \* no file, a file cut off by a crash

Covers(order) ==
  /\ order \in Seq(Artifacts)
  /\ \A a \in Artifacts : \E i \in 1..Len(order) : order[i] = a

ASSUME HistoryAssumption ==
  /\ Covers(CurrentOrder) /\ Covers(HistoryOrder)
  /\ SameMillisecond \in BOOLEAN
  /\ Absent \notin Audits /\ Torn \notin Audits /\ Absent # Torn

VARIABLES
  pc,        \* where each audit is
  id,        \* its run_id
  written,   \* how many files of the present directory it has written
  alone,     \* no other audit has been live since it started (ghost)
  current,   \* reports/current
  dirs,      \* the directories of reports/history
  history,   \* the artifacts in them
  manifest   \* their manifests

auditVars == <<pc, id, written, alone>>
diskVars == <<current, dirs, history, manifest>>
vars == <<auditVars, diskVars>>

Live(p) == pc[p] \in {"current", "mkdir", "snapshot"}

Content == Audits \cup {Absent, Torn}

Init ==
  /\ pc = [p \in Audits |-> "idle"]
  /\ id \in [Audits -> RunIds]
  /\ written = [p \in Audits |-> 0]
  /\ alone = [p \in Audits |-> TRUE]
  /\ current = [a \in Artifacts |-> Absent]
  /\ dirs = {}
  /\ history = [i \in RunIds |-> [a \in Artifacts |-> Absent]]
  /\ manifest = [i \in RunIds |-> Absent]

(* The clock is read; the report is then compiled without writing a file.   *)
Start(p, i) ==
  /\ pc[p] = "idle"
  /\ SameMillisecond \/ \A q \in Audits : Live(q) => id[q] # i
  /\ pc' = [pc EXCEPT ![p] = "current"]
  /\ id' = [id EXCEPT ![p] = i]
  /\ alone' = [q \in Audits |->
                 IF q = p THEN \A l \in Audits : ~Live(l)
                 ELSE alone[q] /\ ~Live(q)]
  /\ UNCHANGED <<written, diskVars>>

(* Mutant of CurrentComplete: the last artifact is forgotten.               *)
CurrentAlmost(p) == written[p] + 1 = Len(CurrentOrder)

CurrentComplete(p) == written[p] = Len(CurrentOrder)

(* Mutant of SnapshotDir: the directory is named after the process.         *)
ProcessDir(p) == p

SnapshotDir(p) == id[p]

(* main(), lines 212-225, one writeFileSync at a time. *)
WriteCurrent(p) ==
  /\ pc[p] = "current"
  /\ written[p] < Len(CurrentOrder)
  /\ current' = [current EXCEPT ![CurrentOrder[written[p] + 1]] = p]
  /\ written' = [written EXCEPT ![p] = @ + 1]
  /\ UNCHANGED <<pc, id, alone, dirs, history, manifest>>

(* Mutants of HistoryExists: looks for the manifest; does not look at all.  *)
ManifestExists(i) == manifest[i] # Absent

NeverExists(i) == FALSE

HistoryExists(i) == i \in dirs

(* writeHistorySnapshot: existsSync, and throw ... *)
CheckHistory(p) ==
  /\ pc[p] = "current"
  /\ CurrentComplete(p)
  /\ pc' = [pc EXCEPT ![p] = IF HistoryExists(SnapshotDir(p)) THEN "threw" ELSE "mkdir"]
  /\ UNCHANGED <<id, written, alone, diskVars>>

(* ... or mkdirSync, which with recursive does not mind that it exists. *)
MakeDirectory(p) ==
  /\ pc[p] = "mkdir"
  /\ pc' = [pc EXCEPT ![p] = "snapshot"]
  /\ dirs' = dirs \cup {SnapshotDir(p)}
  /\ written' = [written EXCEPT ![p] = 0]
  /\ UNCHANGED <<id, alone, current, history, manifest>>

WriteSnapshot(p) ==
  /\ pc[p] = "snapshot"
  /\ written[p] < Len(HistoryOrder)
  /\ history' = [history EXCEPT ![SnapshotDir(p)][HistoryOrder[written[p] + 1]] = p]
  /\ written' = [written EXCEPT ![p] = @ + 1]
  /\ UNCHANGED <<pc, id, alone, current, dirs, manifest>>

(* Mutant of SnapshotComplete: the last file is forgotten.                  *)
SnapshotAlmost(p) == written[p] + 1 = Len(HistoryOrder)

SnapshotComplete(p) == written[p] = Len(HistoryOrder)

(* The manifest comes last; the process then prints the report and exits.   *)
WriteManifest(p) ==
  /\ pc[p] = "snapshot"
  /\ SnapshotComplete(p)
  /\ manifest' = [manifest EXCEPT ![SnapshotDir(p)] = p]
  /\ pc' = [pc EXCEPT ![p] = "exited"]
  /\ UNCHANGED <<id, written, alone, current, dirs, history>>

(* The file that a killed process was writing may be cut off. *)
TearCurrent(p) ==
  /\ pc[p] = "current"
  /\ written[p] < Len(CurrentOrder)
  /\ current' = [current EXCEPT ![CurrentOrder[written[p] + 1]] = Torn]
  /\ UNCHANGED <<dirs, history, manifest>>

TearSnapshot(p) ==
  /\ pc[p] = "snapshot"
  /\ written[p] < Len(HistoryOrder)
  /\ history' = [history EXCEPT ![SnapshotDir(p)][HistoryOrder[written[p] + 1]] = Torn]
  /\ UNCHANGED <<current, dirs, manifest>>

TearManifest(p) ==
  /\ pc[p] = "snapshot"
  /\ SnapshotComplete(p)
  /\ manifest' = [manifest EXCEPT ![SnapshotDir(p)] = Torn]
  /\ UNCHANGED <<current, dirs, history>>

Crash(p) ==
  /\ Live(p)
  /\ pc' = [pc EXCEPT ![p] = "crashed"]
  /\ UNCHANGED diskVars \/ TearCurrent(p) \/ TearSnapshot(p) \/ TearManifest(p)
  /\ UNCHANGED <<id, written, alone>>

Next ==
  \E p \in Audits :
    \/ \E i \in RunIds : Start(p, i)
    \/ WriteCurrent(p) \/ CheckHistory(p) \/ MakeDirectory(p)
    \/ WriteSnapshot(p) \/ WriteManifest(p) \/ Crash(p)

Spec == Init /\ [][Next]_vars
-----------------------------------------------------------------------------
(* Type invariant of the audits and of the disk. *)
TypeOK ==
  /\ pc \in [Audits -> {"idle", "current", "mkdir", "snapshot", "exited",
                        "threw", "crashed"}]
  /\ id \in [Audits -> RunIds]
  /\ written \in [Audits -> Nat]
  /\ alone \in [Audits -> BOOLEAN]
  /\ current \in [Artifacts -> Content]
  /\ dirs \subseteq RunIds
  /\ history \in [RunIds -> [Artifacts -> Content]]
  /\ manifest \in [RunIds -> Content]

(* A manifest seals its snapshot: wherever a whole manifest is found, all   *)
(* the files it lists are there, whole and of the audit that signed it,     *)
(* though the writer checks the directory only once and may be killed       *)
(* anywhere.                                                                *)
ManifestSeals ==
  \A i \in RunIds : manifest[i] \in Audits =>
    \A a \in Artifacts : history[i][a] = manifest[i]

(* A directory never mixes the files of two audits, sealed or abandoned: a  *)
(* later audit with the same run_id does not complete what another left.    *)
OneAuthorPerSnapshot ==
  \A i \in RunIds : \A a, b \in Artifacts :
    history[i][a] \in Audits /\ history[i][b] \in Audits => history[i][a] = history[i][b]

(* "immutable_local_snapshot": true (reports/history-writer.ts:82): once the *)
(* manifest is written, no step of any audit changes the snapshot.          *)
SnapshotImmutable ==
  [][\A i \in RunIds : manifest[i] # Absent =>
       history'[i] = history[i] /\ manifest'[i] = manifest[i]]_vars

(* An audit that completes, and that no other audit overlapped, leaves in   *)
(* reports/current its own artifacts and no other, whatever earlier audits  *)
(* left there when they were killed; and its snapshot is the same.          *)
LoneAuditPublishes ==
  [][\A p \in Audits : pc[p] # "exited" /\ pc'[p] = "exited" /\ alone[p] =>
       \A a \in Artifacts : current'[a] = p /\ history'[id[p]][a] = p]_vars

-----------------------------------------------------------------------------
(* A reader believes the directories that have a whole manifest.            *)
Published ==
  {[run |-> i, by |-> manifest[i], files |-> history[i]] :
     i \in {i \in RunIds : manifest[i] \in Audits}}

Store == INSTANCE SnapshotStore WITH store <- Published

(* Fourteen file operations, each of which may be the last, look like one:  *)
(* what a reader finds under a manifest appeared there at once, whole, by   *)
(* one audit that publishes nothing else, and for good.                     *)
PublishesSnapshots == Store!Spec
=============================================================================
