-------------------------- MODULE AuditHistoryProofs --------------------------
(***************************************************************************)
(* Snapshots are sealed, of one author and immutable, for any number of    *)
(* audits, run ids and artifacts, as long as no two live audits share a    *)
(* millisecond (the hypothesis ~SameMillisecond of each theorem).          *)
(***************************************************************************)
EXTENDS AuditHistory, TLAPS

USE DEF SnapshotDir, HistoryExists, SnapshotComplete, CurrentComplete

(* The orders of the two writers name artifacts. *)
LEMMA OrderTypes ==
  /\ \A i \in 1..Len(CurrentOrder) : CurrentOrder[i] \in Artifacts
  /\ \A i \in 1..Len(HistoryOrder) : HistoryOrder[i] \in Artifacts
  /\ Len(CurrentOrder) \in Nat /\ Len(HistoryOrder) \in Nat
BY HistoryAssumption DEF Covers

LEMMA NextArtifact ==
  ASSUME NEW n \in Nat
  PROVE /\ n < Len(CurrentOrder) => CurrentOrder[n + 1] \in Artifacts
        /\ n < Len(HistoryOrder) => HistoryOrder[n + 1] \in Artifacts
BY OrderTypes

LEMMA TypeOKInit == Init => TypeOK
BY DEF Init, TypeOK, Content

LEMMA TypeOKNext == TypeOK /\ [Next]_vars => TypeOK'
<1> SUFFICES ASSUME TypeOK, [Next]_vars PROVE TypeOK'
  OBVIOUS
<1> USE DEF TypeOK, Content
<1>1. ASSUME NEW p \in Audits, NEW i \in RunIds, Start(p, i) PROVE TypeOK'
  BY <1>1 DEF Start, diskVars, Live
<1>2. ASSUME NEW p \in Audits, WriteCurrent(p) PROVE TypeOK'
  <2>1. CurrentOrder[written[p] + 1] \in Artifacts
    BY <1>2, NextArtifact DEF WriteCurrent
  <2> QED
    BY <1>2, <2>1 DEF WriteCurrent
<1>3. ASSUME NEW p \in Audits, CheckHistory(p) PROVE TypeOK'
  BY <1>3 DEF CheckHistory, diskVars
<1>4. ASSUME NEW p \in Audits, MakeDirectory(p) PROVE TypeOK'
  BY <1>4 DEF MakeDirectory
<1>5. ASSUME NEW p \in Audits, WriteSnapshot(p) PROVE TypeOK'
  <2>1. HistoryOrder[written[p] + 1] \in Artifacts
    BY <1>5, NextArtifact DEF WriteSnapshot
  <2> QED
    BY <1>5, <2>1 DEF WriteSnapshot
<1>6. ASSUME NEW p \in Audits, WriteManifest(p) PROVE TypeOK'
  BY <1>6 DEF WriteManifest
<1>7. ASSUME NEW p \in Audits, Crash(p) PROVE TypeOK'
  <2> DEFINE DiskOK == /\ current \in [Artifacts -> Content]
                       /\ dirs \subseteq RunIds
                       /\ history \in [RunIds -> [Artifacts -> Content]]
                       /\ manifest \in [RunIds -> Content]
  <2>0. SUFFICES DiskOK'
    BY <1>7 DEF Crash
  <2>1. CASE UNCHANGED diskVars
    BY <2>1 DEF diskVars
  <2>2. CASE TearCurrent(p)
    <3>1. CurrentOrder[written[p] + 1] \in Artifacts
      BY <2>2, NextArtifact DEF TearCurrent
    <3> QED
      BY <2>2, <3>1 DEF TearCurrent
  <2>3. CASE TearSnapshot(p)
    <3>1. HistoryOrder[written[p] + 1] \in Artifacts
      BY <2>3, NextArtifact DEF TearSnapshot
    <3> QED
      BY <2>3, <3>1 DEF TearSnapshot
  <2>4. CASE TearManifest(p)
    BY <2>4 DEF TearManifest
  <2> QED
    BY <1>7, <2>1, <2>2, <2>3, <2>4 DEF Crash
<1>8. CASE UNCHANGED vars
  BY <1>8 DEF vars, auditVars, diskVars
<1> QED
  BY <1>1, <1>2, <1>3, <1>4, <1>5, <1>6, <1>7, <1>8 DEF Next

(* The type invariant of reports/current, reports/history and the audits. *)
THEOREM TypeCorrect == Spec => []TypeOK
BY TypeOKInit, TypeOKNext, PTL DEF Spec

-----------------------------------------------------------------------------
(* Two live audits write to different directories. *)
DistinctDirs ==
  \A p, q \in Audits : p # q /\ Live(p) /\ Live(q) => id[p] # id[q]

(* Nothing is written outside a directory. *)
NothingOutside ==
  \A i \in RunIds \ dirs :
    manifest[i] = Absent /\ \A a \in Artifacts : history[i][a] = Absent

(* The answer of existsSync is still right when mkdirSync runs. *)
CheckStillHolds == \A p \in Audits : pc[p] = "mkdir" => id[p] \notin dirs

(* An audit that fills a directory owns it: no manifest yet, no file of     *)
(* another audit, and all the files it has counted.                         *)
OwnsSnapshot ==
  \A p \in Audits : pc[p] = "snapshot" =>
    /\ id[p] \in dirs
    /\ manifest[id[p]] = Absent
    /\ \A a \in Artifacts : history[id[p]][a] \in {Absent, p}
    /\ \A i \in 1..Len(HistoryOrder) :
         i <= written[p] => history[id[p]][HistoryOrder[i]] = p

IInv ==
  /\ TypeOK
  /\ DistinctDirs
  /\ NothingOutside
  /\ CheckStillHolds
  /\ OwnsSnapshot
  /\ ManifestSeals
  /\ OneAuthorPerSnapshot

LEMMA IInvInit == Init => IInv
<1> SUFFICES ASSUME Init PROVE IInv
  OBVIOUS
<1>1. TypeOK
  BY TypeOKInit
<1> QED
  BY <1>1, HistoryAssumption DEF Init, IInv, DistinctDirs, NothingOutside, CheckStillHolds,
    OwnsSnapshot, ManifestSeals, OneAuthorPerSnapshot, Live

(* The step that needs the invariant: only the owner touches a directory,   *)
(* and it does so before the manifest.                                      *)
LEMMA IInvNext == ASSUME ~SameMillisecond PROVE IInv /\ [Next]_vars => IInv'
<1> SUFFICES ASSUME ~SameMillisecond, IInv, [Next]_vars PROVE IInv'
  OBVIOUS
<1> USE DEF IInv
<1>0. TypeOK'
  BY TypeOKNext
<1> DEFINE Rest == /\ DistinctDirs /\ NothingOutside /\ CheckStillHolds
                   /\ OwnsSnapshot /\ ManifestSeals /\ OneAuthorPerSnapshot
<1>1. ASSUME NEW p \in Audits, NEW i \in RunIds, Start(p, i) PROVE Rest'
  BY <1>1 DEF Start, diskVars, TypeOK, DistinctDirs, NothingOutside, CheckStillHolds,
    OwnsSnapshot, ManifestSeals, OneAuthorPerSnapshot, Live
<1>2. ASSUME NEW p \in Audits, WriteCurrent(p) PROVE Rest'
  BY <1>2 DEF WriteCurrent, TypeOK, DistinctDirs, NothingOutside, CheckStillHolds,
    OwnsSnapshot, ManifestSeals, OneAuthorPerSnapshot, Live
<1>3. ASSUME NEW p \in Audits, CheckHistory(p) PROVE Rest'
  BY <1>3 DEF CheckHistory, diskVars, TypeOK, DistinctDirs, NothingOutside, CheckStillHolds,
    OwnsSnapshot, ManifestSeals, OneAuthorPerSnapshot, Live
<1>4. ASSUME NEW p \in Audits, MakeDirectory(p) PROVE Rest'
  BY <1>4, OrderTypes DEF MakeDirectory, TypeOK, DistinctDirs, NothingOutside, CheckStillHolds,
    OwnsSnapshot, ManifestSeals, OneAuthorPerSnapshot, Live
<1>5. ASSUME NEW p \in Audits, WriteSnapshot(p) PROVE Rest'
  BY <1>5, OrderTypes, HistoryAssumption DEF WriteSnapshot, TypeOK, DistinctDirs, NothingOutside, CheckStillHolds,
    OwnsSnapshot, ManifestSeals, OneAuthorPerSnapshot, Live
<1>6. ASSUME NEW p \in Audits, WriteManifest(p) PROVE Rest'
  <2>1. (DistinctDirs /\ NothingOutside /\ CheckStillHolds)'
    BY <1>6 DEF WriteManifest, TypeOK, DistinctDirs, NothingOutside, CheckStillHolds,
      OwnsSnapshot, Live
  <2>2. OwnsSnapshot'
    BY <1>6 DEF WriteManifest, TypeOK, DistinctDirs, OwnsSnapshot, Live
  <2>3. \A a \in Artifacts : history[id[p]][a] = p
    BY <1>6, OrderTypes, HistoryAssumption DEF WriteManifest, OwnsSnapshot, Covers, TypeOK
  <2>4. ManifestSeals' /\ OneAuthorPerSnapshot'
    BY <1>6, <2>3 DEF WriteManifest, TypeOK, ManifestSeals, OneAuthorPerSnapshot
  <2> QED
    BY <2>1, <2>2, <2>4
<1>7. ASSUME NEW p \in Audits, Crash(p) PROVE Rest'
  <2> USE DEF TypeOK, DistinctDirs, NothingOutside, CheckStillHolds, OwnsSnapshot,
      ManifestSeals, OneAuthorPerSnapshot, Live
  <2>1. CASE UNCHANGED diskVars
    BY <1>7, <2>1 DEF Crash, diskVars
  <2>2. CASE TearCurrent(p)
    BY <1>7, <2>2 DEF Crash, TearCurrent
  <2>3. CASE TearSnapshot(p)
    <3>1. HistoryOrder[written[p] + 1] \in Artifacts
      BY <2>3, NextArtifact DEF TearSnapshot
    <3> QED
      BY <1>7, <2>3, <3>1, HistoryAssumption DEF Crash, TearSnapshot
  <2>4. CASE TearManifest(p)
    BY <1>7, <2>4, HistoryAssumption DEF Crash, TearManifest
  <2> QED
    BY <1>7, <2>1, <2>2, <2>3, <2>4 DEF Crash
<1>8. CASE UNCHANGED vars
  BY <1>8 DEF vars, auditVars, diskVars, TypeOK, DistinctDirs, NothingOutside, CheckStillHolds,
    OwnsSnapshot, ManifestSeals, OneAuthorPerSnapshot, Live
<1>9. Rest'
  BY <1>1, <1>2, <1>3, <1>4, <1>5, <1>6, <1>7, <1>8 DEF Next
<1> QED
  BY <1>0, <1>9

LEMMA Invariance == ASSUME ~SameMillisecond PROVE Spec => []IInv
BY IInvInit, IInvNext, PTL DEF Spec

(* A manifest vouches for a complete snapshot by its own audit, for any     *)
(* number of audits killed anywhere (reports/history-writer.ts:38-89).      *)
THEOREM SealedSnapshots == ASSUME ~SameMillisecond PROVE Spec => []ManifestSeals
<1>1. IInv => ManifestSeals
  BY DEF IInv
<1> QED
  BY <1>1, Invariance, PTL

(* No directory of reports/history ever holds files of two audits.          *)
THEOREM SingleAuthors == ASSUME ~SameMillisecond PROVE Spec => []OneAuthorPerSnapshot
<1>1. IInv => OneAuthorPerSnapshot
  BY DEF IInv
<1> QED
  BY <1>1, Invariance, PTL

(* The promise of "immutable_local_snapshot": no step changes a directory   *)
(* that has a manifest.  Only an audit in phase "snapshot" writes there,    *)
(* and OwnsSnapshot says that its own directory has no manifest yet.        *)
THEOREM ImmutableSnapshots == ASSUME ~SameMillisecond PROVE Spec => SnapshotImmutable
<1> DEFINE Step == \A i \in RunIds : manifest[i] # Absent =>
                     history'[i] = history[i] /\ manifest'[i] = manifest[i]
<1>1. IInv /\ [Next]_vars => Step
  <2> SUFFICES ASSUME IInv, [Next]_vars PROVE Step
    OBVIOUS
  <2> USE DEF IInv, TypeOK, OwnsSnapshot
  <2>1. ASSUME NEW p \in Audits, WriteSnapshot(p) PROVE Step
    BY <2>1 DEF WriteSnapshot
  <2>2. ASSUME NEW p \in Audits, WriteManifest(p) PROVE Step
    BY <2>2 DEF WriteManifest
  <2>3. ASSUME NEW p \in Audits, Crash(p) PROVE Step
    BY <2>3 DEF Crash, TearCurrent, TearSnapshot, TearManifest, diskVars
  <2>4. ASSUME NEW p \in Audits, NEW i \in RunIds, Start(p, i) PROVE Step
    BY <2>4 DEF Start, diskVars
  <2>5. CASE UNCHANGED vars
    BY <2>5 DEF vars, diskVars
  <2>6. ASSUME NEW p \in Audits,
               WriteCurrent(p) \/ CheckHistory(p) \/ MakeDirectory(p)
        PROVE Step
    BY <2>6 DEF WriteCurrent, CheckHistory, MakeDirectory, diskVars
  <2> QED
    BY <2>1, <2>2, <2>3, <2>4, <2>5, <2>6 DEF Next
<1>2. IInv /\ [Next]_vars => [Step]_vars
  BY <1>1
<1> QED
  BY <1>2, Invariance, PTL DEF Spec, SnapshotImmutable

-----------------------------------------------------------------------------
(* What an audit that no other overlapped has left on disk so far: all that *)
(* it has counted, in reports/current and then in its directory.            *)
LoneProgress(p) ==
  /\ \A q \in Audits : q # p => ~Live(q)
  /\ pc[p] = "current" =>
       \A i \in 1..Len(CurrentOrder) : i <= written[p] => current[CurrentOrder[i]] = p
  /\ pc[p] \in {"mkdir", "snapshot"} => \A a \in Artifacts : current[a] = p
  /\ pc[p] = "snapshot" =>
       \A i \in 1..Len(HistoryOrder) :
         i <= written[p] => history[id[p]][HistoryOrder[i]] = p

(* Whoever has written as many files as an order names has written all.     *)
LEMMA AllCovered ==
  ASSUME NEW a \in Artifacts
  PROVE  /\ \E i \in 1..Len(CurrentOrder) : CurrentOrder[i] = a /\ i <= Len(CurrentOrder)
         /\ \E i \in 1..Len(HistoryOrder) : HistoryOrder[i] = a /\ i <= Len(HistoryOrder)
<1>1. /\ \E i \in 1..Len(CurrentOrder) : CurrentOrder[i] = a
      /\ \E i \in 1..Len(HistoryOrder) : HistoryOrder[i] = a
  BY HistoryAssumption DEF Covers
<1> QED
  BY <1>1, OrderTypes

LoneInv ==
  /\ TypeOK
  /\ \A p \in Audits : pc[p] = "idle" => written[p] = 0
  /\ \A p \in Audits : Live(p) /\ alone[p] => LoneProgress(p)

LEMMA LoneInvInit == Init => LoneInv
<1> SUFFICES ASSUME Init PROVE LoneInv
  OBVIOUS
<1>1. TypeOK
  BY TypeOKInit
<1> QED
  BY <1>1 DEF Init, LoneInv, Live

(* A step of another audit leaves nothing to say: it was live beside p, or  *)
(* it starts now and p is no longer alone.                                  *)
LEMMA LoneInvNext == LoneInv /\ [Next]_vars => LoneInv'
<1> SUFFICES ASSUME LoneInv, [Next]_vars PROVE LoneInv'
  OBVIOUS
<1> USE DEF LoneInv
<1>0. TypeOK'
  BY TypeOKNext
<1> DEFINE Rest == /\ \A p \in Audits : pc[p] = "idle" => written[p] = 0
                   /\ \A p \in Audits : Live(p) /\ alone[p] => LoneProgress(p)
<1>1. ASSUME NEW p \in Audits, NEW i \in RunIds, Start(p, i) PROVE Rest'
  <2>1. /\ pc' = [pc EXCEPT ![p] = "current"] /\ written' = written /\ pc[p] = "idle"
        /\ alone' = [q \in Audits |-> IF q = p THEN \A l \in Audits : ~Live(l)
                                     ELSE alone[q] /\ ~Live(q)]
    BY <1>1 DEF Start
  <2>2. ASSUME NEW q \in Audits, q # p PROVE ~(Live(q) /\ alone[q])'
    BY <2>1, <2>2 DEF TypeOK, Live
  <2>3. alone'[p] => LoneProgress(p)'
    BY <2>1, OrderTypes DEF TypeOK, LoneProgress, Live
  <2> QED
    BY <2>1, <2>2, <2>3 DEF TypeOK
<1>2. ASSUME NEW p \in Audits, WriteCurrent(p) PROVE Rest'
  <2>1. CurrentOrder[written[p] + 1] \in Artifacts
    BY <1>2, NextArtifact DEF WriteCurrent, TypeOK
  <2>2. LoneProgress(p) => LoneProgress(p)'
    BY <1>2, <2>1, OrderTypes DEF WriteCurrent, TypeOK, LoneProgress, Live
  <2>3. ASSUME NEW q \in Audits, q # p, LoneProgress(q) PROVE FALSE
    BY <1>2, <2>3 DEF WriteCurrent, LoneProgress, Live
  <2> QED
    BY <1>2, <2>2, <2>3 DEF WriteCurrent, TypeOK, Live
<1>3. ASSUME NEW p \in Audits, CheckHistory(p) PROVE Rest'
  <2>1. LoneProgress(p) /\ pc[p] = "current" => \A a \in Artifacts : current[a] = p
    BY <1>3, AllCovered DEF CheckHistory, LoneProgress
  <2>2. LoneProgress(p) => LoneProgress(p)'
    BY <1>3, <2>1 DEF CheckHistory, diskVars, TypeOK, LoneProgress, Live
  <2>3. ASSUME NEW q \in Audits, q # p, LoneProgress(q) PROVE FALSE
    BY <1>3, <2>3 DEF CheckHistory, LoneProgress, Live
  <2> QED
    BY <1>3, <2>2, <2>3 DEF CheckHistory, diskVars, TypeOK, Live
<1>4. ASSUME NEW p \in Audits, MakeDirectory(p) PROVE Rest'
  <2>1. LoneProgress(p) => LoneProgress(p)'
    BY <1>4, OrderTypes DEF MakeDirectory, TypeOK, LoneProgress, Live
  <2>2. ASSUME NEW q \in Audits, q # p, LoneProgress(q) PROVE FALSE
    BY <1>4, <2>2 DEF MakeDirectory, LoneProgress, Live
  <2> QED
    BY <1>4, <2>1, <2>2 DEF MakeDirectory, TypeOK, Live
<1>5. ASSUME NEW p \in Audits, WriteSnapshot(p) PROVE Rest'
  <2>1. HistoryOrder[written[p] + 1] \in Artifacts
    BY <1>5, NextArtifact DEF WriteSnapshot, TypeOK
  <2>2. LoneProgress(p) => LoneProgress(p)'
    BY <1>5, <2>1, OrderTypes DEF WriteSnapshot, TypeOK, LoneProgress, Live
  <2>3. ASSUME NEW q \in Audits, q # p, LoneProgress(q) PROVE FALSE
    BY <1>5, <2>3 DEF WriteSnapshot, LoneProgress, Live
  <2> QED
    BY <1>5, <2>2, <2>3 DEF WriteSnapshot, TypeOK, Live
<1>6. ASSUME NEW p \in Audits, WriteManifest(p) \/ Crash(p) PROVE Rest'
  <2>1. /\ Live(p) /\ pc' = [pc EXCEPT ![p] = pc'[p]]
        /\ pc'[p] \in {"exited", "crashed"}
        /\ written' = written /\ alone' = alone
    BY <1>6 DEF WriteManifest, Crash, TypeOK, Live
  <2>2. ASSUME NEW q \in Audits, q # p, LoneProgress(q) PROVE FALSE
    BY <2>1, <2>2 DEF LoneProgress
  <2> QED
    BY <2>1, <2>2 DEF TypeOK, Live
<1>7. CASE UNCHANGED vars
  <2>1. /\ pc' = pc /\ id' = id /\ written' = written /\ alone' = alone
        /\ current' = current /\ history' = history
    BY <1>7 DEF vars, auditVars, diskVars
  <2>2. ASSUME NEW p \in Audits PROVE LoneProgress(p)' = LoneProgress(p)
    BY <2>1 DEF LoneProgress, Live
  <2> QED
    BY <1>0, <2>1, <2>2 DEF Live
<1>8. Rest'
  BY <1>1, <1>2, <1>3, <1>4, <1>5, <1>6, <1>7 DEF Next
<1> QED
  BY <1>0, <1>8

(* An audit that completes without another beside it leaves reports/current *)
(* and its snapshot complete and its own (cli/admissorium.ts:212-225,       *)
(* reports/history-writer.ts:38-89), whatever killed audits left behind;    *)
(* no assumption about the clock is needed.                                 *)
THEOREM LoneAuditsPublish == Spec => LoneAuditPublishes
<1> DEFINE Step == \A p \in Audits : pc[p] # "exited" /\ pc'[p] = "exited" /\ alone[p] =>
                     \A a \in Artifacts : current'[a] = p /\ history'[id[p]][a] = p
<1>1. LoneInv /\ [Next]_vars => Step
  <2> SUFFICES ASSUME LoneInv, [Next]_vars, NEW p \in Audits,
                      pc[p] # "exited", pc'[p] = "exited", alone[p]
               PROVE  \A a \in Artifacts : current'[a] = p /\ history'[id[p]][a] = p
    OBVIOUS
  <2>1. WriteManifest(p)
    <3> USE DEF LoneInv, TypeOK
    <3>1. ASSUME NEW q \in Audits, WriteManifest(q) PROVE q = p
      BY <3>1 DEF WriteManifest
    <3>2. ASSUME NEW q \in Audits, NEW i \in RunIds, Start(q, i) PROVE FALSE
      BY <3>2 DEF Start
    <3>3. ASSUME NEW q \in Audits,
                 WriteCurrent(q) \/ CheckHistory(q) \/ MakeDirectory(q) \/ WriteSnapshot(q)
          PROVE FALSE
      BY <3>3 DEF WriteCurrent, CheckHistory, MakeDirectory, WriteSnapshot
    <3>4. ASSUME NEW q \in Audits, Crash(q) PROVE FALSE
      BY <3>4 DEF Crash
    <3> QED
      BY <3>1, <3>2, <3>3, <3>4 DEF Next, vars, auditVars
  <2>2. LoneProgress(p)
    BY <2>1 DEF LoneInv, WriteManifest, Live
  <2>3. \A a \in Artifacts : current[a] = p /\ history[id[p]][a] = p
    BY <2>1, <2>2, AllCovered DEF WriteManifest, LoneProgress
  <2> QED
    BY <2>1, <2>3 DEF WriteManifest
<1>2. LoneInv /\ [Next]_vars => [Step]_vars
  BY <1>1
<1> QED
  BY <1>2, LoneInvInit, LoneInvNext, PTL DEF Spec, LoneAuditPublishes

-----------------------------------------------------------------------------
(* Whoever has signed a manifest has exited, so nobody signs two.           *)
SignersExited ==
  \A i \in RunIds : manifest[i] \in Audits => pc[manifest[i]] = "exited"

LEMMA SignersStep == IInv /\ SignersExited /\ [Next]_vars => SignersExited'
<1> SUFFICES ASSUME IInv, SignersExited, [Next]_vars PROVE SignersExited'
  OBVIOUS
<1> USE DEF IInv, TypeOK, SignersExited
<1>1. ASSUME NEW p \in Audits, WriteManifest(p) PROVE SignersExited'
  BY <1>1 DEF WriteManifest
<1>2. ASSUME NEW p \in Audits, Crash(p) PROVE SignersExited'
  BY <1>2, HistoryAssumption
    DEF Crash, TearCurrent, TearSnapshot, TearManifest, diskVars, Live
<1>3. ASSUME NEW p \in Audits, NEW i \in RunIds, Start(p, i) PROVE SignersExited'
  BY <1>3 DEF Start, diskVars
<1>4. ASSUME NEW p \in Audits,
             WriteCurrent(p) \/ CheckHistory(p) \/ MakeDirectory(p) \/ WriteSnapshot(p)
      PROVE SignersExited'
  BY <1>4 DEF WriteCurrent, CheckHistory, MakeDirectory, WriteSnapshot, diskVars
<1>5. CASE UNCHANGED vars
  BY <1>5 DEF vars, auditVars, diskVars
<1> QED
  BY <1>1, <1>2, <1>3, <1>4, <1>5 DEF Next

(* The manifest is the moment of publication.                               *)
LEMMA ManifestPublishes ==
  ASSUME IInv, SignersExited, NEW p \in Audits, WriteManifest(p)
  PROVE  Store!Publish(p, id[p])
<1> USE DEF IInv, TypeOK
<1>1. /\ manifest' = [manifest EXCEPT ![id[p]] = p] /\ history' = history
      /\ pc[p] = "snapshot" /\ manifest[id[p]] = Absent /\ id[p] \in RunIds
  BY DEF WriteManifest, OwnsSnapshot
<1>2. history[id[p]] = [a \in Artifacts |-> p]
  <2>1. \A a \in Artifacts : history[id[p]][a] = p
    BY AllCovered DEF WriteManifest, OwnsSnapshot
  <2> QED
    BY <1>1, <2>1
<1>3. \A s \in Published : s.run # id[p] /\ s.by # p
  BY <1>1, HistoryAssumption DEF Published, SignersExited
<1>4. Published' = Published \cup {[run |-> id[p], by |-> p, files |-> history[id[p]]]}
  <2> DEFINE Shown(i) == [run |-> i, by |-> manifest[i], files |-> history[i]]
  <2>1. ASSUME NEW i \in RunIds, i # id[p] PROVE manifest'[i] = manifest[i]
    BY <1>1, <2>1
  <2>2. manifest'[id[p]] = p /\ manifest[id[p]] \notin Audits
    BY <1>1, HistoryAssumption
  <2> QED
    BY <1>1, <2>1, <2>2 DEF Published
<1> QED
  BY <1>2, <1>3, <1>4 DEF Store!Publish, Store!Snapshot

(* reports/history behaves as SnapshotStore, for any number of audits and   *)
(* artifacts and wherever audits are killed: the manifest is written by the *)
(* owner of a directory that is complete, every other step leaves what is   *)
(* published as it is.                                                      *)
THEOREM HistoryPublishes == ASSUME ~SameMillisecond PROVE Spec => PublishesSnapshots
<1>1. Init => Store!Init /\ SignersExited
  BY HistoryAssumption DEF Init, Store!Init, Published, SignersExited
<1>2. IInv /\ SignersExited /\ [Next]_vars => [Store!Next]_Published
  <2> SUFFICES ASSUME IInv, SignersExited, [Next]_vars
               PROVE  Store!Next \/ Published' = Published
    OBVIOUS
  <2> USE DEF IInv, TypeOK
  <2>1. ASSUME NEW p \in Audits, WriteManifest(p) PROVE Store!Next
    BY <2>1, ManifestPublishes DEF Store!Next
  <2>2. ASSUME NEW p \in Audits, WriteSnapshot(p) PROVE Published' = Published
    <3>1. /\ manifest' = manifest /\ manifest[id[p]] = Absent
          /\ \A i \in RunIds : i # id[p] => history'[i] = history[i]
      BY <2>2 DEF WriteSnapshot, OwnsSnapshot
    <3> QED
      BY <3>1, HistoryAssumption DEF Published
  <2>3. ASSUME NEW p \in Audits, Crash(p) PROVE Published' = Published
    <3>1. CASE manifest' = manifest /\ history' = history
      BY <3>1 DEF Published
    <3>2. CASE TearSnapshot(p)
      <4>1. /\ manifest' = manifest /\ manifest[id[p]] = Absent
            /\ \A i \in RunIds : i # id[p] => history'[i] = history[i]
        BY <3>2 DEF TearSnapshot, OwnsSnapshot
      <4> QED
        BY <4>1, HistoryAssumption DEF Published
    <3>3. CASE TearManifest(p)
      <4>1. /\ manifest' = [manifest EXCEPT ![id[p]] = Torn] /\ history' = history
            /\ manifest[id[p]] = Absent
        BY <3>3 DEF TearManifest, OwnsSnapshot
      <4>2. {i \in RunIds : manifest'[i] \in Audits} = {i \in RunIds : manifest[i] \in Audits}
        BY <4>1, HistoryAssumption
      <4>3. \A i \in RunIds : manifest[i] \in Audits => manifest'[i] = manifest[i]
        BY <4>1, HistoryAssumption
      <4> QED
        BY <4>1, <4>2, <4>3 DEF Published
    <3> QED
      BY <2>3, <3>1, <3>2, <3>3 DEF Crash, TearCurrent, diskVars
  <2>4. ASSUME UNCHANGED <<history, manifest>> PROVE Published' = Published
    BY <2>4 DEF Published
  <2>5. ASSUME NEW p \in Audits, NEW i \in RunIds,
               Start(p, i) \/ WriteCurrent(p) \/ CheckHistory(p) \/ MakeDirectory(p)
        PROVE UNCHANGED <<history, manifest>>
    BY <2>5 DEF Start, WriteCurrent, CheckHistory, MakeDirectory, diskVars
  <2>6. ASSUME UNCHANGED vars PROVE UNCHANGED <<history, manifest>>
    BY <2>6 DEF vars, diskVars
  <2> QED
    BY <2>1, <2>2, <2>3, <2>4, <2>5, <2>6 DEF Next
<1> QED
  BY <1>1, <1>2, SignersStep, Invariance, PTL DEF Spec, PublishesSnapshots, Store!Spec
=============================================================================
