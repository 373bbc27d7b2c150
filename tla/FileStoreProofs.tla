-------------------------- MODULE FileStoreProofs --------------------------
(***************************************************************************)
(* Proofs about what is written into the user's files: of FileStore, for   *)
(* every set of files and contents, whatever fails, dies or is saved in    *)
(* between; and of the repairs, the edits and the diffs of TextEdits that  *)
(* make those contents, for every text, context and limit.                 *)
(***************************************************************************)
EXTENDS FileStore, Inputs,
        FiniteSetTheorems, SequenceTheorems, WellFoundedInduction, TLAPS

(* A failure has been reported for the file, or it may hold c.             *)
Clean(p, c) == p \in Code /\ c \in Unbalanced => p \in excused

(* What the guardrail needs between its steps: whatever may be restored    *)
(* later (the prior content, the snapshot, the parked content) is clean,   *)
(* and only verified content reaches the snapshot step.                    *)
Guarded ==
  /\ \A p \in Files : \/ Clean(p, file[p])
                      \/ InFlight(p) /\ file[p] = job.content
  /\ \A p \in Files : Clean(p, bak[p]) /\ Clean(p, redo[p])
  /\ pc \in {"write", "verify", "revert", "snapshot"} => Clean(job.path, job.prior)

IInv == TypeOK /\ Guarded

LEMMA DiskOK ==
  /\ Absent \in Disk /\ Torn \in Disk
  /\ Absent \notin Unbalanced /\ Torn \notin Unbalanced
  /\ \A c \in UserContents : c \in Disk /\ c \notin Unbalanced
  /\ \A c \in Contents : c \in Disk
BY FilesAssumption DEF Disk

LEMMA InitInv == Init => IInv
<1> SUFFICES ASSUME Init PROVE IInv
  OBVIOUS
<1>1. TypeOK
  BY DiskOK DEF Init, TypeOK
<1>2. Guarded
  <2>1. \A p \in Files : file[p] \in UserContents \/ file[p] = Absent
    BY DEF Init
  <2>2. \A p \in Files : Clean(p, file[p])
    BY <2>1, DiskOK DEF Clean
  <2>3. \A p \in Files : Clean(p, bak[p]) /\ Clean(p, redo[p])
    BY DiskOK DEF Init, Clean
  <2>4. QED BY <2>2, <2>3 DEF Init, Guarded
<1>3. QED BY <1>1, <1>2 DEF IInv

(* The outcomes of a failed write. *)
LEMMA FailureOK ==
  ASSUME NEW f \in [Files -> Disk], NEW p \in Files, NEW g \in WriteFailures(f, p)
  PROVE  /\ g \in [Files -> Disk]
         /\ \A q \in Files : g[q] = f[q] \/ g[q] = Torn
BY DiskOK DEF WriteFailures

LEMMA WriteOutcomes ==
  ASSUME NEW f \in [Files -> Disk], NEW p \in Files, NEW c \in Disk,
         NEW g \in {f, Wrote(f, p, c)} \cup WriteFailures(f, p)
  PROVE  g \in [Files -> Disk]
BY FailureOK DEF Wrote

(* A write of clean content, done or failed, leaves clean files clean.     *)
LEMMA OverwriteClean ==
  ASSUME NEW f \in [Files -> Disk], NEW p \in Files, NEW c \in Disk,
         \A q \in Files : Clean(q, f[q]), Clean(p, c),
         NEW g \in {Wrote(f, p, c)} \cup WriteFailures(f, p)
  PROVE  \A q \in Files : Clean(q, g[q])
<1>1. CASE g = Wrote(f, p, c)
  BY <1>1 DEF Wrote, Clean
<1>2. CASE g \in WriteFailures(f, p)
  BY <1>2, FailureOK, DiskOK DEF Clean
<1>3. QED BY <1>1, <1>2

-----------------------------------------------------------------------------
(* Types. *)

LEMMA TypeStep == TypeOK /\ [Next]_vars => TypeOK'
<1> SUFFICES ASSUME TypeOK, [Next]_vars PROVE TypeOK'
  OBVIOUS
<1>1. ASSUME pc \in {"write", "verify", "revert", "snapshot"}
      PROVE  /\ job \in Jobs /\ job.path \in Files /\ job.prior \in Disk
             /\ job.content \in Contents /\ job.content \in Disk
  BY <1>1, DiskOK DEF TypeOK, Jobs
<1>2. ASSUME NEW who \in Who, NEW p \in Files, NEW c \in Contents,
             NEW isEdit \in BOOLEAN, Propose(who, p, c, isEdit)
      PROVE  TypeOK'
  <2>1. Repaired[c] \in Contents
    BY FilesAssumption
  <2>2. job' \in Jobs
    BY <1>2, <2>1 DEF Propose, Jobs, TypeOK
  <2>3. QED BY <1>2, <2>2 DEF Propose, TypeOK, history
<1>3. CASE NoChange \/ WriteFails \/ RevertFails
  BY <1>1, <1>3, FailureOK DEF NoChange, WriteFails, RevertFails, Reply, TypeOK, history
<1>4. CASE WriteDone \/ Revert
  <2>1. file' \in [Files -> Disk]
    BY <1>1, <1>4 DEF WriteDone, Revert, TypeOK, Wrote
  <2>2. QED BY <1>1, <1>4, <2>1 DEF WriteDone, Revert, Reply, TypeOK, history
<1>5. CASE VerifyRejects \/ VerifyAccepts
  BY <1>1, <1>5 DEF VerifyRejects, VerifyAccepts, TypeOK, history
<1>6. CASE Snapshot
  <2>1. bak' \in [Files -> Disk]
    <3>1. bak' \in {bak, Wrote(bak, job.path, job.prior)} \cup WriteFailures(bak, job.path)
      BY <1>6 DEF Snapshot
    <3>2. QED BY <1>1, <1>6, <3>1, WriteOutcomes DEF Snapshot, TypeOK
  <2>2. \E backed \in BOOLEAN : Committed(backed)
    BY <1>6 DEF Snapshot
  <2>3. change' \in [path : Files, before : Disk, backed : BOOLEAN] \cup {NoPath}
    <3>1. job.path \in Files /\ job.prior \in Disk
      BY <1>1, <1>6 DEF Snapshot, TypeOK, Jobs
    <3>2. \A b \in BOOLEAN : [path |-> job.path, before |-> job.prior, backed |-> b]
                               \in [path : Files, before : Disk, backed : BOOLEAN]
      BY <3>1
    <3>3. change \in [path : Files, before : Disk, backed : BOOLEAN] \cup {NoPath}
      BY <1>1 DEF TypeOK
    <3>4. QED BY <2>2, <3>2, <3>3 DEF Committed
  <2>4. QED BY <1>1, <1>6, <2>1, <2>2, <2>3 DEF Snapshot, Committed, Reply, TypeOK
<1>7. CASE Undo \/ Redo
  <2>1. lastWrite \in Files
    BY <1>7 DEF Undo, Redo, TypeOK
  <2>2. /\ file \in [Files -> Disk] /\ redo \in [Files -> Disk] /\ file[lastWrite] \in Disk
        /\ bak[lastWrite] \in Disk /\ redo[lastWrite] \in Disk
    BY <2>1 DEF TypeOK
  <2>3. file' \in [Files -> Disk]
    <3>1. \/ file' \in {file, Wrote(file, lastWrite, bak[lastWrite])}
                      \cup WriteFailures(file, lastWrite)
          \/ file' \in {file, Wrote(file, lastWrite, redo[lastWrite])}
                      \cup WriteFailures(file, lastWrite)
      BY <1>7 DEF Undo, Redo
    <3>2. QED BY <2>1, <2>2, <3>1, WriteOutcomes
  <2>4. redo' \in [Files -> Disk]
    <3>1. redo' \in {redo, Wrote(redo, lastWrite, file[lastWrite])}
                    \cup WriteFailures(redo, lastWrite)
      BY <1>7 DEF Undo, Redo, Parked
    <3>2. QED BY <2>1, <2>2, <3>1, WriteOutcomes
  <2>5. QED BY <1>7, <2>3, <2>4 DEF Undo, Redo, TypeOK, history
<1>8. CASE SwitchConversation \/ Restart
  BY <1>8 DEF SwitchConversation, Restart, Reply, TypeOK
<1>9. ASSUME NEW p \in Files, NEW c \in UserContents \cup {Absent}, Save(p, c)
      PROVE  TypeOK'
  BY <1>9, DiskOK DEF Save, TypeOK, history
<1>10. CASE Die
  BY <1>1, <1>10 DEF Die, TypeOK, history
<1>11. CASE UNCHANGED vars
  BY <1>11 DEF vars, TypeOK
<1>12. QED BY <1>2, <1>3, <1>4, <1>5, <1>6, <1>7, <1>8, <1>9, <1>10, <1>11 DEF Next

(* Type correctness.                                                       *)
THEOREM FilesTypeCorrect == Spec => []TypeOK
<1>1. Init => TypeOK
  BY InitInv DEF IInv
<1>2. QED BY <1>1, TypeStep, PTL DEF Spec

-----------------------------------------------------------------------------
(* The guardrail. *)

LEMMA GuardStep == IInv /\ [Next]_vars => Guarded'
<1> SUFFICES ASSUME IInv, [Next]_vars PROVE Guarded'
  OBVIOUS
<1>0. TypeOK /\ Guarded
  BY DEF IInv
<1>1. ASSUME pc \in {"write", "verify", "revert", "snapshot"}
      PROVE  /\ job.path \in Files /\ job.prior \in Disk /\ job.content \in Disk
             /\ Clean(job.path, job.prior)
  BY <1>0, <1>1, DiskOK DEF TypeOK, Jobs, Guarded
<1>2. ASSUME NEW who \in Who, NEW p \in Files, NEW c \in Contents,
             NEW isEdit \in BOOLEAN, Propose(who, p, c, isEdit)
      PROVE  Guarded'
  BY <1>0, <1>2 DEF Propose, Guarded, Clean, InFlight, history
<1>3. CASE NoChange
  BY <1>0, <1>3 DEF NoChange, Reply, Guarded, Clean, InFlight
<1>4. CASE WriteFails
  <2>1. \A p \in Files : Clean(p, file[p])
    BY <1>0, <1>4 DEF WriteFails, Guarded, InFlight
  <2>2. \A p \in Files : Clean(p, file'[p])
    <3>1. file \in [Files -> Disk] /\ file' \in WriteFailures(file, job.path)
      BY <1>0, <1>4 DEF WriteFails, TypeOK
    <3>2. job.path \in Files /\ job.prior \in Disk /\ Clean(job.path, job.prior)
      BY <1>1, <1>4 DEF WriteFails
    <3>3. QED BY <2>1, <3>1, <3>2, OverwriteClean
  <2>3. QED BY <1>0, <1>4, <2>2 DEF WriteFails, Reply, Guarded, Clean
<1>5. CASE WriteDone
  <2>1. \A p \in Files : Clean(p, file[p])
    BY <1>0, <1>5 DEF WriteDone, Guarded, InFlight
  <2>2. /\ file'[job.path] = job.content
        /\ \A p \in Files : p # job.path => file'[p] = file[p]
    BY <1>0, <1>1, <1>5 DEF WriteDone, TypeOK, Wrote
  <2>3. QED BY <1>0, <1>1, <1>5, <2>1, <2>2 DEF WriteDone, Guarded, Clean, InFlight
<1>6. CASE VerifyRejects
  BY <1>0, <1>6 DEF VerifyRejects, Guarded, Clean, InFlight
<1>7. CASE VerifyAccepts
  <2>1. \A p \in Files : Clean(p, file[p])
    <3>1. pc = "verify" /\ (job.path \in Code => job.content \notin Unbalanced)
      BY <1>7 DEF VerifyAccepts
    <3>2. QED BY <1>0, <1>1, <3>1 DEF Guarded, Clean, InFlight
  <2>2. QED BY <1>0, <1>7, <2>1 DEF VerifyAccepts, Guarded, Clean, InFlight
<1>8. CASE Revert
  <2>1. \A p \in Files : p # job.path => Clean(p, file[p])
    BY <1>0, <1>8 DEF Revert, Guarded, InFlight
  <2>2. \A p \in Files : Clean(p, file'[p])
    BY <1>0, <1>1, <1>8, <2>1 DEF Revert, TypeOK, Wrote, Clean
  <2>3. QED BY <1>0, <1>8, <2>2 DEF Revert, Reply, Guarded, Clean
<1>9. CASE RevertFails
  <2>1. \A p \in Files : p # job.path => Clean(p, file[p])
    BY <1>0, <1>9 DEF RevertFails, Guarded, InFlight
  <2>2. /\ file \in [Files -> Disk] /\ file' \in WriteFailures(file, job.path)
        /\ excused' = excused \cup {job.path} /\ job.path \in Files
    BY <1>0, <1>1, <1>9 DEF RevertFails, TypeOK
  <2>3. \A p \in Files : file'[p] = file[p] \/ file'[p] = Torn
    BY <2>2, FailureOK
  <2>4. \A p \in Files : Clean(p, file[p])' \/ p = job.path
    BY <2>1, <2>2, <2>3, DiskOK DEF Clean
  <2>5. \A p \in Files : Clean(p, file[p])'
    BY <2>2, <2>4 DEF Clean
  <2>6. QED BY <1>0, <1>9, <2>2, <2>5 DEF RevertFails, Reply, Guarded, Clean
<1>10. CASE Snapshot
  <2>1. \A p \in Files : Clean(p, bak'[p])
    <3>1. \/ bak' = bak
          \/ bak' \in {Wrote(bak, job.path, job.prior)} \cup WriteFailures(bak, job.path)
      BY <1>10 DEF Snapshot
    <3>2. /\ bak \in [Files -> Disk] /\ \A p \in Files : Clean(p, bak[p])
          /\ job.path \in Files /\ job.prior \in Disk /\ Clean(job.path, job.prior)
      BY <1>0, <1>1, <1>10 DEF Snapshot, TypeOK, Guarded
    <3>3. QED BY <3>1, <3>2, OverwriteClean
  <2>2. QED BY <1>0, <1>10, <2>1 DEF Snapshot, Committed, Reply, Guarded, Clean, InFlight
<1>11. CASE Undo
  <2>1. lastWrite \in Files /\ pc = "idle"
    BY <1>0, <1>11 DEF Undo, TypeOK
  <2>2. \A p \in Files : Clean(p, file[p])
    BY <1>0, <2>1 DEF Guarded, InFlight
  <2>3. /\ \A p \in Files : Clean(p, bak[p]) /\ Clean(p, redo[p])
        /\ file \in [Files -> Disk] /\ bak[lastWrite] \in Disk
        /\ redo \in [Files -> Disk] /\ file[lastWrite] \in Disk
    BY <1>0, <2>1 DEF Guarded, TypeOK
  <2>4. file' \in {Wrote(file, lastWrite, bak[lastWrite])} \cup WriteFailures(file, lastWrite)
    BY <1>11 DEF Undo
  <2>5. redo' = redo \/
        redo' \in {Wrote(redo, lastWrite, file[lastWrite])} \cup WriteFailures(redo, lastWrite)
    BY <1>11 DEF Undo, Parked
  <2>6. (\A p \in Files : Clean(p, file[p]))' /\ (\A p \in Files : Clean(p, redo[p]))'
    <3>1. \A p \in Files : Clean(p, file'[p])
      BY <2>1, <2>2, <2>3, <2>4, OverwriteClean
    <3>2. \A p \in Files : Clean(p, redo'[p])
      BY <2>1, <2>2, <2>3, <2>5, OverwriteClean
    <3>3. QED BY <1>11, <3>1, <3>2 DEF Undo, Clean
  <2>7. QED BY <1>0, <1>11, <2>1, <2>6 DEF Undo, Guarded, Clean
<1>12. CASE Redo
  <2>1. lastWrite \in Files /\ pc = "idle"
    BY <1>0, <1>12 DEF Redo, TypeOK
  <2>2. /\ \A p \in Files : Clean(p, file[p]) /\ Clean(p, redo[p])
        /\ file \in [Files -> Disk] /\ redo[lastWrite] \in Disk
    BY <1>0, <2>1 DEF Guarded, InFlight, TypeOK
  <2>3. file' \in {Wrote(file, lastWrite, redo[lastWrite])} \cup WriteFailures(file, lastWrite)
    BY <1>12 DEF Redo
  <2>4. (\A p \in Files : Clean(p, file[p]))'
    <3>1. \A p \in Files : Clean(p, file'[p])
      BY <2>1, <2>2, <2>3, OverwriteClean
    <3>2. QED BY <1>12, <3>1 DEF Redo, Clean
  <2>5. QED BY <1>0, <1>12, <2>1, <2>4 DEF Redo, Guarded, Clean
<1>13. CASE SwitchConversation
  BY <1>0, <1>13 DEF SwitchConversation, Guarded, Clean, InFlight
<1>14. CASE Restart
  BY <1>0, <1>14 DEF Restart, Reply, Guarded, Clean, InFlight
<1>15. ASSUME NEW p \in Files, NEW c \in UserContents \cup {Absent}, Save(p, c)
       PROVE  Guarded'
  BY <1>0, <1>15, DiskOK DEF Save, Guarded, Clean, InFlight, TypeOK
<1>16. CASE Die
  BY <1>0, <1>1, <1>16 DEF Die, Guarded, Clean, InFlight
<1>17. CASE UNCHANGED vars
  BY <1>0, <1>17 DEF vars, Guarded, Clean, InFlight
<1>18. QED BY <1>2, <1>3, <1>4, <1>5, <1>6, <1>7, <1>8, <1>9, <1>10, <1>11, <1>12, <1>13,
              <1>14, <1>15, <1>16, <1>17 DEF Next

(* The verify-on-write guardrail: no unbalanced code stays behind, and no  *)
(* /undo or /redo can bring any back, unless a failure was reported.       *)
THEOREM GuardrailHolds == Spec => []NoUnbalancedCodeLeft
<1>1. Init => IInv
  BY InitInv
<1>2. IInv /\ [Next]_vars => IInv'
  BY TypeStep, GuardStep DEF IInv
<1>3. IInv => NoUnbalancedCodeLeft
  BY FilesAssumption DEF IInv, Guarded, Clean, NoUnbalancedCodeLeft
<1>4. QED BY <1>1, <1>2, <1>3, PTL DEF Spec

-----------------------------------------------------------------------------
(* /undo and /redo. *)

(* What /undo can rely on: the path it goes by is one this conversation    *)
(* wrote, the change it remembers is that path's, and, unless that very    *)
(* snapshot failed, what the change replaced is in it.                     *)
UndoReady ==
  /\ lastWrite # NoPath => lastWrite \in mine /\ change.path = lastWrite
  /\ pc \notin {"idle", "dead"} => said = ""
  /\ lastWrite # NoPath /\ change.before # Absent /\ change.backed
       => bak[lastWrite] = change.before

LEMMA UndoReadyInit == Init => UndoReady /\ UndoRestoresOverwrite
BY DEF Init, UndoReady, UndoRestoresOverwrite

LEMMA SnapshotReady == TypeOK /\ UndoReady /\ Snapshot => UndoReady'
<1> SUFFICES ASSUME TypeOK, UndoReady, Snapshot PROVE UndoReady'
  OBVIOUS
<1>1. job.path \in Files /\ job.prior \in Disk /\ bak \in [Files -> Disk]
  BY DEF Snapshot, TypeOK, Jobs
<1>2. PICK backed \in BOOLEAN :
        /\ Committed(backed)
        /\ backed => bak' = IF job.prior = Absent THEN bak
                            ELSE [bak EXCEPT ![job.path] = job.prior]
        /\ ~backed => bak' \in WriteFailures(bak, job.path)
  BY DEF Snapshot, Wrote
<1>3. said' = "" /\ pc' = "idle"
  BY <1>2 DEF Committed, Reply
<1> DEFINE made == [path |-> job.path, before |-> job.prior, backed |-> backed]
<1>4. \/ lastWrite' = job.path /\ mine' = mine \cup {job.path} /\ change' = made
      \/ lastWrite' = lastWrite /\ mine' = mine /\ job.path = lastWrite /\ change' = made
      \/ /\ lastWrite' = lastWrite /\ mine' = mine /\ job.path # lastWrite
         /\ change' = change
  BY <1>2 DEF Committed
<1>5. made.path = job.path /\ made.before = job.prior /\ made.backed = backed
  OBVIOUS
<1> HIDE DEF made
<1>6. lastWrite' # NoPath => lastWrite' \in mine' /\ change'.path = lastWrite'
  <2>1. lastWrite # NoPath => lastWrite \in mine /\ change.path = lastWrite
    BY DEF UndoReady
  <2>2. QED BY <1>4, <1>5, <2>1
<1>7. \A p \in Files : p # job.path => bak'[p] = bak[p]
  <2>1. CASE backed
    BY <1>1, <1>2, <2>1
  <2>2. CASE ~backed
    BY <1>1, <1>2, <2>2 DEF WriteFailures
  <2>3. QED BY <2>1, <2>2
<1>8. ASSUME lastWrite' # NoPath, change'.before # Absent, change'.backed
      PROVE  bak'[lastWrite'] = change'.before
  <2>1. CASE lastWrite' = job.path /\ change' = made
    BY <1>1, <1>2, <1>5, <1>8, <2>1
  <2>2. CASE lastWrite' = lastWrite /\ job.path # lastWrite /\ change' = change
    <3>1. lastWrite \in Files /\ lastWrite # NoPath
      BY <1>8, <2>2 DEF TypeOK
    <3>2. QED BY <1>7, <1>8, <2>2, <3>1 DEF UndoReady
  <2>3. QED BY <1>4, <2>1, <2>2
<1>9. QED BY <1>3, <1>6, <1>8 DEF UndoReady

LEMMA UndoReadyStep == TypeOK /\ UndoReady /\ [Next]_vars => UndoReady'
<1> SUFFICES ASSUME TypeOK, UndoReady, [Next]_vars PROVE UndoReady'
  OBVIOUS
<1>1. CASE Snapshot
  BY <1>1, SnapshotReady
<1>2. CASE SwitchConversation \/ Restart
  BY <1>2 DEF SwitchConversation, Restart, Reply, UndoReady
<1>3. CASE \/ NoChange \/ WriteFails \/ WriteDone \/ VerifyRejects \/ VerifyAccepts
           \/ Revert \/ RevertFails \/ Undo \/ Redo \/ Die \/ UNCHANGED vars
  BY <1>3 DEF NoChange, WriteFails, WriteDone, VerifyRejects, VerifyAccepts, Revert,
     RevertFails, Undo, Redo, Die, Reply, UndoReady, history, vars
<1>4. ASSUME NEW who \in Who, NEW p \in Files, NEW c \in Contents,
             NEW isEdit \in BOOLEAN, Propose(who, p, c, isEdit)
      PROVE  UndoReady'
  BY <1>4 DEF Propose, UndoReady, history
<1>5. ASSUME NEW p \in Files, NEW c \in UserContents \cup {Absent}, Save(p, c)
      PROVE  UndoReady'
  BY <1>5 DEF Save, UndoReady, history
<1>6. QED BY <1>1, <1>2, <1>3, <1>4, <1>5 DEF Next

(* Only /undo and /redo speak to the user; every other step falls silent   *)
(* or takes a write one step further, which is silent too.                 *)
LEMMA OnlyUndoSpeaks ==
  ASSUME UndoReady, [Next]_vars
  PROVE  \/ Undo \/ Redo
         \/ said' = ""
         \/ UNCHANGED vars
BY DEF Next, Propose, NoChange, WriteFails, WriteDone, VerifyRejects, VerifyAccepts, Revert,
   RevertFails, Snapshot, Committed, SwitchConversation, Save, Die, Restart, Reply, UndoReady

LEMMA UndoRestoresStep ==
  TypeOK /\ UndoReady /\ UndoRestoresOverwrite /\ [Next]_vars => UndoRestoresOverwrite'
<1> SUFFICES ASSUME TypeOK, UndoReady, UndoRestoresOverwrite, [Next]_vars
             PROVE  UndoRestoresOverwrite'
  OBVIOUS
<1>1. CASE Undo
  <2>1. /\ lastWrite \in Files /\ lastWrite # NoPath
        /\ UNCHANGED <<lastWrite, change>>
        /\ \/ file' = [file EXCEPT ![lastWrite] = bak[lastWrite]]
           \/ said' = "failed"
    BY <1>1 DEF Undo, TypeOK, history, Wrote
  <2>2. QED BY <2>1 DEF UndoRestoresOverwrite, UndoReady, TypeOK
<1>2. CASE Redo
  BY <1>2 DEF Redo, UndoRestoresOverwrite
<1>3. CASE said' = ""
  BY <1>3 DEF UndoRestoresOverwrite
<1>4. CASE UNCHANGED vars
  BY <1>4 DEF UndoRestoresOverwrite, vars
<1>5. QED BY <1>1, <1>2, <1>3, <1>4, OnlyUndoSpeaks

(* /undo brings back what the last overwrite replaced, whatever the user   *)
(* saves, the child writes, fails or dies in between, unless the write of  *)
(* that one snapshot failed.                                               *)
THEOREM UndoWorks == Spec => []UndoRestoresOverwrite
<1>1. Init => TypeOK /\ UndoReady /\ UndoRestoresOverwrite
  BY InitInv, UndoReadyInit DEF IInv
<1>2. TypeOK /\ UndoReady /\ UndoRestoresOverwrite /\ [Next]_vars
      => (TypeOK /\ UndoReady /\ UndoRestoresOverwrite)'
  BY TypeStep, UndoReadyStep, UndoRestoresStep
<1>3. QED BY <1>1, <1>2, PTL DEF Spec

(* /undo and /redo touch no file the conversation has not written.         *)
THEOREM UndoStaysHome == Spec => UndoTouchesOwnFilesOnly
<1> DEFINE Home == said' \in {"reverted", "restored", "failed"} =>
                     \A p \in Files : file'[p] # file[p] => p \in mine
<1>1. Init => TypeOK /\ UndoReady
  BY InitInv, UndoReadyInit DEF IInv
<1>2. TypeOK /\ UndoReady /\ [Next]_vars => (TypeOK /\ UndoReady)'
  BY TypeStep, UndoReadyStep
<1>3. TypeOK /\ UndoReady /\ [Next]_vars => [Home]_vars
  <2> SUFFICES ASSUME TypeOK, UndoReady, [Next]_vars PROVE [Home]_vars
    OBVIOUS
  <2>1. CASE Undo \/ Redo
    <3>1. lastWrite \in Files /\ lastWrite \in mine
      BY <2>1 DEF Undo, Redo, TypeOK, UndoReady
    <3>2. \A p \in Files : p # lastWrite => file'[p] = file[p]
      BY <2>1, <3>1 DEF Undo, Redo, Wrote, WriteFailures, TypeOK
    <3>3. QED BY <3>1, <3>2
  <2>2. CASE said' = ""
    BY <2>2
  <2>3. CASE UNCHANGED vars
    BY <2>3
  <2>4. QED BY <2>1, <2>2, <2>3, OnlyUndoSpeaks
<1>4. QED BY <1>1, <1>2, <1>3, PTL DEF Spec, UndoTouchesOwnFilesOnly
-----------------------------------------------------------------------------
(***************************************************************************)
(* TextEdits.  Sequences first, and induction over a text, which is the    *)
(* least element of a set of numbers: the induction theorems of the        *)
(* library take an operator, which the provers cannot instantiate.         *)
(***************************************************************************)
LEMMA ConcatIs ==
  ASSUME NEW S, NEW x \in Seq(S), NEW y \in Seq(S)
  PROVE  /\ x \o y \in Seq(S) /\ Len(x \o y) = Len(x) + Len(y)
         /\ \A i \in 1 .. Len(x) + Len(y) :
              (x \o y)[i] = IF i <= Len(x) THEN x[i] ELSE y[i - Len(x)]
BY ConcatProperties

LEMMA LeastNat ==
  ASSUME NEW T, T \subseteq Nat, T # {}
  PROVE  \E x \in T : \A y \in T : x <= y
<1>1. PICK x \in T : \A y \in T : <<y, x>> \notin OpToRel(<, Nat)
  BY NatLessThanWellFounded, WFMin
<1>2. ASSUME NEW y \in T PROVE ~(y < x)
  <2>1. y < x => <<y, x>> \in OpToRel(<, Nat)
    BY Zenon DEF OpToRel
  <2>2. QED BY <1>1, <2>1, Zenon
<1>3. \A y \in T : x <= y
  BY <1>2
<1>4. QED BY <1>3

(* A value carried over 1 .. N from c by d is a function.                  *)
IsRun(g, c, d, N) == g[0] = c /\ \A n \in 1 .. N : g[n] = d[<<n, g[n - 1]>>]

LEMMA FiniteRecursion ==
  ASSUME NEW S, NEW c \in S, NEW d \in [Nat \X S -> S], NEW N \in Nat
  PROVE  \E g \in [0 .. N -> S] : IsRun(g, c, d, N)
<1> DEFINE Stuck == {k \in Nat : ~\E g \in [0 .. k -> S] : IsRun(g, c, d, k)}
<1>1. SUFFICES ASSUME Stuck # {} PROVE FALSE
  BY DEF Stuck
<1>2. PICK k \in Stuck : \A m \in Stuck : k <= m
  BY <1>1, LeastNat
<1>3. CASE k = 0
  <2>1. IsRun([i \in 0 .. k |-> c], c, d, k) /\ [i \in 0 .. k |-> c] \in [0 .. k -> S]
    BY <1>3 DEF IsRun
  <2>2. QED BY <2>1
<1>4. CASE k # 0
  <2>1. PICK g \in [0 .. k - 1 -> S] : IsRun(g, c, d, k - 1)
    <3>1. k - 1 \in Nat /\ k - 1 \notin Stuck
      BY <1>2, <1>4
    <3>2. QED BY <3>1
  <2> DEFINE run == [i \in 0 .. k |-> IF i = k THEN d[<<k, g[k - 1]>>] ELSE g[i]]
  <2>2. run \in [0 .. k -> S]
    BY <1>4, <2>1 DEF IsRun
  <2>3. IsRun(run, c, d, k)
    BY <1>4, <2>1 DEF IsRun
  <2>4. QED BY <2>2, <2>3
<1>5. QED BY <1>3, <1>4

(* Induction up to a bound: P holds at 0 and from each number at the next. *)
LEMMA UpTo ==
  ASSUME NEW N \in Nat, NEW P, 0 \in P, \A n \in 1 .. N : n - 1 \in P => n \in P
  PROVE  0 .. N \subseteq P
<1> DEFINE Bad == {n \in 0 .. N : n \notin P}
<1>1. SUFFICES ASSUME Bad # {} PROVE FALSE
  OBVIOUS
<1>2. PICK n \in Bad : \A m \in Bad : n <= m
  <2>1. Bad \subseteq Nat
    OBVIOUS
  <2> HIDE DEF Bad
  <2>2. QED BY <1>1, <2>1, LeastNat
<1>3. n \in 1 .. N /\ n - 1 \in 0 .. N /\ ~(n <= n - 1) /\ n \notin P
  BY <1>2
<1>4. n - 1 \in P
  BY <1>2, <1>3
<1>5. QED BY <1>3, <1>4

(* The loops over a text, unrolled.                                        *)
PicksBy(f, s, S, X) ==
  /\ f \in [0 .. Len(s) -> Seq(X)]
  /\ f[0] = <<>>
  /\ \A n \in 1 .. Len(s) : f[n] = IF n \in S THEN Append(f[n - 1], s[n]) ELSE f[n - 1]
  /\ Picked(s, S) = f[Len(s)]

LEMMA PickedIs ==
  ASSUME NEW X, NEW s \in Seq(X), NEW S
  PROVE  \E f : PicksBy(f, s, S, X)
<1> DEFINE N == Len(s)
           next(n, r) == IF n \in S THEN Append(r, s[n]) ELSE r
           body(f) == [n \in 0 .. N |-> IF n = 0 THEN <<>>
                         ELSE IF n \in S THEN Append(f[n - 1], s[n]) ELSE f[n - 1]]
           upTo == CHOOSE f : f = body(f)
           d == [p \in Nat \X Seq(X) |-> IF p[1] \in 1 .. N THEN next(p[1], p[2]) ELSE <<>>]
<1>1. N \in Nat /\ <<>> \in Seq(X) /\ \A n \in 1 .. N : s[n] \in X
  OBVIOUS
<1>2. d \in [Nat \X Seq(X) -> Seq(X)]
  BY <1>1
<1>3. PICK g \in [0 .. N -> Seq(X)] : g[0] = <<>> /\ \A n \in 1 .. N : g[n] = d[<<n, g[n - 1]>>]
  <2> HIDE DEF d, N
  <2>1. \E g \in [0 .. N -> Seq(X)] : IsRun(g, <<>>, d, N)
    BY <1>1, <1>2, FiniteRecursion
  <2>2. QED BY <2>1 DEF IsRun
<1>4. \A n \in 1 .. N : g[n] = next(n, g[n - 1])
  <2>1. ASSUME NEW n \in 1 .. N PROVE g[n] = next(n, g[n - 1])
    <3>1. n - 1 \in 0 .. N /\ n \in Nat
      BY <1>1
    <3>2. g[n - 1] \in Seq(X)
      BY <1>3, <3>1
    <3>3. d[<<n, g[n - 1]>>] = next(n, g[n - 1])
      BY <3>1, <3>2
    <3>4. QED BY <1>3, <3>3
  <2>2. QED BY <2>1
<1> HIDE DEF d
<1>5. g = body(g)
  <2>1. ASSUME NEW n \in 0 .. N PROVE g[n] = body(g)[n]
    <3>1. CASE n = 0
      BY <1>1, <1>3, <3>1
    <3>2. CASE n # 0
      <4>1. n \in 1 .. N
        BY <1>1, <3>2
      <4>2. QED BY <1>4, <3>2, <4>1
    <3>3. QED BY <3>1, <3>2
  <2>2. QED BY <1>3, <2>1
<1>6. upTo = body(upTo)
  <2> HIDE DEF body
  <2>1. QED BY <1>5
<1>7. Picked(s, S) = upTo[N]
  BY DEF Picked
<1>8. \A n \in 0 .. N : upTo[n] = IF n = 0 THEN <<>> ELSE next(n, upTo[n - 1])
  <2> HIDE DEF upTo
  <2>1. ASSUME NEW n \in 0 .. N PROVE upTo[n] = body(upTo)[n]
    BY <1>6
  <2>2. QED BY <2>1
<1> HIDE DEF upTo, body
<1>9. upTo[0] = <<>> /\ \A n \in 1 .. N : upTo[n] = next(n, upTo[n - 1])
  <2>1. 0 \in 0 .. N /\ \A n \in 1 .. N : n \in 0 .. N /\ n # 0
    BY <1>1
  <2>2. QED BY <1>8, <2>1
<1>10. \A n \in 0 .. N : upTo[n] \in Seq(X)
  <2> DEFINE P == {n \in 0 .. N : upTo[n] \in Seq(X)}
  <2>1. 0 \in P
    <3>1. 0 \in 0 .. N
      BY <1>1
    <3>2. upTo[0] \in Seq(X)
      BY <1>1, <1>9
    <3>3. QED BY <3>1, <3>2
  <2>2. ASSUME NEW n \in 1 .. N, n - 1 \in P PROVE n \in P
    <3>1. upTo[n - 1] \in Seq(X) /\ n \in 0 .. N
      BY <1>1, <2>2
    <3>2. next(n, upTo[n - 1]) \in Seq(X)
      BY <1>1, <3>1
    <3>3. QED BY <1>9, <3>1, <3>2
  <2>3. 0 .. N \subseteq P
    <3> HIDE DEF P
    <3>1. QED BY <1>1, <2>1, <2>2, UpTo
  <2>4. QED BY <2>3
<1>11. upTo \in [0 .. N -> Seq(X)]
  <2>1. upTo = [n \in 0 .. N |-> upTo[n]]
    BY <1>6 DEF body
  <2>2. QED BY <1>10, <2>1
<1>12. QED BY <1>7, <1>9, <1>11 DEF PicksBy

LEMMA AppendIs ==
  ASSUME NEW X, NEW s \in Seq(X), NEW c \in X
  PROVE  /\ Append(s, c) \in Seq(X) /\ Len(Append(s, c)) = Len(s) + 1 /\ Len(s) \in Nat
         /\ DOMAIN s = 1 .. Len(s) /\ DOMAIN Append(s, c) = 1 .. Len(s) + 1
         /\ \A i \in 1 .. Len(s) : Append(s, c)[i] = s[i]
         /\ Append(s, c)[Len(s) + 1] = c
OBVIOUS

(* Texts one after another.                                                *)
JoinsBy(f, parts, X) ==
  /\ f \in [0 .. Len(parts) -> Seq(X)]
  /\ f[0] = <<>>
  /\ \A n \in 1 .. Len(parts) : f[n] = f[n - 1] \o parts[n]
  /\ Joined(parts) = f[Len(parts)]

LEMMA JoinedIs ==
  ASSUME NEW X, NEW parts \in Seq(Seq(X))
  PROVE  \E f : JoinsBy(f, parts, X)
<1> DEFINE N == Len(parts)
           T == Seq(X)
           next(n, r) == r \o parts[n]
           body(f) == [n \in 0 .. N |-> IF n = 0 THEN <<>> ELSE f[n - 1] \o parts[n]]
           upTo == CHOOSE f : f = body(f)
           d == [p \in Nat \X T |-> IF p[1] \in 1 .. N THEN next(p[1], p[2]) ELSE <<>>]
<1>1. N \in Nat /\ <<>> \in T /\ \A n \in 1 .. N : parts[n] \in T
  OBVIOUS
<1>2. \A n \in 1 .. N, r \in T : next(n, r) \in T
  BY <1>1
<1>3. PICK g \in [0 .. N -> T] : IsRun(g, <<>>, d, N)
  <2>1. d \in [Nat \X T -> T]
    BY <1>1, <1>2
  <2> HIDE DEF d, N, T
  <2>2. QED BY <1>1, <2>1, FiniteRecursion
<1>4. ASSUME NEW n \in 1 .. N PROVE g[n] = next(n, g[n - 1])
  <2>1. n - 1 \in 0 .. N /\ n \in Nat
    BY <1>1
  <2>2. g[n - 1] \in T
    BY <1>3, <2>1
  <2>3. d[<<n, g[n - 1]>>] = next(n, g[n - 1])
    <3> HIDE DEF next, T
    <3>1. QED BY <2>1, <2>2
  <2>4. QED BY <1>3, <2>3 DEF IsRun
<1>5. g = body(g)
  <2>1. ASSUME NEW n \in 0 .. N PROVE g[n] = body(g)[n]
    <3>1. n = 0 \/ n \in 1 .. N
      BY <1>1
    <3>2. QED BY <1>3, <1>4, <3>1 DEF IsRun
  <2>2. QED BY <1>3, <2>1
<1>6. upTo = body(upTo)
  <2> HIDE DEF body
  <2>1. QED BY <1>5
<1>7. Joined(parts) = upTo[N]
  BY DEF Joined
<1> HIDE DEF upTo
<1>8. upTo[0] = <<>> /\ \A n \in 1 .. N : upTo[n] = next(n, upTo[n - 1])
  <2>1. \A n \in 0 .. N : upTo[n] = body(upTo)[n]
    BY <1>6
  <2>2. 0 \in 0 .. N /\ \A n \in 1 .. N : n \in 0 .. N /\ n # 0
    BY <1>1
  <2>3. QED BY <2>1, <2>2
<1>9. \A n \in 0 .. N : upTo[n] = g[n]
  <2> DEFINE P == {n \in 0 .. N : upTo[n] = g[n]}
  <2> HIDE DEF next
  <2>1. 0 \in P
    BY <1>1, <1>3, <1>8 DEF IsRun
  <2>2. ASSUME NEW n \in 1 .. N, n - 1 \in P PROVE n \in P
    <3>1. n \in 0 .. N /\ upTo[n - 1] = g[n - 1]
      BY <1>1, <2>2
    <3>2. upTo[n] = next(n, upTo[n - 1])
      BY <1>8
    <3>3. g[n] = next(n, g[n - 1])
      BY <1>4
    <3>4. upTo[n] = g[n]
      BY <3>1, <3>2, <3>3, Zenon
    <3>5. QED BY <3>1, <3>4
  <2>3. 0 .. N \subseteq P
    <3> HIDE DEF P
    <3>1. QED BY <1>1, <2>1, <2>2, UpTo
  <2>4. QED BY <2>3
<1>10. g[0] = <<>> /\ Joined(parts) = g[N]
  BY <1>1, <1>3, <1>7, <1>9 DEF IsRun
<1>11. QED BY <1>3, <1>4, <1>10 DEF JoinsBy

LEMMA SubIs ==
  ASSUME NEW X, NEW s \in Seq(X), NEW m \in Nat \ {0}, NEW n \in 0 .. Len(s), m <= n + 1
  PROVE  /\ SubSeq(s, m, n) \in Seq(X) /\ Len(SubSeq(s, m, n)) = n - m + 1
         /\ \A i \in 1 .. n - m + 1 : SubSeq(s, m, n)[i] = s[m + i - 1]
BY SubSeqProperties

LEMMA PrefixGrows ==
  ASSUME NEW X, NEW w \in Seq(X), NEW n \in 1 .. Len(w)
  PROVE  /\ SubSeq(w, 1, n) = Append(SubSeq(w, 1, n - 1), w[n])
         /\ SubSeq(w, 1, n - 1) \in Seq(X) /\ w[n] \in X
OBVIOUS

(* The lexer.                                                              *)
LexStates == [st : {"code", "string", "char", "line", "block"}, skip : BOOLEAN]

LEMMA LexStays ==
  ASSUME NEW q \in LexStates, NEW c, NEW d
  PROVE  LexStep(q, c, d) \in LexStates
BY DEF LexStep, LexStates, LexFrom

(* The states in front of and behind the characters of a text.             *)
LexedBy(f, t) ==
  /\ f \in [0 .. Len(t) -> LexStates]
  /\ f[0] = LexFrom
  /\ \A n \in 1 .. Len(t) : f[n] = LexStep(f[n - 1], t[n], At(t, n + 1))
  /\ Lex(t) = f

LEMMA LexIs ==
  ASSUME NEW X, NEW t \in Seq(X)
  PROVE  \E f : LexedBy(f, t)
<1> DEFINE N == Len(t)
           T == LexStates
           next(n, r) == LexStep(r, t[n], At(t, n + 1))
           body(f) == [n \in 0 .. N |-> IF n = 0 THEN LexFrom ELSE LexStep(f[n - 1], t[n], At(t, n + 1))]
           upTo == CHOOSE f : f = body(f)
           d == [p \in Nat \X T |-> IF p[1] \in 1 .. N THEN next(p[1], p[2]) ELSE LexFrom]
<1>1. N \in Nat /\ LexFrom \in T
  BY DEF LexFrom, LexStates
<1>2. \A n \in 1 .. N, r \in T : next(n, r) \in T
  BY LexStays
<1>3. PICK g \in [0 .. N -> T] : IsRun(g, LexFrom, d, N)
  <2>1. d \in [Nat \X T -> T]
    BY <1>1, <1>2
  <2> HIDE DEF d, N, T
  <2>2. QED BY <1>1, <2>1, FiniteRecursion
<1>4. ASSUME NEW n \in 1 .. N PROVE g[n] = next(n, g[n - 1])
  <2>1. n - 1 \in 0 .. N /\ n \in Nat
    BY <1>1
  <2>2. g[n - 1] \in T
    BY <1>3, <2>1
  <2>3. d[<<n, g[n - 1]>>] = next(n, g[n - 1])
    <3> HIDE DEF next, T
    <3>1. QED BY <2>1, <2>2
  <2>4. QED BY <1>3, <2>3 DEF IsRun
<1>5. g = body(g)
  <2>1. ASSUME NEW n \in 0 .. N PROVE g[n] = body(g)[n]
    <3>1. n = 0 \/ n \in 1 .. N
      BY <1>1
    <3>2. QED BY <1>3, <1>4, <3>1 DEF IsRun
  <2>2. QED BY <1>3, <2>1
<1>6. upTo = body(upTo)
  <2> HIDE DEF body
  <2>1. QED BY <1>5
<1>7. Lex(t) = upTo
  BY DEF Lex
<1> HIDE DEF upTo
<1>8. upTo[0] = LexFrom /\ \A n \in 1 .. N : upTo[n] = next(n, upTo[n - 1])
  <2>1. \A n \in 0 .. N : upTo[n] = body(upTo)[n]
    BY <1>6
  <2>2. 0 \in 0 .. N /\ \A n \in 1 .. N : n \in 0 .. N /\ n # 0
    BY <1>1
  <2>3. QED BY <2>1, <2>2
<1>9. \A n \in 0 .. N : upTo[n] = g[n]
  <2> DEFINE P == {n \in 0 .. N : upTo[n] = g[n]}
  <2> HIDE DEF next
  <2>1. 0 \in P
    BY <1>1, <1>3, <1>8 DEF IsRun
  <2>2. ASSUME NEW n \in 1 .. N, n - 1 \in P PROVE n \in P
    <3>1. n \in 0 .. N /\ upTo[n - 1] = g[n - 1]
      BY <1>1, <2>2
    <3>2. upTo[n] = next(n, upTo[n - 1])
      BY <1>8
    <3>3. g[n] = next(n, g[n - 1])
      BY <1>4
    <3>4. upTo[n] = g[n]
      BY <3>1, <3>2, <3>3, Zenon
    <3>5. QED BY <3>1, <3>4
  <2>3. 0 .. N \subseteq P
    <3> HIDE DEF P
    <3>1. QED BY <1>1, <2>1, <2>2, UpTo
  <2>4. QED BY <2>3
<1>10. g[0] = LexFrom /\ Lex(t) = g
  <2>1. upTo = [n \in 0 .. N |-> upTo[n]]
    BY <1>6
  <2>2. g = [n \in 0 .. N |-> g[n]]
    BY <1>3
  <2>3. upTo = g
    BY <1>9, <2>1, <2>2
  <2>4. QED BY <1>3, <1>7, <2>3 DEF IsRun
<1>11. QED BY <1>3, <1>4, <1>10 DEF LexedBy

(* How many brackets are open.                                            *)
DeepBy(f, t, br) ==
  /\ f \in [0 .. Len(t) -> Int]
  /\ f[0] = 0
  /\ \A n \in 1 .. Len(t) : f[n] = f[n - 1] + Weight(Lex(t)[n - 1], t[n], br)
  /\ Depth(t, br) = f

LEMMA DepthIs ==
  ASSUME NEW X, NEW t \in Seq(X), NEW br
  PROVE  \E f : DeepBy(f, t, br)
<1> DEFINE N == Len(t)
           T == Int
           next(n, r) == r + Weight(Lex(t)[n - 1], t[n], br)
           body(f) == [n \in 0 .. N |-> IF n = 0 THEN 0 ELSE f[n - 1] + Weight(Lex(t)[n - 1], t[n], br)]
           upTo == CHOOSE f : f = body(f)
           d == [p \in Nat \X T |-> IF p[1] \in 1 .. N THEN next(p[1], p[2]) ELSE 0]
<1>1. N \in Nat /\ 0 \in T
  OBVIOUS
<1>2. \A n \in 1 .. N, r \in T : next(n, r) \in T
  BY DEF Weight
<1>3. PICK g \in [0 .. N -> T] : IsRun(g, 0, d, N)
  <2>1. d \in [Nat \X T -> T]
    BY <1>1, <1>2
  <2> HIDE DEF d, N, T
  <2>2. QED BY <1>1, <2>1, FiniteRecursion
<1>4. ASSUME NEW n \in 1 .. N PROVE g[n] = next(n, g[n - 1])
  <2>1. n - 1 \in 0 .. N /\ n \in Nat
    BY <1>1
  <2>2. g[n - 1] \in T
    BY <1>3, <2>1
  <2>3. d[<<n, g[n - 1]>>] = next(n, g[n - 1])
    <3> HIDE DEF next, T
    <3>1. QED BY <2>1, <2>2
  <2>4. QED BY <1>3, <2>3 DEF IsRun
<1>5. g = body(g)
  <2>1. ASSUME NEW n \in 0 .. N PROVE g[n] = body(g)[n]
    <3>1. n = 0 \/ n \in 1 .. N
      BY <1>1
    <3>2. QED BY <1>3, <1>4, <3>1 DEF IsRun
  <2>2. QED BY <1>3, <2>1
<1>6. upTo = body(upTo)
  <2> HIDE DEF body
  <2>1. QED BY <1>5
<1>7. Depth(t, br) = upTo
  BY DEF Depth
<1> HIDE DEF upTo
<1>8. upTo[0] = 0 /\ \A n \in 1 .. N : upTo[n] = next(n, upTo[n - 1])
  <2>1. \A n \in 0 .. N : upTo[n] = body(upTo)[n]
    BY <1>6
  <2>2. 0 \in 0 .. N /\ \A n \in 1 .. N : n \in 0 .. N /\ n # 0
    BY <1>1
  <2>3. QED BY <2>1, <2>2
<1>9. \A n \in 0 .. N : upTo[n] = g[n]
  <2> DEFINE P == {n \in 0 .. N : upTo[n] = g[n]}
  <2> HIDE DEF next
  <2>1. 0 \in P
    BY <1>1, <1>3, <1>8 DEF IsRun
  <2>2. ASSUME NEW n \in 1 .. N, n - 1 \in P PROVE n \in P
    <3>1. n \in 0 .. N /\ upTo[n - 1] = g[n - 1]
      BY <1>1, <2>2
    <3>2. upTo[n] = next(n, upTo[n - 1])
      BY <1>8
    <3>3. g[n] = next(n, g[n - 1])
      BY <1>4
    <3>4. upTo[n] = g[n]
      BY <3>1, <3>2, <3>3, Zenon
    <3>5. QED BY <3>1, <3>4
  <2>3. 0 .. N \subseteq P
    <3> HIDE DEF P
    <3>1. QED BY <1>1, <2>1, <2>2, UpTo
  <2>4. QED BY <2>3
<1>10. g[0] = 0 /\ Depth(t, br) = g
  <2>1. upTo = [n \in 0 .. N |-> upTo[n]]
    BY <1>6
  <2>2. g = [n \in 0 .. N |-> g[n]]
    BY <1>3
  <2>3. upTo = g
    BY <1>9, <2>1, <2>2
  <2>4. QED BY <1>3, <1>7, <2>3 DEF IsRun
<1>11. QED BY <1>3, <1>4, <1>10 DEF DeepBy

(* What the lexer sees ahead, and what the repair makes of a character.    *)
SameAhead(c, d) == (c = "/" <=> d = "/") /\ (c = "*" <=> d = "*") /\ (c = "end" <=> d = "end")

LEMMA AheadIsEnough ==
  ASSUME NEW q \in LexStates, NEW c, NEW d, NEW e, SameAhead(d, e)
  PROVE  LexStep(q, c, d) = LexStep(q, c, e)
BY DEF LexStep, LexStates, LexFrom, SameAhead

Kept1(q, c) == Mended(q, c) = <<c>> /\ ~(InLiteral(q) /\ ~q.skip /\ c \in {Newline, "\r"})
Escaped(q, c) ==
  /\ InLiteral(q) /\ ~q.skip
  /\ \E e \in {"n", "r"} : Mended(q, c) = <<Slash, e>>
  /\ \A d : LexStep(q, c, d) = q
  /\ \A d : d # "end" => LexStep(q, Slash, d) = [q EXCEPT !.skip = TRUE]
  /\ \A e, d : LexStep([q EXCEPT !.skip = TRUE], e, d) = q

LEMMA RepairIs ==
  ASSUME NEW q \in LexStates, NEW c
  PROVE  /\ Kept1(q, c) \/ Escaped(q, c)
         /\ SameAhead(Mended(q, c)[1], c)
<1>1. CASE InLiteral(q) /\ ~q.skip /\ c \in {Newline, "\r"}
  <2>1. q.st \in {"string", "char"} /\ q.skip = FALSE
    BY <1>1 DEF InLiteral
  <2>2. \E e \in {"n", "r"} : Mended(q, c) = <<Slash, e>>
    BY <1>1 DEF Mended, Newline
  <2>3. \A d : LexStep(q, c, d) = q
    BY <1>1, <2>1 DEF LexStep, LexStates, Newline, Slash
  <2>4. \A d : d # "end" => LexStep(q, Slash, d) = [q EXCEPT !.skip = TRUE]
    BY <2>1 DEF LexStep, LexStates, Slash
  <2>5. \A e, d : LexStep([q EXCEPT !.skip = TRUE], e, d) = q
    BY <2>1 DEF LexStep, LexStates
  <2>6. Mended(q, c)[1] = Slash
    BY <2>2
  <2>7. SameAhead(Mended(q, c)[1], c)
    BY <1>1, <2>6 DEF SameAhead, Slash, Newline
  <2>8. QED BY <1>1, <2>2, <2>3, <2>4, <2>5, <2>7 DEF Escaped
<1>2. CASE ~(InLiteral(q) /\ ~q.skip /\ c \in {Newline, "\r"})
  <2>1. Mended(q, c) = <<c>>
    BY <1>2 DEF Mended, Newline
  <2>2. QED BY <1>2, <2>1 DEF Kept1, SameAhead
<1>3. QED BY <1>1, <1>2, Zenon

(* Where the parts of a joined text stand.                                 *)
PrefixOf(u, v) == Len(u) <= Len(v) /\ \A k \in 1 .. Len(u) : v[k] = u[k]

LEMMA PrefixLonger ==
  ASSUME NEW X, NEW u \in Seq(X), NEW v \in Seq(X), NEW w \in Seq(X), PrefixOf(u, v)
  PROVE  PrefixOf(u, v \o w)
<1>1. /\ Len(v \o w) = Len(v) + Len(w)
      /\ \A i \in 1 .. Len(v) + Len(w) : (v \o w)[i] = IF i <= Len(v) THEN v[i] ELSE w[i - Len(v)]
  BY ConcatIs
<1>2. Len(u) \in Nat /\ Len(v) \in Nat /\ Len(w) \in Nat
  OBVIOUS
<1>3. QED BY <1>1, <1>2 DEF PrefixOf

PlacedBy(f, parts, r) ==
  \A n \in 1 .. Len(parts) :
    /\ Len(f[n]) = Len(f[n - 1]) + Len(parts[n]) /\ Len(f[n]) <= Len(r)
    /\ \A k \in 1 .. Len(parts[n]) : r[Len(f[n - 1]) + k] = parts[n][k]

LEMMA JoinedPlaces ==
  ASSUME NEW X, NEW parts \in Seq(Seq(X)), NEW f, JoinsBy(f, parts, X)
  PROVE  /\ PlacedBy(f, parts, Joined(parts)) /\ Joined(parts) \in Seq(X)
         /\ Len(f[0]) = 0 /\ Len(f[Len(parts)]) = Len(Joined(parts))
         /\ \A n \in 0 .. Len(parts) : Len(f[n]) \in Nat
<1>1. PICK N \in Nat : N = Len(parts)
  OBVIOUS
<1>2. /\ \A n \in 0 .. N : f[n] \in Seq(X)
      /\ \A n \in 1 .. N : n \in 0 .. N /\ n - 1 \in 0 .. N /\ f[n] = f[n - 1] \o parts[n]
      /\ \A n \in 1 .. N : parts[n] \in Seq(X)
      /\ f[0] = <<>> /\ Joined(parts) = f[N]
  <2>1. f \in [0 .. N -> Seq(X)] /\ f[0] = <<>> /\ Joined(parts) = f[N]
    BY <1>1 DEF JoinsBy
  <2>2. \A n \in 1 .. N : f[n] = f[n - 1] \o parts[n]
    BY <1>1 DEF JoinsBy
  <2>3. \A n \in 1 .. N : parts[n] \in Seq(X)
    BY <1>1
  <2>4. \A n \in 1 .. N : n \in 0 .. N /\ n - 1 \in 0 .. N
    BY <1>1
  <2>5. QED BY <2>1, <2>2, <2>3, <2>4
<1>3. ASSUME NEW n \in 0 .. N PROVE PrefixOf(f[n], f[N])
  <2> DEFINE P == {m \in 0 .. N : m < n \/ PrefixOf(f[n], f[m])}
  <2>1. 0 \in P
    <3>1. n = 0 => PrefixOf(f[n], f[0])
      BY <1>2 DEF PrefixOf
    <3>2. 0 < n \/ n = 0
      OBVIOUS
    <3>3. QED BY <1>1, <3>1, <3>2
  <2>2. ASSUME NEW m \in 1 .. N, m - 1 \in P PROVE m \in P
    <3>1. m \in 0 .. N /\ (m < n \/ m = n \/ n <= m - 1)
      OBVIOUS
    <3>2. CASE m = n
      <4>1. PrefixOf(f[n], f[n])
        BY <1>2 DEF PrefixOf
      <4>2. QED BY <3>1, <3>2, <4>1
    <3>3. CASE n <= m - 1
      <4>1. PrefixOf(f[n], f[m - 1])
        BY <2>2, <3>3
      <4>2. f[n] \in Seq(X) /\ f[m - 1] \in Seq(X) /\ parts[m] \in Seq(X) /\ f[m] = f[m - 1] \o parts[m]
        BY <1>2
      <4>3. PrefixOf(f[n], f[m])
        BY <4>1, <4>2, PrefixLonger
      <4>4. QED BY <3>1, <4>3
    <3>4. QED BY <3>1, <3>2, <3>3
  <2>3. 0 .. N \subseteq P
    <3> HIDE DEF P
    <3>1. QED BY <2>1, <2>2, UpTo
  <2>4. N \in P /\ ~(N < n)
    BY <2>3
  <2>5. QED BY <2>4
<1>4. ASSUME NEW n \in 1 .. N
      PROVE  /\ Len(f[n]) = Len(f[n - 1]) + Len(parts[n]) /\ Len(f[n]) <= Len(f[N])
             /\ \A k \in 1 .. Len(parts[n]) : f[N][Len(f[n - 1]) + k] = parts[n][k]
  <2>1. PICK u \in Seq(X) : u = f[n - 1]
    BY <1>2
  <2>2. PICK v \in Seq(X) : v = parts[n]
    BY <1>2
  <2>3. f[n] = u \o v /\ PrefixOf(f[n], f[N])
    BY <1>2, <1>3, <2>1, <2>2
  <2>4. /\ Len(u \o v) = Len(u) + Len(v) /\ Len(u) \in Nat /\ Len(v) \in Nat
        /\ \A i \in 1 .. Len(u) + Len(v) : (u \o v)[i] = IF i <= Len(u) THEN u[i] ELSE v[i - Len(u)]
    BY ConcatIs
  <2>5. ASSUME NEW k \in 1 .. Len(v) PROVE f[N][Len(u) + k] = v[k]
    <3>1. /\ Len(u) + k \in 1 .. Len(u) + Len(v) /\ ~(Len(u) + k <= Len(u)) /\ Len(u) + k - Len(u) = k
      BY <2>4
    <3>2. (u \o v)[Len(u) + k] = v[k]
      BY <2>4, <3>1
    <3>3. f[N][Len(u) + k] = (u \o v)[Len(u) + k]
      BY <2>3, <2>4, <3>1 DEF PrefixOf
    <3>4. QED BY <3>2, <3>3
  <2>6. Len(f[n]) <= Len(f[N])
    BY <2>3 DEF PrefixOf
  <2>7. QED BY <2>1, <2>2, <2>3, <2>4, <2>5, <2>6
<1>5. PlacedBy(f, parts, f[N])
  BY <1>1, <1>4 DEF PlacedBy
<1>6. QED BY <1>1, <1>2, <1>5

(* A text joined from its characters is the text.                          *)
LEMMA JoinedSingles ==
  ASSUME NEW X, NEW s \in Seq(X)
  PROVE  Joined([i \in DOMAIN s |-> <<s[i]>>]) = s
<1> DEFINE parts == [i \in DOMAIN s |-> <<s[i]>>]
<1>1. PICK N \in Nat : N = Len(s) /\ DOMAIN s = 1 .. N
  OBVIOUS
<1>2. parts \in Seq(Seq(X)) /\ Len(parts) = N /\ \A i \in 1 .. N : parts[i] = <<s[i]>> /\ Len(parts[i]) = 1 /\ parts[i][1] = s[i]
  <2>1. \A i \in 1 .. N : <<s[i]>> \in Seq(X) /\ Len(<<s[i]>>) = 1 /\ <<s[i]>>[1] = s[i]
    BY <1>1
  <2>2. parts = [i \in 1 .. N |-> <<s[i]>>]
    BY <1>1
  <2>3. parts \in Seq(Seq(X)) /\ Len(parts) = N
    BY <2>1, <2>2
  <2>4. QED BY <2>1, <2>2, <2>3
<1> HIDE DEF parts
<1>3. PICK f : JoinsBy(f, parts, X)
  BY <1>2, JoinedIs
<1>4. /\ PlacedBy(f, parts, Joined(parts)) /\ Joined(parts) \in Seq(X)
      /\ Len(f[0]) = 0 /\ Len(f[N]) = Len(Joined(parts))
  BY <1>2, <1>3, JoinedPlaces
<1>5. ASSUME NEW n \in 1 .. N
      PROVE  Len(f[n]) = Len(f[n - 1]) + 1 /\ Joined(parts)[Len(f[n - 1]) + 1] = s[n]
  <2>1. Len(parts[n]) = 1 /\ parts[n][1] = s[n]
    BY <1>2, Zenon
  <2>2. n \in 1 .. Len(parts) /\ 1 \in 1 .. 1
    BY <1>2
  <2>3. QED BY <1>4, <2>1, <2>2 DEF PlacedBy
<1>6. \A n \in 0 .. N : Len(f[n]) = n
  <2> DEFINE P == {n \in 0 .. N : Len(f[n]) = n}
  <2>1. 0 \in P
    BY <1>1, <1>4
  <2>2. ASSUME NEW n \in 1 .. N, n - 1 \in P PROVE n \in P
    BY <1>5, <2>2
  <2>3. 0 .. N \subseteq P
    <3> HIDE DEF P
    <3>1. QED BY <2>1, <2>2, UpTo
  <2>4. QED BY <2>3
<1>7. PICK r \in Seq(X) : r = Joined(parts)
  BY <1>4
<1>8. Len(r) = N /\ \A n \in 1 .. N : r[n] = s[n]
  <2>1. Len(r) = N
    BY <1>4, <1>6, <1>7
  <2>2. ASSUME NEW n \in 1 .. N PROVE r[n] = s[n]
    <3>1. n - 1 \in 0 .. N /\ n - 1 + 1 = n
      BY <1>1
    <3>3. Len(f[n - 1]) + 1 = n
      BY <1>6, <3>1
    <3>2. QED BY <1>5, <1>7, <3>3
  <2>3. QED BY <2>1, <2>2
<1>9. r = s
  BY <1>1, <1>8
<1>10. QED BY <1>7, <1>9 DEF parts

(* A text and its repair, step by step: p[n] characters of r stand for the *)
(* first n of t.                                                           *)
Copied(q, w, t, r, s, n) ==
  w[s] = q[n - 1] /\ r[s + 1] = t[n] /\ Mended(w[s], r[s + 1]) = <<r[s + 1]>>
Spread(q, w, t, r, s, n) ==
  /\ w[s] = q[n - 1] /\ InLiteral(w[s]) /\ InLiteral(w[s + 1])
  /\ Mended(w[s], r[s + 1]) = <<r[s + 1]>> /\ Mended(w[s + 1], r[s + 2]) = <<r[s + 2]>>
Tracks(p, t, r) ==
  /\ p \in [0 .. Len(t) -> Nat] /\ p[0] = 0 /\ p[Len(t)] = Len(r)
  /\ Lex(r)[Len(r)] = Lex(t)[Len(t)]
  /\ \A n \in 1 .. Len(t) :
       \/ p[n] = p[n - 1] + 1 /\ p[n] <= Len(r) /\ Copied(Lex(t), Lex(r), t, r, p[n - 1], n)
       \/ p[n] = p[n - 1] + 2 /\ p[n] <= Len(r) /\ Spread(Lex(t), Lex(r), t, r, p[n - 1], n)

RepairedParts(t) == [i \in DOMAIN t |-> Mended(Lex(t)[i - 1], t[i])]

LEMMA PiecesAre ==
  ASSUME NEW X, {Slash, "n", "r"} \subseteq X, NEW t \in Seq(X)
  PROVE  /\ RepairedParts(t) \in Seq(Seq(X)) /\ Len(RepairedParts(t)) = Len(t)
         /\ \A i \in 1 .. Len(t) : /\ RepairedParts(t)[i] = Mended(Lex(t)[i - 1], t[i])
                                   /\ Len(RepairedParts(t)[i]) \in {1, 2}
<1>1. PICK N \in Nat : N = Len(t) /\ DOMAIN t = 1 .. N
  OBVIOUS
<1>2. ASSUME NEW i \in 1 .. N
      PROVE  Mended(Lex(t)[i - 1], t[i]) \in Seq(X) /\ Len(Mended(Lex(t)[i - 1], t[i])) \in {1, 2}
  <2>1. t[i] \in X
    BY <1>1
  <2>2. Slash \in X /\ "n" \in X /\ "r" \in X
    OBVIOUS
  <2>3. PICK v : v = Mended(Lex(t)[i - 1], t[i])
    OBVIOUS
  <2>4. v = <<Slash, "n">> \/ v = <<Slash, "r">> \/ v = <<t[i]>>
    BY <2>3 DEF Mended
  <2>5. <<Slash, "n">> \in Seq(X) /\ Len(<<Slash, "n">>) = 2
    BY <2>2
  <2>6. <<Slash, "r">> \in Seq(X) /\ Len(<<Slash, "r">>) = 2
    BY <2>2
  <2>7. <<t[i]>> \in Seq(X) /\ Len(<<t[i]>>) = 1
    BY <2>1
  <2>8. v \in Seq(X) /\ Len(v) \in {1, 2}
    BY <2>4, <2>5, <2>6, <2>7
  <2>9. QED BY <2>3, <2>8, Zenon
<1>3. RepairedParts(t) = [i \in 1 .. N |-> Mended(Lex(t)[i - 1], t[i])]
  BY <1>1 DEF RepairedParts
<1>4. QED BY <1>1, <1>2, <1>3

LEMMA RepairTracks ==
  ASSUME NEW X, {Slash, "n", "r"} \subseteq X, NEW t \in Seq(X)
  PROVE  VerifyRepairLiterals(t) \in Seq(X) /\ \E p : Tracks(p, t, VerifyRepairLiterals(t))
<1>1. PICK N \in Nat : N = Len(t) /\ DOMAIN t = 1 .. N
  OBVIOUS
<1>2. PICK b : b = RepairedParts(t)
  OBVIOUS
<1>3. /\ b \in Seq(Seq(X)) /\ Len(b) = N
      /\ \A i \in 1 .. N : b[i] = Mended(Lex(t)[i - 1], t[i]) /\ Len(b[i]) \in {1, 2}
  BY <1>1, <1>2, PiecesAre
<1>4. PICK f : JoinsBy(f, b, X)
  BY <1>3, JoinedIs
<1>5. PICK r \in Seq(X) : r = Joined(b)
  BY <1>3, <1>4, JoinedPlaces
<1>6. VerifyRepairLiterals(t) = r
  BY <1>2, <1>5, Zenon DEF VerifyRepairLiterals, RepairedParts
<1> DEFINE p == [n \in 0 .. N |-> Len(f[n])]
<1>7. /\ p \in [0 .. N -> Nat] /\ p[0] = 0 /\ p[N] = Len(r)
      /\ \A n \in 1 .. N : /\ p[n] = p[n - 1] + Len(b[n]) /\ p[n] <= Len(r)
                           /\ \A k \in 1 .. Len(b[n]) : r[p[n - 1] + k] = b[n][k]
  <2>1. /\ PlacedBy(f, b, r) /\ Len(f[0]) = 0 /\ Len(f[N]) = Len(r)
        /\ \A n \in 0 .. N : Len(f[n]) \in Nat
    BY <1>3, <1>4, <1>5, JoinedPlaces
  <2>2. \A n \in 0 .. N : p[n] = Len(f[n])
    OBVIOUS
  <2>3. 0 \in 0 .. N /\ N \in 0 .. N /\ \A n \in 1 .. N : n \in 0 .. N /\ n - 1 \in 0 .. N
    OBVIOUS
  <2>4. p \in [0 .. N -> Nat]
    BY <2>1
  <2> HIDE DEF p
  <2>5. p[0] = 0 /\ p[N] = Len(r)
    BY <2>1, <2>2, <2>3
  <2>6. ASSUME NEW n \in 1 .. N
        PROVE  /\ p[n] = p[n - 1] + Len(b[n]) /\ p[n] <= Len(r)
               /\ \A k \in 1 .. Len(b[n]) : r[p[n - 1] + k] = b[n][k]
    <3>1. /\ Len(f[n]) = Len(f[n - 1]) + Len(b[n]) /\ Len(f[n]) <= Len(r)
          /\ \A k \in 1 .. Len(b[n]) : r[Len(f[n - 1]) + k] = b[n][k]
      BY <1>3, <2>1 DEF PlacedBy
    <3>2. p[n] = Len(f[n]) /\ p[n - 1] = Len(f[n - 1])
      BY <2>2, <2>3
    <3>3. QED BY <3>1, <3>2
  <2>7. QED BY <2>4, <2>5, <2>6
<1> HIDE DEF p
<1>8. PICK q : q = Lex(t)
  OBVIOUS
<1>9. PICK w : w = Lex(r)
  OBVIOUS
<1>10. /\ q \in [0 .. N -> LexStates] /\ q[0] = LexFrom
       /\ \A n \in 1 .. N : q[n] = LexStep(q[n - 1], t[n], At(t, n + 1))
  <2>1. LexedBy(q, t)
    BY <1>8, LexIs DEF LexedBy
  <2>2. QED BY <1>1, <2>1 DEF LexedBy
<1>11. PICK L \in Nat : L = Len(r) /\ DOMAIN r = 1 .. L
  OBVIOUS
<1>12. /\ w \in [0 .. L -> LexStates] /\ w[0] = LexFrom
       /\ \A n \in 1 .. L : w[n] = LexStep(w[n - 1], r[n], At(r, n + 1))
  <2>1. LexedBy(w, r)
    BY <1>9, LexIs DEF LexedBy
  <2>2. QED BY <1>11, <2>1 DEF LexedBy
<1>13. ASSUME NEW n \in 1 .. N
       PROVE  SameAhead(At(r, p[n] + 1), At(t, n + 1))
  <2>1. CASE n = N
    <3>1. n + 1 \notin 1 .. N /\ p[n] = L /\ p[n] + 1 \notin 1 .. L
      BY <1>7, <1>11, <2>1
    <3>2. QED BY <1>1, <1>11, <3>1 DEF At, SameAhead
  <2>2. CASE n # N
    <3>1. n + 1 \in 1 .. N /\ n + 1 - 1 = n /\ n \in 0 .. N
      BY <2>2
    <3>2. PICK m \in 1 .. N : m = n + 1 /\ m - 1 = n
      BY <3>1
    <3>3. Len(b[m]) \in {1, 2} /\ p[n] \in Nat /\ p[m] = p[n] + Len(b[m]) /\ p[m] <= L
      BY <1>3, <1>7, <1>11, <3>1, <3>2
    <3>4. p[n] + 1 \in 1 .. L /\ 1 \in 1 .. Len(b[m])
      <4>1. PICK l \in {1, 2} : l = Len(b[m])
        BY <3>3
      <4>0. p[m] = p[n] + l /\ p[m] <= L
        BY <3>3, <4>1, Zenon
      <4>2. 1 \in 1 .. l /\ p[n] + l <= L
        BY <4>0
      <4>3. p[n] + 1 \in 1 .. L
        BY <3>3, <4>2
      <4>4. QED BY <4>1, <4>2, <4>3
    <3>5. r[p[n] + 1] = b[m][1]
      BY <1>7, <3>2, <3>4
    <3>6. q[n] \in LexStates /\ b[m] = Mended(q[n], t[m])
      BY <1>3, <1>8, <1>10, <3>1, <3>2
    <3>7. SameAhead(b[m][1], t[m])
      BY <3>6, RepairIs, Zenon
    <3>8. At(r, p[n] + 1) = b[m][1] /\ At(t, n + 1) = t[m]
      BY <1>1, <1>11, <3>1, <3>2, <3>4, <3>5 DEF At
    <3>9. QED BY <3>7, <3>8, Zenon
  <2>3. QED BY <2>1, <2>2
<1> DEFINE AsHere(n) ==
             \/ p[n] = p[n - 1] + 1 /\ p[n] <= Len(r) /\ Copied(q, w, t, r, p[n - 1], n)
             \/ p[n] = p[n - 1] + 2 /\ p[n] <= Len(r) /\ Spread(q, w, t, r, p[n - 1], n)
<1>14. ASSUME NEW n \in 1 .. N, w[p[n - 1]] = q[n - 1]
       PROVE  w[p[n]] = q[n] /\ AsHere(n)
  <2>1. PICK s \in Nat : s = p[n - 1]
    BY <1>7
  <2>2. PICK o \in LexStates : o = q[n - 1]
    BY <1>10
  <2>3. PICK c : c = t[n]
    OBVIOUS
  <2>4. /\ p[n] = s + Len(b[n]) /\ p[n] <= L /\ b[n] = Mended(o, c) /\ w[s] = o
        /\ \A k \in 1 .. Len(b[n]) : r[s + k] = b[n][k]
    BY <1>3, <1>7, <1>8, <1>11, <1>14, <2>1, <2>2, <2>3
  <2>5. q[n] = LexStep(o, c, At(t, n + 1))
    BY <1>10, <2>2, <2>3
  <2>6. SameAhead(At(r, p[n] + 1), At(t, n + 1))
    BY <1>13
  <2>7. CASE Kept1(o, c)
    <3>1. b[n] = <<c>> /\ Len(b[n]) = 1 /\ b[n][1] = c
      BY <2>4, <2>7 DEF Kept1
    <3>2. p[n] = s + 1 /\ s + 1 \in 1 .. L /\ s + 1 - 1 = s /\ r[s + 1] = c
      BY <2>4, <3>1
    <3>3. w[s + 1] = LexStep(o, c, At(r, s + 1 + 1))
      BY <1>12, <2>4, <3>2
    <3>4. w[s + 1] = q[n]
      BY <2>5, <2>6, <3>2, <3>3, AheadIsEnough
    <3>5. Copied(q, w, t, r, s, n)
      BY <2>2, <2>3, <2>4, <2>7, <3>2 DEF Copied, Kept1
    <3>6. QED BY <1>11, <2>1, <2>4, <3>2, <3>4, <3>5
  <2>8. CASE Escaped(o, c)
    <3>1. PICK e \in {"n", "r"} : b[n] = <<Slash, e>>
      BY <2>4, <2>8 DEF Escaped
    <3>2. Len(b[n]) = 2 /\ b[n][1] = Slash /\ b[n][2] = e
      BY <3>1
    <3>3. /\ p[n] = s + 2 /\ s + 1 \in 1 .. L /\ s + 1 - 1 = s /\ s + 2 \in 1 .. L /\ s + 2 - 1 = s + 1
          /\ s + 1 + 1 = s + 2
      BY <2>4, <3>2
    <3>4. r[s + 1] = Slash /\ r[s + 2] = e
      <4>1. 1 \in 1 .. 2 /\ 2 \in 1 .. 2
        OBVIOUS
      <4>2. QED BY <2>4, <3>2, <4>1
    <3>5. PICK u : u = [o EXCEPT !.skip = TRUE]
      OBVIOUS
    <3>6. w[s + 1] = u
      <4>0. w[s + 1] = LexStep(w[s + 1 - 1], r[s + 1], At(r, s + 1 + 1))
        BY <1>12, <3>3
      <4>1. w[s + 1] = LexStep(o, Slash, At(r, s + 2))
        BY <2>4, <3>3, <3>4, <4>0
      <4>2. At(r, s + 2) = e /\ e # "end"
        BY <1>11, <3>3, <3>4 DEF At
      <4>5. QED BY <2>8, <3>5, <4>1, <4>2 DEF Escaped
    <3>7. w[s + 2] = LexStep(u, e, At(r, s + 2 + 1))
      BY <1>12, <3>3, <3>4, <3>6
    <3>8. w[s + 2] = o /\ q[n] = o
      BY <2>5, <2>8, <3>5, <3>7 DEF Escaped
    <3>9. InLiteral(o) /\ ~o.skip /\ InLiteral(u) /\ u.skip = TRUE
      <4>1. InLiteral(o) /\ ~o.skip
        BY <2>8 DEF Escaped
      <4>2. u.st = o.st /\ u.skip = TRUE
        BY <3>5 DEF LexStates
      <4>3. QED BY <4>1, <4>2 DEF InLiteral
    <3>10. Mended(o, Slash) = <<Slash>> /\ Mended(u, e) = <<e>>
      BY <3>9 DEF Mended, Slash, Newline
    <3>11. Spread(q, w, t, r, s, n)
      BY <2>2, <2>4, <3>4, <3>6, <3>9, <3>10 DEF Spread
    <3>12. QED BY <1>11, <2>1, <2>4, <3>3, <3>8, <3>11
  <2>9. QED BY <2>7, <2>8, RepairIs
<1>15. \A n \in 0 .. N : w[p[n]] = q[n]
  <2> DEFINE P == {n \in 0 .. N : w[p[n]] = q[n]}
  <2>1. 0 \in P
    BY <1>7, <1>10, <1>12
  <2>2. ASSUME NEW n \in 1 .. N, n - 1 \in P PROVE n \in P
    <3>1. n \in 0 .. N /\ w[p[n - 1]] = q[n - 1]
      BY <2>2
    <3>2. QED BY <1>14, <3>1
  <2>3. 0 .. N \subseteq P
    <3> HIDE DEF P
    <3>1. QED BY <2>1, <2>2, UpTo
  <2>4. QED BY <2>3
<1>16. \A n \in 1 .. N : AsHere(n)
  <2>1. \A n \in 1 .. N : n - 1 \in 0 .. N
    OBVIOUS
  <2> HIDE DEF AsHere
  <2>2. QED BY <1>14, <1>15, <2>1
<1>17. w[L] = q[N]
  BY <1>7, <1>11, <1>15
<1>18. Tracks(p, t, r)
  BY <1>1, <1>7, <1>8, <1>9, <1>11, <1>16, <1>17 DEF Tracks
<1>19. QED BY <1>5, <1>6, <1>18

(* Every place of the repaired text belongs to one step.                   *)
LEMMA TrackedPlaces ==
  ASSUME NEW X, NEW t \in Seq(X), NEW r \in Seq(X), NEW p, Tracks(p, t, r), NEW i \in 1 .. Len(r)
  PROVE  \E n \in 1 .. Len(t) : p[n - 1] < i /\ i <= p[n]
<1>1. PICK N \in Nat : N = Len(t)
  OBVIOUS
<1>2. /\ p \in [0 .. N -> Nat] /\ p[0] = 0 /\ p[N] = Len(r)
  BY <1>1 DEF Tracks
<1> DEFINE P == {n \in 0 .. N : i <= p[n] => \E m \in 1 .. N : p[m - 1] < i /\ i <= p[m]}
<1>3. 0 \in P
  BY <1>2
<1>4. ASSUME NEW n \in 1 .. N, n - 1 \in P PROVE n \in P
  <2>1. n - 1 \in 0 .. N /\ n \in 0 .. N
    OBVIOUS
  <2>2. p[n - 1] \in Nat /\ p[n] \in Nat
    BY <1>2, <2>1
  <2>3. CASE i <= p[n - 1]
    BY <1>4, <2>1, <2>3
  <2>4. CASE p[n - 1] < i
    BY <2>1, <2>4
  <2>5. QED BY <2>2, <2>3, <2>4
<1>5. N \in P
  <2>1. 0 .. N \subseteq P
    <3> HIDE DEF P
    <3>1. QED BY <1>3, <1>4, UpTo
  <2>2. N \in 0 .. N
    OBVIOUS
  <2>3. QED BY <2>1, <2>2
<1>6. i <= p[N]
  BY <1>2
<1>7. QED BY <1>1, <1>5, <1>6

(* The repair of a repaired text changes nothing.                          *)
LEMMA RepairedOnce ==
  ASSUME NEW X, NEW t \in Seq(X), NEW r \in Seq(X), NEW p, Tracks(p, t, r)
  PROVE  VerifyRepairLiterals(r) = r
<1>1. PICK L \in Nat : L = Len(r) /\ DOMAIN r = 1 .. L
  OBVIOUS
<1>2. PICK w : w = Lex(r)
  OBVIOUS
<1>3. ASSUME NEW i \in 1 .. L PROVE Mended(w[i - 1], r[i]) = <<r[i]>>
  <2>0. i \in 1 .. Len(r)
    BY <1>1
  <2>1. PICK n \in 1 .. Len(t) : p[n - 1] < i /\ i <= p[n]
    BY <2>0, TrackedPlaces
  <2>2. PICK s \in Nat : s = p[n - 1]
    <3>1. p \in [0 .. Len(t) -> Nat]
      BY DEF Tracks
    <3>2. n - 1 \in 0 .. Len(t)
      BY <2>1
    <3>3. QED BY <3>1, <3>2
  <2>3. \/ p[n] = s + 1 /\ Copied(Lex(t), w, t, r, s, n)
        \/ p[n] = s + 2 /\ Spread(Lex(t), w, t, r, s, n)
    BY <1>2, <2>2 DEF Tracks
  <2>4. CASE p[n] = s + 1 /\ Copied(Lex(t), w, t, r, s, n)
    <3>1. i = s + 1 /\ s + 1 - 1 = s
      BY <2>1, <2>2, <2>4
    <3>2. QED BY <2>4, <3>1 DEF Copied
  <2>5. CASE p[n] = s + 2 /\ Spread(Lex(t), w, t, r, s, n)
    <3>1. s + 1 - 1 = s /\ s + 2 - 1 = s + 1 /\ (i = s + 1 \/ i = s + 2)
      BY <2>1, <2>2, <2>5
    <3>2. QED BY <2>5, <3>1 DEF Spread
  <2>6. QED BY <2>3, <2>4, <2>5
<1>4. [i \in DOMAIN r |-> Mended(w[i - 1], r[i])] = [i \in DOMAIN r |-> <<r[i]>>]
  BY <1>1, <1>3
<1>5. VerifyRepairLiterals(r) = Joined([i \in DOMAIN r |-> <<r[i]>>])
  BY <1>2, <1>4, Zenon DEF VerifyRepairLiterals
<1>6. QED BY <1>5, JoinedSingles

(* The brackets that are open are the same.                                *)
LEMMA DepthTracks ==
  ASSUME NEW X, NEW t \in Seq(X), NEW r \in Seq(X), NEW p, Tracks(p, t, r), NEW br
  PROVE  /\ Depth(r, br)[Len(r)] = Depth(t, br)[Len(t)]
         /\ (\A i \in DOMAIN r : Depth(r, br)[i] >= 0) <=> \A n \in DOMAIN t : Depth(t, br)[n] >= 0
<1>1. PICK N \in Nat : N = Len(t) /\ DOMAIN t = 1 .. N
  OBVIOUS
<1>2. PICK L \in Nat : L = Len(r) /\ DOMAIN r = 1 .. L
  OBVIOUS
<1>3. PICK q : q = Lex(t)
  OBVIOUS
<1>4. PICK w : w = Lex(r)
  OBVIOUS
<1>5. PICK d : DeepBy(d, t, br)
  BY DepthIs
<1>6. PICK e : DeepBy(e, r, br)
  BY DepthIs
<1>7. /\ d \in [0 .. N -> Int] /\ d[0] = 0
      /\ \A n \in 1 .. N : d[n] = d[n - 1] + Weight(q[n - 1], t[n], br)
  BY <1>1, <1>3, <1>5 DEF DeepBy
<1>8. /\ e \in [0 .. L -> Int] /\ e[0] = 0
      /\ \A n \in 1 .. L : e[n] = e[n - 1] + Weight(w[n - 1], r[n], br)
  BY <1>2, <1>4, <1>6 DEF DeepBy
<1>9. /\ p \in [0 .. N -> Nat] /\ p[0] = 0 /\ p[N] = L
      /\ \A n \in 1 .. N :
           \/ p[n] = p[n - 1] + 1 /\ p[n] <= L /\ Copied(q, w, t, r, p[n - 1], n)
           \/ p[n] = p[n - 1] + 2 /\ p[n] <= L /\ Spread(q, w, t, r, p[n - 1], n)
  BY <1>1, <1>2, <1>3, <1>4 DEF Tracks
<1>10. ASSUME NEW n \in 1 .. N, e[p[n - 1]] = d[n - 1]
       PROVE  /\ e[p[n]] = d[n]
              /\ \A i \in 1 .. p[n] : p[n - 1] < i => e[i] = d[n] \/ e[i] = d[n - 1]
  <2>1. n - 1 \in 0 .. N /\ n \in 0 .. N
    OBVIOUS
  <2>2. PICK s \in Nat : s = p[n - 1]
    BY <1>9, <2>1
  <2>3. PICK k \in Nat : k = p[n]
    BY <1>9, <2>1
  <2>4. e[s] = d[n - 1] /\ e[s] \in Int /\ d[n] = d[n - 1] + Weight(q[n - 1], t[n], br)
    BY <1>7, <1>10, <2>1, <2>2
  <2>5. CASE k = s + 1 /\ k <= L /\ Copied(q, w, t, r, s, n)
    <3>1. s + 1 \in 1 .. L /\ s + 1 - 1 = s
      BY <2>5
    <3>2. e[s + 1] = e[s] + Weight(w[s], r[s + 1], br)
      BY <1>8, <3>1
    <3>3. w[s] = q[n - 1] /\ r[s + 1] = t[n]
      BY <2>5 DEF Copied
    <3>4. e[k] = d[n]
      BY <2>4, <2>5, <3>2, <3>3
    <3>5. \A i \in 1 .. k : s < i => i = k
      BY <2>5
    <3>6. QED BY <2>2, <2>3, <3>4, <3>5
  <2>6. CASE k = s + 2 /\ k <= L /\ Spread(q, w, t, r, s, n)
    <3>1. s + 1 \in 1 .. L /\ s + 1 - 1 = s /\ s + 2 \in 1 .. L /\ s + 2 - 1 = s + 1
      BY <2>6
    <3>2. e[s + 1] = e[s] + Weight(w[s], r[s + 1], br) /\ e[s + 2] = e[s + 1] + Weight(w[s + 1], r[s + 2], br)
      BY <1>8, <3>1
    <3>3. ASSUME NEW z, InLiteral(z), NEW c PROVE Weight(z, c, br) = 0
      <4>1. z # LexFrom
        BY <3>3 DEF InLiteral, LexFrom
      <4>2. QED BY <4>1 DEF Weight
    <3>4. w[s] = q[n - 1] /\ InLiteral(w[s]) /\ InLiteral(w[s + 1])
      BY <2>6 DEF Spread
    <3>5. Weight(w[s], r[s + 1], br) = 0 /\ Weight(w[s + 1], r[s + 2], br) = 0 /\ Weight(q[n - 1], t[n], br) = 0
      BY <3>3, <3>4
    <3>6. d[n] = e[s] /\ e[s + 1] = e[s] /\ e[s + 2] = e[s]
      BY <2>4, <3>2, <3>5
    <3>7. \A i \in 1 .. k : s < i => i = s + 1 \/ i = s + 2
      BY <2>6
    <3>8. QED BY <2>2, <2>3, <2>4, <2>6, <3>6, <3>7
  <2>7. QED BY <1>9, <2>2, <2>3, <2>5, <2>6
<1>11. \A n \in 0 .. N : e[p[n]] = d[n]
  <2> DEFINE P == {n \in 0 .. N : e[p[n]] = d[n]}
  <2>1. 0 \in P
    BY <1>7, <1>8, <1>9
  <2>2. ASSUME NEW n \in 1 .. N, n - 1 \in P PROVE n \in P
    <3>1. n \in 0 .. N /\ e[p[n - 1]] = d[n - 1]
      BY <2>2
    <3>2. QED BY <1>10, <3>1
  <2>3. 0 .. N \subseteq P
    <3> HIDE DEF P
    <3>1. QED BY <2>1, <2>2, UpTo
  <2>4. QED BY <2>3
<1>12. e[L] = d[N]
  BY <1>9, <1>11
<1>13. ASSUME \A i \in 1 .. L : e[i] >= 0, NEW n \in 1 .. N PROVE d[n] >= 0
  <2>1. n - 1 \in 0 .. N /\ n \in 0 .. N
    OBVIOUS
  <2>2. p[n] \in Nat /\ p[n - 1] \in Nat /\ p[n] <= L /\ (p[n] = p[n - 1] + 1 \/ p[n] = p[n - 1] + 2)
    BY <1>9, <2>1
  <2>3. p[n] \in 1 .. L
    BY <2>2
  <2>4. QED BY <1>11, <1>13, <2>1, <2>3
<1>14. ASSUME \A n \in 1 .. N : d[n] >= 0, NEW i \in 1 .. L PROVE e[i] >= 0
  <2>1. PICK n \in 1 .. N : p[n - 1] < i /\ i <= p[n]
    BY <1>1, <1>2, TrackedPlaces
  <2>2. n - 1 \in 0 .. N /\ n \in 0 .. N /\ (n - 1 = 0 \/ n - 1 \in 1 .. N)
    OBVIOUS
  <2>3. p[n] \in Nat /\ i \in 1 .. p[n]
    BY <1>9, <2>1, <2>2
  <2>4. e[i] = d[n] \/ e[i] = d[n - 1]
    BY <1>10, <1>11, <2>1, <2>2, <2>3
  <2>5. d[n - 1] >= 0
    <3>1. CASE n - 1 = 0
      BY <1>7, <3>1
    <3>2. CASE n - 1 \in 1 .. N
      BY <1>14, <3>2
    <3>3. QED BY <2>2, <3>1, <3>2
  <2>6. QED BY <1>14, <2>4, <2>5
<1>15. Depth(t, br) = d /\ Depth(r, br) = e
  BY <1>5, <1>6 DEF DeepBy
<1>16. QED BY <1>1, <1>2, <1>12, <1>13, <1>14, <1>15

(* What stands outside the literals is the same.                           *)
LEMMA CodeTracks ==
  ASSUME NEW X, NEW t \in Seq(X), NEW r \in Seq(X), NEW p, Tracks(p, t, r)
  PROVE  CodeOnly(r) = CodeOnly(t)
<1>1. PICK N \in Nat : N = Len(t) /\ DOMAIN t = 1 .. N
  OBVIOUS
<1>2. PICK L \in Nat : L = Len(r) /\ DOMAIN r = 1 .. L
  OBVIOUS
<1>3. PICK q : q = Lex(t)
  OBVIOUS
<1>4. PICK w : w = Lex(r)
  OBVIOUS
<1>5. PICK S : S = {i \in DOMAIN t : ~InLiteral(q[i - 1])}
  OBVIOUS
<1>6. PICK R : R = {i \in DOMAIN r : ~InLiteral(w[i - 1])}
  OBVIOUS
<1>7. PICK g : PicksBy(g, t, S, X)
  BY PickedIs
<1>8. PICK h : PicksBy(h, r, R, X)
  BY PickedIs
<1>9. /\ g[0] = <<>>
      /\ \A n \in 1 .. N : g[n] = IF n \in S THEN Append(g[n - 1], t[n]) ELSE g[n - 1]
  BY <1>1, <1>7 DEF PicksBy
<1>10. /\ h[0] = <<>>
       /\ \A n \in 1 .. L : h[n] = IF n \in R THEN Append(h[n - 1], r[n]) ELSE h[n - 1]
  BY <1>2, <1>8 DEF PicksBy
<1>11. /\ p \in [0 .. N -> Nat] /\ p[0] = 0 /\ p[N] = L
       /\ \A n \in 1 .. N :
            \/ p[n] = p[n - 1] + 1 /\ p[n] <= L /\ Copied(q, w, t, r, p[n - 1], n)
            \/ p[n] = p[n - 1] + 2 /\ p[n] <= L /\ Spread(q, w, t, r, p[n - 1], n)
  BY <1>1, <1>2, <1>3, <1>4 DEF Tracks
<1>12. ASSUME NEW n \in 1 .. N, h[p[n - 1]] = g[n - 1] PROVE h[p[n]] = g[n]
  <2>1. n - 1 \in 0 .. N
    OBVIOUS
  <2>2. PICK s \in Nat : s = p[n - 1]
    BY <1>11, <2>1
  <2>3. n \in S <=> ~InLiteral(q[n - 1])
    BY <1>1, <1>5
  <2>4. CASE p[n] = s + 1 /\ p[n] <= L /\ Copied(q, w, t, r, s, n)
    <3>1. s + 1 \in 1 .. L /\ s + 1 - 1 = s
      BY <2>4
    <3>2. w[s] = q[n - 1] /\ r[s + 1] = t[n]
      BY <2>4 DEF Copied
    <3>3. s + 1 \in R <=> ~InLiteral(q[n - 1])
      BY <1>2, <1>6, <3>1, <3>2
    <3>4. h[s + 1] = IF s + 1 \in R THEN Append(h[s], r[s + 1]) ELSE h[s]
      BY <1>10, <3>1
    <3>5. g[n] = IF n \in S THEN Append(g[n - 1], t[n]) ELSE g[n - 1]
      BY <1>9
    <3>6. h[s] = g[n - 1]
      BY <1>12, <2>2
    <3>7. QED BY <2>3, <2>4, <3>2, <3>3, <3>4, <3>5, <3>6, Zenon
  <2>5. CASE p[n] = s + 2 /\ p[n] <= L /\ Spread(q, w, t, r, s, n)
    <3>1. s + 1 \in 1 .. L /\ s + 1 - 1 = s /\ s + 2 \in 1 .. L /\ s + 2 - 1 = s + 1
      BY <2>5
    <3>2. w[s] = q[n - 1] /\ InLiteral(w[s]) /\ InLiteral(w[s + 1])
      BY <2>5 DEF Spread
    <3>3. s + 1 \notin R /\ s + 2 \notin R /\ n \notin S
      BY <1>6, <2>3, <3>1, <3>2
    <3>4. h[s + 1] = h[s] /\ h[s + 2] = h[s + 1]
      BY <1>10, <3>1, <3>3
    <3>5. g[n] = g[n - 1]
      BY <1>9, <3>3
    <3>6. QED BY <1>12, <2>2, <2>5, <3>4, <3>5
  <2>6. QED BY <1>11, <2>2, <2>4, <2>5
<1>13. h[L] = g[N]
  <2> DEFINE P == {n \in 0 .. N : h[p[n]] = g[n]}
  <2>1. 0 \in P
    BY <1>9, <1>10, <1>11
  <2>2. ASSUME NEW n \in 1 .. N, n - 1 \in P PROVE n \in P
    <3>1. n \in 0 .. N /\ h[p[n - 1]] = g[n - 1]
      BY <2>2
    <3>2. QED BY <1>12, <3>1
  <2>3. 0 .. N \subseteq P
    <3> HIDE DEF P
    <3>1. QED BY <2>1, <2>2, UpTo
  <2>4. N \in P
    BY <2>3
  <2>5. QED BY <1>11, <2>4
<1>14. Picked(t, S) = g[N] /\ Picked(r, R) = h[L]
  BY <1>1, <1>2, <1>7, <1>8 DEF PicksBy
<1>15. CodeOnly(t) = Picked(t, S) /\ CodeOnly(r) = Picked(r, R)
  BY <1>3, <1>4, <1>5, <1>6, Zenon DEF CodeOnly
<1>16. QED BY <1>13, <1>14, <1>15

(* For every text: verify_repair_literals leaves the program outside the   *)
(* literals alone, needs one pass, and does not change the verdict of      *)
(* verify_balance.                                                         *)
THEOREM RepairAlwaysSafe ==
  ASSUME NEW X, NEW t \in Seq(X)
  PROVE  RepairIsSafe(t)
<1> DEFINE Y == X \cup {Slash, "n", "r"}
<1>1. t \in Seq(Y) /\ {Slash, "n", "r"} \subseteq Y
  OBVIOUS
<1> HIDE DEF Y
<1>2. PICK r : r = VerifyRepairLiterals(t)
  OBVIOUS
<1>3. r \in Seq(Y) /\ \E p : Tracks(p, t, r)
  BY <1>1, <1>2, RepairTracks
<1>4. PICK p : Tracks(p, t, r)
  BY <1>3
<1>5. CodeOnly(r) = CodeOnly(t) /\ VerifyRepairLiterals(r) = r
  BY <1>1, <1>3, <1>4, CodeTracks, RepairedOnce
<1>6. Lex(r)[Len(r)].st = Lex(t)[Len(t)].st
  BY <1>4 DEF Tracks
<1>7. \A br : /\ Depth(r, br)[Len(r)] = Depth(t, br)[Len(t)]
              /\ (\A i \in DOMAIN r : Depth(r, br)[i] >= 0) <=> \A n \in DOMAIN t : Depth(t, br)[n] >= 0
  BY <1>1, <1>3, <1>4, DepthTracks
<1>8. VerifyBalance(r) <=> VerifyBalance(t)
  BY <1>6, <1>7, Zenon DEF VerifyBalance
<1>9. QED BY <1>2, <1>5, <1>8, Zenon DEF RepairIsSafe

(* The spans of the lines of a text.                                       *)
SpanRecs == [from : Nat, to : Nat]
SomeSpans == {s \in Seq(SpanRecs) : s # <<>>}
FirstSpan == <<[from |-> 1, to |-> 0]>>

LEMMA SpansHave ==
  ASSUME NEW s \in SomeSpans
  PROVE  /\ s \in Seq(SpanRecs) /\ Len(s) \in Nat \ {0} /\ DOMAIN s = 1 .. Len(s)
         /\ \A k \in 1 .. Len(s) : s[k] \in SpanRecs /\ s[k].from \in Nat /\ s[k].to \in Nat
<1>1. /\ s \in Seq(SpanRecs) /\ Len(s) \in Nat \ {0} /\ DOMAIN s = 1 .. Len(s)
      /\ \A k \in 1 .. Len(s) : s[k] \in SpanRecs
  BY DEF SomeSpans
<1>2. \A y \in SpanRecs : y.from \in Nat /\ y.to \in Nat
  BY DEF SpanRecs
<1>3. QED BY <1>1, <1>2

OpensLine(x, s, n) ==          \* after a newline, a line begins
  /\ x \in SomeSpans /\ Len(x) = Len(s) + 1
  /\ x[Len(s) + 1] = [from |-> n + 1, to |-> n]
  /\ \A k \in 1 .. Len(s) : x[k] = s[k]

ExtendsLine(x, s, n) ==          \* after another character, the line goes on
  /\ x \in SomeSpans /\ Len(x) = Len(s)
  /\ x[Len(s)] = [from |-> s[Len(s)].from, to |-> n]
  /\ \A k \in 1 .. Len(s) - 1 : x[k] = s[k]

LEMMA SpanToNew ==
  ASSUME NEW s \in SomeSpans, NEW n \in Nat
  PROVE  OpensLine(SpanTo(s, Newline, n), s, n)
<1>1. PICK m \in Nat \ {0} : m = Len(s) /\ s \in Seq(SpanRecs) /\ DOMAIN s = 1 .. m /\ m \in 1 .. m
  BY DEF SomeSpans
<1>2. PICK x : x = SpanTo(s, Newline, n)
  OBVIOUS
<1>3. [from |-> n + 1, to |-> n] \in SpanRecs
  BY DEF SpanRecs
<1>4. x = Append(s, [from |-> n + 1, to |-> n])
  BY <1>2 DEF SpanTo
<1>5. /\ x \in Seq(SpanRecs) /\ Len(x) = m + 1 /\ x[m + 1] = [from |-> n + 1, to |-> n]
      /\ \A k \in 1 .. m : x[k] = s[k]
  BY <1>1, <1>3, <1>4, AppendIs
<1>6. x # <<>>
  BY <1>1, <1>5
<1>7. QED BY <1>1, <1>2, <1>5, <1>6 DEF SomeSpans, OpensLine

LEMMA SpanToSame ==
  ASSUME NEW s \in SomeSpans, NEW c, c # Newline, NEW n \in Nat
  PROVE  ExtendsLine(SpanTo(s, c, n), s, n)
<1>1. PICK m \in Nat \ {0} : m = Len(s) /\ s \in Seq(SpanRecs) /\ DOMAIN s = 1 .. m /\ m \in 1 .. m
  BY DEF SomeSpans
<1>2. PICK x : x = SpanTo(s, c, n)
  OBVIOUS
<1>3. PICK y \in SpanRecs : y = s[m]
  BY <1>1
<1>4. [from |-> y.from, to |-> n] \in SpanRecs /\ [from |-> y.from, to |-> n] = [y EXCEPT !.to = n]
  BY DEF SpanRecs
<1>5. PICK z \in SpanRecs : z = [from |-> s[m].from, to |-> n] /\ z = [s[m] EXCEPT !.to = n]
  BY <1>3, <1>4
<1>6. x = [s EXCEPT ![m] = z]
  BY <1>1, <1>2, <1>5 DEF SpanTo
<1>7. /\ x \in Seq(SpanRecs) /\ Len(x) = m /\ x[m] = z /\ \A k \in 1 .. m - 1 : x[k] = s[k]
  BY <1>1, <1>5, <1>6
<1>8. x # <<>>
  BY <1>1, <1>7
<1>9. QED BY <1>1, <1>2, <1>5, <1>7, <1>8 DEF SomeSpans, ExtendsLine

(* split_lines, character by character.                                    *)
SpansBy(f, t) ==
  /\ f \in [0 .. Len(t) -> SomeSpans]
  /\ f[0] = FirstSpan
  /\ \A n \in 1 .. Len(t) : f[n] = SpanTo(f[n - 1], t[n], n)
  /\ Spans(t) = f[Len(t)]

LEMMA SpansIs ==
  ASSUME NEW X, NEW t \in Seq(X)
  PROVE  \E f : SpansBy(f, t)
<1> DEFINE N == Len(t)
           T == SomeSpans
           next(n, r) == SpanTo(r, t[n], n)
           body(f) == [n \in 0 .. N |-> IF n = 0 THEN FirstSpan ELSE SpanTo(f[n - 1], t[n], n)]
           upTo == CHOOSE f : f = body(f)
           d == [p \in Nat \X T |-> IF p[1] \in 1 .. N THEN next(p[1], p[2]) ELSE FirstSpan]
<1>1. N \in Nat /\ FirstSpan \in T
  BY DEF FirstSpan, SomeSpans, SpanRecs
<1>2. ASSUME NEW n \in 1 .. N, NEW r \in T PROVE next(n, r) \in T
  <2>1. n \in Nat
    BY <1>1
  <2> HIDE DEF N
  <2>2. r = r /\ (t[n] = Newline \/ t[n] # Newline)
    OBVIOUS
  <2>3. QED BY <2>1, <2>2, SpanToNew, SpanToSame DEF OpensLine, ExtendsLine
<1>3. PICK g \in [0 .. N -> T] : IsRun(g, FirstSpan, d, N)
  <2>1. d \in [Nat \X T -> T]
    BY <1>1, <1>2
  <2> HIDE DEF d, N, T
  <2>2. QED BY <1>1, <2>1, FiniteRecursion
<1>4. ASSUME NEW n \in 1 .. N PROVE g[n] = next(n, g[n - 1])
  <2>1. n - 1 \in 0 .. N /\ n \in Nat
    BY <1>1
  <2>2. g[n - 1] \in T
    BY <1>3, <2>1
  <2>3. d[<<n, g[n - 1]>>] = next(n, g[n - 1])
    <3> HIDE DEF next, T
    <3>1. QED BY <2>1, <2>2
  <2>4. QED BY <1>3, <2>3 DEF IsRun
<1>5. g = body(g)
  <2>1. ASSUME NEW n \in 0 .. N PROVE g[n] = body(g)[n]
    <3>1. n = 0 \/ n \in 1 .. N
      BY <1>1
    <3>2. QED BY <1>3, <1>4, <3>1 DEF IsRun
  <2>2. QED BY <1>3, <2>1
<1>6. upTo = body(upTo)
  <2> HIDE DEF body
  <2>1. QED BY <1>5
<1>7. Spans(t) = upTo[N]
  BY DEF Spans, FirstSpan
<1> HIDE DEF upTo
<1>8. upTo[0] = FirstSpan /\ \A n \in 1 .. N : upTo[n] = next(n, upTo[n - 1])
  <2>1. \A n \in 0 .. N : upTo[n] = body(upTo)[n]
    BY <1>6
  <2>2. 0 \in 0 .. N /\ \A n \in 1 .. N : n \in 0 .. N /\ n # 0
    BY <1>1
  <2>3. QED BY <2>1, <2>2
<1>9. \A n \in 0 .. N : upTo[n] = g[n]
  <2> DEFINE P == {n \in 0 .. N : upTo[n] = g[n]}
  <2> HIDE DEF next
  <2>1. 0 \in P
    BY <1>1, <1>3, <1>8 DEF IsRun
  <2>2. ASSUME NEW n \in 1 .. N, n - 1 \in P PROVE n \in P
    <3>1. n \in 0 .. N /\ upTo[n - 1] = g[n - 1]
      BY <1>1, <2>2
    <3>2. upTo[n] = next(n, upTo[n - 1])
      BY <1>8
    <3>3. g[n] = next(n, g[n - 1])
      BY <1>4
    <3>4. upTo[n] = g[n]
      BY <3>1, <3>2, <3>3, Zenon
    <3>5. QED BY <3>1, <3>4
  <2>3. 0 .. N \subseteq P
    <3> HIDE DEF P
    <3>1. QED BY <1>1, <2>1, <2>2, UpTo
  <2>4. QED BY <2>3
<1>10. g[0] = FirstSpan /\ Spans(t) = g[N]
  BY <1>1, <1>3, <1>7, <1>9 DEF IsRun
<1>11. QED BY <1>3, <1>4, <1>10 DEF SpansBy

(* What the spans of the first n characters are.                           *)
Spanned(s, t, n) ==
  /\ s[1].from = 1 /\ s[Len(s)].to = n
  /\ \A k \in 1 .. Len(s) : /\ s[k].from \in 1 .. n + 1 /\ s[k].to \in 0 .. n
                            /\ s[k].from <= s[k].to + 1
  /\ \A k \in 2 .. Len(s) : s[k].from - 1 \in 1 .. n /\ t[s[k].from - 1] = Newline
  /\ \A k \in 1 .. Len(s) : \A l \in 1 .. Len(s) : k < l => s[k].from < s[l].from

LEMMA SpannedFirst ==
  ASSUME NEW t
  PROVE  Spanned(FirstSpan, t, 0) /\ FirstSpan \in SomeSpans /\ Len(FirstSpan) = 1
<1>1. FirstSpan[1] = [from |-> 1, to |-> 0] /\ Len(FirstSpan) = 1 /\ FirstSpan \in SomeSpans
  BY DEF FirstSpan, SomeSpans, SpanRecs
<1> DEFINE z == [from |-> 1, to |-> 0]
<1>2. z.from = 1 /\ z.to = 0 /\ \A k \in 1 .. 1 : k = 1
  OBVIOUS
<1>3. QED BY <1>1, <1>2 DEF Spanned

LEMMA SpannedNext ==
  ASSUME NEW s \in SomeSpans, NEW t, NEW n \in Nat, Spanned(s, t, n)
  PROVE  Spanned(SpanTo(s, t[n + 1], n + 1), t, n + 1)
<1>1. PICK m \in Nat \ {0} : m = Len(s)
  BY SpansHave
<1>2. PICK x : x = SpanTo(s, t[n + 1], n + 1)
  OBVIOUS
<1>3. \A k \in 1 .. m : s[k].from \in Nat /\ s[k].to \in Nat
  BY <1>1, SpansHave
<1>4. /\ s[1].from = 1 /\ s[m].to = n
      /\ \A k \in 1 .. m : s[k].from \in 1 .. n + 1 /\ s[k].to \in 0 .. n /\ s[k].from <= s[k].to + 1
      /\ \A k \in 2 .. m : s[k].from - 1 \in 1 .. n /\ t[s[k].from - 1] = Newline
      /\ \A k \in 1 .. m : \A l \in 1 .. m : k < l => s[k].from < s[l].from
  BY <1>1 DEF Spanned
<1>5. CASE t[n + 1] = Newline
  <2>1. /\ Len(x) = m + 1 /\ x[m + 1] = [from |-> n + 1 + 1, to |-> n + 1]
        /\ \A k \in 1 .. m : x[k] = s[k]
    <3>1. n + 1 \in Nat /\ x = SpanTo(s, Newline, n + 1)
      BY <1>2, <1>5
    <3>2. OpensLine(x, s, n + 1)
      BY <3>1, SpanToNew
    <3>3. QED BY <1>1, <3>2 DEF OpensLine
  <2>2. x[m + 1].from = n + 2 /\ x[m + 1].to = n + 1
    BY <2>1
  <2>3. \A k \in 1 .. m + 1 : k \in 1 .. m \/ k = m + 1
    OBVIOUS
  <2>4. x[1].from = 1 /\ x[m + 1].to = n + 1
    BY <1>4, <2>1, <2>2
  <2>5. ASSUME NEW k \in 1 .. m + 1
        PROVE  /\ x[k].from \in 1 .. n + 1 + 1 /\ x[k].to \in 0 .. n + 1 /\ x[k].from <= x[k].to + 1
    <3>1. CASE k \in 1 .. m
      <4>1. x[k] = s[k]
        BY <2>1, <3>1
      <4>2. s[k].from \in 1 .. n + 1 /\ s[k].to \in 0 .. n /\ s[k].from <= s[k].to + 1
        BY <1>4, <3>1
      <4>3. QED BY <4>1, <4>2
    <3>2. CASE k = m + 1
      BY <2>2, <3>2
    <3>3. QED BY <2>3, <3>1, <3>2
  <2>6. ASSUME NEW k \in 2 .. m + 1 PROVE x[k].from - 1 \in 1 .. n + 1 /\ t[x[k].from - 1] = Newline
    <3>1. CASE k \in 2 .. m
      <4>1. x[k] = s[k]
        BY <2>1, <3>1
      <4>2. s[k].from - 1 \in 1 .. n /\ t[s[k].from - 1] = Newline
        BY <1>4, <3>1
      <4>3. QED BY <4>1, <4>2
    <3>2. CASE k = m + 1
      <4>1. x[k].from - 1 = n + 1
        BY <2>2, <3>2
      <4>2. QED BY <1>5, <4>1
    <3>3. QED BY <3>1, <3>2
  <2>7. ASSUME NEW k \in 1 .. m + 1, NEW l \in 1 .. m + 1, k < l PROVE x[k].from < x[l].from
    <3>1. k \in 1 .. m /\ x[k] = s[k] /\ s[k].from \in 1 .. n + 1
      BY <1>4, <2>1, <2>7
    <3>2. CASE l \in 1 .. m
      BY <1>4, <2>1, <2>7, <3>1, <3>2
    <3>3. CASE l = m + 1
      BY <2>2, <3>1, <3>3
    <3>4. QED BY <2>3, <3>2, <3>3
  <2>8. QED BY <1>2, <2>1, <2>4, <2>5, <2>6, <2>7 DEF Spanned
<1>6. CASE t[n + 1] # Newline
  <2>1. /\ Len(x) = m /\ x[m] = [from |-> s[m].from, to |-> n + 1]
        /\ \A k \in 1 .. m - 1 : x[k] = s[k]
    <3>1. n + 1 \in Nat
      OBVIOUS
    <3>2. ExtendsLine(x, s, n + 1)
      BY <1>2, <1>6, <3>1, SpanToSame
    <3>3. QED BY <1>1, <3>2 DEF ExtendsLine
  <2>2. x[m].from = s[m].from /\ x[m].to = n + 1
    BY <2>1
  <2>3. \A k \in 1 .. m : x[k].from = s[k].from /\ (x[k].to = s[k].to \/ k = m)
    <3>1. \A k \in 1 .. m : k \in 1 .. m - 1 \/ k = m
      OBVIOUS
    <3>2. QED BY <2>1, <2>2, <3>1
  <2>4. x[1].from = 1 /\ x[m].to = n + 1
    BY <1>4, <2>2, <2>3
  <2>5. ASSUME NEW k \in 1 .. m
        PROVE  /\ x[k].from \in 1 .. n + 1 + 1 /\ x[k].to \in 0 .. n + 1 /\ x[k].from <= x[k].to + 1
    <3>1. s[k].from \in 1 .. n + 1 /\ s[k].to \in 0 .. n /\ s[k].from <= s[k].to + 1
      BY <1>4
    <3>2. CASE k = m
      BY <2>2, <3>1, <3>2
    <3>3. CASE k # m
      BY <2>3, <3>1, <3>3
    <3>4. QED BY <3>2, <3>3
  <2>6. ASSUME NEW k \in 2 .. m PROVE x[k].from - 1 \in 1 .. n + 1 /\ t[x[k].from - 1] = Newline
    <3>1. s[k].from - 1 \in 1 .. n /\ t[s[k].from - 1] = Newline
      BY <1>4
    <3>2. k \in 1 .. m
      OBVIOUS
    <3>3. QED BY <2>3, <3>1, <3>2
  <2>7. ASSUME NEW k \in 1 .. m, NEW l \in 1 .. m, k < l PROVE x[k].from < x[l].from
    BY <1>4, <2>3, <2>7
  <2>8. QED BY <1>2, <2>1, <2>4, <2>5, <2>6, <2>7 DEF Spanned
<1>7. QED BY <1>5, <1>6

LEMMA SpansAre ==
  ASSUME NEW X, NEW t \in Seq(X)
  PROVE  /\ Spans(t) \in Seq(SpanRecs) /\ Len(Spans(t)) \in Nat \ {0}
         /\ Spanned(Spans(t), t, Len(t))
<1>1. PICK N \in Nat : N = Len(t)
  OBVIOUS
<1>2. PICK f : SpansBy(f, t)
  BY SpansIs
<1>3. /\ f \in [0 .. N -> SomeSpans] /\ f[0] = FirstSpan /\ Spans(t) = f[N]
      /\ \A n \in 1 .. N : f[n] = SpanTo(f[n - 1], t[n], n)
  BY <1>1, <1>2 DEF SpansBy
<1> DEFINE P == {n \in 0 .. N : Spanned(f[n], t, n)}
<1>4. 0 \in P
  BY <1>3, SpannedFirst
<1>5. ASSUME NEW n \in 1 .. N, n - 1 \in P PROVE n \in P
  <2>1. PICK m \in Nat : m = n - 1 /\ m + 1 = n /\ m \in 0 .. N /\ n \in 0 .. N
    OBVIOUS
  <2>2. f[m] \in SomeSpans /\ Spanned(f[m], t, m) /\ f[n] = SpanTo(f[m], t[m + 1], m + 1)
    BY <1>3, <1>5, <2>1
  <2>3. Spanned(f[n], t, m + 1)
    BY <2>2, SpannedNext
  <2>4. QED BY <2>1, <2>3
<1>6. N \in P
  <2>1. 0 .. N \subseteq P
    <3> HIDE DEF P
    <3>1. QED BY <1>4, <1>5, UpTo
  <2>2. N \in 0 .. N
    OBVIOUS
  <2>3. QED BY <2>1, <2>2
<1>7. f[N] \in SomeSpans
  BY <1>3
<1>8. QED BY <1>1, <1>3, <1>6, <1>7 DEF SomeSpans

(* The spans of two texts with a newline between.                          *)
Moved(s, m) == [k \in DOMAIN s |-> [from |-> s[k].from + m, to |-> s[k].to + m]]

LEMMA MovedIs ==
  ASSUME NEW s \in SomeSpans, NEW m \in Nat
  PROVE  /\ Moved(s, m) \in SomeSpans /\ Len(Moved(s, m)) = Len(s)
         /\ \A k \in 1 .. Len(s) : Moved(s, m)[k] = [from |-> s[k].from + m, to |-> s[k].to + m]
<1>1. s \in Seq(SpanRecs) /\ Len(s) \in Nat \ {0} /\ DOMAIN s = 1 .. Len(s)
  BY DEF SomeSpans
<1>2. ASSUME NEW k \in 1 .. Len(s) PROVE [from |-> s[k].from + m, to |-> s[k].to + m] \in SpanRecs
  <2>1. PICK y \in SpanRecs : y = s[k]
    BY <1>1
  <2>2. QED BY <2>1 DEF SpanRecs
<1>3. Moved(s, m) = [k \in 1 .. Len(s) |-> [from |-> s[k].from + m, to |-> s[k].to + m]]
  BY <1>1 DEF Moved
<1>4. Moved(s, m) \in Seq(SpanRecs) /\ Len(Moved(s, m)) = Len(s)
  BY <1>1, <1>2, <1>3
<1>5. QED BY <1>1, <1>3, <1>4 DEF SomeSpans

LEMMA SpanToMoves ==
  ASSUME NEW a \in Seq(SpanRecs), NEW s \in SomeSpans, NEW c, NEW n \in Nat, NEW m \in Nat
  PROVE  SpanTo(a \o Moved(s, m), c, n + m) = a \o Moved(SpanTo(s, c, n), m)
<1>1. PICK b : b = Moved(s, m)
  OBVIOUS
<1>2. PICK x : x = SpanTo(s, c, n)
  OBVIOUS
<1>3. PICK y : y = Moved(x, m)
  OBVIOUS
<1>4. PICK k \in Nat \ {0} : k = Len(s) /\ k = Len(b)
  BY <1>1, MovedIs, SpansHave
<1>5. /\ b \in SomeSpans /\ \A i \in 1 .. k : b[i] = [from |-> s[i].from + m, to |-> s[i].to + m]
  BY <1>1, <1>4, MovedIs
<1>0. x \in SomeSpans
  <2>1. CASE c = Newline
    BY <1>2, <2>1, SpanToNew DEF OpensLine
  <2>2. CASE c # Newline
    BY <1>2, <2>2, SpanToSame DEF ExtendsLine
  <2>3. QED BY <2>1, <2>2
<1>6. /\ x \in SomeSpans
      /\ y \in SomeSpans /\ Len(y) = Len(x)
      /\ \A i \in 1 .. Len(x) : y[i] = [from |-> x[i].from + m, to |-> x[i].to + m]
  BY <1>0, <1>3, MovedIs
<1>7. PICK l \in Nat : l = Len(a)
  OBVIOUS
<1>8. PICK e : e = a \o b
  OBVIOUS
<1>9. /\ e \in Seq(SpanRecs) /\ Len(e) = l + k
      /\ \A i \in 1 .. l + k : e[i] = IF i <= l THEN a[i] ELSE b[i - l]
  <2>1. b \in Seq(SpanRecs)
    BY <1>5 DEF SomeSpans
  <2>2. QED BY <1>4, <1>7, <1>8, <2>1, ConcatIs
<1>10. e \in SomeSpans
  BY <1>4, <1>7, <1>9 DEF SomeSpans
<1>11. PICK z : z = SpanTo(e, c, n + m)
  OBVIOUS
<1>12. PICK o : o = a \o y
  OBVIOUS
<1>13. /\ o \in Seq(SpanRecs) /\ Len(o) = l + Len(x)
       /\ \A i \in 1 .. l + Len(x) : o[i] = IF i <= l THEN a[i] ELSE y[i - l]
  <2>1. y \in Seq(SpanRecs)
    BY <1>6 DEF SomeSpans
  <2>2. Len(y) = Len(x) /\ Len(a) = l
    BY <1>6, <1>7
  <2>3. /\ o \in Seq(SpanRecs) /\ Len(o) = Len(a) + Len(y)
        /\ \A i \in 1 .. Len(a) + Len(y) : o[i] = IF i <= Len(a) THEN a[i] ELSE y[i - Len(a)]
    BY <1>12, <2>1, ConcatIs
  <2>4. QED BY <2>2, <2>3
<1>14. z \in Seq(SpanRecs)
  <2>1. n + m \in Nat
    OBVIOUS
  <2>2. z \in SomeSpans
    <3>1. CASE c = Newline
      BY <1>10, <1>11, <2>1, <3>1, SpanToNew DEF OpensLine
    <3>2. CASE c # Newline
      BY <1>10, <1>11, <2>1, <3>2, SpanToSame DEF ExtendsLine
    <3>3. QED BY <3>1, <3>2
  <2>3. QED BY <2>2, SpansHave
<1>15. CASE c = Newline
  <2>1. Len(x) = k + 1 /\ x[k + 1] = [from |-> n + 1, to |-> n] /\ \A i \in 1 .. k : x[i] = s[i]
    <3>1. OpensLine(x, s, n)
      BY <1>2, <1>15, SpanToNew
    <3>2. QED BY <1>4, <3>1 DEF OpensLine
  <2>2. n + m \in Nat
    OBVIOUS
  <2>3. /\ Len(z) = l + k + 1 /\ z[l + k + 1] = [from |-> n + m + 1, to |-> n + m]
        /\ \A i \in 1 .. l + k : z[i] = e[i]
    <3>1. OpensLine(z, e, n + m)
      BY <1>10, <1>11, <1>15, <2>2, SpanToNew
    <3>2. QED BY <1>9, <3>1 DEF OpensLine
  <2>4. ASSUME NEW i \in 1 .. l + k + 1 PROVE z[i] = o[i]
    <3>1. CASE i <= l
      <4>1. i \in 1 .. l + k /\ i \in 1 .. l + (k + 1)
        BY <3>1
      <4>2. z[i] = a[i]
        BY <1>9, <2>3, <3>1, <4>1
      <4>3. o[i] = a[i]
        BY <1>13, <2>1, <3>1, <4>1
      <4>4. QED BY <4>2, <4>3
    <3>2. CASE l < i /\ i <= l + k
      <4>1. i - l \in 1 .. k /\ i \in 1 .. l + k /\ ~(i <= l) /\ i \in 1 .. l + (k + 1) /\ i - l \in 1 .. k + 1
        BY <3>2
      <4>2. z[i] = b[i - l]
        BY <1>9, <2>3, <4>1
      <4>3. o[i] = y[i - l] /\ y[i - l] = [from |-> x[i - l].from + m, to |-> x[i - l].to + m]
        BY <1>6, <1>13, <2>1, <4>1
      <4>4. QED BY <1>5, <2>1, <4>1, <4>2, <4>3
    <3>3. CASE i = l + k + 1
      <4>1. i - l = k + 1 /\ ~(i <= l) /\ i \in 1 .. l + (k + 1) /\ k + 1 \in 1 .. k + 1
        BY <3>3
      <4>2. o[i] = y[k + 1] /\ y[k + 1] = [from |-> x[k + 1].from + m, to |-> x[k + 1].to + m]
        BY <1>6, <1>13, <2>1, <4>1
      <4>3. x[k + 1].from = n + 1 /\ x[k + 1].to = n /\ n + 1 + m = n + m + 1
        BY <2>1
      <4>4. QED BY <2>3, <3>3, <4>2, <4>3
    <3>4. QED BY <3>1, <3>2, <3>3
  <2>5. Len(o) = l + k + 1
    BY <1>13, <2>1
  <2>6. z = o
    BY <1>13, <1>14, <2>3, <2>4, <2>5, SeqEqual
  <2>7. QED BY <1>1, <1>2, <1>3, <1>8, <1>11, <1>12, <2>6
<1>16. CASE c # Newline
  <2>1. /\ Len(x) = k /\ x[k] = [from |-> s[k].from, to |-> n]
        /\ \A i \in 1 .. k - 1 : x[i] = s[i]
    <3>1. ExtendsLine(x, s, n)
      BY <1>2, <1>16, SpanToSame
    <3>2. QED BY <1>4, <3>1 DEF ExtendsLine
  <2>2. n + m \in Nat
    OBVIOUS
  <2>3. /\ Len(z) = l + k /\ z[l + k] = [from |-> e[l + k].from, to |-> n + m]
        /\ \A i \in 1 .. l + k - 1 : z[i] = e[i]
    <3>1. ExtendsLine(z, e, n + m)
      BY <1>10, <1>11, <1>16, <2>2, SpanToSame
    <3>2. QED BY <1>9, <3>1 DEF ExtendsLine
  <2>4. ASSUME NEW i \in 1 .. l + k PROVE z[i] = o[i]
    <3>1. CASE i <= l
      BY <1>9, <1>13, <2>1, <2>3, <3>1
    <3>2. CASE l < i /\ i < l + k
      <4>1. i - l \in 1 .. k - 1 /\ i \in 1 .. l + k - 1 /\ ~(i <= l) /\ i - l \in 1 .. k
        BY <3>2
      <4>2. z[i] = b[i - l]
        BY <1>9, <2>3, <4>1
      <4>3. o[i] = y[i - l] /\ y[i - l] = [from |-> x[i - l].from + m, to |-> x[i - l].to + m]
        BY <1>6, <1>13, <2>1, <4>1
      <4>4. QED BY <1>5, <2>1, <4>1, <4>2, <4>3
    <3>3. CASE i = l + k
      <4>1. i - l = k /\ ~(i <= l) /\ k \in 1 .. k
        BY <3>3
      <4>2. o[i] = y[k] /\ y[k] = [from |-> x[k].from + m, to |-> x[k].to + m]
        BY <1>6, <1>13, <2>1, <4>1
      <4>3. x[k].from = s[k].from /\ x[k].to = n
        BY <2>1
      <4>4. e[l + k] = b[k]
        BY <1>9, <3>3, <4>1
      <4>5. e[l + k].from = s[k].from + m
        <5>1. b[k] = [from |-> s[k].from + m, to |-> s[k].to + m]
          BY <1>5, <4>1
        <5>2. QED BY <4>4, <5>1
      <4>6. QED BY <2>3, <3>3, <4>2, <4>3, <4>5
    <3>4. QED BY <3>1, <3>2, <3>3
  <2>5. Len(o) = l + k
    BY <1>13, <2>1
  <2>6. z = o
    BY <1>13, <1>14, <2>3, <2>4, <2>5, SeqEqual
  <2>7. QED BY <1>1, <1>2, <1>3, <1>8, <1>11, <1>12, <2>6
<1>17. QED BY <1>15, <1>16

LEMMA SpanFits ==
  ASSUME NEW X, NEW t \in Seq(X), NEW k \in 1 .. Len(Spans(t))
  PROVE  \E from \in Nat \ {0}, to \in 0 .. Len(t) :
           from = Spans(t)[k].from /\ to = Spans(t)[k].to /\ from <= to + 1
<1>1. PICK n \in Nat : n = Len(t)
  OBVIOUS
<1>2. PICK s : s = Spans(t)
  OBVIOUS
<1>3. s[k].from \in 1 .. n + 1 /\ s[k].to \in 0 .. n /\ s[k].from <= s[k].to + 1
  BY <1>1, <1>2, SpansAre DEF Spanned
<1>4. s[k].from \in Nat \ {0}
  BY <1>3
<1>5. QED BY <1>1, <1>2, <1>3, <1>4

SameRun(s, m, k, r, m2, k2, n) ==
  /\ m \in Nat \ {0} /\ k \in 0 .. Len(s) /\ k + 1 = m + n
  /\ m2 \in Nat \ {0} /\ k2 \in 0 .. Len(r) /\ k2 + 1 = m2 + n
  /\ \A i \in 1 .. n : s[m + i - 1] = r[m2 + i - 1]

SameText(s, m, k, r, m2, k2) == SubSeq(s, m, k) = SubSeq(r, m2, k2)

LEMMA SameSub ==
  ASSUME NEW X, NEW s \in Seq(X), NEW r \in Seq(X), NEW n \in Nat,
         NEW m, NEW k, NEW m2, NEW k2, SameRun(s, m, k, r, m2, k2, n)
  PROVE  SameText(s, m, k, r, m2, k2)
<1>0. /\ m \in Nat \ {0} /\ k \in 0 .. Len(s) /\ k + 1 = m + n
      /\ m2 \in Nat \ {0} /\ k2 \in 0 .. Len(r) /\ k2 + 1 = m2 + n
      /\ \A i \in 1 .. n : s[m + i - 1] = r[m2 + i - 1]
  BY DEF SameRun
<1>1. m <= k + 1 /\ k - m + 1 = n /\ m2 <= k2 + 1 /\ k2 - m2 + 1 = n
  BY <1>0
<1>2. PICK a : a = SubSeq(s, m, k)
  OBVIOUS
<1>3. a \in Seq(X) /\ Len(a) = n /\ \A i \in 1 .. n : a[i] = s[m + i - 1]
  <2>1. /\ a \in Seq(X) /\ Len(a) = k - m + 1
        /\ \A i \in 1 .. k - m + 1 : a[i] = s[m + i - 1]
    BY <1>0, <1>1, <1>2, SubIs
  <2>2. QED BY <1>1, <2>1
<1>4. PICK b : b = SubSeq(r, m2, k2)
  OBVIOUS
<1>5. b \in Seq(X) /\ Len(b) = n /\ \A i \in 1 .. n : b[i] = r[m2 + i - 1]
  <2>1. /\ b \in Seq(X) /\ Len(b) = k2 - m2 + 1
        /\ \A i \in 1 .. k2 - m2 + 1 : b[i] = r[m2 + i - 1]
    BY <1>0, <1>1, <1>4, SubIs
  <2>2. QED BY <1>1, <2>1
<1>6. a = b
  BY <1>0, <1>3, <1>5, SeqEqual
<1>7. QED BY <1>2, <1>4, <1>6 DEF SameText

(* A text that a newline splits in two.                                    *)
SplitBy(w, u, v) ==
  /\ Len(w) = Len(u) + 1 + Len(v)
  /\ \A i \in 1 .. Len(u) : w[i] = u[i]
  /\ w[Len(u) + 1] = Newline
  /\ \A i \in 1 .. Len(v) : w[Len(u) + 1 + i] = v[i]

LEMMA SpansJoin ==
  ASSUME NEW X, NEW u \in Seq(X), NEW v \in Seq(X), NEW w \in Seq(X), SplitBy(w, u, v)
  PROVE  Spans(w) = Spans(u) \o Moved(Spans(v), Len(u) + 1)
<1>1. PICK M \in Nat : M = Len(u)
  OBVIOUS
<1>2. PICK N \in Nat : N = Len(v)
  OBVIOUS
<1>3. PICK f : SpansBy(f, w)
  BY SpansIs
<1>4. PICK g : SpansBy(g, u)
  BY SpansIs
<1>5. PICK h : SpansBy(h, v)
  BY SpansIs
<1>6. /\ Len(w) = M + 1 + N /\ \A i \in 1 .. M : w[i] = u[i]
      /\ w[M + 1] = Newline /\ \A i \in 1 .. N : w[M + 1 + i] = v[i]
  BY <1>1, <1>2 DEF SplitBy
<1>7. /\ f \in [0 .. M + 1 + N -> SomeSpans] /\ f[0] = FirstSpan /\ Spans(w) = f[M + 1 + N]
      /\ \A n \in 1 .. M + 1 + N : f[n] = SpanTo(f[n - 1], w[n], n)
  BY <1>3, <1>6 DEF SpansBy
<1>8. /\ g \in [0 .. M -> SomeSpans] /\ g[0] = FirstSpan /\ Spans(u) = g[M]
      /\ \A n \in 1 .. M : g[n] = SpanTo(g[n - 1], u[n], n)
  BY <1>1, <1>4 DEF SpansBy
<1>9. /\ h \in [0 .. N -> SomeSpans] /\ h[0] = FirstSpan /\ Spans(v) = h[N]
      /\ \A n \in 1 .. N : h[n] = SpanTo(h[n - 1], v[n], n)
  BY <1>2, <1>5 DEF SpansBy
<1>10. f[M] = g[M]
  <2> DEFINE P == {n \in 0 .. M : f[n] = g[n]}
  <2>1. 0 \in P
    BY <1>7, <1>8
  <2>2. ASSUME NEW n \in 1 .. M, n - 1 \in P PROVE n \in P
    <3>1. n \in 1 .. M + 1 + N /\ n \in 0 .. M
      OBVIOUS
    <3>2. f[n] = SpanTo(f[n - 1], w[n], n)
      BY <1>7, <3>1
    <3>3. g[n] = SpanTo(g[n - 1], u[n], n) /\ w[n] = u[n] /\ f[n - 1] = g[n - 1]
      BY <1>6, <1>8, <2>2
    <3>4. f[n] = g[n]
      BY <3>2, <3>3
    <3>5. QED BY <3>1, <3>4
  <2>3. 0 .. M \subseteq P
    <3> HIDE DEF P
    <3>1. QED BY <2>1, <2>2, UpTo
  <2>4. M \in 0 .. M
    OBVIOUS
  <2>5. QED BY <2>3, <2>4
<1>11. PICK s \in SomeSpans : s = g[M] /\ s \in Seq(SpanRecs)
  <2>1. g[M] \in SomeSpans
    BY <1>8
  <2>2. QED BY <2>1, SpansHave
<1>12. f[M + 1] = s \o Moved(FirstSpan, M + 1)
  <2>1. f[M + 1] = SpanTo(s, Newline, M + 1)
    <3>1. M + 1 \in 1 .. M + 1 + N /\ M + 1 - 1 = M
      OBVIOUS
    <3>2. f[M + 1] = SpanTo(f[M + 1 - 1], w[M + 1], M + 1)
      BY <1>7, <3>1
    <3>3. QED BY <1>6, <1>10, <1>11, <3>1, <3>2
  <2>2. f[M + 1] = Append(s, [from |-> M + 1 + 1, to |-> M + 1])
    BY <2>1 DEF SpanTo
  <2>3. Moved(FirstSpan, M + 1) = <<[from |-> M + 1 + 1, to |-> M + 1]>>
    <3>1. DOMAIN FirstSpan = 1 .. 1 /\ FirstSpan[1] = [from |-> 1, to |-> 0]
      BY DEF FirstSpan
    <3>2. FirstSpan[1].from = 1 /\ FirstSpan[1].to = 0
      BY <3>1
    <3>3. Moved(FirstSpan, M + 1) = [k \in 1 .. 1 |-> [from |-> FirstSpan[k].from + (M + 1), to |-> FirstSpan[k].to + (M + 1)]]
      BY <3>1 DEF Moved
    <3>4. \A k \in 1 .. 1 : [from |-> FirstSpan[k].from + (M + 1), to |-> FirstSpan[k].to + (M + 1)]
                            = [from |-> M + 1 + 1, to |-> M + 1]
      BY <3>2
    <3>5. Moved(FirstSpan, M + 1) = [k \in 1 .. 1 |-> [from |-> M + 1 + 1, to |-> M + 1]]
      BY <3>3, <3>4
    <3>6. QED BY <3>5
  <2>7. [from |-> M + 1 + 1, to |-> M + 1] \in SpanRecs
    BY DEF SpanRecs
  <2>4. PICK y \in SpanRecs : y = [from |-> M + 1 + 1, to |-> M + 1]
    BY <2>7
  <2>5. Append(s, y) = s \o <<y>>
    BY AppendIsConcat
  <2>6. QED BY <2>2, <2>3, <2>4, <2>5
<1>13. f[M + 1 + N] = s \o Moved(h[N], M + 1)
  <2>0. ASSUME NEW hh \in SomeSpans, NEW c, NEW n \in Nat
        PROVE  SpanTo(s \o Moved(hh, M + 1), c, n + (M + 1)) = s \o Moved(SpanTo(hh, c, n), M + 1)
    <3>1. PICK m \in Nat : m = M + 1
      OBVIOUS
    <3>2. s \in Seq(SpanRecs)
      BY <1>11
    <3>3. SpanTo(s \o Moved(hh, m), c, n + m) = s \o Moved(SpanTo(hh, c, n), m)
      BY <2>0, <3>2, SpanToMoves
    <3>4. QED BY <3>1, <3>3
  <2> DEFINE P == {n \in 0 .. N : f[M + 1 + n] = s \o Moved(h[n], M + 1)}
  <2>1. 0 \in P
    BY <1>9, <1>12
  <2>2. ASSUME NEW n \in 1 .. N, n - 1 \in P PROVE n \in P
    <3>1. M + 1 + n \in 1 .. M + 1 + N /\ n \in 0 .. N /\ M + 1 + n - 1 = M + 1 + (n - 1) /\ n \in Nat
          /\ n + (M + 1) = M + 1 + n /\ M + 1 \in Nat /\ n - 1 \in 0 .. N
      OBVIOUS
    <3>2. f[M + 1 + n] = SpanTo(f[M + 1 + n - 1], w[M + 1 + n], M + 1 + n)
      BY <1>7, <3>1
    <3>3. h[n] = SpanTo(h[n - 1], v[n], n) /\ w[M + 1 + n] = v[n]
          /\ f[M + 1 + (n - 1)] = s \o Moved(h[n - 1], M + 1)
      BY <1>6, <1>9, <2>2
    <3>4. h[n - 1] \in SomeSpans
      BY <1>9, <3>1
    <3>5. SpanTo(s \o Moved(h[n - 1], M + 1), v[n], n + (M + 1)) = s \o Moved(SpanTo(h[n - 1], v[n], n), M + 1)
      BY <2>0, <3>1, <3>4
    <3>6. f[M + 1 + n] = s \o Moved(h[n], M + 1)
      BY <3>1, <3>2, <3>3, <3>5, Zenon
    <3>7. QED BY <3>1, <3>6
  <2>3. 0 .. N \subseteq P
    <3> HIDE DEF P
    <3>1. QED BY <2>1, <2>2, UpTo
  <2>4. N \in 0 .. N
    OBVIOUS
  <2>5. QED BY <2>3, <2>4
<1>14. QED BY <1>1, <1>7, <1>8, <1>9, <1>11, <1>13

(* A line is the text its span says.                                       *)
LEMMA LinesAre ==
  ASSUME NEW X, NEW t \in Seq(X)
  PROVE  /\ LinesOf(t) \in Seq(Seq(X)) /\ Len(LinesOf(t)) = Len(Spans(t))
         /\ \A k \in 1 .. Len(Spans(t)) : LinesOf(t)[k] = SubSeq(t, Spans(t)[k].from, Spans(t)[k].to)
<1>1. PICK n \in Nat : n = Len(Spans(t)) /\ DOMAIN Spans(t) = 1 .. n
  BY SpansAre
<1>2. ASSUME NEW k \in 1 .. n PROVE SubSeq(t, Spans(t)[k].from, Spans(t)[k].to) \in Seq(X)
  <2>1. PICK i \in Nat \ {0}, j \in 0 .. Len(t) : i = Spans(t)[k].from /\ j = Spans(t)[k].to /\ i <= j + 1
    BY <1>1, SpanFits
  <2>2. SubSeq(t, i, j) \in Seq(X)
    BY <2>1, SubIs
  <2>3. QED BY <2>1, <2>2
<1>3. LinesOf(t) = [k \in 1 .. n |-> SubSeq(t, Spans(t)[k].from, Spans(t)[k].to)]
  BY <1>1 DEF LinesOf
<1>4. PICK z : z = [k \in 1 .. n |-> SubSeq(t, Spans(t)[k].from, Spans(t)[k].to)]
  OBVIOUS
<1>5. z \in Seq(Seq(X)) /\ Len(z) = n
      /\ \A k \in 1 .. n : z[k] = SubSeq(t, Spans(t)[k].from, Spans(t)[k].to)
  <2>1. z \in [1 .. n -> Seq(X)]
    BY <1>2, <1>4, Zenon
  <2>2. \A k \in 1 .. n : z[k] = SubSeq(t, Spans(t)[k].from, Spans(t)[k].to)
    BY <1>4, Zenon
  <2>3. n \in Nat
    OBVIOUS
  <2>4. z \in Seq(Seq(X)) /\ Len(z) = n
    BY <2>1, <2>3
  <2>5. QED BY <2>2, <2>4
<1>6. QED BY <1>1, <1>3, <1>4, <1>5

(* The lines of a text a newline splits in two are the lines of both.      *)
LEMMA LinesOfJoined ==
  ASSUME NEW X, NEW u \in Seq(X), NEW v \in Seq(X), NEW w \in Seq(X), SplitBy(w, u, v)
  PROVE  LinesOf(w) = LinesOf(u) \o LinesOf(v)
<1>1. PICK m \in Nat : m = Len(Spans(u))
  BY SpansAre
<1>2. PICK n \in Nat : n = Len(Spans(v))
  BY SpansAre
<1>3. PICK j \in Nat : j = Len(u)
  OBVIOUS
<1>4. PICK a \in Seq(SpanRecs) : a = Spans(u)
  BY SpansAre
<1>5. PICK b \in SomeSpans : b = Spans(v)
  BY SpansAre DEF SomeSpans
<1>6. PICK c : c = Moved(b, j + 1)
  OBVIOUS
<1>7. /\ c \in Seq(SpanRecs) /\ Len(c) = n
      /\ \A k \in 1 .. n : c[k] = [from |-> b[k].from + (j + 1), to |-> b[k].to + (j + 1)]
  BY <1>2, <1>5, <1>6, MovedIs DEF SomeSpans
<1>8. PICK e : e = Spans(w)
  OBVIOUS
<1>9. e = a \o c
  BY <1>3, <1>4, <1>5, <1>6, <1>8, SpansJoin
<1>10. /\ Len(e) = m + n /\ \A k \in 1 .. m + n : e[k] = IF k <= m THEN a[k] ELSE c[k - m]
  <2>1. Len(a) = m
    BY <1>1, <1>4
  <2>2. QED BY <1>7, <1>9, <2>1, ConcatIs
<1>11. /\ LinesOf(w) \in Seq(Seq(X)) /\ Len(LinesOf(w)) = m + n
       /\ \A k \in 1 .. m + n : LinesOf(w)[k] = SubSeq(w, e[k].from, e[k].to)
  BY <1>8, <1>10, LinesAre
<1>12. /\ LinesOf(u) \in Seq(Seq(X)) /\ Len(LinesOf(u)) = m
       /\ \A k \in 1 .. m : LinesOf(u)[k] = SubSeq(u, a[k].from, a[k].to)
  BY <1>1, <1>4, LinesAre
<1>13. /\ LinesOf(v) \in Seq(Seq(X)) /\ Len(LinesOf(v)) = n
       /\ \A k \in 1 .. n : LinesOf(v)[k] = SubSeq(v, b[k].from, b[k].to)
  BY <1>2, <1>5, LinesAre
<1>14. PICK o : o = LinesOf(u) \o LinesOf(v)
  OBVIOUS
<1>15. /\ o \in Seq(Seq(X)) /\ Len(o) = m + n
       /\ \A k \in 1 .. m + n : o[k] = IF k <= m THEN LinesOf(u)[k] ELSE LinesOf(v)[k - m]
  BY <1>12, <1>13, <1>14, ConcatIs
<1>16. ASSUME NEW k \in 1 .. m + n PROVE LinesOf(w)[k] = o[k]
  <2>1. CASE k <= m
    <3>1. k \in 1 .. m /\ e[k] = a[k]
      BY <1>10, <1>16, <2>1
    <3>2. PICK from, to : from \in Nat \ {0} /\ to \in 0 .. j /\ from = a[k].from /\ to = a[k].to /\ from <= to + 1
      BY <1>1, <1>3, <1>4, <3>1, SpanFits
    <3>5. from \in Nat \ {0} /\ to \in Nat /\ 1 <= from /\ to <= j /\ from <= to + 1
      BY <1>3, <3>2
    <3>3. SubSeq(w, from, to) = SubSeq(u, from, to)
      <4>1. to \in 0 .. Len(u) /\ to \in 0 .. Len(w)
        <5>1. PICK q \in Nat : q = Len(v)
          OBVIOUS
        <5>2. Len(w) = j + 1 + q
          BY <1>3, <5>1 DEF SplitBy
        <5>3. to \in 0 .. j /\ to \in 0 .. j + 1 + q
          BY <3>5, <5>1
        <5>4. QED BY <1>3, <5>2, <5>3
      <4>2. PICK q \in Nat : to + 1 = from + q
        <5>1. to + 1 - from \in Nat /\ to + 1 = from + (to + 1 - from)
          BY <3>5
        <5>2. QED BY <5>1
      <4>3. ASSUME NEW i \in 1 .. q PROVE w[from + i - 1] = u[from + i - 1]
        <5>1. from + i - 1 \in 1 .. j
          BY <3>5, <4>2
        <5>2. QED BY <1>3, <5>1 DEF SplitBy
      <4>4. SameRun(w, from, to, u, from, to, q)
        BY <3>5, <4>1, <4>2, <4>3 DEF SameRun
      <4>5. SameText(w, from, to, u, from, to)
        BY <4>4, SameSub
      <4>6. QED BY <4>5 DEF SameText
    <3>4. LinesOf(w)[k] = SubSeq(w, from, to) /\ o[k] = SubSeq(u, from, to)
      BY <1>11, <1>12, <1>15, <2>1, <3>1, <3>2
    <3>6. QED BY <3>3, <3>4
  <2>2. CASE ~(k <= m)
    <3>1. PICK l \in 1 .. n : l = k - m
      BY <2>2
    <3>2. e[k] = c[l] /\ c[l] = [from |-> b[l].from + (j + 1), to |-> b[l].to + (j + 1)]
      BY <1>7, <1>10, <1>16, <2>2, <3>1
    <3>3. PICK from, to : from \in Nat \ {0} /\ to \in 0 .. Len(v) /\ from = b[l].from /\ to = b[l].to /\ from <= to + 1
      BY <1>2, <1>5, <3>1, SpanFits
    <3>9. from \in Nat \ {0} /\ to \in 0 .. Len(v) /\ to \in Nat /\ 1 <= from /\ from <= to + 1
      BY <3>3
    <3>4. e[k].from = from + (j + 1) /\ e[k].to = to + (j + 1)
      BY <3>2, <3>3
    <3>5. PICK from2, to2 : from2 \in Nat \ {0} /\ to2 \in 0 .. Len(w) /\
            from2 = from + (j + 1) /\ to2 = to + (j + 1) /\ from2 <= to2 + 1
      <4>1. PICK q \in Nat : q = Len(v)
        OBVIOUS
      <4>2. Len(w) = j + 1 + q
        BY <1>3, <4>1 DEF SplitBy
      <4>3. PICK r \in Nat : r = Len(w)
        OBVIOUS
      <4>4. from + (j + 1) \in Nat \ {0} /\ to + (j + 1) \in 0 .. r /\ from + (j + 1) <= to + (j + 1) + 1
        BY <3>9, <4>1, <4>2, <4>3
      <4>5. QED BY <4>3, <4>4
    <3>10. from2 \in Nat \ {0} /\ from2 = from + (j + 1) /\ to2 = to + (j + 1)
      BY <3>5
    <3>6. SubSeq(w, from2, to2) = SubSeq(v, from, to)
      <4>1. PICK q \in Nat : to + 1 = from + q
        <5>1. to + 1 - from \in Nat /\ to + 1 = from + (to + 1 - from)
          BY <3>9
        <5>2. QED BY <5>1
      <4>2. to2 + 1 = from2 + q
        BY <3>9, <3>10, <4>1
      <4>3. ASSUME NEW i \in 1 .. q PROVE w[from2 + i - 1] = v[from + i - 1]
        <5>1. PICK z \in Nat : z = Len(v)
          OBVIOUS
        <5>2. from + i - 1 \in 1 .. z /\ from2 + i - 1 = j + 1 + (from + i - 1)
          BY <3>9, <3>10, <4>1, <5>1
        <5>3. w[j + 1 + (from + i - 1)] = v[from + i - 1]
          BY <1>3, <5>1, <5>2 DEF SplitBy
        <5>4. QED BY <5>2, <5>3
      <4>4. to2 \in 0 .. Len(w)
        BY <3>5
      <4>5. SameRun(w, from2, to2, v, from, to, q)
        BY <3>9, <3>10, <4>1, <4>2, <4>3, <4>4 DEF SameRun
      <4>6. SameText(w, from2, to2, v, from, to)
        BY <4>5, SameSub
      <4>7. QED BY <4>6 DEF SameText
    <3>7. LinesOf(w)[k] = SubSeq(w, from2, to2) /\ o[k] = SubSeq(v, from, to)
      <4>1. LinesOf(w)[k] = SubSeq(w, e[k].from, e[k].to)
        BY <1>11, <1>16
      <4>2. o[k] = LinesOf(v)[l]
        BY <1>15, <1>16, <2>2, <3>1
      <4>3. LinesOf(v)[l] = SubSeq(v, b[l].from, b[l].to)
        BY <1>13, <3>1
      <4>4. QED BY <3>3, <3>4, <3>5, <4>1, <4>2, <4>3
    <3>8. QED BY <3>6, <3>7
  <2>3. QED BY <2>1, <2>2
<1>17. LinesOf(w) = o
  BY <1>11, <1>15, <1>16, SeqEqual
<1>18. QED BY <1>14, <1>17

LEMMA SplitIs ==
  ASSUME NEW X, Newline \in X, NEW u \in Seq(X), NEW v \in Seq(X)
  PROVE  (u \o <<Newline>>) \o v \in Seq(X) /\ SplitBy((u \o <<Newline>>) \o v, u, v)
<1>1. PICK m \in Nat : m = Len(u)
  OBVIOUS
<1>2. PICK n \in Nat : n = Len(v)
  OBVIOUS
<1>3. PICK e \in X : e = Newline
  OBVIOUS
<1>4. PICK x : x = u \o <<e>>
  OBVIOUS
<1>5. x = Append(u, e)
  BY <1>4
<1>6. x \in Seq(X) /\ Len(x) = m + 1 /\ x[m + 1] = e /\ \A i \in 1 .. m : x[i] = u[i]
  BY <1>1, <1>5, AppendIs
<1>7. PICK w : w = x \o v
  OBVIOUS
<1>8. /\ w \in Seq(X) /\ Len(w) = m + 1 + n
      /\ \A i \in 1 .. m + 1 + n : w[i] = IF i <= m + 1 THEN x[i] ELSE v[i - (m + 1)]
  <2>1. /\ w \in Seq(X) /\ Len(w) = Len(x) + Len(v)
        /\ \A i \in 1 .. Len(x) + Len(v) : w[i] = IF i <= Len(x) THEN x[i] ELSE v[i - Len(x)]
    <3>1. x \in Seq(X)
      BY <1>6
    <3>2. QED BY <1>7, <3>1, ConcatIs
  <2>2. QED BY <1>2, <1>6, <2>1
<1>9. ASSUME NEW i \in 1 .. m PROVE w[i] = u[i]
  BY <1>6, <1>8
<1>10. w[m + 1] = e
  BY <1>6, <1>8
<1>11. ASSUME NEW i \in 1 .. n PROVE w[m + 1 + i] = v[i]
  <2>1. m + 1 + i \in 1 .. m + 1 + n /\ ~(m + 1 + i <= m + 1) /\ m + 1 + i - (m + 1) = i
    OBVIOUS
  <2>2. QED BY <1>8, <2>1
<1>12. SplitBy(w, u, v)
  BY <1>1, <1>2, <1>3, <1>8, <1>9, <1>10, <1>11 DEF SplitBy
<1>13. QED BY <1>3, <1>4, <1>7, <1>8, <1>12

(* Two halves of a sequence.                                               *)
Halves(w, a, b) == SubSeq(w, 1, Len(a)) = a /\ SubSeq(w, Len(a) + 1, Len(w)) = b

LEMMA HalvesAre ==
  ASSUME NEW Y, NEW a \in Seq(Y), NEW b \in Seq(Y)
  PROVE  Halves(a \o b, a, b)
<1>1. PICK m \in Nat : m = Len(a)
  OBVIOUS
<1>2. PICK n \in Nat : n = Len(b)
  OBVIOUS
<1>3. PICK w : w = a \o b
  OBVIOUS
<1>4. w \in Seq(Y) /\ Len(w) = m + n /\ \A i \in 1 .. m + n : w[i] = IF i <= m THEN a[i] ELSE b[i - m]
  BY <1>1, <1>2, <1>3, ConcatIs
<1>5. SubSeq(w, 1, m) = a
  <2>1. /\ SubSeq(w, 1, m) \in Seq(Y) /\ Len(SubSeq(w, 1, m)) = m - 1 + 1
        /\ \A i \in 1 .. m - 1 + 1 : SubSeq(w, 1, m)[i] = w[1 + i - 1]
    <3>1. 1 \in Nat \ {0} /\ m \in 0 .. Len(w) /\ 1 <= m + 1
      BY <1>4
    <3>2. QED BY <1>4, <3>1, SubIs
  <2>2. ASSUME NEW i \in 1 .. m PROVE SubSeq(w, 1, m)[i] = a[i]
    <3>1. i \in 1 .. m - 1 + 1 /\ 1 + i - 1 = i /\ i \in 1 .. m + n /\ i <= m
      OBVIOUS
    <3>2. QED BY <1>4, <2>1, <3>1
  <2>3. m - 1 + 1 = m
    OBVIOUS
  <2>4. QED BY <1>1, <2>1, <2>2, <2>3, SeqEqual
<1>6. SubSeq(w, m + 1, m + n) = b
  <2>1. PICK k : k = m + 1
    OBVIOUS
  <2>2. k \in Nat \ {0} /\ m + n \in 0 .. Len(w) /\ k <= m + n + 1 /\ m + n - k + 1 = n
    BY <1>4, <2>1
  <2>3. /\ SubSeq(w, k, m + n) \in Seq(Y) /\ Len(SubSeq(w, k, m + n)) = m + n - k + 1
        /\ \A i \in 1 .. m + n - k + 1 : SubSeq(w, k, m + n)[i] = w[k + i - 1]
    BY <1>4, <2>2, SubIs
  <2>4. ASSUME NEW i \in 1 .. n PROVE SubSeq(w, k, m + n)[i] = b[i]
    <3>1. i \in 1 .. m + n - k + 1 /\ k + i - 1 \in 1 .. m + n /\ ~(k + i - 1 <= m) /\ k + i - 1 - m = i
      BY <2>1, <2>2
    <3>2. SubSeq(w, k, m + n)[i] = w[k + i - 1]
      BY <2>3, <3>1
    <3>3. PICK z : z = k + i - 1
      OBVIOUS
    <3>4. z \in 1 .. m + n /\ ~(z <= m) /\ z - m = i
      BY <2>1, <3>1, <3>3
    <3>5. w[z] = b[i]
      BY <1>4, <3>4
    <3>6. QED BY <3>2, <3>3, <3>5
  <2>5. SubSeq(w, k, m + n) = b
    BY <1>2, <2>2, <2>3, <2>4, SeqEqual
  <2>6. QED BY <2>1, <2>5
<1>7. QED BY <1>1, <1>3, <1>4, <1>5, <1>6 DEF Halves

(* The newline in front of a line cuts the text, and its lines, in two.    *)
CutBy(t, k, u, v) ==
  /\ SplitBy(t, u, v)
  /\ Spans(t)[k].from = Len(u) + 2
  /\ Halves(t, u \o <<Newline>>, v) /\ Len(u \o <<Newline>>) = Len(u) + 1
  /\ Len(LinesOf(u)) = k - 1 /\ LinesOf(t) = LinesOf(u) \o LinesOf(v)

LEMMA CutsAre ==
  ASSUME NEW X, Newline \in X, NEW t \in Seq(X), NEW k \in 2 .. Len(Spans(t))
  PROVE  \E u \in Seq(X), v \in Seq(X) : CutBy(t, k, u, v)
<1>1. PICK n \in Nat : n = Len(t)
  OBVIOUS
<1>2. PICK s : s = Spans(t)
  OBVIOUS
<1>3. PICK m \in Nat : m = Len(s)
  BY <1>2, SpansAre
<1>4. PICK j \in Nat : s[k].from = j + 2 /\ j + 1 <= n /\ t[j + 1] = Newline
  <2>1. s[k].from - 1 \in 1 .. n /\ t[s[k].from - 1] = Newline
    BY <1>1, <1>2, SpansAre DEF Spanned
  <2>2. PICK y : y = s[k].from
    OBVIOUS
  <2>3. y \in Nat
    <3>1. k \in 1 .. Len(Spans(t))
      BY <1>2, <1>3
    <3>2. PICK from, to : from \in Nat \ {0} /\ to \in 0 .. Len(t) /\ from = Spans(t)[k].from
      BY <3>1, SpanFits
    <3>3. QED BY <1>2, <2>2, <3>2
  <2>4. y - 1 \in 1 .. n /\ t[y - 1] = Newline
    BY <2>1, <2>2
  <2>5. y - 2 \in Nat /\ y = (y - 2) + 2 /\ (y - 2) + 1 <= n /\ (y - 2) + 1 = y - 1
    BY <2>3, <2>4
  <2>6. QED BY <2>2, <2>4, <2>5
<1>5. PICK u : u = SubSeq(t, 1, j)
  OBVIOUS
<1>6. u \in Seq(X) /\ Len(u) = j /\ \A i \in 1 .. j : u[i] = t[i]
  <2>1. 1 \in Nat \ {0} /\ j \in 0 .. Len(t) /\ 1 <= j + 1
    BY <1>1, <1>4
  <2>2. u \in Seq(X) /\ Len(u) = j - 1 + 1 /\ \A i \in 1 .. j - 1 + 1 : u[i] = t[1 + i - 1]
    BY <1>5, <2>1, SubIs
  <2>3. j - 1 + 1 = j /\ \A i \in 1 .. j : 1 + i - 1 = i
    OBVIOUS
  <2>4. QED BY <2>2, <2>3
<1>7. PICK d \in Nat : n = j + 1 + d
  <2>1. n - (j + 1) \in Nat /\ n = j + 1 + (n - (j + 1))
    BY <1>1, <1>4
  <2>2. QED BY <2>1
<1>8. PICK v : v = SubSeq(t, j + 2, n)
  OBVIOUS
<1>9. v \in Seq(X) /\ Len(v) = d /\ \A i \in 1 .. d : v[i] = t[j + 1 + i]
  <2>1. PICK f : f = j + 2
    OBVIOUS
  <2>2. f \in Nat \ {0} /\ n \in 0 .. Len(t) /\ f <= n + 1 /\ n - f + 1 = d /\ f = j + 2
    BY <1>1, <1>7, <2>1
  <2>3. v \in Seq(X) /\ Len(v) = n - f + 1 /\ \A i \in 1 .. n - f + 1 : v[i] = t[f + i - 1]
    BY <1>8, <2>1, <2>2, SubIs
  <2>4. \A i \in 1 .. d : f + i - 1 = j + 1 + i
    BY <2>2
  <2>5. QED BY <2>2, <2>3, <2>4
<1>10. SplitBy(t, u, v)
  BY <1>1, <1>4, <1>6, <1>7, <1>9 DEF SplitBy
<1>11. PICK x : x = u \o <<Newline>>
  OBVIOUS
<1>12. x \in Seq(X) /\ Len(x) = j + 1
  <2>1. x = Append(u, Newline)
    BY <1>6, <1>11
  <2>2. QED BY <1>6, <2>1, AppendIs
<1>13. t = x \o v
  <2>1. PICK w : w = x \o v
    OBVIOUS
  <2>2. w \in Seq(X) /\ SplitBy(w, u, v)
    BY <1>6, <1>9, <1>11, <2>1, SplitIs
  <2>3. Len(w) = n /\ \A i \in 1 .. j : w[i] = t[i]
    BY <1>6, <1>7, <1>9, <2>2 DEF SplitBy
  <2>4. w[j + 1] = t[j + 1] /\ \A i \in 1 .. d : w[j + 1 + i] = t[j + 1 + i]
    BY <1>4, <1>6, <1>9, <2>2 DEF SplitBy
  <2>5. ASSUME NEW i \in 1 .. n PROVE w[i] = t[i]
    <3>1. i \in 1 .. j \/ i = j + 1 \/ (i - (j + 1) \in 1 .. d /\ j + 1 + (i - (j + 1)) = i)
      BY <1>7
    <3>2. CASE i - (j + 1) \in 1 .. d /\ j + 1 + (i - (j + 1)) = i
      BY <2>4, <3>2
    <3>3. QED BY <2>3, <2>4, <3>1, <3>2
  <2>6. w = t
    BY <1>1, <2>2, <2>3, <2>5, SeqEqual
  <2>7. QED BY <2>1, <2>6
<1>14. Halves(t, x, v)
  BY <1>9, <1>12, <1>13, HalvesAre
<1>15. LinesOf(t) = LinesOf(u) \o LinesOf(v)
  BY <1>6, <1>9, <1>10, LinesOfJoined
<1>16. Len(LinesOf(u)) = k - 1
  <2>1. PICK a \in Seq(SpanRecs) : a = Spans(u)
    BY <1>6, SpansAre
  <2>2. PICK b \in SomeSpans : b = Spans(v)
    BY <1>9, SpansAre DEF SomeSpans
  <2>3. PICK c : c = Moved(b, j + 1)
    OBVIOUS
  <2>4. s = a \o c
    BY <1>2, <1>6, <1>9, <1>10, <2>1, <2>2, <2>3, SpansJoin
  <2>5. PICK q \in Nat : q = Len(a)
    OBVIOUS
  <2>6. PICK p \in Nat \ {0} : p = Len(b)
    BY <2>2, SpansHave
  <2>7. c \in Seq(SpanRecs) /\ Len(c) = p /\ c[1] = [from |-> b[1].from + (j + 1), to |-> b[1].to + (j + 1)]
    <3>1. j + 1 \in Nat /\ 1 \in 1 .. p
      OBVIOUS
    <3>2. PICK off \in Nat : off = j + 1
      BY <3>1
    <3>3. /\ c \in SomeSpans /\ Len(c) = Len(b)
          /\ \A i \in 1 .. Len(b) : c[i] = [from |-> b[i].from + off, to |-> b[i].to + off]
      BY <2>2, <2>3, <3>2, MovedIs
    <3>4. c[1] = [from |-> b[1].from + off, to |-> b[1].to + off]
      BY <2>6, <3>1, <3>3
    <3>5. c \in Seq(SpanRecs)
      BY <3>3, SpansHave
    <3>6. c[1] = [from |-> b[1].from + (j + 1), to |-> b[1].to + (j + 1)]
      BY <3>2, <3>4, Zenon
    <3>7. QED BY <2>6, <3>3, <3>5, <3>6
  <2>8. b[1].from = 1
    <3>1. Spanned(Spans(v), v, Len(v))
      BY <1>9, SpansAre
    <3>2. QED BY <2>2, <3>1 DEF Spanned
  <2>9. c[1].from = j + 2
    BY <2>7, <2>8
  <2>10. s[q + 1] = c[1] /\ m = q + p
    <3>1. Len(s) = q + p /\ \A i \in 1 .. q + p : s[i] = IF i <= q THEN a[i] ELSE c[i - q]
      BY <2>1, <2>4, <2>5, <2>7, ConcatIs
    <3>2. q + 1 \in 1 .. q + p /\ ~(q + 1 <= q) /\ q + 1 - q = 1
      OBVIOUS
    <3>3. QED BY <1>3, <3>1, <3>2
  <2>11. \A i \in 1 .. m : \A l \in 1 .. m : i < l => s[i].from < s[l].from
    BY <1>2, <1>3, SpansAre DEF Spanned
  <2>12. k \in 1 .. m /\ q + 1 \in 1 .. m /\ k \in Nat
    BY <1>2, <1>3, <2>10
  <2>13. s[q + 1].from = j + 2
    BY <2>9, <2>10
  <2>14. ~(k < q + 1) /\ ~(q + 1 < k)
    BY <1>4, <2>11, <2>12, <2>13
  <2>15. k = q + 1
    BY <2>12, <2>14
  <2>16. Len(LinesOf(u)) = q
    BY <1>6, <2>1, <2>5, LinesAre
  <2>17. QED BY <2>15, <2>16
<1>17. CutBy(t, k, u, v)
  BY <1>2, <1>4, <1>6, <1>10, <1>11, <1>12, <1>14, <1>15, <1>16 DEF CutBy
<1>18. QED BY <1>6, <1>9, <1>17

(* The text in front of a line keeps its lines, whatever follows it.       *)
HeadKept(t, k, z) ==
  LinesOf(SubSeq(t, 1, Spans(t)[k].from - 1) \o z) = SubSeq(LinesOf(t), 1, k - 1) \o LinesOf(z)

LEMMA HeadKeeps ==
  ASSUME NEW X, Newline \in X, NEW t \in Seq(X), NEW z \in Seq(X), NEW k \in 1 .. Len(Spans(t))
  PROVE  HeadKept(t, k, z)
<1>1. CASE k = 1
  <2>1. Spans(t)[k].from - 1 = 0
    <3>1. Spans(t)[1].from = 1
      BY SpansAre DEF Spanned
    <3>2. QED BY <1>1, <3>1
  <2>2. SubSeq(t, 1, 0) = <<>>
    BY SubSeqEmpty
  <2>3. <<>> \o z = z
    BY ConcatEmptySeq
  <2>4. SubSeq(LinesOf(t), 1, 0) = <<>>
    BY SubSeqEmpty
  <2>5. <<>> \o LinesOf(z) = LinesOf(z)
    BY LinesAre, ConcatEmptySeq
  <2>6. k - 1 = 0
    BY <1>1
  <2>7. LinesOf(SubSeq(t, 1, 0) \o z) = SubSeq(LinesOf(t), 1, 0) \o LinesOf(z)
    BY <2>2, <2>3, <2>4, <2>5, Zenon
  <2>8. QED BY <2>1, <2>6, <2>7, Zenon DEF HeadKept
<1>2. CASE k # 1
  <2>1. k \in 2 .. Len(Spans(t))
    BY <1>2, SpansAre
  <2>2. PICK u \in Seq(X), v \in Seq(X) : CutBy(t, k, u, v)
    BY <2>1, CutsAre
  <2>3. PICK j \in Nat : j = Len(u)
    OBVIOUS
  <2>4. Spans(t)[k].from - 1 = j + 1
    <3>1. Spans(t)[k].from = j + 2
      BY <2>2, <2>3 DEF CutBy
    <3>2. QED BY <3>1
  <2>5. SubSeq(t, 1, j + 1) = u \o <<Newline>>
    BY <2>2, <2>3 DEF CutBy, Halves
  <2>6. PICK w : w = (u \o <<Newline>>) \o z
    OBVIOUS
  <2>7. LinesOf(w) = LinesOf(u) \o LinesOf(z)
    <3>1. w \in Seq(X) /\ SplitBy(w, u, z)
      BY <2>6, SplitIs
    <3>2. QED BY <3>1, LinesOfJoined
  <2>8. SubSeq(LinesOf(t), 1, k - 1) = LinesOf(u)
    <3>1. LinesOf(u) \in Seq(Seq(X)) /\ LinesOf(v) \in Seq(Seq(X))
      BY LinesAre
    <3>2. Halves(LinesOf(u) \o LinesOf(v), LinesOf(u), LinesOf(v))
      BY <3>1, HalvesAre
    <3>3. LinesOf(t) = LinesOf(u) \o LinesOf(v) /\ Len(LinesOf(u)) = k - 1
      BY <2>2 DEF CutBy
    <3>4. QED BY <3>2, <3>3 DEF Halves
  <2>9. SubSeq(t, 1, Spans(t)[k].from - 1) \o z = w
    BY <2>4, <2>5, <2>6, Zenon
  <2>10. QED BY <2>7, <2>8, <2>9, Zenon DEF HeadKept
<1>3. QED BY <1>1, <1>2

(* The text from a line on has the lines from it on.                       *)
TailKept(t, k, v) ==
  /\ SubSeq(t, Spans(t)[k].from, Len(t)) = v
  /\ t[Spans(t)[k].from - 1] = Newline
  /\ SubSeq(LinesOf(t), k, Len(LinesOf(t))) = LinesOf(v)

LEMMA TailKeeps ==
  ASSUME NEW X, Newline \in X, NEW t \in Seq(X), NEW k \in 2 .. Len(Spans(t))
  PROVE  \E v \in Seq(X) : TailKept(t, k, v)
<1>1. PICK u \in Seq(X), v \in Seq(X) : CutBy(t, k, u, v)
  BY CutsAre
<1>2. PICK j \in Nat : j = Len(u)
  OBVIOUS
<1>3. Spans(t)[k].from = j + 2
  BY <1>1, <1>2 DEF CutBy
<1>4. SubSeq(t, j + 2, Len(t)) = v
  <2>1. SubSeq(t, (j + 1) + 1, Len(t)) = v
    BY <1>1, <1>2 DEF CutBy, Halves
  <2>2. (j + 1) + 1 = j + 2
    OBVIOUS
  <2>3. QED BY <2>1, <2>2
<1>5. t[Spans(t)[k].from - 1] = Newline
  <2>1. t[j + 1] = Newline
    BY <1>1, <1>2 DEF CutBy, SplitBy
  <2>2. j + 2 - 1 = j + 1
    OBVIOUS
  <2>3. QED BY <1>3, <2>1, <2>2
<1>6. SubSeq(LinesOf(t), k, Len(LinesOf(t))) = LinesOf(v)
  <2>1. LinesOf(u) \in Seq(Seq(X)) /\ LinesOf(v) \in Seq(Seq(X))
    BY LinesAre
  <2>2. Halves(LinesOf(u) \o LinesOf(v), LinesOf(u), LinesOf(v))
    BY <2>1, HalvesAre
  <2>3. LinesOf(t) = LinesOf(u) \o LinesOf(v) /\ Len(LinesOf(u)) = k - 1
    BY <1>1 DEF CutBy
  <2>4. k - 1 + 1 = k
    BY SpansAre
  <2>5. QED BY <2>2, <2>3, <2>4 DEF Halves
<1>7. QED BY <1>3, <1>4, <1>5, <1>6 DEF TailKept

(* The line after a newline that ends a text is empty.                     *)
LEMMA LinesOfEnded ==
  ASSUME NEW X, Newline \in X, NEW t \in Seq(X)
  PROVE  LinesOf(t \o <<Newline>>) = Append(LinesOf(t), <<>>)
<1>1. <<>> \in Seq(X) /\ Len(<<>>) = 0
  OBVIOUS
<1>2. (t \o <<Newline>>) \o <<>> = t \o <<Newline>>
  <2>1. <<Newline>> \in Seq(X)
    OBVIOUS
  <2>2. t \o <<Newline>> \in Seq(X)
    BY <2>1, ConcatProperties
  <2>3. QED BY <2>2, ConcatEmptySeq
<1>3. LinesOf(t \o <<Newline>>) = LinesOf(t) \o LinesOf(<<>>)
  <2>1. PICK w : w = (t \o <<Newline>>) \o <<>>
    OBVIOUS
  <2>2. PICK v \in Seq(X) : v = <<>>
    BY <1>1
  <2>3. w \in Seq(X) /\ SplitBy(w, t, v)
    BY <2>1, <2>2, SplitIs
  <2>4. LinesOf(w) = LinesOf(t) \o LinesOf(v)
    BY <2>3, LinesOfJoined
  <2>5. QED BY <1>2, <2>1, <2>2, <2>4, Zenon
<1>4. LinesOf(<<>>) = <<<<>>>>
  <2>1. PICK v \in Seq(X) : v = <<>>
    BY <1>1
  <2>2. PICK f : SpansBy(f, v)
    BY SpansIs
  <2>3. Len(v) = 0
    BY <2>1
  <2>4. Spans(v) = FirstSpan
    BY <2>2, <2>3 DEF SpansBy
  <2>5. Len(FirstSpan) = 1 /\ FirstSpan[1].from = 1 /\ FirstSpan[1].to = 0
    BY DEF FirstSpan
  <2>6. PICK l : l = LinesOf(v)
    OBVIOUS
  <2>7. l \in Seq(Seq(X)) /\ Len(l) = 1 /\ l[1] = SubSeq(v, 1, 0)
    BY <2>4, <2>5, <2>6, LinesAre
  <2>8. SubSeq(v, 1, 0) = <<>>
    BY SubSeqEmpty
  <2>9. l = <<<<>>>>
    <3>1. PICK y \in Seq(X) : y = <<>>
      BY <1>1
    <3>2. PICK o : o = <<y>>
      OBVIOUS
    <3>3. o \in Seq(Seq(X)) /\ Len(o) = 1 /\ o[1] = y
      BY <3>2
    <3>4. l[1] = y
      BY <2>7, <2>8, <3>1
    <3>5. l = o
      BY <2>7, <3>3, <3>4, SeqEqual
    <3>6. QED BY <3>1, <3>2, <3>5
  <2>10. QED BY <2>1, <2>6, <2>9
<1>5. LinesOf(t) \in Seq(Seq(X))
  BY LinesAre
<1>6. Append(LinesOf(t), <<>>) = LinesOf(t) \o <<<<>>>>
  BY <1>1, <1>5, AppendProperties
<1>7. QED BY <1>3, <1>4, <1>6, Zenon

(* What is left of lines without the empty ones at their end.              *)
Full(lines) == {k \in DOMAIN lines : k = 1 \/ lines[k] # <<>>}
LastFull(lines) == CHOOSE k \in Full(lines) : \A j \in Full(lines) : j <= k

LEMMA LastFullIs ==
  ASSUME NEW Y, NEW lines \in Seq(Y), lines # <<>>
  PROVE  LastFull(lines) \in 1 .. Len(lines)
<1>1. PICK n \in Nat \ {0} : n = Len(lines) /\ DOMAIN lines = 1 .. n
  OBVIOUS
<1>2. 1 \in Full(lines) /\ Full(lines) \subseteq 1 .. n
  BY <1>1 DEF Full
<1>3. \E k \in Full(lines) : \A j \in Full(lines) : j <= k
  <2> DEFINE T == {n - j : j \in Full(lines)}
  <2>1. T \subseteq Nat /\ T # {}
    BY <1>1, <1>2
  <2>2. PICK x \in T : \A y \in T : x <= y
    <3> HIDE DEF T
    <3>1. QED BY <2>1, LeastNat
  <2>3. PICK k \in Full(lines) : x = n - k
    BY <2>2
  <2>4. ASSUME NEW j \in Full(lines) PROVE j <= k
    <3>1. n - k <= n - j
      BY <2>2, <2>3
    <3>2. j \in 1 .. n /\ k \in 1 .. n
      BY <1>2
    <3>3. QED BY <3>1, <3>2
  <2>5. QED BY <2>4
<1>4. LastFull(lines) \in Full(lines)
  BY <1>3 DEF LastFull
<1>5. QED BY <1>1, <1>2, <1>4

LEMMA UnpaddedIs ==
  ASSUME NEW Y, NEW lines \in Seq(Y), lines # <<>>
  PROVE  Unpadded(lines) \in Seq(Y) /\ Len(Unpadded(lines)) \in 1 .. Len(lines)
<1>1. PICK e : e = LastFull(lines)
  OBVIOUS
<1>2. e \in 1 .. Len(lines)
  BY <1>1, LastFullIs
<1>3. Unpadded(lines) = SubSeq(lines, 1, e)
  BY <1>1 DEF Unpadded, LastFull, Full
<1>4. PICK n \in Nat : n = Len(lines)
  OBVIOUS
<1>5. 1 \in Nat \ {0} /\ e \in 0 .. Len(lines) /\ 1 <= e + 1 /\ e - 1 + 1 = e
  BY <1>2, <1>4
<1>6. SubSeq(lines, 1, e) \in Seq(Y) /\ Len(SubSeq(lines, 1, e)) = e - 1 + 1
  BY <1>5, SubIs
<1>7. QED BY <1>2, <1>3, <1>5, <1>6

LEMMA PaddedIs ==
  ASSUME NEW Y, <<>> \in Y, NEW lines \in Seq(Y), lines # <<>>
  PROVE  Unpadded(Append(lines, <<>>)) = Unpadded(lines)
<1>1. PICK n \in Nat \ {0} : n = Len(lines) /\ DOMAIN lines = 1 .. n
  OBVIOUS
<1>2. PICK y \in Y : y = <<>>
  OBVIOUS
<1>3. PICK x : x = Append(lines, y)
  OBVIOUS
<1>4. /\ x \in Seq(Y) /\ DOMAIN x = 1 .. n + 1 /\ x[n + 1] = <<>>
      /\ \A i \in 1 .. n : x[i] = lines[i]
  BY <1>1, <1>2, <1>3, AppendIs
<1>5. Full(x) = Full(lines)
  <2>1. ASSUME NEW k \in 1 .. n + 1 PROVE (k = 1 \/ x[k] # <<>>) <=> k \in 1 .. n /\ (k = 1 \/ lines[k] # <<>>)
    <3>1. k \in 1 .. n \/ (k = n + 1 /\ k # 1 /\ k \notin 1 .. n)
      BY <1>1
    <3>2. CASE k \in 1 .. n
      BY <1>4, <3>2
    <3>3. CASE k = n + 1 /\ k # 1 /\ k \notin 1 .. n
      BY <1>4, <3>3
    <3>4. QED BY <3>1, <3>2, <3>3
  <2>2. 1 .. n \subseteq 1 .. n + 1
    OBVIOUS
  <2>3. QED BY <1>1, <1>4, <2>1, <2>2 DEF Full
<1>6. LastFull(x) = LastFull(lines)
  BY <1>5 DEF LastFull
<1>7. PICK e : e = LastFull(lines)
  OBVIOUS
<1>8. Unpadded(lines) = SubSeq(lines, 1, e) /\ Unpadded(x) = SubSeq(x, 1, e)
  BY <1>6, <1>7 DEF Unpadded, LastFull, Full
<1>9. e \in 1 .. n
  BY <1>1, <1>7, LastFullIs
<1>10. SubSeq(lines, 1, e) = SubSeq(x, 1, e)
  <2>1. 1 \in Nat \ {0} /\ e \in 0 .. Len(lines) /\ e \in 0 .. Len(x) /\ 1 <= e + 1 /\ e - 1 + 1 = e
    <3>1. Len(x) = n + 1
      BY <1>4
    <3>2. QED BY <1>1, <1>9, <3>1
  <2>2. /\ SubSeq(lines, 1, e) \in Seq(Y) /\ Len(SubSeq(lines, 1, e)) = e - 1 + 1
        /\ \A i \in 1 .. e - 1 + 1 : SubSeq(lines, 1, e)[i] = lines[1 + i - 1]
    BY <2>1, SubIs
  <2>3. /\ SubSeq(x, 1, e) \in Seq(Y) /\ Len(SubSeq(x, 1, e)) = e - 1 + 1
        /\ \A i \in 1 .. e - 1 + 1 : SubSeq(x, 1, e)[i] = x[1 + i - 1]
    BY <1>4, <2>1, SubIs
  <2>4. ASSUME NEW i \in 1 .. e PROVE SubSeq(lines, 1, e)[i] = SubSeq(x, 1, e)[i]
    <3>1. 1 + i - 1 = i /\ i \in 1 .. n /\ i \in 1 .. e - 1 + 1
      BY <1>9
    <3>2. lines[i] = x[i]
      BY <1>4, <3>1
    <3>3. QED BY <2>2, <2>3, <3>1, <3>2
  <2>5. QED BY <2>1, <2>2, <2>3, <2>4, SeqEqual
<1>11. QED BY <1>2, <1>3, <1>8, <1>10

Regrouped(a, b, c) == (a \o b) \o c = a \o (b \o c)

LEMMA Regroup ==
  ASSUME NEW Y, NEW a \in Seq(Y), NEW b \in Seq(Y), NEW c \in Seq(Y)
  PROVE  Regrouped(a, b, c)
BY ConcatAssociative DEF Regrouped

(* The lines that replace the old ones, when others follow.                *)
LEMMA EndedIs ==
  ASSUME NEW X, NEW t \in Seq(X), EndsLine(t)
  PROVE  \E w \in Seq(X) : t = w \o <<Newline>>
<1>1. PICK n \in Nat \ {0} : n = Len(t)
  BY DEF EndsLine
<1>2. t[n] = Newline
  BY <1>1 DEF EndsLine
<1>0. n \in 1 .. Len(t)
  BY <1>1
<1>3. PICK w \in Seq(X) : w = SubSeq(t, 1, n - 1)
  BY <1>0, PrefixGrows
<1>9. PICK e \in X : e = t[n]
  BY <1>0, PrefixGrows
<1>4. SubSeq(t, 1, n) = Append(w, e)
  BY <1>0, <1>3, <1>9, PrefixGrows
<1>5. SubSeq(t, 1, n) = t
  BY <1>1, SubSeqFull
<1>6. Append(w, e) = w \o <<e>>
  BY AppendProperties
<1>7. t = w \o <<Newline>>
  BY <1>2, <1>4, <1>5, <1>6, <1>9, Zenon
<1>8. QED BY <1>7

Frontmost(s) == SubSeq(s, 1, Len(s) - 1)

LEMMA FrontmostIs ==
  ASSUME NEW Y, NEW s \in Seq(Y), NEW y \in Y
  PROVE  Frontmost(Append(s, y)) = s
<1>1. PICK n \in Nat : n = Len(s)
  OBVIOUS
<1>2. PICK w : w = Append(s, y)
  OBVIOUS
<1>3. w \in Seq(Y) /\ Len(w) = n + 1 /\ \A i \in 1 .. n : w[i] = s[i]
  BY <1>1, <1>2, AppendIs
<1>4. Len(w) - 1 = n /\ n \in 0 .. Len(w) /\ 1 <= n + 1 /\ n - 1 + 1 = n /\ 1 \in Nat \ {0}
  BY <1>3
<1>5. PICK x : x = SubSeq(w, 1, n)
  OBVIOUS
<1>6. x \in Seq(Y) /\ Len(x) = n - 1 + 1 /\ \A i \in 1 .. n - 1 + 1 : x[i] = w[1 + i - 1]
  BY <1>3, <1>4, <1>5, SubIs
<1>7. ASSUME NEW i \in 1 .. n PROVE x[i] = s[i]
  <2>1. i \in 1 .. n - 1 + 1 /\ 1 + i - 1 = i
    OBVIOUS
  <2>2. QED BY <1>3, <1>6, <2>1
<1>8. x = s
  BY <1>1, <1>4, <1>6, <1>7, SeqEqual
<1>9. QED BY <1>2, <1>4, <1>5, <1>8 DEF Frontmost

Glue(new) == IF EndsLine(new) THEN <<>> ELSE <<Newline>>
PutThere(new) == IF EndsLine(new) THEN Frontmost(LinesOf(new)) ELSE LinesOf(new)

LEMMA GluedLines ==
  ASSUME NEW X, Newline \in X, NEW new \in Seq(X), NEW v \in Seq(X)
  PROVE  LinesOf((new \o Glue(new)) \o v) = PutThere(new) \o LinesOf(v)
<1>1. CASE ~EndsLine(new)
  <2>1. PICK w : w = (new \o <<Newline>>) \o v
    OBVIOUS
  <2>2. w \in Seq(X) /\ SplitBy(w, new, v)
    BY <2>1, SplitIs
  <2>3. LinesOf(w) = LinesOf(new) \o LinesOf(v)
    BY <2>2, LinesOfJoined
  <2>4. Glue(new) = <<Newline>> /\ PutThere(new) = LinesOf(new)
    BY <1>1 DEF Glue, PutThere
  <2>5. QED BY <2>1, <2>3, <2>4, Zenon
<1>2. CASE EndsLine(new)
  <2>1. PICK u \in Seq(X) : new = u \o <<Newline>>
    BY <1>2, EndedIs
  <2>2. PICK w : w = (u \o <<Newline>>) \o v
    OBVIOUS
  <2>3. w \in Seq(X) /\ SplitBy(w, u, v)
    BY <2>2, SplitIs
  <2>4. LinesOf(w) = LinesOf(u) \o LinesOf(v)
    BY <2>3, LinesOfJoined
  <2>5. Glue(new) = <<>> /\ new \o <<>> = new
    BY <1>2, ConcatEmptySeq DEF Glue
  <2>6. LinesOf(new) = Append(LinesOf(u), <<>>)
    BY <2>1, LinesOfEnded
  <2>7. Frontmost(Append(LinesOf(u), <<>>)) = LinesOf(u)
    <3>1. LinesOf(u) \in Seq(Seq(X))
      BY LinesAre
    <3>2. PICK y \in Seq(X) : y = <<>>
      <4>1. <<>> \in Seq(X)
        OBVIOUS
      <4>2. QED BY <4>1
    <3>3. Frontmost(Append(LinesOf(u), y)) = LinesOf(u)
      BY <3>1, FrontmostIs
    <3>4. QED BY <3>2, <3>3, Zenon
  <2>8. PutThere(new) = LinesOf(u)
    BY <1>2, <2>6, <2>7 DEF PutThere
  <2>9. (new \o Glue(new)) \o v = w
    BY <2>1, <2>2, <2>5, Zenon
  <2>10. QED BY <2>4, <2>8, <2>9, Zenon
<1>3. QED BY <1>1, <1>2

(* Whole lines go, and whole lines come.                                   *)
Expected(content, find, new, a) ==
  LET lines == LinesOf(content)
      rest == SubSeq(lines, a + Len(Block(find)) + 1, Len(lines))
      given == LinesOf(new)
      written == IF rest # <<>> /\ EndsLine(new) THEN SubSeq(given, 1, Len(given) - 1) ELSE given
  IN SubSeq(lines, 1, a) \o written \o rest

LinesReplaced(content, find, new, a) ==
  Unpadded(LinesOf(ReplaceLines(content, find, new, a))) = Unpadded(Expected(content, find, new, a))

LEMMA BlockIs ==
  ASSUME NEW X, NEW find \in Seq(X)
  PROVE  Block(find) \in Seq(Seq(X)) /\ Len(Block(find)) \in Nat \ {0}
<1>1. PICK x \in Seq(Seq(X)) : x = LinesOf(find)
  BY LinesAre
<1>2. x # <<>>
  <2>1. Len(x) \in Nat \ {0}
    BY <1>1, LinesAre, SpansAre
  <2>2. QED BY <2>1
<1>3. Unpadded(x) \in Seq(Seq(X)) /\ Len(Unpadded(x)) \in 1 .. Len(x)
  BY <1>2, UnpaddedIs
<1>4. QED BY <1>1, <1>3 DEF Block

LEMMA ReplacedLines ==
  ASSUME NEW X, Newline \in X, NEW content \in Seq(X), NEW find \in Seq(X), NEW new \in Seq(X),
         NEW a \in Nat, a + Len(Block(find)) <= Len(LinesOf(content))
  PROVE  LinesReplaced(content, find, new, a)
<1>1. PICK m \in Nat \ {0} : m = Len(Block(find))
  BY BlockIs
<1>2. PICK N \in Nat : N = Len(content)
  OBVIOUS
<1>3. PICK s : s = Spans(content)
  OBVIOUS
<1>4. PICK n \in Nat \ {0} : n = Len(s) /\ DOMAIN s = 1 .. n /\ n = Len(LinesOf(content)) /\ a + m <= n
  <2>1. Len(s) \in Nat \ {0} /\ DOMAIN s = 1 .. Len(s)
    BY <1>3, SpansAre
  <2>2. Len(LinesOf(content)) = Len(s)
    BY <1>3, LinesAre
  <2>3. QED BY <1>1, <2>1, <2>2
<1>5. PICK lines \in Seq(Seq(X)) : lines = LinesOf(content)
  BY LinesAre
<1>6. PICK given \in Seq(Seq(X)) : given = LinesOf(new)
  BY LinesAre
<1>7. given # <<>>
  <2>1. Len(given) \in Nat \ {0}
    BY <1>6, LinesAre, SpansAre
  <2>2. QED BY <2>1
<1>8. PICK b0 : b0 = s[a + 1].from - 1
  OBVIOUS
<1>9. PICK A : A = SubSeq(content, 1, b0)
  OBVIOUS
<1>10. a + 1 \in 1 .. n /\ a + 1 - 1 = a
  BY <1>1, <1>4
<1>11. b0 \in 0 .. N /\ A \in Seq(X)
  <2>1. PICK from, to : from \in Nat \ {0} /\ to \in 0 .. Len(content) /\ from = s[a + 1].from /\ from <= to + 1
    BY <1>3, <1>4, <1>10, SpanFits
  <2>2. from - 1 \in 0 .. N
    <3>1. from \in Nat /\ from >= 1 /\ to \in Nat /\ from <= to + 1 /\ to <= N
      BY <1>2, <2>1
    <3>2. QED BY <3>1
  <2>3. b0 \in 0 .. N
    BY <1>8, <2>1, <2>2
  <2>4. 1 \in Nat \ {0} /\ b0 \in 0 .. Len(content) /\ 1 <= b0 + 1
    BY <1>2, <2>3
  <2>5. QED BY <1>9, <2>3, <2>4, SubIs
<1>12. PICK front : front = SubSeq(lines, 1, a)
  OBVIOUS
<1>13. front \in Seq(Seq(X))
  <2>1. 1 \in Nat \ {0} /\ a \in 0 .. Len(lines) /\ 1 <= a + 1
    BY <1>4, <1>5, <1>10
  <2>2. QED BY <1>12, <2>1, SubIs
<1>14. ASSUME NEW z \in Seq(X) PROVE LinesOf(A \o z) = front \o LinesOf(z)
  <2>1. HeadKept(content, a + 1, z)
    BY <1>3, <1>4, <1>10, HeadKeeps
  <2>2. LinesOf(SubSeq(content, 1, s[a + 1].from - 1) \o z) = SubSeq(lines, 1, a + 1 - 1) \o LinesOf(z)
    BY <1>3, <1>5, <2>1 DEF HeadKept
  <2>3. QED BY <1>8, <1>9, <1>10, <1>12, <2>2
<1>15. CASE a + m + 1 <= n
  <2>1. PICK k : k = a + m + 1
    OBVIOUS
  <2>2. k \in 2 .. n /\ k \in DOMAIN s
    BY <1>1, <1>4, <1>15, <2>1
  <2>3. PICK v \in Seq(X) : TailKept(content, k, v)
    BY <1>3, <1>4, <2>2, TailKeeps
  <2>4. PICK b1 : b1 = s[k].from - 1
    OBVIOUS
  <2>5. b1 \in Nat /\ b0 < b1 /\ b1 + 1 = s[k].from /\ content[b1] = Newline
    <3>1. PICK x, y : x = s[a + 1].from /\ y = s[k].from
      OBVIOUS
    <3>2. x < y
      <4>1. a + 1 \in 1 .. Len(Spans(content)) /\ k \in 1 .. Len(Spans(content)) /\ a + 1 < k
        BY <1>1, <1>3, <1>4, <1>10, <2>1, <2>2
      <4>2. Spans(content)[a + 1].from < Spans(content)[k].from
        BY <4>1, SpansAre DEF Spanned
      <4>3. QED BY <1>3, <3>1, <4>2
    <3>3. y \in Nat \ {0}
      <4>1. k \in 1 .. Len(Spans(content))
        BY <1>3, <1>4, <2>2
      <4>2. PICK from, to : from \in Nat \ {0} /\ from = Spans(content)[k].from
        BY <4>1, SpanFits
      <4>3. QED BY <1>3, <3>1, <4>2
    <3>4. b0 = x - 1 /\ b1 = y - 1 /\ x \in Nat \ {0}
      <4>1. PICK from, to : from \in Nat \ {0} /\ from = s[a + 1].from
        BY <1>3, <1>4, <1>10, SpanFits
      <4>2. QED BY <1>8, <2>4, <3>1, <4>1
    <3>5. b1 \in Nat /\ b0 < b1 /\ b1 + 1 = y
      BY <3>2, <3>3, <3>4
    <3>6. content[b1] = Newline
      BY <1>3, <2>3, <2>4 DEF TailKept
    <3>7. QED BY <3>1, <3>5, <3>6
  <2>6. SubSeq(content, b1 + 1, Len(content)) = v
    BY <1>3, <2>3, <2>5 DEF TailKept
  <2>7. ReplaceLines(content, find, new, a) = ((A \o new) \o Glue(new)) \o v
    <3>1. a + Len(Block(find)) + 1 = k
      BY <1>1, <2>1
    <3>2. (b1 > b0 /\ content[b1] = Newline /\ ~EndsLine(new)) <=> ~EndsLine(new)
      BY <1>11, <2>5
    <3>3. ReplaceLines(content, find, new, a)
          = SubSeq(content, 1, b0) \o new
            \o (IF b1 > b0 /\ content[b1] = Newline /\ ~EndsLine(new) THEN <<Newline>> ELSE <<>>)
            \o SubSeq(content, b1 + 1, Len(content))
      BY <1>3, <1>8, <2>2, <2>4, <3>1, Zenon DEF ReplaceLines
    <3>4. (IF b1 > b0 /\ content[b1] = Newline /\ ~EndsLine(new) THEN <<Newline>> ELSE <<>>) = Glue(new)
      BY <3>2 DEF Glue
    <3>5. QED BY <1>9, <2>6, <3>3, <3>4, Zenon
  <2>8. PICK g \in Seq(X) : g = Glue(new)
    <3>1. <<Newline>> \in Seq(X) /\ <<>> \in Seq(X)
      OBVIOUS
    <3>2. QED BY <3>1 DEF Glue
  <2>9. ((A \o new) \o g) \o v = A \o ((new \o g) \o v) /\ (new \o g) \o v \in Seq(X)
    <3>0. Regrouped(A, new, g)
      BY <1>11, <2>8, Regroup
    <3>1. (A \o new) \o g = A \o (new \o g)
      BY <3>0 DEF Regrouped
    <3>2. PICK h \in Seq(X) : h = new \o g
      BY <2>8, ConcatProperties
    <3>5. Regrouped(A, h, v) /\ h \o v \in Seq(X)
      BY <1>11, <3>2, Regroup, ConcatProperties
    <3>3. (A \o h) \o v = A \o (h \o v) /\ h \o v \in Seq(X)
      BY <3>5 DEF Regrouped
    <3>4. QED BY <3>1, <3>2, <3>3, Zenon
  <2>10. LinesOf(ReplaceLines(content, find, new, a)) = front \o (PutThere(new) \o LinesOf(v))
    <3>1. LinesOf(A \o ((new \o g) \o v)) = front \o LinesOf((new \o g) \o v)
      BY <1>14, <2>9
    <3>2. LinesOf((new \o g) \o v) = PutThere(new) \o LinesOf(v)
      BY <2>8, GluedLines
    <3>3. QED BY <2>7, <2>8, <2>9, <3>1, <3>2, Zenon
  <2>11. SubSeq(lines, k, Len(lines)) = LinesOf(v)
    BY <1>5, <2>3 DEF TailKept
  <2>12. LinesOf(v) \in Seq(Seq(X)) /\ LinesOf(v) # <<>>
    <3>1. LinesOf(v) \in Seq(Seq(X)) /\ Len(LinesOf(v)) \in Nat \ {0}
      BY LinesAre, SpansAre
    <3>2. QED BY <3>1
  <2>13. Expected(content, find, new, a) = (front \o PutThere(new)) \o LinesOf(v)
    <3>1. a + Len(Block(find)) + 1 = k
      BY <1>1, <2>1
    <3>2. Expected(content, find, new, a)
          = SubSeq(lines, 1, a)
            \o (IF SubSeq(lines, k, Len(lines)) # <<>> /\ EndsLine(new)
                THEN SubSeq(LinesOf(new), 1, Len(LinesOf(new)) - 1) ELSE LinesOf(new))
            \o SubSeq(lines, k, Len(lines))
      BY <1>5, <3>1, Zenon DEF Expected
    <3>3. (IF LinesOf(v) # <<>> /\ EndsLine(new)
           THEN SubSeq(LinesOf(new), 1, Len(LinesOf(new)) - 1) ELSE LinesOf(new)) = PutThere(new)
      BY <2>12 DEF PutThere, Frontmost
    <3>4. QED BY <1>12, <2>11, <3>2, <3>3, Zenon
  <2>14. PutThere(new) \in Seq(Seq(X))
    <3>1. PICK q \in Nat \ {0} : q = Len(given)
      BY <1>7
    <3>2. 1 \in Nat \ {0} /\ q - 1 \in 0 .. Len(given) /\ 1 <= q - 1 + 1
      BY <3>1
    <3>3. SubSeq(given, 1, q - 1) \in Seq(Seq(X))
      BY <3>2, SubIs
    <3>4. QED BY <1>6, <3>1, <3>3 DEF PutThere, Frontmost
  <2>15. (front \o PutThere(new)) \o LinesOf(v) = front \o (PutThere(new) \o LinesOf(v))
    <3>1. Regrouped(front, PutThere(new), LinesOf(v))
      BY <1>13, <2>12, <2>14, Regroup
    <3>2. QED BY <3>1 DEF Regrouped
  <2>16. QED BY <2>10, <2>13, <2>15 DEF LinesReplaced
<1>16. CASE ~(a + m + 1 <= n)
  <2>1. PICK k : k = a + m + 1
    OBVIOUS
  <2>2. k = n + 1 /\ k \notin DOMAIN s
    BY <1>1, <1>4, <1>16, <2>1
  <2>3. SubSeq(content, N + 1, Len(content)) = <<>>
    BY <1>2, SubSeqEmpty
  <2>4. SubSeq(lines, k, Len(lines)) = <<>>
    <3>1. n \in Int /\ n + 1 \in Int /\ n < n + 1 /\ Len(lines) = n
      BY <1>4, <1>5
    <3>2. QED BY <2>2, <3>1, SubSeqEmpty
  <2>5. PICK g \in Seq(X) : /\ g = <<>> \/ g = <<Newline>>
                            /\ ReplaceLines(content, find, new, a) = ((A \o new) \o g) \o <<>>
    <3>1. a + Len(Block(find)) + 1 = k
      BY <1>1, <2>1
    <3>2. ReplaceLines(content, find, new, a)
          = SubSeq(content, 1, b0) \o new
            \o (IF N > b0 /\ content[N] = Newline /\ ~EndsLine(new) THEN <<Newline>> ELSE <<>>)
            \o SubSeq(content, N + 1, Len(content))
      BY <1>2, <1>3, <1>8, <2>2, <3>1, Zenon DEF ReplaceLines
    <3>3. <<Newline>> \in Seq(X) /\ <<>> \in Seq(X)
      OBVIOUS
    <3>4. PICK g : g = IF N > b0 /\ content[N] = Newline /\ ~EndsLine(new) THEN <<Newline>> ELSE <<>>
      OBVIOUS
    <3>5. g \in Seq(X) /\ (g = <<>> \/ g = <<Newline>>)
      BY <3>3, <3>4
    <3>6. ReplaceLines(content, find, new, a) = ((A \o new) \o g) \o <<>>
      BY <1>9, <2>3, <3>2, <3>4, Zenon
    <3>7. QED BY <3>5, <3>6
  <2>6. ReplaceLines(content, find, new, a) = A \o (new \o g) /\ new \o g \in Seq(X)
    <3>0. Regrouped(A, new, g)
      BY <1>11, <2>5, Regroup
    <3>1. (A \o new) \o g = A \o (new \o g)
      BY <3>0 DEF Regrouped
    <3>2. PICK h \in Seq(X) : h = new \o g
      BY <2>5, ConcatProperties
    <3>3. A \o h \in Seq(X)
      BY <1>11, <3>2, ConcatProperties
    <3>4. (A \o h) \o <<>> = A \o h
      BY <3>3, ConcatEmptySeq
    <3>5. QED BY <2>5, <3>1, <3>2, <3>4, Zenon
  <2>7. LinesOf(ReplaceLines(content, find, new, a)) = front \o LinesOf(new \o g)
    BY <1>14, <2>6
  <2>8. Expected(content, find, new, a) = front \o given
    <3>1. a + Len(Block(find)) + 1 = k
      BY <1>1, <2>1
    <3>2. Expected(content, find, new, a)
          = SubSeq(lines, 1, a)
            \o (IF SubSeq(lines, k, Len(lines)) # <<>> /\ EndsLine(new)
                THEN SubSeq(LinesOf(new), 1, Len(LinesOf(new)) - 1) ELSE LinesOf(new))
            \o SubSeq(lines, k, Len(lines))
      BY <1>5, <3>1, Zenon DEF Expected
    <3>3. Expected(content, find, new, a) = (front \o given) \o <<>>
      BY <1>6, <1>12, <2>4, <3>2
    <3>4. front \o given \in Seq(Seq(X))
      BY <1>13, ConcatProperties
    <3>5. (front \o given) \o <<>> = front \o given
      BY <3>4, ConcatEmptySeq
    <3>6. QED BY <3>3, <3>5, Zenon
  <2>9. CASE g = <<>>
    <3>1. new \o g = new
      BY <2>9, ConcatEmptySeq
    <3>2. QED BY <1>6, <2>7, <2>8, <3>1 DEF LinesReplaced
  <2>10. CASE g = <<Newline>>
    <3>1. PICK e \in Seq(X) : e = <<>>
      <4>1. <<>> \in Seq(X)
        OBVIOUS
      <4>2. QED BY <4>1
    <3>2. LinesOf(new \o g) = Append(given, e)
      BY <1>6, <2>10, <3>1, LinesOfEnded
    <3>3. PICK f \in Seq(Seq(X)) : f = front \o given
      BY <1>13, ConcatProperties
    <3>4. front \o Append(given, e) = Append(f, e)
      <4>0. <<e>> \in Seq(Seq(X)) /\ Append(f, e) = f \o <<e>>
        BY AppendProperties
      <4>1. Append(given, e) = given \o <<e>> /\ Append(f, e) = f \o <<e>> /\ <<e>> \in Seq(Seq(X))
        BY <4>0, AppendProperties
      <4>2. (front \o given) \o <<e>> = front \o (given \o <<e>>)
        <5>1. Regrouped(front, given, <<e>>)
          BY <1>13, <4>1, Regroup
        <5>2. QED BY <5>1 DEF Regrouped
      <4>3. QED BY <3>3, <4>1, <4>2, Zenon
    <3>5. f # <<>>
      BY <1>7, <1>13, <3>3, ConcatEqualIffEmpty
    <3>6. Unpadded(Append(f, e)) = Unpadded(f)
      BY <3>1, <3>5, PaddedIs
    <3>7. QED BY <2>7, <2>8, <3>2, <3>3, <3>4, <3>6 DEF LinesReplaced
  <2>11. QED BY <2>5, <2>9, <2>10
<1>17. QED BY <1>15, <1>16

(* Whatever is searched for and put in its place, edit_apply leaves the    *)
(* other lines alone, and an edit two places could be meant by is refused. *)
THEOREM EditsLeaveTheRest ==
  ASSUME NEW X, Newline \in X, NEW content \in Seq(X), NEW find \in Seq(X), NEW new \in Seq(X)
  PROVE  OtherLinesStay(content, find, new)
<1>1. PICK r : r = EditApply(content, find, new)
  OBVIOUS
<1>2. PICK exact : exact = Occurrences(content, find)
  OBVIOUS
<1>3. PICK a : a = CHOOSE i \in Places(content, find) : TRUE
  OBVIOUS
<1>4. ASSUME r.ok, exact = {}
      PROVE  Unpadded(LinesOf(r.text)) = Unpadded(Expected(content, find, new, a))
  <2>1. ~NoEdit.ok
    BY DEF NoEdit
  <2>2. find # <<>>
    BY <1>1, <1>4, <2>1, Zenon DEF EditApply
  <2>3. r = IF Cardinality(Places(content, find)) # 1 THEN NoEdit
            ELSE [ok |-> TRUE, text |-> ReplaceLines(content, find, new, a)]
    BY <1>1, <1>2, <1>3, <1>4, <2>2 DEF EditApply
  <2>4. Cardinality(Places(content, find)) = 1 /\ r.text = ReplaceLines(content, find, new, a)
    <3>1. Cardinality(Places(content, find)) = 1
      BY <1>4, <2>1, <2>3, Zenon
    <3>2. QED BY <2>3, <3>1
  <2>5. a \in Places(content, find)
    <3>1. Places(content, find) # {}
      <4>1. Cardinality({}) = 0 /\ 0 # 1
        BY FS_EmptySet
      <4>2. QED BY <2>4, <4>1
    <3>2. QED BY <1>3, <3>1
  <2>6. a \in Nat /\ a + Len(Block(find)) <= Len(LinesOf(content))
    <3>1. PICK m \in Nat : m = Len(Block(find))
      BY BlockIs
    <3>2. PICK n \in Nat : n = Len(LinesOf(content))
      <4>1. LinesOf(content) \in Seq(Seq(X))
        BY LinesAre
      <4>2. QED BY <4>1
    <3>3. a \in 0 .. n - m
      BY <2>5, <3>1, <3>2 DEF Places
    <3>4. a \in Nat /\ a + m <= n
      BY <3>1, <3>2, <3>3
    <3>5. QED BY <3>1, <3>2, <3>4
  <2>7. LinesReplaced(content, find, new, a)
    BY <2>6, ReplacedLines
  <2>8. QED BY <2>4, <2>7 DEF LinesReplaced
<1>5. ASSUME Cardinality(exact) > 1 PROVE ~r.ok
  <2>1. exact # {}
    <3>1. Cardinality({}) = 0
      BY FS_EmptySet
    <3>2. ~(0 > 1)
      OBVIOUS
    <3>3. QED BY <1>5, <3>1, <3>2
  <2>2. r = NoEdit
    <3>1. CASE find = <<>>
      BY <1>1, <3>1 DEF EditApply
    <3>2. CASE find # <<>>
      BY <1>1, <1>2, <1>5, <2>1, <3>2 DEF EditApply
    <3>3. QED BY <3>1, <3>2
  <2>3. QED BY <2>2 DEF NoEdit
<1>6. QED BY <1>1, <1>2, <1>3, <1>4, <1>5, Zenon DEF OtherLinesStay, Expected

(* The table of the diff is filled from its far corner: what holds of a    *)
(* cell when it holds of the ones after it holds of all.                   *)
Squares(m, n) == (1 .. m + 1) \X (1 .. n + 1)

LEMMA SquareInduction ==
  ASSUME NEW m \in Nat, NEW n \in Nat, NEW P,
         \A i \in 1 .. m + 1, j \in 1 .. n + 1 :
           (i <= m /\ j <= n => <<i + 1, j>> \in P /\ <<i, j + 1>> \in P /\ <<i + 1, j + 1>> \in P)
           => <<i, j>> \in P
  PROVE  \A i \in 1 .. m + 1, j \in 1 .. n + 1 : <<i, j>> \in P
<1> DEFINE Q == {k \in 0 .. m + n : \A i \in 1 .. m + 1, j \in 1 .. n + 1 :
                                      (m + 1 - i) + (n + 1 - j) <= k => <<i, j>> \in P}
<1>1. 0 \in Q
  <2>1. ASSUME NEW i \in 1 .. m + 1, NEW j \in 1 .. n + 1, (m + 1 - i) + (n + 1 - j) <= 0
        PROVE  <<i, j>> \in P
    <3>1. ~(i <= m)
      BY <2>1
    <3>2. QED BY <3>1
  <2>2. 0 \in 0 .. m + n
    OBVIOUS
  <2>3. QED BY <2>1, <2>2
<1>2. ASSUME NEW k \in 1 .. m + n, k - 1 \in Q PROVE k \in Q
  <2>1. ASSUME NEW i \in 1 .. m + 1, NEW j \in 1 .. n + 1, (m + 1 - i) + (n + 1 - j) <= k
        PROVE  <<i, j>> \in P
    <3>1. ASSUME i <= m, j <= n
          PROVE  <<i + 1, j>> \in P /\ <<i, j + 1>> \in P /\ <<i + 1, j + 1>> \in P
      <4>1. i + 1 \in 1 .. m + 1 /\ j + 1 \in 1 .. n + 1
        BY <3>1
      <4>2. /\ (m + 1 - (i + 1)) + (n + 1 - j) <= k - 1
            /\ (m + 1 - i) + (n + 1 - (j + 1)) <= k - 1
            /\ (m + 1 - (i + 1)) + (n + 1 - (j + 1)) <= k - 1
        BY <2>1
      <4>3. QED BY <1>2, <4>1, <4>2
    <3>2. QED BY <3>1
  <2>2. k \in 0 .. m + n
    OBVIOUS
  <2>3. QED BY <2>1, <2>2
<1>3. m + n \in Q
  <2>1. 0 .. m + n \subseteq Q
    <3>1. m + n \in Nat
      OBVIOUS
    <3> HIDE DEF Q
    <3>2. QED BY <1>1, <1>2, <3>1, UpTo
  <2>2. m + n \in 0 .. m + n
    OBVIOUS
  <2>3. QED BY <2>1, <2>2
<1>4. ASSUME NEW i \in 1 .. m + 1, NEW j \in 1 .. n + 1 PROVE <<i, j>> \in P
  <2>1. (m + 1 - i) + (n + 1 - j) <= m + n
    OBVIOUS
  <2>2. QED BY <1>3, <2>1
<1>5. QED BY <1>4

Ahead(f, g, i, j) ==
  /\ f[<<i + 1, j>>] = g[<<i + 1, j>>]
  /\ f[<<i, j + 1>>] = g[<<i, j + 1>>]
  /\ f[<<i + 1, j + 1>>] = g[<<i + 1, j + 1>>]

IsLocal(B, m, n, V) ==        \* a cell is computed from the ones after it
  \A f \in [Squares(m, n) -> V], g \in [Squares(m, n) -> V] : \A i \in 1 .. m + 1, j \in 1 .. n + 1 :
    (i <= m /\ j <= n => Ahead(f, g, i, j)) => B[f][<<i, j>>] = B[g][<<i, j>>]

HasFixed(B, m, n, V) == \E f \in [Squares(m, n) -> V] : f = B[f]

LEMMA SquareRecursion ==
  ASSUME NEW m \in Nat, NEW n \in Nat, NEW V, NEW c \in [Squares(m, n) -> V],
         NEW B \in [[Squares(m, n) -> V] -> [Squares(m, n) -> V]], IsLocal(B, m, n, V)
  PROVE  HasFixed(B, m, n, V)
<1> DEFINE S == [Squares(m, n) -> V]
           d == [q \in Nat \X S |-> B[q[2]]]
           N == m + n + 1
<1>1. N \in Nat
  OBVIOUS
<1>2. PICK g \in [0 .. N -> S] : IsRun(g, c, d, N)
  <2>1. d \in [Nat \X S -> S]
    OBVIOUS
  <2> HIDE DEF d, S, N
  <2>2. c \in S
    BY DEF S
  <2>3. QED BY <1>1, <2>1, <2>2, FiniteRecursion
<1>3. ASSUME NEW k \in 1 .. N PROVE g[k] = B[g[k - 1]] /\ g[k - 1] \in S /\ g[k] \in S
  <2>1. k - 1 \in 0 .. N /\ k \in 0 .. N /\ k \in Nat
    BY <1>1
  <2>2. g[k - 1] \in S /\ g[k] \in S
    BY <1>2, <2>1
  <2>3. d[<<k, g[k - 1]>>] = B[g[k - 1]]
    <3> HIDE DEF S
    <3>1. <<k, g[k - 1]>> \in Nat \X S
      BY <2>1, <2>2
    <3>2. QED BY <3>1
  <2>4. QED BY <1>2, <2>2, <2>3 DEF IsRun
<1> DEFINE Q == {k \in 0 .. N : \A i \in 1 .. m + 1, j \in 1 .. n + 1 :
                   (m + 1 - i) + (n + 1 - j) < k => B[g[k]][<<i, j>>] = g[k][<<i, j>>]}
<1>4. 0 \in Q
  <2>1. \A i \in 1 .. m + 1, j \in 1 .. n + 1 : ~((m + 1 - i) + (n + 1 - j) < 0)
    OBVIOUS
  <2>2. QED BY <1>1, <2>1
<1>5. ASSUME NEW k \in 1 .. N, k - 1 \in Q PROVE k \in Q
  <2>1. ASSUME NEW i \in 1 .. m + 1, NEW j \in 1 .. n + 1, (m + 1 - i) + (n + 1 - j) < k
        PROVE  B[g[k]][<<i, j>>] = g[k][<<i, j>>]
    <3>1. PICK h \in S, h2 \in S : h = g[k - 1] /\ h2 = g[k] /\ h2 = B[h]
      BY <1>3
    <3>2. \A x \in 1 .. m + 1, y \in 1 .. n + 1 :
            (m + 1 - x) + (n + 1 - y) < k - 1 => B[h][<<x, y>>] = h[<<x, y>>]
      BY <1>5, <3>1
    <3>3. ASSUME i <= m, j <= n PROVE Ahead(h, h2, i, j)
      <4>1. i + 1 \in 1 .. m + 1 /\ j + 1 \in 1 .. n + 1
        BY <3>3
      <4>2. /\ (m + 1 - (i + 1)) + (n + 1 - j) < k - 1
            /\ (m + 1 - i) + (n + 1 - (j + 1)) < k - 1
            /\ (m + 1 - (i + 1)) + (n + 1 - (j + 1)) < k - 1
        BY <2>1
      <4>3. QED BY <3>1, <3>2, <4>1, <4>2 DEF Ahead
    <3>4. B[h][<<i, j>>] = B[h2][<<i, j>>]
      BY <3>1, <3>3 DEF IsLocal
    <3>5. QED BY <3>1, <3>4
  <2>2. k \in 0 .. N
    BY <1>1
  <2>3. QED BY <2>1, <2>2
<1>6. N \in Q
  <2>1. 0 .. N \subseteq Q
    <3> HIDE DEF Q, N
    <3>2. QED BY <1>1, <1>4, <1>5, UpTo
  <2>2. N \in 0 .. N
    BY <1>1
  <2>3. QED BY <2>1, <2>2
<1>7. PICK f \in S : f = g[N]
  <2>1. N \in 0 .. N
    BY <1>1
  <2> HIDE DEF S
  <2>2. QED BY <2>1
<1>8. ASSUME NEW x \in Squares(m, n) PROVE f[x] = B[f][x]
  <2>1. PICK i \in 1 .. m + 1, j \in 1 .. n + 1 : x = <<i, j>>
    BY DEF Squares
  <2>2. (m + 1 - i) + (n + 1 - j) < N
    OBVIOUS
  <2>3. QED BY <1>6, <1>7, <2>1, <2>2
<1>9. B[f] \in S
  OBVIOUS
<1>10. f = B[f]
  BY <1>8, <1>9
<1>11. QED BY <1>10 DEF HasFixed

(* Cell by cell: the table, and the walk through it.                       *)
Longer(dp, i, j) == IF dp[<<i + 1, j>>] >= dp[<<i, j + 1>>] THEN dp[<<i + 1, j>>] ELSE dp[<<i, j + 1>>]
LcsAt(dp, a, b, i, j) ==
  IF i > Len(a) \/ j > Len(b) THEN 0
  ELSE IF a[i] = b[j] THEN dp[<<i + 1, j + 1>>] + 1
  ELSE Longer(dp, i, j)

LcsTable(dp, a, b) ==
  \A i \in 1 .. Len(a) + 1, j \in 1 .. Len(b) + 1 :
    dp[<<i, j>>] \in Nat /\ dp[<<i, j>>] = LcsAt(dp, a, b, i, j)

LEMMA LcsIs ==
  ASSUME NEW Y, NEW a \in Seq(Y), NEW b \in Seq(Y)
  PROVE  LcsTable(Lcs(a, b), a, b)
<1> DEFINE cell(f, i, j) == IF i > Len(a) \/ j > Len(b) THEN 0
                            ELSE IF a[i] = b[j] THEN f[<<i + 1, j + 1>>] + 1
                            ELSE IF f[<<i + 1, j>>] >= f[<<i, j + 1>>] THEN f[<<i + 1, j>>]
                                 ELSE f[<<i, j + 1>>]
           body(f) == [at \in Grid(a, b) |-> LET i == at[1] j == at[2] IN cell(f, i, j)]
           dp == CHOOSE f : f = body(f)
<1>1. PICK m \in Nat : m = Len(a)
  OBVIOUS
<1>2. PICK n \in Nat : n = Len(b)
  OBVIOUS
<1>3. Grid(a, b) = Squares(m, n)
  BY <1>1, <1>2 DEF Grid, Squares
<1> DEFINE S == [Squares(m, n) -> Nat]
<1>4. ASSUME NEW f \in S, NEW i \in 1 .. m + 1, NEW j \in 1 .. n + 1
      PROVE  /\ cell(f, i, j) \in Nat
             /\ i <= m /\ j <= n => /\ f[<<i + 1, j>>] \in Nat /\ f[<<i, j + 1>>] \in Nat
                                    /\ f[<<i + 1, j + 1>>] \in Nat
  <2>1. CASE i <= m /\ j <= n
    <3>1. i + 1 \in 1 .. m + 1 /\ j + 1 \in 1 .. n + 1
      BY <2>1
    <3>2. <<i + 1, j>> \in Squares(m, n) /\ <<i, j + 1>> \in Squares(m, n) /\ <<i + 1, j + 1>> \in Squares(m, n)
      BY <3>1 DEF Squares
    <3>3. PICK x \in Nat, y \in Nat, z \in Nat :
            x = f[<<i + 1, j>>] /\ y = f[<<i, j + 1>>] /\ z = f[<<i + 1, j + 1>>]
      BY <3>2
    <3>4. cell(f, i, j) = x \/ cell(f, i, j) = y \/ cell(f, i, j) = z + 1
      BY <1>1, <1>2, <2>1, <3>3
    <3>5. QED BY <3>3, <3>4
  <2>2. CASE ~(i <= m /\ j <= n)
    BY <1>1, <1>2, <2>2
  <2>3. QED BY <2>1, <2>2
<1>5. ASSUME NEW f, NEW i \in 1 .. m + 1, NEW j \in 1 .. n + 1 PROVE body(f)[<<i, j>>] = cell(f, i, j)
  <2> HIDE DEF cell
  <2>1. <<i, j>> \in Squares(m, n)
    BY DEF Squares
  <2>2. QED BY <1>3, <2>1
<1>6. ASSUME NEW f \in S PROVE body(f) \in S
  <2>1. ASSUME NEW at \in Squares(m, n) PROVE body(f)[at] \in Nat
    <3>1. PICK i \in 1 .. m + 1, j \in 1 .. n + 1 : at = <<i, j>>
      BY DEF Squares
    <3>2. cell(f, i, j) \in Nat
      BY <1>4
    <3> HIDE DEF cell, body
    <3>3. QED BY <1>5, <3>1, <3>2
  <2> HIDE DEF cell
  <2>2. QED BY <1>3, <2>1
<1> DEFINE B == [f \in S |-> body(f)]
<1>7. ASSUME NEW f \in S, NEW g \in S, NEW i \in 1 .. m + 1, NEW j \in 1 .. n + 1,
             i <= m /\ j <= n => Ahead(f, g, i, j)
      PROVE  B[f][<<i, j>>] = B[g][<<i, j>>]
  <2>1. cell(f, i, j) = cell(g, i, j)
    <3>1. CASE i <= m /\ j <= n
      BY <1>1, <1>2, <1>7, <3>1 DEF Ahead
    <3>2. CASE ~(i <= m /\ j <= n)
      BY <1>1, <1>2, <3>2
    <3>3. QED BY <3>1, <3>2
  <2>2. B[f] = body(f) /\ B[g] = body(g)
    <3> HIDE DEF body, S
    <3>1. QED OBVIOUS
  <2> HIDE DEF body, cell, B
  <2>3. QED BY <1>5, <2>1, <2>2
<1>8. PICK f \in S : f = body(f)
  <2>1. B \in [S -> S]
    <3> HIDE DEF body, S
    <3>1. QED BY <1>6
  <2>2. [at \in Squares(m, n) |-> 0] \in S
    OBVIOUS
  <2>3. HasFixed(B, m, n, Nat)
    <3> HIDE DEF body, cell
    <3>1. IsLocal(B, m, n, Nat)
      BY <1>7 DEF IsLocal
    <3> HIDE DEF B
    <3>2. QED BY <2>1, <2>2, <3>1, SquareRecursion
  <2>4. PICK f \in S : f = B[f]
    <3> HIDE DEF B
    <3>1. QED BY <2>3 DEF HasFixed
  <2>5. B[f] = body(f)
    <3> HIDE DEF body, S
    <3>1. QED BY <2>4
  <2> HIDE DEF body, S, B
  <2>6. QED BY <2>4, <2>5
<1>9. dp = body(dp)
  <2> HIDE DEF body
  <2>1. QED BY <1>8
<1>10. Lcs(a, b) = dp
  BY DEF Lcs
<1> HIDE DEF dp
<1>11. ASSUME NEW i \in 1 .. m + 1, NEW j \in 1 .. n + 1 PROVE dp[<<i, j>>] = cell(dp, i, j)
  <2> HIDE DEF cell, body
  <2>1. QED BY <1>5, <1>9
<1>12. \A i \in 1 .. m + 1, j \in 1 .. n + 1 : dp[<<i, j>>] \in Nat
  <2> DEFINE P == {x \in Squares(m, n) : dp[x] \in Nat}
  <2>1. ASSUME NEW i \in 1 .. m + 1, NEW j \in 1 .. n + 1,
               i <= m /\ j <= n => <<i + 1, j>> \in P /\ <<i, j + 1>> \in P /\ <<i + 1, j + 1>> \in P
        PROVE  <<i, j>> \in P
    <3>1. <<i, j>> \in Squares(m, n)
      BY DEF Squares
    <3>2. cell(dp, i, j) \in Nat
      <4>1. CASE i <= m /\ j <= n
        <5>1. PICK x \in Nat, y \in Nat, z \in Nat :
                x = dp[<<i + 1, j>>] /\ y = dp[<<i, j + 1>>] /\ z = dp[<<i + 1, j + 1>>]
          BY <2>1, <4>1
        <5>2. cell(dp, i, j) = x \/ cell(dp, i, j) = y \/ cell(dp, i, j) = z + 1
          BY <1>1, <1>2, <4>1, <5>1, SMTT(20)
        <5> HIDE DEF cell
        <5>3. QED BY <5>2
      <4>2. CASE ~(i <= m /\ j <= n)
        BY <1>1, <1>2, <4>2
      <4>3. QED BY <4>1, <4>2
    <3> HIDE DEF cell
    <3>3. QED BY <1>11, <3>1, <3>2
  <2>2. \A i \in 1 .. m + 1, j \in 1 .. n + 1 : <<i, j>> \in P
    <3> HIDE DEF P
    <3>1. QED BY <2>1, SquareInduction
  <2>3. QED BY <2>2
<1>13. \A i, j : cell(dp, i, j) = LcsAt(dp, a, b, i, j)
  BY DEF LcsAt, Longer
<1> HIDE DEF cell, body
<1>14. QED BY <1>1, <1>2, <1>10, <1>11, <1>12, <1>13 DEF LcsTable

OpRecs(Y) == [type : {"add", "del", "same"}, line : Y]
Adds(b, j) == [k \in 1 .. Len(b) - j + 1 |-> Op("add", b[j + k - 1])]
Dels(a, i) == [k \in 1 .. Len(a) - i + 1 |-> Op("del", a[i + k - 1])]
WalkAt(w, dp, a, b, i, j) ==
  IF i > Len(a) THEN Adds(b, j)
  ELSE IF j > Len(b) THEN Dels(a, i)
  ELSE IF a[i] = b[j] THEN <<Op("same", a[i])>> \o w[<<i + 1, j + 1>>]
  ELSE IF dp[<<i + 1, j>>] >= dp[<<i, j + 1>>] THEN <<Op("del", a[i])>> \o w[<<i + 1, j>>]
  ELSE <<Op("add", b[j])>> \o w[<<i, j + 1>>]

Walked(w, dp, a, b) ==
  \A i \in 1 .. Len(a) + 1, j \in 1 .. Len(b) + 1 : w[<<i, j>>] = WalkAt(w, dp, a, b, i, j)

LEMMA OpIs ==
  ASSUME NEW Y, NEW y \in Y
  PROVE  /\ Op("add", y) \in OpRecs(Y) /\ Op("del", y) \in OpRecs(Y) /\ Op("same", y) \in OpRecs(Y)
         /\ \A t : Op(t, y).type = t /\ Op(t, y).line = y
BY DEF Op, OpRecs

LEMMA OnlyIs ==
  ASSUME NEW Y, NEW a \in Seq(Y), NEW i \in 1 .. Len(a) + 1
  PROVE  Adds(a, i) \in Seq(OpRecs(Y)) /\ Dels(a, i) \in Seq(OpRecs(Y))
<1>1. PICK m \in Nat : m = Len(a)
  OBVIOUS
<1>2. PICK n \in Nat : n = m - i + 1
  BY <1>1
<1>3. ASSUME NEW k \in 1 .. n PROVE a[i + k - 1] \in Y
  BY <1>1, <1>2
<1>4. \A k \in 1 .. n : Op("add", a[i + k - 1]) \in OpRecs(Y) /\ Op("del", a[i + k - 1]) \in OpRecs(Y)
  BY <1>3, OpIs
<1>5. Adds(a, i) = [k \in 1 .. n |-> Op("add", a[i + k - 1])] /\ Dels(a, i) = [k \in 1 .. n |-> Op("del", a[i + k - 1])]
  BY <1>1, <1>2 DEF Adds, Dels
<1>6. [k \in 1 .. n |-> Op("add", a[i + k - 1])] \in Seq(OpRecs(Y))
  <2>1. PICK R : R = OpRecs(Y)
    OBVIOUS
  <2>2. \A k \in 1 .. n : Op("add", a[i + k - 1]) \in R
    BY <1>4, <2>1
  <2>3. [k \in 1 .. n |-> Op("add", a[i + k - 1])] \in [1 .. n -> R]
    BY <2>2
  <2>4. QED BY <2>1, <2>3, SeqDef
<1>7. [k \in 1 .. n |-> Op("del", a[i + k - 1])] \in Seq(OpRecs(Y))
  <2>1. PICK R : R = OpRecs(Y)
    OBVIOUS
  <2>2. \A k \in 1 .. n : Op("del", a[i + k - 1]) \in R
    BY <1>4, <2>1
  <2>3. [k \in 1 .. n |-> Op("del", a[i + k - 1])] \in [1 .. n -> R]
    BY <2>2
  <2>4. QED BY <2>1, <2>3, SeqDef
<1>8. QED BY <1>5, <1>6, <1>7

WalkOf(w, a, b, Y) ==
  /\ Ops(a, b) = w[<<1, 1>>] /\ Walked(w, Lcs(a, b), a, b)
  /\ \A i \in 1 .. Len(a) + 1, j \in 1 .. Len(b) + 1 : w[<<i, j>>] \in Seq(OpRecs(Y))

LEMMA PrependIs ==
  ASSUME NEW R, NEW o \in R, NEW s \in Seq(R)
  PROVE  /\ <<o>> \o s \in Seq(R) /\ Len(<<o>> \o s) = Len(s) + 1 /\ (<<o>> \o s)[1] = o
         /\ \A k \in 1 .. Len(s) : (<<o>> \o s)[k + 1] = s[k]
<1>1. PICK x : x = <<o>>
  OBVIOUS
<1>2. x \in Seq(R) /\ Len(x) = 1 /\ x[1] = o
  BY <1>1
<1>3. PICK n \in Nat : n = Len(s)
  OBVIOUS
<1>4. PICK r : r = x \o s
  OBVIOUS
<1>5. /\ r \in Seq(R) /\ Len(r) = Len(x) + Len(s)
      /\ \A i \in 1 .. Len(x) + Len(s) : r[i] = IF i <= Len(x) THEN x[i] ELSE s[i - Len(x)]
  <2>1. x \in Seq(R)
    BY <1>2
  <2>2. QED BY <1>4, <2>1, ConcatIs
<1>6. Len(r) = n + 1 /\ \A i \in 1 .. n + 1 : r[i] = IF i <= 1 THEN x[i] ELSE s[i - 1]
  BY <1>2, <1>3, <1>5
<1>7. r[1] = o
  BY <1>2, <1>6
<1>8. ASSUME NEW k \in 1 .. n PROVE r[k + 1] = s[k]
  <2>1. k + 1 \in 1 .. n + 1 /\ ~(k + 1 <= 1) /\ k + 1 - 1 = k
    OBVIOUS
  <2>2. QED BY <1>6, <2>1
<1>9. QED BY <1>1, <1>3, <1>4, <1>5, <1>6, <1>7, <1>8

LEMMA WalkIs ==
  ASSUME NEW Y, NEW a \in Seq(Y), NEW b \in Seq(Y)
  PROVE  \E w : WalkOf(w, a, b, Y)
<1> DEFINE dp == Lcs(a, b)
           cell(f, i, j) == IF i > Len(a) THEN [k \in 1 .. Len(b) - j + 1 |-> Op("add", b[j + k - 1])]
                            ELSE IF j > Len(b) THEN [k \in 1 .. Len(a) - i + 1 |-> Op("del", a[i + k - 1])]
                            ELSE IF a[i] = b[j] THEN <<Op("same", a[i])>> \o f[<<i + 1, j + 1>>]
                            ELSE IF dp[<<i + 1, j>>] >= dp[<<i, j + 1>>]
                                 THEN <<Op("del", a[i])>> \o f[<<i + 1, j>>]
                            ELSE <<Op("add", b[j])>> \o f[<<i, j + 1>>]
           body(f) == [at \in Grid(a, b) |-> LET i == at[1] j == at[2] IN cell(f, i, j)]
           walk == CHOOSE f : f = body(f)
<1>1. PICK m \in Nat : m = Len(a)
  OBVIOUS
<1>2. PICK n \in Nat : n = Len(b)
  OBVIOUS
<1>3. Grid(a, b) = Squares(m, n)
  BY <1>1, <1>2 DEF Grid, Squares
<1> DEFINE V == Seq(OpRecs(Y))
           S == [Squares(m, n) -> V]
<1>10. Ops(a, b) = walk[<<1, 1>>]
  BY DEF Ops
<1>20. ASSUME NEW f, NEW i, NEW j PROVE cell(f, i, j) = WalkAt(f, dp, a, b, i, j)
  BY Zenon DEF WalkAt, Adds, Dels
<1> HIDE DEF dp, cell
<1>4. ASSUME NEW f, NEW i \in 1 .. m + 1, NEW j \in 1 .. n + 1,
             i <= m /\ j <= n => /\ f[<<i + 1, j>>] \in V /\ f[<<i, j + 1>>] \in V
                                 /\ f[<<i + 1, j + 1>>] \in V
      PROVE  WalkAt(f, dp, a, b, i, j) \in V
  <2> HIDE DEF V
  <2>1. CASE i > m
    <3>1. Adds(b, j) \in V
      BY <1>2, OnlyIs DEF V
    <3>2. QED BY <1>1, <2>1, <3>1 DEF WalkAt
  <2>2. CASE ~(i > m) /\ j > n
    <3>1. Dels(a, i) \in V
      BY <1>1, OnlyIs DEF V
    <3>2. QED BY <1>1, <1>2, <2>2, <3>1 DEF WalkAt
  <2>3. CASE ~(i > m) /\ ~(j > n)
    <3>1. /\ f[<<i + 1, j>>] \in V /\ f[<<i, j + 1>>] \in V /\ f[<<i + 1, j + 1>>] \in V
      BY <1>4, <2>3
    <3>2. PICK x \in Y, y \in Y : x = a[i] /\ y = b[j]
      <4>1. i \in 1 .. Len(a) /\ j \in 1 .. Len(b)
        BY <1>1, <1>2, <2>3
      <4>2. QED BY <4>1
    <3>3. Op("same", x) \in OpRecs(Y) /\ Op("del", x) \in OpRecs(Y) /\ Op("add", y) \in OpRecs(Y)
      BY OpIs
    <3>4. \A o \in OpRecs(Y), s \in V : <<o>> \o s \in V
      BY PrependIs DEF V
    <3>5. WalkAt(f, dp, a, b, i, j) \in {<<Op("same", x)>> \o f[<<i + 1, j + 1>>],
              <<Op("del", x)>> \o f[<<i + 1, j>>], <<Op("add", y)>> \o f[<<i, j + 1>>]}
      <4>1. ~(i > Len(a)) /\ ~(j > Len(b))
        BY <1>1, <1>2, <2>3
      <4>2. WalkAt(f, dp, a, b, i, j) =
              IF a[i] = b[j] THEN <<Op("same", a[i])>> \o f[<<i + 1, j + 1>>]
              ELSE IF dp[<<i + 1, j>>] >= dp[<<i, j + 1>>] THEN <<Op("del", a[i])>> \o f[<<i + 1, j>>]
              ELSE <<Op("add", b[j])>> \o f[<<i, j + 1>>]
        BY <4>1, Zenon DEF WalkAt
      <4>3. QED BY <3>2, <4>2, Zenon
    <3>6. /\ <<Op("same", x)>> \o f[<<i + 1, j + 1>>] \in V
          /\ <<Op("del", x)>> \o f[<<i + 1, j>>] \in V /\ <<Op("add", y)>> \o f[<<i, j + 1>>] \in V
      BY <3>1, <3>3, <3>4, Zenon
    <3>7. QED BY <3>5, <3>6, Zenon
  <2>4. QED BY <2>1, <2>2, <2>3
<1>5. ASSUME NEW f, NEW i \in 1 .. m + 1, NEW j \in 1 .. n + 1
      PROVE  body(f)[<<i, j>>] = WalkAt(f, dp, a, b, i, j)
  <2>1. <<i, j>> \in Squares(m, n)
    BY DEF Squares
  <2>2. body(f)[<<i, j>>] = cell(f, i, j)
    BY <1>3, <2>1
  <2>3. QED BY <1>20, <2>2
<1>6. ASSUME NEW f \in S PROVE body(f) \in S
  <2>1. ASSUME NEW at \in Squares(m, n) PROVE body(f)[at] \in V
    <3>1. PICK i \in 1 .. m + 1, j \in 1 .. n + 1 : at = <<i, j>>
      BY DEF Squares
    <3>2. ASSUME i <= m, j <= n
          PROVE  f[<<i + 1, j>>] \in V /\ f[<<i, j + 1>>] \in V /\ f[<<i + 1, j + 1>>] \in V
      <4>1. i + 1 \in 1 .. m + 1 /\ j + 1 \in 1 .. n + 1
        BY <3>2
      <4>2. <<i + 1, j>> \in Squares(m, n) /\ <<i, j + 1>> \in Squares(m, n) /\ <<i + 1, j + 1>> \in Squares(m, n)
        BY <4>1 DEF Squares
      <4> HIDE DEF V
      <4>3. QED BY <4>2
    <3> HIDE DEF V, body, S
    <3>3. WalkAt(f, dp, a, b, i, j) \in V
      BY <1>4, <3>2
    <3>4. QED BY <1>5, <3>1, <3>3
  <2> HIDE DEF V
  <2>2. QED BY <1>3, <2>1
<1> DEFINE B == [f \in S |-> body(f)]
<1>7. ASSUME NEW f \in S, NEW g \in S, NEW i \in 1 .. m + 1, NEW j \in 1 .. n + 1,
             i <= m /\ j <= n => Ahead(f, g, i, j)
      PROVE  B[f][<<i, j>>] = B[g][<<i, j>>]
  <2>1. WalkAt(f, dp, a, b, i, j) = WalkAt(g, dp, a, b, i, j)
    <3> HIDE DEF V, S
    <3>1. CASE i <= m /\ j <= n
      <4>1. /\ f[<<i + 1, j>>] = g[<<i + 1, j>>] /\ f[<<i, j + 1>>] = g[<<i, j + 1>>]
            /\ f[<<i + 1, j + 1>>] = g[<<i + 1, j + 1>>]
        BY <1>7, <3>1 DEF Ahead
      <4>2. QED BY <4>1, Zenon DEF WalkAt
    <3>2. CASE ~(i <= m /\ j <= n)
      <4>1. i > Len(a) \/ j > Len(b)
        BY <1>1, <1>2, <3>2
      <4>2. QED BY <4>1, Zenon DEF WalkAt
    <3>3. QED BY <3>1, <3>2
  <2>2. B[f] = body(f) /\ B[g] = body(g)
    <3> HIDE DEF body, S
    <3>1. QED OBVIOUS
  <2> HIDE DEF body, B, S, V
  <2>3. QED BY <1>5, <2>1, <2>2
<1>8. PICK f \in S : f = body(f)
  <2>1. B \in [S -> S]
    <3> HIDE DEF body, S
    <3>1. QED BY <1>6
  <2>2. [at \in Squares(m, n) |-> <<>>] \in S
    <3>1. <<>> \in V
      OBVIOUS
    <3> HIDE DEF V
    <3>2. QED BY <3>1
  <2>3. HasFixed(B, m, n, V)
    <3> HIDE DEF body, V
    <3>1. IsLocal(B, m, n, V)
      BY <1>7 DEF IsLocal
    <3> HIDE DEF B
    <3>2. QED BY <2>1, <2>2, <3>1, SquareRecursion
  <2>4. PICK f \in S : f = B[f]
    <3> HIDE DEF B, V
    <3>1. QED BY <2>3 DEF HasFixed
  <2>5. B[f] = body(f)
    <3> HIDE DEF body, S
    <3>1. QED BY <2>4
  <2> HIDE DEF body, S, B
  <2>6. QED BY <2>4, <2>5
<1>9. walk = body(walk)
  <2> HIDE DEF body
  <2>1. QED BY <1>8
<1> HIDE DEF walk
<1>11. ASSUME NEW i \in 1 .. m + 1, NEW j \in 1 .. n + 1
       PROVE  walk[<<i, j>>] = WalkAt(walk, dp, a, b, i, j)
  <2> HIDE DEF body
  <2>1. QED BY <1>5, <1>9
<1>12. \A i \in 1 .. m + 1, j \in 1 .. n + 1 : walk[<<i, j>>] \in V
  <2> HIDE DEF V
  <2> DEFINE P == {x \in Squares(m, n) : walk[x] \in V}
  <2>1. ASSUME NEW i \in 1 .. m + 1, NEW j \in 1 .. n + 1,
               i <= m /\ j <= n => <<i + 1, j>> \in P /\ <<i, j + 1>> \in P /\ <<i + 1, j + 1>> \in P
        PROVE  <<i, j>> \in P
    <3>1. <<i, j>> \in Squares(m, n)
      BY DEF Squares
    <3>2. i <= m /\ j <= n => /\ walk[<<i + 1, j>>] \in V /\ walk[<<i, j + 1>>] \in V
                              /\ walk[<<i + 1, j + 1>>] \in V
      BY <2>1
    <3>3. WalkAt(walk, dp, a, b, i, j) \in V
      BY <1>4, <3>2
    <3>4. QED BY <1>11, <3>1, <3>3
  <2>2. \A i \in 1 .. m + 1, j \in 1 .. n + 1 : <<i, j>> \in P
    <3> HIDE DEF P
    <3>1. QED BY <2>1, SquareInduction
  <2>3. QED BY <2>2
<1> HIDE DEF body, V
<1>13. Walked(walk, dp, a, b)
  BY <1>1, <1>2, <1>11 DEF Walked
<1>14. WalkOf(walk, a, b, Y)
  BY <1>1, <1>2, <1>10, <1>12, <1>13 DEF WalkOf, V, dp
<1>15. QED BY <1>14

(* Where the walk is in both texts after each of its operations.           *)
OpMoves(o, a, b, i, j, i2, j2) ==
  \/ /\ o.type = "same" /\ i <= Len(a) /\ j <= Len(b) /\ a[i] = b[j] /\ o.line = b[j]
     /\ i2 = i + 1 /\ j2 = j + 1 /\ Lcs(a, b)[<<i, j>>] = Lcs(a, b)[<<i2, j2>>] + 1
  \/ /\ o.type = "add" /\ j <= Len(b) /\ o.line = b[j] /\ i2 = i /\ j2 = j + 1
     /\ Lcs(a, b)[<<i, j>>] = Lcs(a, b)[<<i2, j2>>]
  \/ /\ o.type = "del" /\ i <= Len(a) /\ i2 = i + 1 /\ j2 = j
     /\ Lcs(a, b)[<<i, j>>] = Lcs(a, b)[<<i2, j2>>]

PathBy(x, y, ops, a, b, i, j) ==
  /\ x \in [0 .. Len(ops) -> 1 .. Len(a) + 1] /\ y \in [0 .. Len(ops) -> 1 .. Len(b) + 1]
  /\ x[0] = i /\ y[0] = j /\ x[Len(ops)] = Len(a) + 1 /\ y[Len(ops)] = Len(b) + 1
  /\ \A k \in 1 .. Len(ops) : OpMoves(ops[k], a, b, x[k - 1], y[k - 1], x[k], y[k])
HasPath(ops, a, b, i, j) == \E x, y : PathBy(x, y, ops, a, b, i, j)

LEMMA AddsPath ==
  ASSUME NEW Y, NEW a \in Seq(Y), NEW b \in Seq(Y), NEW j \in 1 .. Len(b) + 1
  PROVE  HasPath(Adds(b, j), a, b, Len(a) + 1, j)
<1>0. LcsTable(Lcs(a, b), a, b)
  BY LcsIs
<1>1. PICK m \in Nat : m = Len(a)
  OBVIOUS
<1>2. PICK n \in Nat : n = Len(b)
  OBVIOUS
<1>3. PICK l \in Nat : l = n - j + 1
  BY <1>2
<1>4. PICK ops \in Seq(OpRecs(Y)) : ops = Adds(b, j)
  BY OnlyIs
<1>5. Len(ops) = l /\ \A k \in 1 .. l : ops[k] = Op("add", b[j + k - 1])
  BY <1>2, <1>3, <1>4 DEF Adds
<1> DEFINE x == [k \in 0 .. l |-> m + 1]
           y == [k \in 0 .. l |-> j + k]
<1>6. x \in [0 .. l -> 1 .. m + 1] /\ y \in [0 .. l -> 1 .. n + 1]
  BY <1>2, <1>3
<1>7. x[0] = m + 1 /\ y[0] = j /\ x[l] = m + 1 /\ y[l] = n + 1
  BY <1>2, <1>3
<1>8. ASSUME NEW k \in 1 .. l PROVE OpMoves(ops[k], a, b, x[k - 1], y[k - 1], x[k], y[k])
  <2>1. k - 1 \in 0 .. l /\ k \in 0 .. l
    OBVIOUS
  <2>2. x[k - 1] = m + 1 /\ x[k] = m + 1
    BY <2>1
  <2>3. PICK q \in Nat : q = y[k - 1] /\ q = j + k - 1 /\ y[k] = q + 1 /\ q <= n
    BY <1>2, <1>3, <2>1
  <2>4. ops[k].type = "add" /\ ops[k].line = b[q]
    BY <1>5, <2>3 DEF Op
  <2>5. Lcs(a, b)[<<m + 1, q>>] = 0 /\ Lcs(a, b)[<<m + 1, q + 1>>] = 0
    <3>1. q \in 1 .. n + 1 /\ q + 1 \in 1 .. n + 1 /\ m + 1 \in 1 .. m + 1 /\ m + 1 > m
      BY <1>2, <1>3, <2>1, <2>3
    <3>2. QED BY <1>0, <1>1, <1>2, <3>1 DEF LcsTable, LcsAt
  <2> HIDE DEF x, y
  <2>6. QED BY <1>2, <2>2, <2>3, <2>4, <2>5 DEF OpMoves
<1> HIDE DEF x, y
<1>9. PathBy(x, y, ops, a, b, Len(a) + 1, j)
  BY <1>1, <1>2, <1>5, <1>6, <1>7, <1>8 DEF PathBy
<1>10. QED BY <1>4, <1>9 DEF HasPath

LEMMA DelsPath ==
  ASSUME NEW Y, NEW a \in Seq(Y), NEW b \in Seq(Y), NEW i \in 1 .. Len(a) + 1
  PROVE  HasPath(Dels(a, i), a, b, i, Len(b) + 1)
<1>0. LcsTable(Lcs(a, b), a, b)
  BY LcsIs
<1>1. PICK m \in Nat : m = Len(a)
  OBVIOUS
<1>2. PICK n \in Nat : n = Len(b)
  OBVIOUS
<1>3. PICK l \in Nat : l = m - i + 1
  <2>1. i \in 1 .. m + 1
    BY <1>1
  <2>2. m - i + 1 \in Nat
    BY <2>1
  <2>3. QED BY <2>2
<1>4. PICK ops \in Seq(OpRecs(Y)) : ops = Dels(a, i)
  BY OnlyIs
<1>5. Len(ops) = l /\ \A k \in 1 .. l : ops[k] = Op("del", a[i + k - 1])
  BY <1>1, <1>3, <1>4 DEF Dels
<1> DEFINE x == [k \in 0 .. l |-> i + k]
           y == [k \in 0 .. l |-> n + 1]
<1>6. x \in [0 .. l -> 1 .. m + 1] /\ y \in [0 .. l -> 1 .. n + 1]
  BY <1>1, <1>3
<1>7. x[0] = i /\ y[0] = n + 1 /\ x[l] = m + 1 /\ y[l] = n + 1
  BY <1>1, <1>3
<1>8. ASSUME NEW k \in 1 .. l PROVE OpMoves(ops[k], a, b, x[k - 1], y[k - 1], x[k], y[k])
  <2>1. k - 1 \in 0 .. l /\ k \in 0 .. l
    OBVIOUS
  <2>2. y[k - 1] = n + 1 /\ y[k] = n + 1
    BY <2>1
  <2>3. PICK q \in Nat : q = x[k - 1] /\ x[k] = q + 1 /\ q <= m
    BY <1>1, <1>3, <2>1
  <2>4. ops[k].type = "del"
    BY <1>5 DEF Op
  <2>5. Lcs(a, b)[<<q, n + 1>>] = 0 /\ Lcs(a, b)[<<q + 1, n + 1>>] = 0
    <3>1. q \in 1 .. m + 1 /\ q + 1 \in 1 .. m + 1 /\ n + 1 \in 1 .. n + 1 /\ n + 1 > n
      BY <1>1, <1>3, <2>1, <2>3
    <3>2. QED BY <1>0, <1>1, <1>2, <3>1 DEF LcsTable, LcsAt
  <2> HIDE DEF x, y
  <2>6. QED BY <1>1, <2>2, <2>3, <2>4, <2>5 DEF OpMoves
<1> HIDE DEF x, y
<1>9. PathBy(x, y, ops, a, b, i, Len(b) + 1)
  BY <1>1, <1>2, <1>5, <1>6, <1>7, <1>8 DEF PathBy
<1>10. QED BY <1>4, <1>9 DEF HasPath

LEMMA PathPrepends ==
  ASSUME NEW Y, NEW a \in Seq(Y), NEW b \in Seq(Y), NEW ops \in Seq(OpRecs(Y)), NEW o \in OpRecs(Y),
         NEW i \in 1 .. Len(a) + 1, NEW j \in 1 .. Len(b) + 1, NEW i2, NEW j2,
         HasPath(ops, a, b, i2, j2), OpMoves(o, a, b, i, j, i2, j2)
  PROVE  HasPath(<<o>> \o ops, a, b, i, j)
<1>1. PICK m \in Nat : m = Len(a)
  OBVIOUS
<1>2. PICK n \in Nat : n = Len(b)
  OBVIOUS
<1>3. PICK l \in Nat : l = Len(ops)
  OBVIOUS
<1>4. PICK r \in Seq(OpRecs(Y)) : r = <<o>> \o ops
  BY PrependIs
<1>5. Len(r) = l + 1 /\ r[1] = o /\ \A k \in 1 .. l : r[k + 1] = ops[k]
  BY <1>3, <1>4, PrependIs
<1>6. PICK u, v : PathBy(u, v, ops, a, b, i2, j2)
  BY DEF HasPath
<1>7. /\ u \in [0 .. l -> 1 .. m + 1] /\ v \in [0 .. l -> 1 .. n + 1]
      /\ u[0] = i2 /\ v[0] = j2 /\ u[l] = m + 1 /\ v[l] = n + 1
      /\ \A k \in 1 .. l : OpMoves(ops[k], a, b, u[k - 1], v[k - 1], u[k], v[k])
  BY <1>1, <1>2, <1>3, <1>6 DEF PathBy
<1> DEFINE x == [k \in 0 .. l + 1 |-> IF k = 0 THEN i ELSE u[k - 1]]
           y == [k \in 0 .. l + 1 |-> IF k = 0 THEN j ELSE v[k - 1]]
<1>8. ASSUME NEW k \in 0 .. l PROVE x[k + 1] = u[k] /\ y[k + 1] = v[k] /\ u[k] \in 1 .. m + 1 /\ v[k] \in 1 .. n + 1
  <2>1. k + 1 \in 0 .. l + 1 /\ k + 1 # 0 /\ k + 1 - 1 = k
    OBVIOUS
  <2>2. QED BY <1>7, <2>1
<1>9. x[0] = i /\ y[0] = j
  BY <1>3
<1>10. ASSUME NEW k \in 0 .. l + 1 PROVE x[k] \in 1 .. m + 1 /\ y[k] \in 1 .. n + 1
  <2>1. CASE k = 0
    BY <1>1, <1>2, <1>9, <2>1
  <2>2. CASE k # 0
    <3>1. k - 1 \in 0 .. l /\ k - 1 + 1 = k
      BY <2>2
    <3> HIDE DEF x, y
    <3>2. QED BY <1>8, <3>1
  <2>3. QED BY <2>1, <2>2
<1>11. x \in [0 .. l + 1 -> 1 .. m + 1] /\ y \in [0 .. l + 1 -> 1 .. n + 1]
  <2>1. (\A k \in 0 .. l + 1 : x[k] \in 1 .. m + 1) /\ \A k \in 0 .. l + 1 : y[k] \in 1 .. n + 1
    BY <1>10
  <2>2. QED BY <2>1
<1> HIDE DEF x, y
<1>12. x[l + 1] = m + 1 /\ y[l + 1] = n + 1
  <2>1. l \in 0 .. l
    OBVIOUS
  <2>2. QED BY <1>7, <1>8, <2>1
<1>13. ASSUME NEW k \in 1 .. l + 1 PROVE OpMoves(r[k], a, b, x[k - 1], y[k - 1], x[k], y[k])
  <2>1. CASE k = 1
    <3>1. x[k - 1] = i /\ y[k - 1] = j /\ r[k] = o
      BY <1>5, <1>9, <2>1
    <3>2. x[k] = i2 /\ y[k] = j2
      <4>1. 0 \in 0 .. l /\ 0 + 1 = k
        BY <2>1
      <4>2. QED BY <1>7, <1>8, <4>1
    <3>3. QED BY <3>1, <3>2
  <2>2. CASE k # 1
    <3>1. PICK q \in 1 .. l : k = q + 1 /\ q \in 0 .. l /\ q - 1 \in 0 .. l /\ q - 1 + 1 = q
      <4>1. k - 1 \in 1 .. l /\ k = k - 1 + 1 /\ k - 1 \in 0 .. l /\ k - 1 - 1 \in 0 .. l /\ k - 1 - 1 + 1 = k - 1
        BY <2>2
      <4>2. QED BY <4>1
    <3>2. r[k] = ops[q] /\ x[k] = u[q] /\ y[k] = v[q]
      BY <1>5, <1>8, <3>1
    <3>3. k - 1 = q /\ x[q] = u[q - 1] /\ y[q] = v[q - 1]
      BY <1>8, <3>1
    <3>4. OpMoves(ops[q], a, b, u[q - 1], v[q - 1], u[q], v[q])
      BY <1>7
    <3>5. QED BY <3>2, <3>3, <3>4
  <2>3. QED BY <2>1, <2>2
<1>14. PathBy(x, y, r, a, b, i, j)
  BY <1>1, <1>2, <1>5, <1>9, <1>11, <1>12, <1>13 DEF PathBy
<1>15. QED BY <1>4, <1>14 DEF HasPath

LEMMA WalkPath ==
  ASSUME NEW Y, NEW a \in Seq(Y), NEW b \in Seq(Y)
  PROVE  HasPath(Ops(a, b), a, b, 1, 1) /\ Ops(a, b) \in Seq(OpRecs(Y))
<1>1. PICK m \in Nat : m = Len(a)
  OBVIOUS
<1>2. PICK n \in Nat : n = Len(b)
  OBVIOUS
<1>3. PICK w : WalkOf(w, a, b, Y)
  BY WalkIs
<1>4. \A i \in 1 .. m + 1, j \in 1 .. n + 1 :
        w[<<i, j>>] \in Seq(OpRecs(Y)) /\ w[<<i, j>>] = WalkAt(w, Lcs(a, b), a, b, i, j)
  BY <1>1, <1>2, <1>3 DEF WalkOf, Walked
<1> DEFINE P == {c \in Squares(m, n) : HasPath(w[c], a, b, c[1], c[2])}
<1>5. ASSUME NEW i \in 1 .. m + 1, NEW j \in 1 .. n + 1,
             i <= m /\ j <= n => <<i + 1, j>> \in P /\ <<i, j + 1>> \in P /\ <<i + 1, j + 1>> \in P
      PROVE  <<i, j>> \in P
  <2>1. <<i, j>> \in Squares(m, n)
    BY DEF Squares
  <2>2. HasPath(w[<<i, j>>], a, b, i, j)
    <3>1. CASE i > m
      <4>1. w[<<i, j>>] = Adds(b, j)
        BY <1>1, <1>4, <3>1 DEF WalkAt
      <4>2. i = Len(a) + 1
        BY <1>1, <3>1
      <4>3. QED BY <1>2, <4>1, <4>2, AddsPath
    <3>2. CASE ~(i > m) /\ j > n
      <4>1. w[<<i, j>>] = Dels(a, i)
        BY <1>1, <1>2, <1>4, <3>2 DEF WalkAt
      <4>2. j = Len(b) + 1
        BY <1>2, <3>2
      <4>3. QED BY <1>1, <4>1, <4>2, DelsPath
    <3>3. CASE ~(i > m) /\ ~(j > n)
      <4>1. i \in 1 .. m /\ j \in 1 .. n /\ i + 1 \in 1 .. m + 1 /\ j + 1 \in 1 .. n + 1
        BY <3>3
      <4>2. PICK c \in Y, d \in Y : c = a[i] /\ d = b[j]
        BY <1>1, <1>2, <4>1
      <4>3. HasPath(w[<<i + 1, j>>], a, b, i + 1, j) /\ HasPath(w[<<i, j + 1>>], a, b, i, j + 1)
            /\ HasPath(w[<<i + 1, j + 1>>], a, b, i + 1, j + 1)
        BY <1>5, <4>1
      <4>4. w[<<i + 1, j>>] \in Seq(OpRecs(Y)) /\ w[<<i, j + 1>>] \in Seq(OpRecs(Y))
            /\ w[<<i + 1, j + 1>>] \in Seq(OpRecs(Y))
        BY <1>4, <4>1
      <4>5. w[<<i, j>>] = WalkAt(w, Lcs(a, b), a, b, i, j) /\ ~(i > Len(a)) /\ ~(j > Len(b))
        BY <1>1, <1>2, <1>4, <3>3
      <4>6. i \in 1 .. Len(a) + 1 /\ j \in 1 .. Len(b) + 1 /\ i <= Len(a) /\ j <= Len(b)
        BY <1>1, <1>2, <4>1
      <4>a. LcsTable(Lcs(a, b), a, b)
        BY LcsIs
      <4>b. PICK dp : dp = Lcs(a, b)
        OBVIOUS
      <4>c. dp[<<i, j>>] = LcsAt(dp, a, b, i, j)
        BY <1>1, <1>2, <4>a, <4>b DEF LcsTable
      <4>7. CASE c = d
        <5>1. w[<<i, j>>] = <<Op("same", c)>> \o w[<<i + 1, j + 1>>]
          BY <4>2, <4>5, <4>7, Zenon DEF WalkAt
        <5>2. OpMoves(Op("same", c), a, b, i, j, i + 1, j + 1)
          <6>1. Op("same", c).type = "same" /\ Op("same", c).line = b[j]
            BY <4>2, <4>7, OpIs
          <6>2. dp[<<i, j>>] = dp[<<i + 1, j + 1>>] + 1
            BY <4>2, <4>5, <4>7, <4>c, Zenon DEF LcsAt
          <6>3. QED BY <4>2, <4>6, <4>7, <4>b, <6>1, <6>2 DEF OpMoves
        <5>3. Op("same", c) \in OpRecs(Y)
          BY OpIs
        <5>4. QED BY <4>3, <4>4, <4>6, <5>1, <5>2, <5>3, PathPrepends
      <4>8. CASE c # d /\ Lcs(a, b)[<<i + 1, j>>] >= Lcs(a, b)[<<i, j + 1>>]
        <5>1. w[<<i, j>>] = <<Op("del", c)>> \o w[<<i + 1, j>>]
          BY <4>2, <4>5, <4>8, Zenon DEF WalkAt
        <5>2. OpMoves(Op("del", c), a, b, i, j, i + 1, j)
          <6>1. Op("del", c).type = "del"
            BY OpIs
          <6>2. dp[<<i, j>>] = dp[<<i + 1, j>>]
            BY <4>2, <4>5, <4>8, <4>b, <4>c, Zenon DEF LcsAt, Longer
          <6>3. QED BY <4>6, <4>b, <6>1, <6>2 DEF OpMoves
        <5>3. Op("del", c) \in OpRecs(Y)
          BY OpIs
        <5>4. QED BY <4>3, <4>4, <4>6, <5>1, <5>2, <5>3, PathPrepends
      <4>9. CASE c # d /\ ~(Lcs(a, b)[<<i + 1, j>>] >= Lcs(a, b)[<<i, j + 1>>])
        <5>1. w[<<i, j>>] = <<Op("add", d)>> \o w[<<i, j + 1>>]
          BY <4>2, <4>5, <4>9, Zenon DEF WalkAt
        <5>2. OpMoves(Op("add", d), a, b, i, j, i, j + 1)
          <6>1. Op("add", d).type = "add" /\ Op("add", d).line = b[j]
            BY <4>2, OpIs
          <6>2. dp[<<i, j>>] = dp[<<i, j + 1>>]
            BY <4>2, <4>5, <4>9, <4>b, <4>c, Zenon DEF LcsAt, Longer
          <6>3. QED BY <4>6, <4>b, <6>1, <6>2 DEF OpMoves
        <5>3. Op("add", d) \in OpRecs(Y)
          BY OpIs
        <5>4. QED BY <4>3, <4>4, <4>6, <5>1, <5>2, <5>3, PathPrepends
      <4>10. QED BY <4>7, <4>8, <4>9
    <3>4. QED BY <3>1, <3>2, <3>3
  <2>3. <<i, j>>[1] = i /\ <<i, j>>[2] = j
    OBVIOUS
  <2>4. QED BY <2>1, <2>2, <2>3
<1>6. <<1, 1>> \in P
  <2>1. \A i \in 1 .. m + 1, j \in 1 .. n + 1 : <<i, j>> \in P
    <3> HIDE DEF P
    <3>1. QED BY <1>5, SquareInduction
  <2>2. 1 \in 1 .. m + 1 /\ 1 \in 1 .. n + 1
    BY SMTT(20)
  <2>3. QED BY <2>1, <2>2
<1>7. HasPath(w[<<1, 1>>], a, b, 1, 1)
  BY <1>6
<1>8. w[<<1, 1>>] \in Seq(OpRecs(Y))
  <2>1. 1 \in 1 .. m + 1 /\ 1 \in 1 .. n + 1
    BY SMTT(20)
  <2>2. QED BY <1>4, <2>1, Zenon
<1>9. Ops(a, b) = w[<<1, 1>>]
  BY <1>3 DEF WalkOf
<1>10. QED BY <1>7, <1>8, <1>9

(* What the walk keeps: as many lines as the table says.                   *)
Sames(ops) == {k \in DOMAIN ops : ops[k].type = "same"}

LEMMA SamesCount ==
  ASSUME NEW Y, NEW a \in Seq(Y), NEW b \in Seq(Y)
  PROVE  Cardinality(Sames(Ops(a, b))) = Lcs(a, b)[<<1, 1>>]
<1>1. PICK m \in Nat : m = Len(a)
  OBVIOUS
<1>2. PICK n \in Nat : n = Len(b)
  OBVIOUS
<1>3. PICK ops \in Seq(OpRecs(Y)) : ops = Ops(a, b)
  BY WalkPath
<1>4. PICK l \in Nat : l = Len(ops)
  OBVIOUS
<1>5. PICK x, y : PathBy(x, y, ops, a, b, 1, 1)
  BY <1>3, WalkPath DEF HasPath
<1>6. /\ x \in [0 .. l -> 1 .. m + 1] /\ y \in [0 .. l -> 1 .. n + 1]
      /\ x[0] = 1 /\ y[0] = 1 /\ x[l] = m + 1 /\ y[l] = n + 1
      /\ \A k \in 1 .. l : OpMoves(ops[k], a, b, x[k - 1], y[k - 1], x[k], y[k])
  BY <1>1, <1>2, <1>4, <1>5 DEF PathBy
<1>7. PICK dp : dp = Lcs(a, b)
  OBVIOUS
<1>8. /\ \A i \in 1 .. m + 1, j \in 1 .. n + 1 : dp[<<i, j>>] \in Nat
      /\ dp[<<m + 1, n + 1>>] = 0
  <2>1. LcsTable(dp, a, b)
    BY <1>7, LcsIs
  <2>2. \A i \in 1 .. m + 1, j \in 1 .. n + 1 : dp[<<i, j>>] \in Nat /\ dp[<<i, j>>] = LcsAt(dp, a, b, i, j)
    BY <1>1, <1>2, <2>1 DEF LcsTable
  <2>3. m + 1 \in 1 .. m + 1 /\ n + 1 \in 1 .. n + 1 /\ m + 1 > Len(a)
    BY <1>1
  <2>4. QED BY <2>2, <2>3 DEF LcsAt
<1> DEFINE D(q) == {k \in 1 .. l : k > l - q /\ ops[k].type = "same"}
           Q == {q \in 0 .. l : IsFiniteSet(D(q)) /\ Cardinality(D(q)) = dp[<<x[l - q], y[l - q]>>]}
<1>9. 0 \in Q
  <2>1. D(0) = {}
    OBVIOUS
  <2>2. IsFiniteSet(D(0)) /\ Cardinality(D(0)) = 0
    BY <2>1, FS_EmptySet
  <2>3. dp[<<x[l - 0], y[l - 0]>>] = 0 /\ 0 \in 0 .. l
    <3>1. l - 0 = l
      OBVIOUS
    <3>2. QED BY <1>6, <1>8, <3>1
  <2> HIDE DEF D
  <2>4. QED BY <2>2, <2>3
<1>10. ASSUME NEW q \in 1 .. l, q - 1 \in Q PROVE q \in Q
  <2>1. PICK k \in 1 .. l : k = l - q + 1 /\ k - 1 = l - q /\ k = l - (q - 1) /\ k - 1 \in 0 .. l /\ k \in 0 .. l
    <3>1. l - q + 1 \in 1 .. l /\ l - q + 1 - 1 = l - q /\ l - q + 1 = l - (q - 1)
          /\ l - q + 1 - 1 \in 0 .. l /\ l - q + 1 \in 0 .. l
      OBVIOUS
    <3>2. QED BY <3>1
  <2>2. OpMoves(ops[k], a, b, x[k - 1], y[k - 1], x[k], y[k])
    BY <1>6
  <2>3. IsFiniteSet(D(q - 1)) /\ Cardinality(D(q - 1)) = dp[<<x[k], y[k]>>]
    BY <1>10, <2>1
  <2>4. PICK d \in Nat, e \in Nat : d = dp[<<x[k], y[k]>>] /\ e = dp[<<x[k - 1], y[k - 1]>>]
    BY <1>6, <1>8, <2>1
  <2>5. CASE ops[k].type = "same"
    <3>1. e = d + 1
      BY <1>7, <2>2, <2>4, <2>5 DEF OpMoves
    <3>2. D(q) = D(q - 1) \cup {k} /\ k \notin D(q - 1)
      BY <2>1, <2>5
    <3> HIDE DEF D
    <3>3. IsFiniteSet(D(q)) /\ Cardinality(D(q)) = d + 1
      <4>1. PICK E : E = D(q - 1)
        OBVIOUS
      <4>2. IsFiniteSet(E \cup {k}) /\ Cardinality(E \cup {k}) = Cardinality(E) + 1
        BY <2>3, <3>2, <4>1, FS_AddElement
      <4>3. QED BY <2>3, <2>4, <3>2, <4>1, <4>2
    <3>4. q \in 0 .. l /\ l - q = k - 1
      BY <2>1
    <3>5. QED BY <2>4, <3>1, <3>3, <3>4
  <2>6. CASE ops[k].type # "same"
    <3>1. e = d
      BY <1>7, <2>2, <2>4, <2>6 DEF OpMoves
    <3>2. D(q) = D(q - 1)
      <4>1. \A h \in 1 .. l : h > l - q => h = k \/ h > l - (q - 1)
        BY <2>1
      <4>2. \A h \in 1 .. l : h > l - (q - 1) => h > l - q
        BY <2>1
      <4>3. QED BY <2>6, <4>1, <4>2
    <3> HIDE DEF D
    <3>4. q \in 0 .. l /\ l - q = k - 1
      BY <2>1
    <3>5. QED BY <2>3, <2>4, <3>1, <3>2, <3>4
  <2>7. QED BY <2>5, <2>6
<1>11. l \in Q
  <2>1. 0 .. l \subseteq Q
    <3> HIDE DEF Q
    <3>1. QED BY <1>9, <1>10, UpTo
  <2>2. l \in 0 .. l
    OBVIOUS
  <2>3. QED BY <2>1, <2>2
<1>12. D(l) = Sames(ops)
  <2>1. DOMAIN ops = 1 .. l /\ \A k \in 1 .. l : k > l - l
    BY <1>4
  <2>2. QED BY <2>1 DEF Sames
<1>13. Cardinality(D(l)) = dp[<<1, 1>>]
  <2>1. x[l - l] = 1 /\ y[l - l] = 1
    BY <1>6
  <2> HIDE DEF D
  <2>2. QED BY <1>11, <2>1
<1> HIDE DEF D, Q
<1>14. QED BY <1>3, <1>7, <1>12, <1>13

(* Picking from a text, its first choice first.                            *)
LEMMA PickedNone ==
  ASSUME NEW X, NEW s \in Seq(X), NEW S, \A k \in S : k \notin 1 .. Len(s)
  PROVE  Picked(s, S) = <<>>
<1>1. PICK n \in Nat : n = Len(s)
  OBVIOUS
<1>2. PICK f : PicksBy(f, s, S, X)
  BY PickedIs
<1>3. /\ f[0] = <<>> /\ Picked(s, S) = f[n]
      /\ \A k \in 1 .. n : f[k] = IF k \in S THEN Append(f[k - 1], s[k]) ELSE f[k - 1]
  BY <1>1, <1>2 DEF PicksBy
<1> DEFINE Q == {k \in 0 .. n : f[k] = <<>>}
<1>4. 0 \in Q
  BY <1>3
<1>5. ASSUME NEW k \in 1 .. n, k - 1 \in Q PROVE k \in Q
  BY <1>1, <1>3, <1>5
<1>6. 0 .. n \subseteq Q
  <2> HIDE DEF Q
  <2>1. QED BY <1>4, <1>5, UpTo
<1>7. n \in Q
  BY <1>6
<1>8. QED BY <1>3, <1>7

LEMMA AppendsBehind ==
  ASSUME NEW X, NEW c \in X, NEW d \in X, NEW s \in Seq(X)
  PROVE  Append(<<c>> \o s, d) = <<c>> \o Append(s, d)
<1>1. PICK n \in Nat : n = Len(s)
  OBVIOUS
<1>2. PICK t \in Seq(X) : t = Append(s, d)
  BY AppendIs
<1>3. Len(t) = n + 1 /\ t[n + 1] = d /\ \A k \in 1 .. n : t[k] = s[k]
  BY <1>1, <1>2, AppendIs
<1>4. PICK u \in Seq(X) : u = <<c>> \o s
  BY PrependIs
<1>5. Len(u) = n + 1 /\ u[1] = c /\ \A k \in 1 .. n : u[k + 1] = s[k]
  BY <1>1, <1>4, PrependIs
<1>6. PICK v \in Seq(X) : v = Append(u, d)
  BY AppendIs
<1>7. Len(v) = n + 2 /\ v[n + 2] = d /\ \A k \in 1 .. n + 1 : v[k] = u[k]
  <2>1. Len(v) = Len(u) + 1 /\ v[Len(u) + 1] = d /\ \A k \in 1 .. Len(u) : v[k] = u[k]
    BY <1>6, AppendIs
  <2>2. Len(u) + 1 = n + 2
    BY <1>5
  <2>3. QED BY <1>5, <2>1, <2>2
<1>8. PICK w \in Seq(X) : w = <<c>> \o t
  BY PrependIs
<1>9. Len(w) = n + 2 /\ w[1] = c /\ \A k \in 1 .. n + 1 : w[k + 1] = t[k]
  <2>1. Len(w) = Len(t) + 1 /\ w[1] = c /\ \A k \in 1 .. Len(t) : w[k + 1] = t[k]
    BY <1>8, PrependIs
  <2>2. Len(t) + 1 = n + 2
    BY <1>3
  <2>3. QED BY <1>3, <2>1, <2>2
<1>10. ASSUME NEW k \in 1 .. n + 2 PROVE v[k] = w[k]
  <2>1. CASE k = 1
    BY <1>5, <1>7, <1>9, <2>1
  <2>2. CASE k = n + 2
    <3>1. n + 1 \in 1 .. n + 1 /\ n + 1 + 1 = k
      BY <2>2
    <3>2. w[k] = t[n + 1]
      BY <1>9, <3>1
    <3>3. QED BY <1>3, <1>7, <2>2, <3>2
  <2>3. CASE k # 1 /\ k # n + 2
    <3>1. PICK h \in 1 .. n : k = h + 1
      <4>1. k - 1 \in 1 .. n /\ k = k - 1 + 1
        BY <2>3
      <4>2. QED BY <4>1
    <3>2. h \in 1 .. n + 1 /\ h + 1 \in 1 .. n + 1
      OBVIOUS
    <3>3. QED BY <1>3, <1>5, <1>7, <1>9, <3>1, <3>2
  <2>4. QED BY <2>1, <2>2, <2>3
<1>11. v = w
  <2>1. DOMAIN v = 1 .. n + 2 /\ DOMAIN w = 1 .. n + 2
    BY <1>7, <1>9
  <2>2. QED BY <1>10, <2>1
<1>12. QED BY <1>2, <1>4, <1>6, <1>8, <1>11

FirstIn(i, S) == i \in S /\ \A k \in S : k \in Int /\ i <= k
ThenOthers(s, S, i) == Picked(s, S) = <<s[i]>> \o Picked(s, S \ {i})

LEMMA PickedFirst ==
  ASSUME NEW X, NEW s \in Seq(X), NEW S, NEW i \in 1 .. Len(s), FirstIn(i, S)
  PROVE  ThenOthers(s, S, i)
<1>a. i \in S /\ \A k \in S : k \in Int /\ i <= k
  BY DEF FirstIn
<1>1. PICK n \in Nat : n = Len(s)
  OBVIOUS
<1>2. PICK T : T = S \ {i}
  OBVIOUS
<1>3. PICK f, g : PicksBy(f, s, S, X) /\ PicksBy(g, s, T, X)
  BY PickedIs
<1>4. /\ f[0] = <<>> /\ Picked(s, S) = f[n]
      /\ \A k \in 1 .. n : f[k] = IF k \in S THEN Append(f[k - 1], s[k]) ELSE f[k - 1]
  BY <1>1, <1>3 DEF PicksBy
<1>5. /\ g[0] = <<>> /\ Picked(s, T) = g[n] /\ g \in [0 .. n -> Seq(X)]
      /\ \A k \in 1 .. n : g[k] = IF k \in T THEN Append(g[k - 1], s[k]) ELSE g[k - 1]
  BY <1>1, <1>3 DEF PicksBy
<1>6. PICK c \in X : c = s[i]
  OBVIOUS
<1> DEFINE Q == {k \in 0 .. n : /\ k < i => f[k] = <<>> /\ g[k] = <<>>
                                /\ k >= i => f[k] = <<c>> \o g[k]}
<1>7. 0 \in Q
  BY <1>4, <1>5
<1>8. ASSUME NEW k \in 1 .. n, k - 1 \in Q PROVE k \in Q
  <2>1. k - 1 \in 0 .. n /\ k \in 0 .. n
    OBVIOUS
  <2>2. CASE k < i
    <3>1. k \notin S /\ k \notin T /\ k - 1 < i /\ ~(k >= i)
      BY <1>2, <1>a, <2>2
    <3>2. QED BY <1>4, <1>5, <1>8, <2>1, <2>2, <3>1
  <2>3. CASE k = i
    <3>1. k \in S /\ k \notin T /\ k - 1 < i /\ ~(k < i)
      BY <1>2, <1>a, <2>3
    <3>2. f[k] = Append(<<>>, c) /\ g[k] = <<>>
      BY <1>4, <1>5, <1>6, <1>8, <2>3, <3>1
    <3>3. Append(<<>>, c) = <<c>> \o <<>>
      OBVIOUS
    <3>4. QED BY <2>1, <3>1, <3>2, <3>3
  <2>4. CASE k > i
    <3>1. (k \in S <=> k \in T) /\ k - 1 >= i /\ ~(k < i)
      BY <1>2, <2>4
    <3>2. f[k - 1] = <<c>> \o g[k - 1]
      BY <1>8, <3>1
    <3>3. PICK d \in X, r \in Seq(X) : d = s[k] /\ r = g[k - 1]
      <4>1. s[k] \in X
        BY <1>1
      <4>2. g[k - 1] \in Seq(X)
        BY <1>5, <2>1
      <4>3. QED BY <4>1, <4>2
    <3>4. Append(<<c>> \o r, d) = <<c>> \o Append(r, d)
      BY AppendsBehind
    <3>5. f[k] = <<c>> \o g[k]
      <4>1. CASE k \in S
        <5>1. f[k] = Append(f[k - 1], d) /\ g[k] = Append(r, d)
          BY <1>4, <1>5, <3>1, <3>3, <4>1
        <5>2. QED BY <3>2, <3>3, <3>4, <5>1, Zenon
      <4>2. CASE k \notin S
        BY <1>4, <1>5, <3>1, <3>2, <4>2
      <4>3. QED BY <4>1, <4>2
    <3>6. QED BY <2>1, <3>1, <3>5
  <2>5. QED BY <2>2, <2>3, <2>4
<1>9. 0 .. n \subseteq Q
  <2> HIDE DEF Q
  <2>1. QED BY <1>7, <1>8, UpTo
<1>10. n \in Q /\ n >= i
  BY <1>1, <1>9
<1>11. f[n] = <<c>> \o g[n]
  BY <1>10
<1>12. QED BY <1>2, <1>4, <1>5, <1>6, <1>11, Zenon DEF ThenOthers

(* No common choice of lines is longer than the table says.                *)
Common(a, b, i, j, S, T) ==
  S \subseteq i .. Len(a) /\ T \subseteq j .. Len(b) /\ Picked(a, S) = Picked(b, T)
SomeCommon(a, b, i, j) ==
  \E S, T : Common(a, b, i, j, S, T) /\ Len(Picked(a, S)) = Lcs(a, b)[<<i, j>>]
AllCommon(a, b, i, j) ==
  \A S, T : Common(a, b, i, j, S, T) => Len(Picked(a, S)) <= Lcs(a, b)[<<i, j>>]

LEMMA PickedType ==
  ASSUME NEW X, NEW s \in Seq(X), NEW S
  PROVE  Picked(s, S) \in Seq(X)
<1>1. PICK n \in Nat : n = Len(s)
  OBVIOUS
<1>2. PICK f : PicksBy(f, s, S, X)
  BY PickedIs
<1>3. f \in [0 .. n -> Seq(X)] /\ Picked(s, S) = f[n] /\ n \in 0 .. n
  BY <1>1, <1>2 DEF PicksBy
<1>4. QED BY <1>3

LEMMA SameHeads ==
  ASSUME NEW X, NEW c \in X, NEW d \in X, NEW s \in Seq(X), NEW t \in Seq(X), <<c>> \o s = <<d>> \o t
  PROVE  c = d /\ s = t /\ Len(<<c>> \o s) = Len(s) + 1
<1>1. PICK m \in Nat, n \in Nat : m = Len(s) /\ n = Len(t)
  OBVIOUS
<1>2. PICK u \in Seq(X) : u = <<c>> \o s
  BY PrependIs
<1>3. Len(u) = m + 1 /\ u[1] = c /\ \A k \in 1 .. m : u[k + 1] = s[k]
  BY <1>1, <1>2, PrependIs
<1>4. Len(u) = n + 1 /\ u[1] = d /\ \A k \in 1 .. n : u[k + 1] = t[k]
  <2>1. u = <<d>> \o t
    BY <1>2
  <2>2. QED BY <1>1, <2>1, PrependIs
<1>5. m = n
  BY <1>3, <1>4
<1>6. s = t
  <2>1. \A k \in 1 .. m : s[k] = t[k]
    BY <1>3, <1>4, <1>5
  <2>2. DOMAIN s = 1 .. m /\ DOMAIN t = 1 .. m
    BY <1>1, <1>5
  <2>3. QED BY <2>1, <2>2
<1>7. QED BY <1>1, <1>2, <1>3, <1>4, <1>6

PicksFirst(s, S, i, k, X) ==
  /\ k \in S /\ k \in i .. Len(s) /\ s[k] \in X
  /\ Picked(s, S) = <<s[k]>> \o Picked(s, S \ {k})
  /\ \A h \in S : k <= h
  /\ S \ {k} \subseteq i + 1 .. Len(s)

LEMMA FirstPick ==
  ASSUME NEW X, NEW s \in Seq(X), NEW i \in Nat \ {0}, NEW S, S \subseteq i .. Len(s), S # {}
  PROVE  \E k : PicksFirst(s, S, i, k, X)
<1>1. PICK n \in Nat : n = Len(s)
  OBVIOUS
<1>2. S \subseteq Nat
  BY <1>1
<1>3. PICK k \in S : \A h \in S : k <= h
  BY <1>2, LeastNat
<1>4. k \in i .. Len(s) /\ k \in 1 .. Len(s) /\ \A h \in S : h \in Int /\ k <= h
  BY <1>1, <1>2, <1>3
<1>5. Picked(s, S) = <<s[k]>> \o Picked(s, S \ {k})
  <2>1. FirstIn(k, S)
    BY <1>4 DEF FirstIn
  <2>2. ThenOthers(s, S, k)
    BY <1>4, <2>1, PickedFirst
  <2>3. QED BY <2>2 DEF ThenOthers
<1>6. S \ {k} \subseteq i + 1 .. Len(s)
  BY <1>1, <1>3, <1>4
<1>7. s[k] \in X
  BY <1>4
<1>8. QED BY <1>3, <1>4, <1>5, <1>6, <1>7 DEF PicksFirst

LEMMA CommonIs ==
  ASSUME NEW Y, NEW a \in Seq(Y), NEW b \in Seq(Y)
  PROVE  \A i \in 1 .. Len(a) + 1, j \in 1 .. Len(b) + 1 : SomeCommon(a, b, i, j) /\ AllCommon(a, b, i, j)
<1>1. PICK m \in Nat : m = Len(a)
  OBVIOUS
<1>2. PICK n \in Nat : n = Len(b)
  OBVIOUS
<1>3. PICK dp : dp = Lcs(a, b)
  OBVIOUS
<1>4. \A i \in 1 .. m + 1, j \in 1 .. n + 1 : dp[<<i, j>>] \in Nat /\ dp[<<i, j>>] = LcsAt(dp, a, b, i, j)
  <2>1. LcsTable(dp, a, b)
    BY <1>3, LcsIs
  <2>2. QED BY <1>1, <1>2, <2>1 DEF LcsTable
<1>5. ASSUME NEW i, NEW j, NEW S, NEW T
      PROVE  Common(a, b, i, j, S, T) <=> S \subseteq i .. m /\ T \subseteq j .. n /\ Picked(a, S) = Picked(b, T)
  BY <1>1, <1>2 DEF Common
<1> DEFINE P == {c \in Squares(m, n) : SomeCommon(a, b, c[1], c[2]) /\ AllCommon(a, b, c[1], c[2])}
<1>6. ASSUME NEW i \in 1 .. m + 1, NEW j \in 1 .. n + 1,
             i <= m /\ j <= n => <<i + 1, j>> \in P /\ <<i, j + 1>> \in P /\ <<i + 1, j + 1>> \in P
      PROVE  <<i, j>> \in P
  <2>1. SomeCommon(a, b, i, j) /\ AllCommon(a, b, i, j)
    <3>1. CASE ~(i <= m /\ j <= n)
      <4>1. dp[<<i, j>>] = 0
        <5>1. i > Len(a) \/ j > Len(b)
          BY <1>1, <1>2, <3>1
        <5>2. dp[<<i, j>>] = LcsAt(dp, a, b, i, j)
          BY <1>4
        <5>3. QED BY <5>1, <5>2, Zenon DEF LcsAt
      <4>2. Picked(a, {}) = <<>> /\ Picked(b, {}) = <<>>
        BY PickedNone
      <4>3. SomeCommon(a, b, i, j)
        <5>1. Common(a, b, i, j, {}, {})
          BY <1>5, <4>2
        <5>2. Len(Picked(a, {})) = 0
          BY <4>2
        <5>3. QED BY <1>3, <4>1, <5>1, <5>2 DEF SomeCommon
      <4>4. ASSUME NEW S, NEW T, Common(a, b, i, j, S, T) PROVE Len(Picked(a, S)) <= dp[<<i, j>>]
        <5>1. S \subseteq i .. m /\ T \subseteq j .. n /\ Picked(a, S) = Picked(b, T)
          BY <1>5, <4>4
        <5>2. CASE i > m
          <6>1. S = {}
            BY <5>1, <5>2
          <6>2. Len(Picked(a, S)) = 0
            BY <4>2, <6>1
          <6>3. QED BY <4>1, <6>2
        <5>3. CASE j > n
          <6>1. T = {}
            BY <5>1, <5>3
          <6>2. Len(Picked(a, S)) = 0
            BY <4>2, <5>1, <6>1
          <6>3. QED BY <4>1, <6>2
        <5>4. QED BY <3>1, <5>2, <5>3
      <4>5. QED BY <1>3, <4>3, <4>4 DEF AllCommon
    <3>2. CASE i <= m /\ j <= n
      <4>1. i \in 1 .. Len(a) /\ j \in 1 .. Len(b) /\ i + 1 \in 1 .. m + 1 /\ j + 1 \in 1 .. n + 1 /\ i \in Nat \ {0} /\ j \in Nat \ {0}
        BY <1>1, <1>2, <3>2
      <4>2. /\ SomeCommon(a, b, i + 1, j) /\ SomeCommon(a, b, i, j + 1) /\ SomeCommon(a, b, i + 1, j + 1)
            /\ AllCommon(a, b, i + 1, j) /\ AllCommon(a, b, i, j + 1) /\ AllCommon(a, b, i + 1, j + 1)
        BY <1>6, <3>2
      <4>3. PICK c \in Y, d \in Y : c = a[i] /\ d = b[j]
        BY <4>1
      <4>4. PICK u \in Nat, v \in Nat, w \in Nat :
              u = dp[<<i + 1, j>>] /\ v = dp[<<i, j + 1>>] /\ w = dp[<<i + 1, j + 1>>]
        BY <1>4, <4>1
      <4>5. dp[<<i, j>>] = IF c = d THEN w + 1 ELSE IF u >= v THEN u ELSE v
        <5>1. dp[<<i, j>>] = LcsAt(dp, a, b, i, j) /\ ~(i > Len(a)) /\ ~(j > Len(b))
          BY <1>1, <1>2, <1>4, <3>2
        <5>2. dp[<<i, j>>] = IF c = d THEN dp[<<i + 1, j + 1>>] + 1 ELSE Longer(dp, i, j)
          BY <4>3, <5>1, Zenon DEF LcsAt
        <5>3. Longer(dp, i, j) = IF u >= v THEN u ELSE v
          BY <4>4, Zenon DEF Longer
        <5>4. QED BY <4>4, <5>2, <5>3
      <4>6. SomeCommon(a, b, i, j)
        <5>1. CASE c = d
          <6>1. PICK S, T : Common(a, b, i + 1, j + 1, S, T) /\ Len(Picked(a, S)) = w
            BY <1>3, <4>2, <4>4 DEF SomeCommon
          <6>2. S \subseteq i + 1 .. m /\ T \subseteq j + 1 .. n /\ Picked(a, S) = Picked(b, T)
            BY <1>5, <6>1
          <6>3. PICK S2, T2 : S2 = S \cup {i} /\ T2 = T \cup {j}
            OBVIOUS
          <6>4. /\ i \in S2 /\ j \in T2 /\ S2 \ {i} = S /\ T2 \ {j} = T
                /\ FirstIn(i, S2) /\ FirstIn(j, T2)
            BY <6>2, <6>3 DEF FirstIn
          <6>5. Picked(a, S2) = <<a[i]>> \o Picked(a, S)
            <7>1. i \in 1 .. Len(a) /\ FirstIn(i, S2)
              BY <4>1, <6>4
            <7>2. ThenOthers(a, S2, i)
              BY <7>1, PickedFirst
            <7>3. QED BY <6>4, <7>2, Zenon DEF ThenOthers
          <6>6. Picked(b, T2) = <<b[j]>> \o Picked(b, T)
            <7>1. j \in 1 .. Len(b) /\ FirstIn(j, T2)
              BY <4>1, <6>4
            <7>2. ThenOthers(b, T2, j)
              BY <7>1, PickedFirst
            <7>3. QED BY <6>4, <7>2, Zenon DEF ThenOthers
          <6>7. Picked(a, S2) = Picked(b, T2)
            BY <4>3, <5>1, <6>2, <6>5, <6>6, Zenon
          <6>8. Common(a, b, i, j, S2, T2)
            <7>1. S2 \subseteq i .. m /\ T2 \subseteq j .. n
              BY <3>2, <6>2, <6>3
            <7>2. QED BY <1>5, <6>7, <7>1
          <6>9. Len(Picked(a, S2)) = w + 1
            <7>1. PICK p \in Seq(Y) : p = Picked(a, S)
              BY PickedType
            <7>2. Len(<<c>> \o p) = Len(p) + 1
              BY PrependIs
            <7>3. QED BY <4>3, <6>1, <6>5, <7>1, <7>2
          <6>10. QED BY <1>3, <4>5, <5>1, <6>8, <6>9 DEF SomeCommon
        <5>2. CASE c # d /\ u >= v
          <6>1. PICK S, T : Common(a, b, i + 1, j, S, T) /\ Len(Picked(a, S)) = u
            BY <1>3, <4>2, <4>4 DEF SomeCommon
          <6>2. S \subseteq i + 1 .. m /\ T \subseteq j .. n /\ Picked(a, S) = Picked(b, T)
            BY <1>5, <6>1
          <6>3. S \subseteq i .. m
            BY <6>2
          <6>4. Common(a, b, i, j, S, T)
            BY <1>5, <6>2, <6>3
          <6>5. QED BY <1>3, <4>5, <5>2, <6>1, <6>4 DEF SomeCommon
        <5>3. CASE c # d /\ ~(u >= v)
          <6>1. PICK S, T : Common(a, b, i, j + 1, S, T) /\ Len(Picked(a, S)) = v
            BY <1>3, <4>2, <4>4 DEF SomeCommon
          <6>2. S \subseteq i .. m /\ T \subseteq j + 1 .. n /\ Picked(a, S) = Picked(b, T)
            BY <1>5, <6>1
          <6>3. T \subseteq j .. n
            BY <6>2
          <6>4. Common(a, b, i, j, S, T)
            BY <1>5, <6>2, <6>3
          <6>5. QED BY <1>3, <4>5, <5>3, <6>1, <6>4 DEF SomeCommon
        <5>4. QED BY <5>1, <5>2, <5>3
      <4>7. ASSUME NEW S, NEW T, Common(a, b, i, j, S, T) PROVE Len(Picked(a, S)) <= dp[<<i, j>>]
        <5>1. S \subseteq i .. m /\ T \subseteq j .. n /\ Picked(a, S) = Picked(b, T)
          BY <1>5, <4>7
        <5>2. Picked(a, {}) = <<>> /\ Picked(b, {}) = <<>>
          BY PickedNone
        <5>3. CASE S = {} \/ T = {}
          <6>1. Len(Picked(a, S)) = 0
            <7>1. Picked(a, S) = <<>>
              BY <5>1, <5>2, <5>3, Zenon
            <7>2. QED BY <7>1
          <6>2. dp[<<i, j>>] \in Nat
            BY <1>4
          <6>3. QED BY <6>1, <6>2
        <5>4. CASE S # {} /\ T # {}
          <6>a. PICK s : PicksFirst(a, S, i, s, Y)
            BY <1>1, <4>1, <5>1, <5>4, FirstPick
          <6>b. PICK t : PicksFirst(b, T, j, t, Y)
            BY <1>2, <4>1, <5>1, <5>4, FirstPick
          <6>1. /\ s \in S /\ s \in i .. m /\ a[s] \in Y
                /\ Picked(a, S) = <<a[s]>> \o Picked(a, S \ {s})
                /\ (\A h \in S : s <= h) /\ S \ {s} \subseteq i + 1 .. m
            BY <1>1, <6>a DEF PicksFirst
          <6>2. /\ t \in T /\ t \in j .. n /\ b[t] \in Y
                /\ Picked(b, T) = <<b[t]>> \o Picked(b, T \ {t})
                /\ (\A h \in T : t <= h) /\ T \ {t} \subseteq j + 1 .. n
            BY <1>2, <6>b DEF PicksFirst
          <6>3. PICK p \in Seq(Y), q \in Seq(Y) : p = Picked(a, S \ {s}) /\ q = Picked(b, T \ {t})
            BY PickedType
          <6>4. PICK e \in Y, f \in Y : e = a[s] /\ f = b[t]
            BY <6>1, <6>2
          <6>5. <<e>> \o p = <<f>> \o q
            BY <5>1, <6>1, <6>2, <6>3, <6>4, Zenon
          <6>6. e = f /\ p = q /\ Len(<<e>> \o p) = Len(p) + 1
            BY <6>5, SameHeads
          <6>7. Len(Picked(a, S)) = Len(p) + 1
            BY <6>1, <6>3, <6>4, <6>6
          <6>8. CASE c = d
            <7>1. Common(a, b, i + 1, j + 1, S \ {s}, T \ {t})
              BY <1>5, <6>1, <6>2, <6>3, <6>6
            <7>2. Len(p) <= w
              BY <1>3, <4>2, <4>4, <6>3, <7>1 DEF AllCommon
            <7>3. Len(p) \in Nat
              OBVIOUS
            <7>4. QED BY <4>4, <4>5, <6>7, <6>8, <7>2, <7>3
          <6>9. CASE c # d
            <7>1. s # i \/ t # j
              BY <4>3, <6>4, <6>6, <6>9
            <7>2. PICK z \in Nat : z = Len(Picked(a, S))
              BY <6>7
            <7>3. CASE s # i
              <8>1. S \subseteq i + 1 .. m
                BY <5>1, <6>1, <7>3
              <8>2. Common(a, b, i + 1, j, S, T)
                BY <1>5, <5>1, <8>1
              <8>3. z <= u
                BY <1>3, <4>2, <4>4, <7>2, <8>2 DEF AllCommon
              <8>4. QED BY <4>5, <6>9, <7>2, <8>3
            <7>4. CASE t # j
              <8>1. T \subseteq j + 1 .. n
                BY <5>1, <6>2, <7>4
              <8>2. Common(a, b, i, j + 1, S, T)
                BY <1>5, <5>1, <8>1
              <8>3. z <= v
                BY <1>3, <4>2, <4>4, <7>2, <8>2 DEF AllCommon
              <8>4. QED BY <4>5, <6>9, <7>2, <8>3
            <7>5. QED BY <7>1, <7>3, <7>4
          <6>10. QED BY <6>8, <6>9
        <5>5. QED BY <5>3, <5>4
      <4>8. QED BY <1>3, <4>6, <4>7 DEF AllCommon
    <3>3. QED BY <3>1, <3>2
  <2>2. <<i, j>> \in Squares(m, n)
    BY DEF Squares
  <2>3. <<i, j>>[1] = i /\ <<i, j>>[2] = j
    OBVIOUS
  <2>4. QED BY <2>1, <2>2, <2>3
<1>7. \A i \in 1 .. m + 1, j \in 1 .. n + 1 : <<i, j>> \in P
  <2> HIDE DEF P
  <2>1. QED BY <1>6, SquareInduction
<1>8. ASSUME NEW i \in 1 .. m + 1, NEW j \in 1 .. n + 1
      PROVE  SomeCommon(a, b, i, j) /\ AllCommon(a, b, i, j)
  <2>1. <<i, j>> \in P
    BY <1>7
  <2>2. <<i, j>>[1] = i /\ <<i, j>>[2] = j
    OBVIOUS
  <2>3. QED BY <2>1, <2>2
<1>9. QED BY <1>1, <1>2, <1>8

LEMMA KeptIs ==
  ASSUME NEW Y, NEW a \in Seq(Y), NEW b \in Seq(Y)
  PROVE  Kept(a, b) = Lcs(a, b)[<<1, 1>>]
<1> DEFINE kept == {Len(c) : c \in Picks(a) \cap Picks(b)}
<1>1. PICK d \in Nat : d = Lcs(a, b)[<<1, 1>>]
  <2>1. 1 \in 1 .. Len(a) + 1 /\ 1 \in 1 .. Len(b) + 1
    OBVIOUS
  <2>2. QED BY <2>1, LcsIs DEF LcsTable
<1>2. SomeCommon(a, b, 1, 1) /\ AllCommon(a, b, 1, 1)
  <2>1. 1 \in 1 .. Len(a) + 1 /\ 1 \in 1 .. Len(b) + 1
    OBVIOUS
  <2>2. QED BY <2>1, CommonIs
<1>3. DOMAIN a = 1 .. Len(a) /\ DOMAIN b = 1 .. Len(b)
  OBVIOUS
<1>4. d \in kept
  <2>1. PICK S, T : Common(a, b, 1, 1, S, T) /\ Len(Picked(a, S)) = d
    BY <1>1, <1>2 DEF SomeCommon
  <2>2. S \in SUBSET DOMAIN a /\ T \in SUBSET DOMAIN b /\ Picked(a, S) = Picked(b, T)
    BY <1>3, <2>1 DEF Common
  <2>3. Picked(a, S) \in Picks(a) /\ Picked(a, S) \in Picks(b)
    BY <2>2 DEF Picks
  <2>4. QED BY <2>1, <2>3
<1>5. ASSUME NEW k \in kept PROVE k <= d
  <2>1. PICK c : c \in Picks(a) /\ c \in Picks(b) /\ k = Len(c)
    OBVIOUS
  <2>2. PICK S \in SUBSET DOMAIN a : c = Picked(a, S)
    BY <2>1 DEF Picks
  <2>3. PICK T \in SUBSET DOMAIN b : c = Picked(b, T)
    BY <2>1 DEF Picks
  <2>4. Common(a, b, 1, 1, S, T)
    BY <1>3, <2>2, <2>3 DEF Common
  <2>5. QED BY <1>1, <1>2, <2>1, <2>2, <2>4 DEF AllCommon
<1>6. \A k \in kept : k \in Nat
  <2>1. ASSUME NEW c \in Picks(a) PROVE Len(c) \in Nat
    <3>1. PICK S : c = Picked(a, S)
      BY DEF Picks
    <3>2. c \in Seq(Y)
      BY <3>1, PickedType
    <3>3. QED BY <3>2
  <2>2. QED BY <2>1
<1>7. Kept(a, b) = CHOOSE k \in kept : \A h \in kept : h <= k
  BY DEF Kept
<1> HIDE DEF kept
<1>8. PICK e : e = CHOOSE k \in kept : \A h \in kept : h <= k
  OBVIOUS
<1>9. e \in kept /\ \A h \in kept : h <= e
  BY <1>4, <1>5, <1>8
<1>10. e = d
  <2>1. e \in Nat /\ e <= d /\ d <= e
    BY <1>4, <1>5, <1>6, <1>9
  <2>2. QED BY <2>1
<1>11. QED BY <1>1, <1>7, <1>8, <1>10

(* The walk keeps as many lines as any patch could: no smaller set of      *)
(* changes would have done.                                                *)
LEMMA NothingSmaller ==
  ASSUME NEW Y, NEW a \in Seq(Y), NEW b \in Seq(Y)
  PROVE  Cardinality(Sames(Ops(a, b))) = Kept(a, b)
BY SamesCount, KeptIs

(* Patching, one drawn line after another.                                 *)
PatchFrom == [at |-> 1, out |-> <<>>]
Patching(a, drawn) ==
  LET go[n \in 0 .. Len(drawn)] ==
        IF n = 0 THEN [at |-> 1, out |-> <<>>] ELSE PatchStep(a, go[n - 1], drawn[n])
  IN go[Len(drawn)]
PatchRun(g, a, drawn, n) ==
  g[0] = PatchFrom /\ \A k \in 1 .. n : g[k] = PatchStep(a, g[k - 1], drawn[k])
PatchBy(g, a, drawn) == PatchRun(g, a, drawn, Len(drawn)) /\ Patching(a, drawn) = g[Len(drawn)]

LEMMA PatchIs ==
  ASSUME NEW a, NEW R, NEW drawn \in Seq(R)
  PROVE  \E g : PatchBy(g, a, drawn)
<1> DEFINE body(f) == [n \in 0 .. Len(drawn) |-> IF n = 0 THEN [at |-> 1, out |-> <<>>]
                                                 ELSE PatchStep(a, f[n - 1], drawn[n])]
           go == CHOOSE f : f = body(f)
<1>1. PICK l \in Nat : l = Len(drawn)
  OBVIOUS
<1>2. Patching(a, drawn) = go[l]
  BY <1>1 DEF Patching
<1> DEFINE Q == {n \in 0 .. l : \E g : PatchRun(g, a, drawn, n)}
<1>3. 0 \in Q
  <2>1. [k \in {0} |-> PatchFrom][0] = PatchFrom
    OBVIOUS
  <2>2. PatchRun([k \in {0} |-> PatchFrom], a, drawn, 0)
    BY <2>1 DEF PatchRun
  <2>3. QED BY <2>2
<1>4. ASSUME NEW n \in 1 .. l, n - 1 \in Q PROVE n \in Q
  <2>1. PICK g : PatchRun(g, a, drawn, n - 1)
    BY <1>4
  <2> DEFINE h == [k \in 0 .. n |-> IF k = n THEN PatchStep(a, g[n - 1], drawn[n]) ELSE g[k]]
  <2>2. h[0] = g[0] /\ h[n] = PatchStep(a, g[n - 1], drawn[n]) /\ \A k \in 1 .. n : h[k - 1] = g[k - 1]
    OBVIOUS
  <2>3. \A k \in 1 .. n - 1 : h[k] = g[k]
    OBVIOUS
  <2> HIDE DEF h
  <2>4. ASSUME NEW k \in 1 .. n PROVE h[k] = PatchStep(a, h[k - 1], drawn[k])
    <3>1. CASE k = n
      BY <2>2, <3>1
    <3>2. CASE k # n
      <4>1. k \in 1 .. n - 1
        BY <3>2
      <4>2. QED BY <2>1, <2>2, <2>3, <4>1 DEF PatchRun
    <3>3. QED BY <3>1, <3>2
  <2>5. PatchRun(h, a, drawn, n)
    BY <2>1, <2>2, <2>4 DEF PatchRun
  <2>6. n \in 0 .. l
    OBVIOUS
  <2>7. QED BY <2>5, <2>6
<1>5. PICK g : PatchRun(g, a, drawn, l)
  <2>1. 0 .. l \subseteq Q
    <3> HIDE DEF Q
    <3>1. QED BY <1>3, <1>4, UpTo
  <2>2. l \in Q
    BY <2>1
  <2>3. QED BY <2>2
<1> HIDE DEF Q
<1>6. PICK f : f = [n \in 0 .. l |-> g[n]]
  OBVIOUS
<1>7. f = body(f)
  <2>1. ASSUME NEW n \in 0 .. l PROVE f[n] = IF n = 0 THEN [at |-> 1, out |-> <<>>]
                                             ELSE PatchStep(a, f[n - 1], drawn[n])
    <3>1. CASE n = 0
      BY <1>5, <1>6, <3>1 DEF PatchRun, PatchFrom
    <3>2. CASE n # 0
      <4>1. n \in 1 .. l /\ n - 1 \in 0 .. l
        BY <3>2
      <4>2. g[n] = PatchStep(a, g[n - 1], drawn[n])
        BY <1>5, <4>1 DEF PatchRun
      <4>3. f[n] = g[n] /\ f[n - 1] = g[n - 1]
        BY <1>6, <4>1
      <4>4. QED BY <3>2, <4>2, <4>3
    <3>3. QED BY <3>1, <3>2
  <2>2. body(f) = [n \in 0 .. l |-> IF n = 0 THEN [at |-> 1, out |-> <<>>]
                                    ELSE PatchStep(a, f[n - 1], drawn[n])]
    BY <1>1
  <2>3. f = [n \in 0 .. l |-> f[n]]
    BY <1>6
  <2>4. QED BY <2>1, <2>2, <2>3
<1>8. go = body(go)
  <2> HIDE DEF body
  <2>1. QED BY <1>7
<1> HIDE DEF go
<1>9. ASSUME NEW n \in 0 .. l PROVE go[n] = IF n = 0 THEN PatchFrom ELSE PatchStep(a, go[n - 1], drawn[n])
  <2>1. body(go)[n] = IF n = 0 THEN PatchFrom ELSE PatchStep(a, go[n - 1], drawn[n])
    BY <1>1 DEF PatchFrom
  <2> HIDE DEF body
  <2>2. QED BY <1>8, <2>1
<1>10. PatchRun(go, a, drawn, l)
  <2>1. go[0] = PatchFrom
    BY <1>9
  <2>2. \A n \in 1 .. l : go[n] = PatchStep(a, go[n - 1], drawn[n])
    BY <1>9
  <2>3. QED BY <2>1, <2>2 DEF PatchRun
<1> HIDE DEF body
<1>11. QED BY <1>1, <1>2, <1>10 DEF PatchBy

LEMMA PatchingGrows ==
  ASSUME NEW a, NEW R, NEW drawn \in Seq(R), NEW d \in R
  PROVE  /\ Patching(a, <<>>) = PatchFrom
         /\ Patching(a, Append(drawn, d)) = PatchStep(a, Patching(a, drawn), d)
<1>1. PICK l \in Nat : l = Len(drawn)
  OBVIOUS
<1>2. PICK t \in Seq(R) : t = Append(drawn, d)
  BY AppendIs
<1>3. Len(t) = l + 1 /\ t[l + 1] = d /\ \A k \in 1 .. l : t[k] = drawn[k]
  BY <1>1, <1>2, AppendIs
<1>4. PICK g : PatchBy(g, a, drawn)
  BY PatchIs
<1>5. PICK h : PatchBy(h, a, t)
  BY PatchIs
<1>6. /\ g[0] = PatchFrom /\ (\A k \in 1 .. l : g[k] = PatchStep(a, g[k - 1], drawn[k]))
      /\ Patching(a, drawn) = g[l]
  BY <1>1, <1>4 DEF PatchBy, PatchRun
<1>7. /\ h[0] = PatchFrom /\ (\A k \in 1 .. l + 1 : h[k] = PatchStep(a, h[k - 1], t[k]))
      /\ Patching(a, t) = h[l + 1]
  BY <1>3, <1>5 DEF PatchBy, PatchRun
<1> DEFINE Q == {k \in 0 .. l : g[k] = h[k]}
<1>8. 0 \in Q
  BY <1>6, <1>7
<1>9. ASSUME NEW k \in 1 .. l, k - 1 \in Q PROVE k \in Q
  <2>1. k \in 0 .. l /\ k \in 1 .. l + 1
    OBVIOUS
  <2>2. QED BY <1>3, <1>6, <1>7, <1>9, <2>1
<1>10. 0 .. l \subseteq Q
  <2> HIDE DEF Q
  <2>1. QED BY <1>8, <1>9, UpTo
<1>11. g[l] = h[l]
  <2>1. l \in 0 .. l
    OBVIOUS
  <2>2. QED BY <1>10, <2>1
<1>12. h[l + 1] = PatchStep(a, h[l], t[l + 1])
  <2>1. l + 1 \in 1 .. l + 1 /\ l + 1 - 1 = l
    OBVIOUS
  <2>2. QED BY <1>7, <2>1
<1>13. Patching(a, <<>>) = PatchFrom
  <2>1. <<>> \in Seq(R)
    OBVIOUS
  <2>2. PICK e : PatchBy(e, a, <<>>)
    BY <2>1, PatchIs
  <2>3. Len(<<>>) = 0
    OBVIOUS
  <2>4. QED BY <2>2, <2>3 DEF PatchBy, PatchRun
<1>14. QED BY <1>2, <1>3, <1>6, <1>7, <1>11, <1>12, <1>13

(* A hidden run: where it ends, and that its lines are the same in both.   *)
RunEnd(ops, k) == Least({n \in k .. Len(ops) : n = Len(ops) \/ n + 1 \in Marked(ops)})
EndsRun(ops, k, e) ==
  /\ e \in k .. Len(ops) /\ (e = Len(ops) \/ e + 1 \in Marked(ops))
  /\ \A n \in k .. e - 1 : n # Len(ops) /\ n + 1 \notin Marked(ops)

LEMMA RunEndIs ==
  ASSUME NEW R, NEW ops \in Seq(R), NEW k \in 1 .. Len(ops)
  PROVE  EndsRun(ops, k, RunEnd(ops, k)) /\ \A e : EndsRun(ops, k, e) => e = RunEnd(ops, k)
<1>1. PICK l \in Nat : l = Len(ops)
  OBVIOUS
<1> DEFINE E == {n \in k .. l : n = l \/ n + 1 \in Marked(ops)}
<1>2. E \subseteq Nat /\ E # {}
  <2>1. l \in k .. l
    BY <1>1
  <2>2. QED BY <1>1, <2>1
<1>3. RunEnd(ops, k) = CHOOSE i \in E : \A h \in E : i <= h
  BY <1>1 DEF RunEnd, Least
<1>4. PICK r : r = RunEnd(ops, k)
  OBVIOUS
<1>5. r \in E /\ \A h \in E : r <= h
  <2> HIDE DEF E
  <2>1. \E i \in E : \A h \in E : i <= h
    BY <1>2, LeastNat
  <2>2. QED BY <1>3, <1>4, <2>1
<1>6. ASSUME NEW n \in k .. r - 1 PROVE n # l /\ n + 1 \notin Marked(ops)
  <2>1. n \in k .. l /\ ~(r <= n)
    BY <1>5
  <2>2. n \notin E
    BY <1>5, <2>1
  <2>3. QED BY <2>1, <2>2
<1>7. EndsRun(ops, k, r)
  BY <1>1, <1>5, <1>6 DEF EndsRun
<1>8. ASSUME NEW e, EndsRun(ops, k, e) PROVE e = r
  <2>1. e \in E /\ \A n \in k .. e - 1 : n \notin E
    BY <1>1, <1>8 DEF EndsRun
  <2>2. r <= e /\ e \in Int /\ r \in Int /\ k <= r
    BY <1>1, <1>5, <2>1
  <2>3. ~(r < e)
    BY <1>5, <2>1, <2>2
  <2>4. QED BY <2>2, <2>3
<1>9. QED BY <1>4, <1>7, <1>8

LEMMA MarkedIs ==
  ASSUME NEW R, NEW ops \in Seq(R), NEW k \in 1 .. Len(ops), k \notin Marked(ops)
  PROVE  ops[k].type = "same"
<1>1. k \in k - Context .. k + Context
  BY EditsAssumption
<1>2. k \in DOMAIN ops
  OBVIOUS
<1>3. QED BY <1>1, <1>2 DEF Marked

(* The patch follows the walk.                                             *)
Halfway(b, i, j) == [at |-> i, out |-> SubSeq(b, 1, j - 1)]

LEMMA GrownBy ==
  ASSUME NEW Y, NEW b \in Seq(Y), NEW j \in 1 .. Len(b)
  PROVE  Append(SubSeq(b, 1, j - 1), b[j]) = SubSeq(b, 1, j)
<1>1. PICK n \in Nat : n = Len(b)
  OBVIOUS
<1>2. j - 1 \in 0 .. n /\ j \in 0 .. n /\ 1 <= j - 1 + 1 /\ 1 <= j + 1 /\ 1 \in Nat \ {0}
  BY <1>1
<1>3. PICK s \in Seq(Y) : s = SubSeq(b, 1, j - 1)
  BY <1>1, <1>2, SubIs
<1>4. Len(s) = j - 1 /\ \A k \in 1 .. j - 1 : s[k] = b[k]
  <2>1. Len(s) = j - 1 - 1 + 1 /\ \A k \in 1 .. j - 1 - 1 + 1 : s[k] = b[1 + k - 1]
    BY <1>1, <1>2, <1>3, SubIs
  <2>2. QED BY <2>1
<1>5. PICK t \in Seq(Y) : t = SubSeq(b, 1, j)
  BY <1>1, <1>2, SubIs
<1>6. Len(t) = j /\ \A k \in 1 .. j : t[k] = b[k]
  <2>1. Len(t) = j - 1 + 1 /\ \A k \in 1 .. j - 1 + 1 : t[k] = b[1 + k - 1]
    BY <1>1, <1>2, <1>5, SubIs
  <2>2. QED BY <2>1
<1>7. PICK c \in Y : c = b[j]
  OBVIOUS
<1>8. PICK u \in Seq(Y) : u = Append(s, c)
  BY AppendIs
<1>9. Len(u) = j /\ u[j] = c /\ \A k \in 1 .. j - 1 : u[k] = s[k]
  <2>1. Len(u) = Len(s) + 1 /\ u[Len(s) + 1] = c /\ \A k \in 1 .. Len(s) : u[k] = s[k]
    BY <1>8, AppendIs
  <2>2. Len(s) + 1 = j
    BY <1>4
  <2>3. QED BY <1>4, <2>1, <2>2
<1>10. u = t
  <2>1. ASSUME NEW k \in 1 .. j PROVE u[k] = t[k]
    <3>1. CASE k = j
      BY <1>6, <1>7, <1>9, <3>1
    <3>2. CASE k # j
      <4>1. k \in 1 .. j - 1
        BY <3>2
      <4>2. QED BY <1>4, <1>6, <1>9, <4>1
    <3>3. QED BY <3>1, <3>2
  <2>2. DOMAIN u = 1 .. j /\ DOMAIN t = 1 .. j
    BY <1>6, <1>9
  <2>3. QED BY <2>1, <2>2
<1>11. QED BY <1>3, <1>5, <1>7, <1>8, <1>10

LEMMA OpPatches ==
  ASSUME NEW Y, NEW a \in Seq(Y), NEW b \in Seq(Y), NEW o, NEW i \in 1 .. Len(a) + 1,
         NEW j \in 1 .. Len(b) + 1, NEW i2, NEW j2, OpMoves(o, a, b, i, j, i2, j2)
  PROVE  PatchStep(a, Halfway(b, i, j), o) = Halfway(b, i2, j2)
<1>1. Halfway(b, i, j).at = i /\ Halfway(b, i, j).out = SubSeq(b, 1, j - 1)
  BY DEF Halfway
<1>2. PICK n \in Nat : n = Len(b)
  OBVIOUS
<1>3. ASSUME j <= Len(b) PROVE Append(SubSeq(b, 1, j - 1), b[j]) = SubSeq(b, 1, j)
  <2>1. j \in 1 .. Len(b)
    BY <1>2, <1>3
  <2>2. QED BY <2>1, GrownBy
<1>4. j + 1 - 1 = j
  BY <1>2
<1>5. CASE o.type = "same"
  <2>1. o.line = b[j] /\ i2 = i + 1 /\ j2 = j + 1 /\ j <= Len(b)
    BY <1>5 DEF OpMoves
  <2>2. PatchStep(a, Halfway(b, i, j), o) = [at |-> i + 1, out |-> Append(SubSeq(b, 1, j - 1), b[j])]
    BY <1>1, <1>5, <2>1 DEF PatchStep
  <2>3. Append(SubSeq(b, 1, j - 1), b[j]) = SubSeq(b, 1, j2 - 1)
    BY <1>3, <1>4, <2>1
  <2>4. QED BY <2>1, <2>2, <2>3, Zenon DEF Halfway
<1>6. CASE o.type = "add"
  <2>1. o.line = b[j] /\ i2 = i /\ j2 = j + 1 /\ j <= Len(b)
    BY <1>6 DEF OpMoves
  <2>2. PatchStep(a, Halfway(b, i, j), o) = [at |-> i, out |-> Append(SubSeq(b, 1, j - 1), b[j])]
    BY <1>1, <1>6, <2>1 DEF PatchStep
  <2>3. Append(SubSeq(b, 1, j - 1), b[j]) = SubSeq(b, 1, j2 - 1)
    BY <1>3, <1>4, <2>1
  <2>4. QED BY <2>1, <2>2, <2>3, Zenon DEF Halfway
<1>7. CASE o.type = "del"
  <2>1. i2 = i + 1 /\ j2 = j
    BY <1>7 DEF OpMoves
  <2>2. PatchStep(a, Halfway(b, i, j), o) = [at |-> i + 1, out |-> SubSeq(b, 1, j - 1)]
    BY <1>1, <1>7, <2>1 DEF PatchStep
  <2>3. QED BY <2>1, <2>2, Zenon DEF Halfway
<1>8. QED BY <1>5, <1>6, <1>7 DEF OpMoves

SameLines(a, b, i, j, h) == \A q \in 0 .. h - 1 : a[i + q] = b[j + q]
HidesRun(a, b, i, j, h) ==
  PatchStep(a, Halfway(b, i, j), [type |-> "hidden", line |-> h]) = Halfway(b, i + h, j + h)

LEMMA RunPatches ==
  ASSUME NEW Y, NEW a \in Seq(Y), NEW b \in Seq(Y), NEW i \in 1 .. Len(a) + 1, NEW j \in 1 .. Len(b) + 1,
         NEW h \in Nat, i + h <= Len(a) + 1, j + h <= Len(b) + 1,
         SameLines(a, b, i, j, h)
  PROVE  HidesRun(a, b, i, j, h)
<1>1. PICK m \in Nat, n \in Nat : m = Len(a) /\ n = Len(b)
  OBVIOUS
<1>2. /\ j - 1 \in 0 .. n /\ j + h - 1 \in 0 .. n /\ i + h - 1 \in 0 .. m /\ i \in Nat \ {0}
      /\ i <= i + h - 1 + 1 /\ 1 <= j - 1 + 1 /\ 1 <= j + h - 1 + 1 /\ 1 \in Nat \ {0}
  BY <1>1
<1>3. PICK s \in Seq(Y) : s = SubSeq(b, 1, j - 1)
  BY <1>1, <1>2, SubIs
<1>4. Len(s) = j - 1 /\ \A k \in 1 .. j - 1 : s[k] = b[k]
  <2>1. Len(s) = j - 1 - 1 + 1 /\ \A k \in 1 .. j - 1 - 1 + 1 : s[k] = b[1 + k - 1]
    BY <1>1, <1>2, <1>3, SubIs
  <2>2. QED BY <1>1, <2>1
<1>5. PICK t \in Seq(Y) : t = SubSeq(a, i, i + h - 1)
  BY <1>1, <1>2, SubIs
<1>6. Len(t) = h /\ \A k \in 1 .. h : t[k] = a[i + k - 1]
  <2>1. Len(t) = i + h - 1 - i + 1 /\ \A k \in 1 .. i + h - 1 - i + 1 : t[k] = a[i + k - 1]
    BY <1>1, <1>2, <1>5, SubIs
  <2>2. i + h - 1 - i + 1 = h
    BY <1>2
  <2>3. QED BY <2>1, <2>2
<1>7. PICK u \in Seq(Y) : u = SubSeq(b, 1, j + h - 1)
  BY <1>1, <1>2, SubIs
<1>8. Len(u) = j + h - 1 /\ \A k \in 1 .. j + h - 1 : u[k] = b[k]
  <2>1. Len(u) = j + h - 1 - 1 + 1 /\ \A k \in 1 .. j + h - 1 - 1 + 1 : u[k] = b[1 + k - 1]
    BY <1>1, <1>2, <1>7, SubIs
  <2>2. j + h - 1 - 1 + 1 = j + h - 1
    BY <1>2
  <2>3. QED BY <2>1, <2>2
<1>9. PICK v \in Seq(Y) : v = s \o t
  BY ConcatIs
<1>10. Len(v) = j + h - 1 /\ \A k \in 1 .. j + h - 1 : v[k] = IF k <= j - 1 THEN s[k] ELSE t[k - (j - 1)]
  <2>1. Len(v) = Len(s) + Len(t) /\ \A k \in 1 .. Len(s) + Len(t) : v[k] = IF k <= Len(s) THEN s[k] ELSE t[k - Len(s)]
    BY <1>9, ConcatIs
  <2>2. Len(s) + Len(t) = j + h - 1
    BY <1>2, <1>4, <1>6
  <2>3. QED BY <1>4, <2>1, <2>2
<1>11. v = u
  <2>1. ASSUME NEW k \in 1 .. j + h - 1 PROVE v[k] = u[k]
    <3>1. CASE k <= j - 1
      <4>1. k \in 1 .. j - 1
        BY <1>2, <3>1
      <4>2. QED BY <1>4, <1>8, <1>10, <3>1, <4>1
    <3>2. CASE ~(k <= j - 1)
      <4>1. PICK q \in 0 .. h - 1 : k = j + q
        <5>1. k - j \in 0 .. h - 1 /\ k = j + (k - j)
          BY <1>2, <3>2
        <5>2. QED BY <5>1
      <4>2. k - (j - 1) = q + 1 /\ q + 1 \in 1 .. h /\ i + (q + 1) - 1 = i + q
        BY <1>2, <4>1
      <4>3. v[k] = t[q + 1]
        BY <1>10, <3>2, <4>2
      <4>4. t[q + 1] = a[i + q]
        BY <1>6, <4>2
      <4>5. u[k] = b[j + q]
        BY <1>8, <4>1
      <4>6. QED BY <4>1, <4>3, <4>4, <4>5 DEF SameLines
    <3>3. QED BY <3>1, <3>2
  <2>2. DOMAIN u = 1 .. j + h - 1 /\ DOMAIN v = 1 .. j + h - 1
    BY <1>8, <1>10
  <2>3. QED BY <2>1, <2>2
<1>12. PICK d : d = [type |-> "hidden", line |-> h]
  OBVIOUS
<1>13. d.type = "hidden" /\ d.line = h
  BY <1>12
<1>14. PICK p : p = Halfway(b, i, j)
  OBVIOUS
<1>15. p.at = i /\ p.out = s
  BY <1>3, <1>14 DEF Halfway
<1>16. PatchStep(a, p, d) = [at |-> p.at + d.line, out |-> p.out \o SubSeq(a, p.at, p.at + d.line - 1)]
  BY <1>13 DEF PatchStep
<1>17. PatchStep(a, p, d) = [at |-> i + h, out |-> s \o t]
  BY <1>5, <1>13, <1>15, <1>16, Zenon
<1>18. Halfway(b, i + h, j + h) = [at |-> i + h, out |-> u]
  <2>1. PICK j2 : j2 = j + h
    OBVIOUS
  <2>2. u = SubSeq(b, 1, j2 - 1)
    BY <1>7, <2>1
  <2>3. Halfway(b, i + h, j2) = [at |-> i + h, out |-> u]
    BY <2>2, Zenon DEF Halfway
  <2>4. QED BY <2>1, <2>3
<1>19. PatchStep(a, p, d) = [at |-> i + h, out |-> u]
  BY <1>9, <1>11, <1>17, Zenon
<1>20. QED BY <1>12, <1>14, <1>18, <1>19, Zenon DEF HidesRun

LEMMA DrawnAtIs ==
  ASSUME NEW ops, NEW k
  PROVE  DrawnAt(ops, k) = IF k \in Marked(ops) THEN ops[k]
                           ELSE [type |-> "hidden", line |-> RunEnd(ops, k) - k + 1]
BY DEF DrawnAt, RunEnd

LEMMA HiddenPatches ==
  ASSUME NEW Y, NEW a \in Seq(Y), NEW b \in Seq(Y), NEW ops \in Seq(OpRecs(Y)), NEW x, NEW y,
         PathBy(x, y, ops, a, b, 1, 1), NEW k \in 1 .. Len(ops), k \notin Marked(ops)
  PROVE  PatchStep(a, Halfway(b, x[k - 1], y[k - 1]), DrawnAt(ops, k))
           = Halfway(b, x[RunEnd(ops, k)], y[RunEnd(ops, k)])
<1>1. PICK m \in Nat, n \in Nat, l \in Nat : m = Len(a) /\ n = Len(b) /\ l = Len(ops)
  OBVIOUS
<1>2. /\ x \in [0 .. l -> 1 .. m + 1] /\ y \in [0 .. l -> 1 .. n + 1]
      /\ \A q \in 1 .. l : OpMoves(ops[q], a, b, x[q - 1], y[q - 1], x[q], y[q])
  BY <1>1 DEF PathBy
<1>3. PICK e : e = RunEnd(ops, k)
  OBVIOUS
<1>4. EndsRun(ops, k, e)
  BY <1>3, RunEndIs
<1>5. e \in k .. l /\ \A q \in k .. e - 1 : q + 1 \notin Marked(ops)
  BY <1>1, <1>4 DEF EndsRun
<1>6. ASSUME NEW q \in k .. e
      PROVE  x[q] = x[q - 1] + 1 /\ y[q] = y[q - 1] + 1 /\ a[x[q - 1]] = b[y[q - 1]]
  <2>1. q \in 1 .. l /\ q \in 1 .. Len(ops)
    BY <1>1, <1>5
  <2>2. q \notin Marked(ops)
    <3>1. CASE q = k
      BY <3>1
    <3>2. CASE q # k
      <4>1. q - 1 \in k .. e - 1 /\ q - 1 + 1 = q
        BY <1>5, <3>2
      <4>2. QED BY <1>5, <4>1
    <3>3. QED BY <3>1, <3>2
  <2>3. ops[q].type = "same"
    BY <2>1, <2>2, MarkedIs
  <2>4. OpMoves(ops[q], a, b, x[q - 1], y[q - 1], x[q], y[q])
    BY <1>2, <2>1
  <2>5. QED BY <2>3, <2>4 DEF OpMoves
<1>7. PICK i \in 1 .. m + 1, j \in 1 .. n + 1 : i = x[k - 1] /\ j = y[k - 1]
  <2>1. k - 1 \in 0 .. l
    BY <1>1
  <2>2. QED BY <1>2, <2>1
<1>8. PICK h \in Nat : h = e - k + 1
  BY <1>5
<1> DEFINE Q == {q \in 0 .. h : x[k - 1 + q] = i + q /\ y[k - 1 + q] = j + q}
<1>9. 0 \in Q
  <2>1. k - 1 + 0 = k - 1 /\ i + 0 = i /\ j + 0 = j
    BY <1>1
  <2>2. QED BY <1>7, <2>1
<1>10. ASSUME NEW q \in 1 .. h, q - 1 \in Q PROVE q \in Q
  <2>1. PICK r : r = k - 1 + q
    OBVIOUS
  <2>2. r \in k .. e /\ r - 1 = k - 1 + (q - 1)
    BY <1>5, <1>8, <2>1
  <2>3. x[r - 1] = i + (q - 1) /\ y[r - 1] = j + (q - 1)
    BY <1>10, <2>2
  <2>4. x[r] = x[r - 1] + 1 /\ y[r] = y[r - 1] + 1
    BY <1>6, <2>2
  <2>5. i + (q - 1) + 1 = i + q /\ j + (q - 1) + 1 = j + q /\ q \in 0 .. h
    BY <1>1
  <2>6. x[r] = i + q /\ y[r] = j + q
    BY <2>3, <2>4, <2>5
  <2>7. QED BY <2>1, <2>5, <2>6
<1>11. 0 .. h \subseteq Q
  <2> HIDE DEF Q
  <2>1. QED BY <1>9, <1>10, UpTo
<1>12. ASSUME NEW q \in 0 .. h PROVE x[k - 1 + q] = i + q /\ y[k - 1 + q] = j + q
  BY <1>11
<1> HIDE DEF Q
<1>13. x[e] = i + h /\ y[e] = j + h
  <2>1. h \in 0 .. h /\ k - 1 + h = e
    BY <1>5, <1>8
  <2>2. QED BY <1>12, <2>1
<1>14. i + h <= Len(a) + 1 /\ j + h <= Len(b) + 1
  <2>1. e \in 0 .. l
    BY <1>5
  <2>2. x[e] \in 1 .. m + 1 /\ y[e] \in 1 .. n + 1
    BY <1>2, <2>1
  <2>3. QED BY <1>1, <1>13, <2>2
<1>15. ASSUME NEW q \in 0 .. h - 1 PROVE a[i + q] = b[j + q]
  <2>1. PICK r : r = k + q
    OBVIOUS
  <2>2. r \in k .. e /\ r - 1 = k - 1 + q /\ q \in 0 .. h
    BY <1>5, <1>8, <2>1
  <2>3. x[r - 1] = i + q /\ y[r - 1] = j + q
    BY <1>12, <2>2
  <2>4. a[x[r - 1]] = b[y[r - 1]]
    BY <1>6, <2>2
  <2>5. QED BY <2>3, <2>4
<1>16. PatchStep(a, Halfway(b, i, j), [type |-> "hidden", line |-> h]) = Halfway(b, i + h, j + h)
  <2>1. i \in 1 .. Len(a) + 1 /\ j \in 1 .. Len(b) + 1
    BY <1>1
  <2>2. SameLines(a, b, i, j, h)
    BY <1>15 DEF SameLines
  <2>3. HidesRun(a, b, i, j, h)
    BY <1>14, <2>1, <2>2, RunPatches
  <2>4. QED BY <2>3, Zenon DEF HidesRun
<1>17. DrawnAt(ops, k) = [type |-> "hidden", line |-> h]
  BY <1>3, <1>8, DrawnAtIs
<1>18. QED BY <1>3, <1>7, <1>13, <1>16, <1>17, Zenon

(* How far the walk has been drawn, or hidden, at each of its places.      *)
Behind(ops, k) == IF k = 0 \/ k \in Marked(ops) THEN k ELSE RunEnd(ops, k)
Starts(ops, k) == k \in Marked(ops) \/ k = 1 \/ k - 1 \in Marked(ops)

LEMMA BehindIs ==
  ASSUME NEW R, NEW ops \in Seq(R), NEW k \in 1 .. Len(ops)
  PROVE  /\ Starts(ops, k) => Behind(ops, k - 1) = k - 1
         /\ ~Starts(ops, k) => Behind(ops, k) = Behind(ops, k - 1)
         /\ Behind(ops, 0) = 0 /\ Behind(ops, Len(ops)) = Len(ops)
<1>1. PICK l \in Nat : l = Len(ops)
  OBVIOUS
<1>2. ASSUME k \in Marked(ops), k - 1 # 0, k - 1 \notin Marked(ops) PROVE RunEnd(ops, k - 1) = k - 1
  <2>1. k - 1 \in 1 .. l /\ k - 1 \in k - 1 .. l /\ k - 1 + 1 = k /\ ~\E q \in k - 1 .. k - 1 - 1 : TRUE
    BY <1>1, <1>2
  <2>2. EndsRun(ops, k - 1, k - 1)
    BY <1>1, <1>2, <2>1 DEF EndsRun
  <2>3. k - 1 \in 1 .. Len(ops)
    BY <1>1, <2>1
  <2>4. QED BY <2>2, <2>3, RunEndIs
<1>3. ASSUME Starts(ops, k) PROVE Behind(ops, k - 1) = k - 1
  <2>1. CASE k = 1
    <3>1. k - 1 = 0
      BY <2>1
    <3>2. QED BY <3>1 DEF Behind
  <2>2. CASE k - 1 \in Marked(ops)
    BY <2>2 DEF Behind
  <2>3. CASE k # 1 /\ k - 1 \notin Marked(ops)
    <3>1. k - 1 # 0 /\ k \in Marked(ops)
      BY <1>3, <2>3 DEF Starts
    <3>2. RunEnd(ops, k - 1) = k - 1
      BY <1>2, <2>3, <3>1
    <3>3. QED BY <2>3, <3>1, <3>2 DEF Behind
  <2>4. QED BY <2>1, <2>2, <2>3
<1>4. ASSUME ~Starts(ops, k) PROVE Behind(ops, k) = Behind(ops, k - 1)
  <2>1. k # 1 /\ k \notin Marked(ops) /\ k - 1 \notin Marked(ops) /\ k - 1 # 0 /\ k # 0
    BY <1>4 DEF Starts
  <2>2. PICK e : e = RunEnd(ops, k)
    OBVIOUS
  <2>3. EndsRun(ops, k, e)
    BY <2>2, RunEndIs
  <2>4. e \in k .. l /\ (e = l \/ e + 1 \in Marked(ops)) /\ \A q \in k .. e - 1 : q # l /\ q + 1 \notin Marked(ops)
    BY <1>1, <2>3 DEF EndsRun
  <2>5. ASSUME NEW q \in k - 1 .. e - 1 PROVE q # l /\ q + 1 \notin Marked(ops)
    <3>1. CASE q = k - 1
      <4>1. q + 1 = k /\ q # l
        BY <1>1, <3>1
      <4>2. QED BY <2>1, <4>1
    <3>2. CASE q # k - 1
      <4>1. q \in k .. e - 1
        BY <2>4, <3>2
      <4>2. QED BY <2>4, <4>1
    <3>3. QED BY <3>1, <3>2
  <2>6. e \in k - 1 .. l
    BY <2>4
  <2>7. EndsRun(ops, k - 1, e)
    BY <1>1, <2>4, <2>5, <2>6 DEF EndsRun
  <2>8. k - 1 \in 1 .. Len(ops)
    BY <2>1
  <2>9. e = RunEnd(ops, k - 1)
    BY <2>7, <2>8, RunEndIs
  <2>10. QED BY <2>1, <2>2, <2>9 DEF Behind
<1>5. Behind(ops, 0) = 0
  BY DEF Behind
<1>6. Behind(ops, Len(ops)) = Len(ops)
  <2>1. CASE l \in Marked(ops)
    BY <1>1, <2>1 DEF Behind
  <2>2. CASE l \notin Marked(ops)
    <3>1. l \in 1 .. Len(ops) /\ l # 0 /\ l \in l .. l /\ ~\E q \in l .. l - 1 : TRUE
      BY <1>1
    <3>2. EndsRun(ops, l, l)
      BY <1>1, <3>1 DEF EndsRun
    <3>3. l = RunEnd(ops, l)
      BY <3>1, <3>2, RunEndIs
    <3>4. QED BY <1>1, <2>2, <3>1, <3>3 DEF Behind
  <2>3. QED BY <2>1, <2>2
<1>7. QED BY <1>3, <1>4, <1>5, <1>6

LEMMA DrawnPatches ==
  ASSUME NEW Y, NEW a \in Seq(Y), NEW b \in Seq(Y), NEW ops \in Seq(OpRecs(Y)), NEW x, NEW y,
         PathBy(x, y, ops, a, b, 1, 1), NEW k \in 1 .. Len(ops), Starts(ops, k)
  PROVE  PatchStep(a, Halfway(b, x[Behind(ops, k - 1)], y[Behind(ops, k - 1)]), DrawnAt(ops, k))
           = Halfway(b, x[Behind(ops, k)], y[Behind(ops, k)])
<1>1. Behind(ops, k - 1) = k - 1
  BY BehindIs
<1>2. CASE k \in Marked(ops)
  <2>1. DrawnAt(ops, k) = ops[k]
    BY <1>2, DrawnAtIs
  <2>2. Behind(ops, k) = k
    BY <1>2 DEF Behind
  <2>3. OpMoves(ops[k], a, b, x[k - 1], y[k - 1], x[k], y[k])
    BY DEF PathBy
  <2>4. x[k - 1] \in 1 .. Len(a) + 1 /\ y[k - 1] \in 1 .. Len(b) + 1
    <3>1. k - 1 \in 0 .. Len(ops)
      OBVIOUS
    <3>2. QED BY <3>1 DEF PathBy
  <2>5. PatchStep(a, Halfway(b, x[k - 1], y[k - 1]), ops[k]) = Halfway(b, x[k], y[k])
    BY <2>3, <2>4, OpPatches
  <2>6. QED BY <1>1, <2>1, <2>2, <2>5
<1>3. CASE k \notin Marked(ops)
  <2>1. Behind(ops, k) = RunEnd(ops, k)
    BY <1>3 DEF Behind
  <2>2. PatchStep(a, Halfway(b, x[k - 1], y[k - 1]), DrawnAt(ops, k))
           = Halfway(b, x[RunEnd(ops, k)], y[RunEnd(ops, k)])
    BY <1>3, HiddenPatches
  <2>3. QED BY <1>1, <2>1, <2>2
<1>4. QED BY <1>2, <1>3

LEMMA WalkDraws ==
  ASSUME NEW Y, NEW a \in Seq(Y), NEW b \in Seq(Y)
  PROVE  /\ Patched(a, Drawn(Ops(a, b))) = b
         /\ Drawn(Ops(a, b)) = <<>> => a = b
<1>1. PICK ops \in Seq(OpRecs(Y)) : ops = Ops(a, b)
  BY WalkPath
<1>2. PICK x, y : PathBy(x, y, ops, a, b, 1, 1)
  BY <1>1, WalkPath DEF HasPath
<1>3. PICK l \in Nat : l = Len(ops)
  OBVIOUS
<1> DEFINE R == OpRecs(Y) \cup [type : {"hidden"}, line : Int]
           D == [k \in DOMAIN ops |-> DrawnAt(ops, k)]
           S == {k \in DOMAIN ops : k \in Marked(ops) \/ k = 1 \/ k - 1 \in Marked(ops)}
<1>4. ASSUME NEW k \in 1 .. l PROVE DrawnAt(ops, k) \in R
  <2>1. CASE k \in Marked(ops)
    <3>1. ops[k] \in OpRecs(Y)
      BY <1>3
    <3>2. DrawnAt(ops, k) = ops[k]
      BY <2>1, DrawnAtIs
    <3>3. QED BY <3>1, <3>2
  <2>2. CASE k \notin Marked(ops)
    <3>1. PICK e : e = RunEnd(ops, k)
      OBVIOUS
    <3>2. EndsRun(ops, k, e)
      BY <1>3, <3>1, RunEndIs
    <3>3. PICK h \in Int : h = e - k + 1
      BY <1>3, <3>2 DEF EndsRun
    <3>4. DrawnAt(ops, k) = [type |-> "hidden", line |-> h]
      BY <2>2, <3>1, <3>3, DrawnAtIs
    <3>5. QED BY <3>4
  <2>3. QED BY <2>1, <2>2
<1> HIDE DEF R
<1>5. D = [k \in 1 .. l |-> DrawnAt(ops, k)]
  BY <1>3
<1>6. D \in Seq(R) /\ Len(D) = l /\ \A k \in 1 .. l : D[k] = DrawnAt(ops, k)
  <2>1. D \in [1 .. l -> R]
    BY <1>4, <1>5
  <2>2. D \in Seq(R)
    BY <2>1, SeqDef
  <2>3. DOMAIN D = 1 .. l
    BY <1>5
  <2>4. Len(D) = l
    BY <2>2, <2>3
  <2>5. QED BY <1>5, <2>2, <2>4
<1>7. \A k \in 1 .. l : k \in S <=> Starts(ops, k)
  BY <1>3 DEF Starts
<1>8. Drawn(ops) = Picked(D, S)
  BY DEF Drawn
<1> HIDE DEF D, S
<1>9. PICK f : PicksBy(f, D, S, R)
  BY <1>6, PickedIs
<1>10. /\ f \in [0 .. l -> Seq(R)] /\ f[0] = <<>> /\ Drawn(ops) = f[l]
       /\ \A k \in 1 .. l : f[k] = IF k \in S THEN Append(f[k - 1], D[k]) ELSE f[k - 1]
  BY <1>6, <1>8, <1>9 DEF PicksBy
<1> DEFINE at(k) == Halfway(b, x[Behind(ops, k)], y[Behind(ops, k)])
           Q == {k \in 0 .. l : /\ Patching(a, f[k]) = at(k)
                                /\ k # 0 => f[k] # <<>>}
<1>11. x[0] = 1 /\ y[0] = 1 /\ x[l] = Len(a) + 1 /\ y[l] = Len(b) + 1
  BY <1>2, <1>3 DEF PathBy
<1>12. 0 \in Q
  <2>1. Behind(ops, 0) = 0
    BY DEF Behind
  <2>2. at(0) = Halfway(b, 1, 1)
    BY <1>11, <2>1
  <2>3. Halfway(b, 1, 1) = PatchFrom
    <3>1. SubSeq(b, 1, 1 - 1) = <<>>
      OBVIOUS
    <3>2. QED BY <3>1 DEF Halfway, PatchFrom
  <2>4. Patching(a, <<>>) = PatchFrom
    <3>1. <<>> \in Seq({0}) /\ 0 \in {0}
      OBVIOUS
    <3>2. QED BY <3>1, PatchingGrows
  <2> HIDE DEF at
  <2>5. QED BY <1>10, <2>2, <2>3, <2>4
<1>13. ASSUME NEW k \in 1 .. l, k - 1 \in Q PROVE k \in Q
  <2>1. k \in 0 .. l /\ k - 1 \in 0 .. l /\ k \in 1 .. Len(ops)
    BY <1>3
  <2>2. Patching(a, f[k - 1]) = at(k - 1)
    BY <1>13
  <2>3. PICK r \in Seq(R), d \in R : r = f[k - 1] /\ d = D[k] /\ d = DrawnAt(ops, k)
    BY <1>4, <1>6, <1>10, <2>1
  <2>4. CASE Starts(ops, k)
    <3>1. f[k] = Append(r, d)
      BY <1>7, <1>10, <2>3, <2>4
    <3>2. Patching(a, f[k]) = PatchStep(a, at(k - 1), d)
      BY <2>2, <2>3, <3>1, PatchingGrows
    <3>3. PatchStep(a, at(k - 1), d) = at(k)
      BY <1>2, <2>1, <2>3, <2>4, DrawnPatches
    <3>4. f[k] # <<>>
      <4>1. Len(Append(r, d)) = Len(r) + 1 /\ Len(r) \in Nat
        BY AppendIs
      <4>2. QED BY <3>1, <4>1
    <3> HIDE DEF at
    <3>5. QED BY <2>1, <3>2, <3>3, <3>4
  <2>5. CASE ~Starts(ops, k)
    <3>1. f[k] = f[k - 1]
      BY <1>7, <1>10, <2>5
    <3>2. at(k) = at(k - 1)
      BY <2>1, <2>5, BehindIs
    <3>3. k - 1 # 0
      BY <2>5 DEF Starts
    <3> HIDE DEF at
    <3>4. QED BY <1>13, <2>1, <2>2, <3>1, <3>2, <3>3
  <2>6. QED BY <2>4, <2>5
<1>14. l \in Q
  <2>1. 0 .. l \subseteq Q
    <3> HIDE DEF Q
    <3>1. QED BY <1>12, <1>13, UpTo
  <2>2. QED BY <2>1
<1>15. at(l) = Halfway(b, Len(a) + 1, Len(b) + 1)
  <2>1. Behind(ops, l) = l
    <3>1. CASE l = 0
      BY <3>1 DEF Behind
    <3>2. CASE l # 0
      <4>1. l \in 1 .. Len(ops)
        BY <1>3, <3>2
      <4>2. QED BY <1>3, <4>1, BehindIs
    <3>3. QED BY <3>1, <3>2
  <2>2. QED BY <1>11, <2>1
<1>16. Patching(a, Drawn(ops)) = Halfway(b, Len(a) + 1, Len(b) + 1)
  <2> HIDE DEF at
  <2>1. QED BY <1>10, <1>14, <1>15
<1>17. Patched(a, Drawn(ops)) = Patching(a, Drawn(ops)).out
  BY Zenon DEF Patched, Patching
<1>18. Halfway(b, Len(a) + 1, Len(b) + 1).out = b
  <2>1. PICK n \in Nat : n = Len(b)
    OBVIOUS
  <2>2. Halfway(b, Len(a) + 1, n + 1).out = SubSeq(b, 1, n + 1 - 1)
    BY DEF Halfway
  <2>3. n + 1 - 1 = n
    OBVIOUS
  <2>4. SubSeq(b, 1, n) = b
    BY <2>1
  <2>5. QED BY <2>1, <2>2, <2>3, <2>4
<1>19. ASSUME Drawn(ops) = <<>> PROVE a = b
  <2>1. l = 0
    BY <1>10, <1>14, <1>19
  <2>2. Len(a) = 0 /\ Len(b) = 0
    BY <1>11, <2>1
  <2>3. QED BY <2>2
<1>20. QED BY <1>1, <1>16, <1>17, <1>18, <1>19

LEMMA DiffLinesAre ==
  ASSUME NEW X, NEW t \in Seq(X)
  PROVE  DiffLines(t) \in Seq(Seq(X))
<1>1. PICK lines \in Seq(Seq(X)) : lines = LinesOf(t)
  BY LinesAre
<1>2. PICK n \in Nat : n = Len(lines)
  OBVIOUS
<1>3. CASE n > 1
  <2>1. 1 \in Nat \ {0} /\ n - 1 \in 0 .. Len(lines) /\ 1 <= n - 1 + 1
    BY <1>2, <1>3
  <2>2. PICK W : W = Seq(X)
    OBVIOUS
  <2>3. SubSeq(lines, 1, n - 1) \in Seq(W)
    BY <2>1, <2>2, SubIs
  <2>4. QED BY <1>1, <1>2, <2>2, <2>3 DEF DiffLines
<1>4. CASE ~(n > 1)
  BY <1>1, <1>2, <1>4 DEF DiffLines
<1>5. QED BY <1>3, <1>4

(* The diff the user is shown is the change that was made.  Patched with   *)
(* it the old lines are the new ones, so that a hidden run hides nothing   *)
(* that differs; nothing is shown exactly when nothing changed; and the    *)
(* walk keeps as many lines as any patch could.                            *)
THEOREM DiffShowsTheChange ==
  ASSUME NEW X, NEW was \in Seq(X), NEW new \in Seq(X)
  PROVE  DiffIsTheChange(was, new)
<1>1. PICK Y : Y = Seq(X)
  OBVIOUS
<1>2. PICK a \in Seq(Y), b \in Seq(Y) : a = DiffLines(was) /\ b = DiffLines(new)
  BY <1>1, DiffLinesAre
<1>3. PICK ops : ops = Ops(a, b)
  OBVIOUS
<1> DEFINE omitted == Len(a) > DiffMax \/ Len(b) > DiffMax
<1>4. DiffUnified(was, new) = IF a = b THEN <<>>
                              ELSE IF omitted THEN <<[type |-> "omitted", line |-> 0]>>
                              ELSE Drawn(ops)
  BY <1>2, <1>3, Zenon DEF DiffUnified
<1>5. PICK drawn : drawn = DiffUnified(was, new)
  OBVIOUS
<1>6. Patched(a, Drawn(ops)) = b /\ (Drawn(ops) = <<>> => a = b)
  BY <1>3, WalkDraws
<1>7. Cardinality({k \in DOMAIN ops : ops[k].type = "same"}) = Kept(a, b)
  BY <1>3, NothingSmaller DEF Sames
<1>8. <<[type |-> "omitted", line |-> 0]>> # <<>>
  OBVIOUS
<1> HIDE DEF omitted
<1>9. (drawn = <<>>) <=> (a = b)
  BY <1>4, <1>5, <1>6, <1>8
<1>10. ASSUME drawn # <<>>, ~omitted PROVE Patched(a, drawn) = b
  BY <1>4, <1>5, <1>6, <1>10
<1> USE DEF omitted
<1>11. QED BY <1>2, <1>3, <1>5, <1>7, <1>9, <1>10 DEF DiffIsTheChange

(***************************************************************************)
(* The files of Inputs.                                                    *)
(***************************************************************************)
FileText == part # "view" => text \in Seq(Alphabet[part])

LEMMA EditsAreSafe ==
  ASSUME FileText
  PROVE  EditsAreExact
<1>1. ASSUME part = "edit", NEW find \in Searches, NEW new \in Replacements
      PROVE  OtherLinesStay(text, find, new)
  <2> DEFINE X == Alphabet["edit"] \cup {Newline}
  <2>1. text \in Seq(Alphabet["edit"]) /\ find \in Seq(Alphabet["edit"]) /\ new \in Seq(Alphabet["edit"])
    BY <1>1, InputsAssumption DEF FileText
  <2>2. Alphabet["edit"] \subseteq X /\ Newline \in X
    OBVIOUS
  <2> HIDE DEF X
  <2>3. text \in Seq(X) /\ find \in Seq(X) /\ new \in Seq(X)
    BY <2>1, <2>2, SeqMonotonic
  <2>4. QED BY <2>2, <2>3, EditsLeaveTheRest
<1>2. ASSUME part = "lexer" PROVE RepairIsSafe(text)
  <2>1. text \in Seq(Alphabet["lexer"])
    BY <1>2 DEF FileText
  <2>2. QED BY <2>1, RepairAlwaysSafe
<1>3. ASSUME part = "diff", NEW new \in Rewrites PROVE DiffIsTheChange(Joined(text), Joined(new))
  <2>1. text \in Seq(Alphabet["diff"]) /\ new \in Seq(Alphabet["diff"]) /\ Alphabet["diff"] \subseteq Seq(FileChars)
    BY <1>3, InputsAssumption DEF FileText
  <2>2. text \in Seq(Seq(FileChars)) /\ new \in Seq(Seq(FileChars))
    BY <2>1, SeqMonotonic
  <2>3. ASSUME NEW parts \in Seq(Seq(FileChars)) PROVE Joined(parts) \in Seq(FileChars)
    <3>1. PICK f : JoinsBy(f, parts, FileChars)
      BY JoinedIs
    <3>2. Len(parts) \in 0 .. Len(parts)
      OBVIOUS
    <3>3. QED BY <3>1, <3>2 DEF JoinsBy
  <2>4. Joined(text) \in Seq(FileChars) /\ Joined(new) \in Seq(FileChars)
    BY <2>2, <2>3
  <2>5. QED BY <2>4, DiffShowsTheChange
<1>4. QED BY <1>1, <1>2, <1>3 DEF EditsAreExact

LEMMA FilesAreTexts == TextSpec => []FileText
<1>1. ASSUME text = <<>> PROVE FileText
  BY <1>1 DEF FileText
<1>2. ASSUME FileText, [\E c \in Alphabet[part] : NextSymbol(c)]_<<part, text, view>> PROVE FileText'
  <2>1. CASE UNCHANGED <<part, text, view>>
    BY <1>2, <2>1 DEF FileText
  <2>2. ASSUME NEW c \in Alphabet[part], NextSymbol(c), part # "view" PROVE FileText'
    <3>1. part' = part /\ text' = Append(text, c)
      BY <2>2 DEF NextSymbol
    <3>2. Append(text, c) \in Seq(Alphabet[part])
      BY <1>2, <2>2 DEF FileText
    <3>3. QED BY <3>1, <3>2 DEF FileText
  <2>3. ASSUME NEW c \in Alphabet[part], NextSymbol(c), part = "view" PROVE FileText'
    BY <2>3 DEF NextSymbol, FileText
  <2>4. QED BY <1>2, <2>1, <2>2, <2>3
<1>3. QED BY <1>1, <1>2, PTL DEF TextSpec

(* Whatever file is edited, whatever is searched and put in its place, for *)
(* every alphabet, context and limit: edit_apply leaves every other line   *)
(* alone and refuses a text that stands in two places, the repair of       *)
(* literals is done at once and changes neither the code nor the verdict   *)
(* on it, and diff_unified shows a smallest change, and all of it.         *)
THEOREM EveryEditIsExact == TextSpec => []EditsAreExact
<1>1. FileText => EditsAreExact
  BY EditsAreSafe
<1>2. QED BY <1>1, FilesAreTexts, PTL
=============================================================================
