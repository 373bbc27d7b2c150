----------------------------- MODULE FileStore -----------------------------
(***************************************************************************)
(* What the agent does to the user's files: commit_write of tools/tools.c  *)
(* (behind write_file and edit) with its verify-on-write guardrail and its *)
(* snapshots, and the /undo and /redo of main.c.  A write goes one system  *)
(* call a step, so that an I/O error, the death of the process or the      *)
(* user's own editor can come between any two of them.                     *)
(*                                                                         *)
(* A content is an opaque value.  verify_repair_literals is the constant   *)
(* function Repaired, verify_balance the constant set Unbalanced; what the *)
(* compiler says of a C file is open.  Paths are already resolved within   *)
(* the sandbox (core/sandbox.c).                                           *)
(***************************************************************************)
EXTENDS Naturals

CONSTANTS
  Files,         \* paths in the sandbox
  Code,          \* those verify_is_codeish says yes to
  CCode,         \* those verify_is_c says yes to
  Contents,
  Unbalanced,    \* contents verify_balance rejects
  Repaired,      \* verify_repair_literals, as a function
  UserContents,  \* what is there at first and what the user saves
  Faults,        \* TRUE: a write may fail, cleanly or half way
  Deaths,        \* TRUE: the process may be killed at any point
  UserSaves      \* when the user may save: "never", "idle" (between the
                 \* agent's writes) or "anytime"

Absent == [absent |-> TRUE]
Torn == [torn |-> TRUE]           \* a file truncated by a write that failed

ASSUME FilesAssumption ==
  /\ Absent \notin Contents /\ Torn \notin Contents
  /\ Unbalanced \subseteq Contents
  /\ CCode \subseteq Code /\ Code \subseteq Files
  /\ Repaired \in [Contents -> Contents]
  /\ UserContents \subseteq Contents
  /\ UserContents \cap Unbalanced = {}
  /\ Faults \in BOOLEAN /\ Deaths \in BOOLEAN /\ UserSaves \in {"never", "idle", "anytime"}

VARIABLES
  file,       \* the file itself
  bak,        \* its sibling <file>.anbak
  redo,       \* its sibling <file>.anredo
  pc,         \* where the process is in commit_write
  job,        \* the locals of commit_write, and whose call it is
  lastWrite,  \* agent_session.last_write of the conversation at the prompt
  mine,       \* history variable: files written in this conversation
  change,     \* history variable: the last successful write of the file that
              \* lastWrite names, what it replaced and whether the snapshot of
              \* that was written without an error
  excused,    \* history variable: files a failure has been reported for
  said        \* what the last /undo or /redo told the user

vars == <<file, bak, redo, pc, job, lastWrite, mine, change, excused, said>>
history == <<mine, change>>

Disk == Contents \cup {Absent, Torn}

NoPath == [path |-> "none"]
NoJob == [who |-> "nobody"]

(* The REPL's conversation, or the in-process sub-agent it waits for.      *)
Who == {"session", "child"}
Jobs == [who : Who, path : Files, content : Contents, prior : Disk]

TypeOK ==
  /\ file \in [Files -> Disk] /\ bak \in [Files -> Disk] /\ redo \in [Files -> Disk]
  /\ pc \in {"idle", "write", "verify", "revert", "snapshot", "dead"}
  /\ job \in Jobs \cup {NoJob}
  /\ pc \in {"write", "verify", "revert", "snapshot"} => job \in Jobs
  /\ lastWrite \in Files \cup {NoPath}
  /\ mine \subseteq Files
  /\ change \in [path : Files, before : Disk, backed : BOOLEAN] \cup {NoPath}
  /\ excused \subseteq Files
  /\ said \in {"", "reverted", "restored", "failed"}

Init ==
  /\ file \in [Files -> UserContents \cup {Absent}]
  /\ bak = [p \in Files |-> Absent]
  /\ redo = [p \in Files |-> Absent]
  /\ pc = "idle"
  /\ job = NoJob
  /\ lastWrite = NoPath
  /\ mine = {}
  /\ change = NoPath
  /\ excused = {}
  /\ said = ""

-----------------------------------------------------------------------------
(* plat_write_file: what is in f after trying to write c to p.  A failed   *)
(* fopen leaves the file alone, a short fwrite has already truncated it.   *)
Wrote(f, p, c) == [f EXCEPT ![p] = c]
WriteFailures(f, p) == IF Faults THEN {f, [f EXCEPT ![p] = Torn]} ELSE {}

Reply == pc' = "idle" /\ job' = NoJob /\ said' = ""

(* do_edit: an edit finds its text only in a file that is there.           *)
Editable(p) == file[p] # Absent

(* write_file, or an edit that found its text: commit_write reads what is  *)
(* there and repairs the new content.                                      *)
Propose(who, p, c, isEdit) ==
  /\ pc = "idle"
  /\ isEdit => Editable(p)
  /\ pc' = "write"
  /\ job' = [who |-> who, path |-> p, prior |-> file[p],
             content |-> IF p \in Code THEN Repaired[c] ELSE c]
  /\ said' = ""
  /\ UNCHANGED <<file, bak, redo, lastWrite, excused, history>>

NoChange ==
  /\ pc = "write"
  /\ job.content = job.prior
  /\ Reply
  /\ UNCHANGED <<file, bak, redo, lastWrite, excused, history>>

WriteFails ==
  /\ pc = "write"
  /\ job.content # job.prior
  /\ file' \in WriteFailures(file, job.path)
  /\ Reply
  /\ UNCHANGED <<bak, redo, lastWrite, excused, history>>

WriteDone ==
  /\ pc = "write"
  /\ job.content # job.prior
  /\ file' = Wrote(file, job.path, job.content)
  /\ pc' = "verify"
  /\ UNCHANGED <<bak, redo, job, lastWrite, excused, history, said>>

(* verify_write: the balance check decides for every code file, the        *)
(* compiler, when it runs at all, may still object to a C file.            *)
VerifyRejects ==
  /\ pc = "verify"
  /\ job.path \in Code
  /\ job.content \in Unbalanced \/ job.path \in CCode
  /\ pc' = "revert"
  /\ UNCHANGED <<file, bak, redo, job, lastWrite, excused, history, said>>

VerifyAccepts ==
  /\ pc = "verify"
  /\ job.path \in Code => job.content \notin Unbalanced
  /\ pc' = "snapshot"
  /\ UNCHANGED <<file, bak, redo, job, lastWrite, excused, history, said>>

(* Mutant of Revert: a refused new file is not removed.                    *)
RevertKeepsNewFile ==
  /\ pc = "revert"
  /\ file' = IF job.prior = Absent THEN file ELSE Wrote(file, job.path, job.prior)
  /\ Reply
  /\ UNCHANGED <<bak, redo, lastWrite, excused, history>>

Revert ==                  \* or remove(), when the file was not there
  /\ pc = "revert"
  /\ file' = Wrote(file, job.path, job.prior)
  /\ Reply
  /\ UNCHANGED <<bak, redo, lastWrite, excused, history>>

RevertFails ==             \* "WARNING: revert failed"
  /\ pc = "revert"
  /\ file' \in WriteFailures(file, job.path)
  /\ excused' = excused \cup {job.path}
  /\ Reply
  /\ UNCHANGED <<bak, redo, lastWrite, history>>

(* The call has succeeded, and the session whose call it was remembers the *)
(* path, whether or not the snapshot was written.                          *)
Committed(backed) ==
  /\ lastWrite' = IF job.who = "session" THEN job.path ELSE lastWrite
  /\ mine' = IF job.who = "session" THEN mine \cup {job.path} ELSE mine
  /\ change' = IF job.who = "session" \/ job.path = lastWrite
                 THEN [path |-> job.path, before |-> job.prior, backed |-> backed]
                 ELSE change
  /\ Reply
  /\ UNCHANGED <<file, redo, excused>>

(* Mutant of Snapshot: the first backup of a file is kept for good.        *)
SnapshotOnce ==
  /\ pc = "snapshot"
  /\ bak' = IF job.prior = Absent \/ bak[job.path] # Absent THEN bak
            ELSE Wrote(bak, job.path, job.prior)
  /\ Committed(TRUE)

Snapshot ==                \* best effort; a new file has nothing to back up
  /\ pc = "snapshot"
  /\ \/ /\ bak' = IF job.prior = Absent THEN bak ELSE Wrote(bak, job.path, job.prior)
        /\ Committed(TRUE)
     \/ /\ job.prior # Absent
        /\ bak' \in WriteFailures(bak, job.path)
        /\ Committed(FALSE)

-----------------------------------------------------------------------------
(* The user. *)

(* /undo parks the file without looking whether that worked, then restores *)
(* the snapshot; without a snapshot it does nothing.                       *)
Parked(p) ==
  IF file[p] = Absent THEN {redo}
  ELSE {Wrote(redo, p, file[p])} \cup WriteFailures(redo, p)

Undo ==
  /\ pc = "idle"
  /\ lastWrite # NoPath
  /\ bak[lastWrite] # Absent
  /\ redo' \in Parked(lastWrite)
  /\ \/ /\ file' = Wrote(file, lastWrite, bak[lastWrite])
        /\ said' = "reverted"
     \/ /\ file' \in WriteFailures(file, lastWrite)
        /\ said' = "failed"
  /\ UNCHANGED <<bak, pc, job, lastWrite, excused, history>>

Redo ==
  /\ pc = "idle"
  /\ lastWrite # NoPath
  /\ redo[lastWrite] # Absent
  /\ \/ /\ file' = Wrote(file, lastWrite, redo[lastWrite])
        /\ said' = "restored"
     \/ /\ file' \in WriteFailures(file, lastWrite)
        /\ said' = "failed"
  /\ UNCHANGED <<bak, redo, pc, job, lastWrite, excused, history>>

(* Mutant of SwitchConversation: /resume forgets to reset last_write.      *)
SwitchKeepsLastWrite ==
  /\ pc = "idle"
  /\ mine' = {}
  /\ said' = ""
  /\ change' = NoPath
  /\ UNCHANGED <<file, bak, redo, pc, job, excused, lastWrite>>

(* /new, or /resume of another conversation: last_write is forgotten, the  *)
(* snapshots stay.                                                         *)
SwitchConversation ==
  /\ pc = "idle"
  /\ lastWrite' = NoPath
  /\ mine' = {}
  /\ said' = ""
  /\ change' = NoPath
  /\ UNCHANGED <<file, bak, redo, pc, job, excused>>

(* The user, or a command the agent runs, saves or deletes a file.         *)
Save(p, c) ==
  /\ UserSaves = "anytime" \/ (UserSaves = "idle" /\ pc = "idle")
  /\ file' = [file EXCEPT ![p] = c]
  /\ said' = ""
  /\ UNCHANGED <<bak, redo, pc, job, lastWrite, excused, history>>

(* The process dies: a second Ctrl+C, a power cut.                         *)
Die ==
  /\ Deaths
  /\ pc # "dead"
  /\ pc' = "dead"
  /\ excused' = IF pc \in {"verify", "revert"} THEN excused \cup {job.path} ELSE excused
  /\ said' = ""
  /\ UNCHANGED <<file, bak, redo, job, lastWrite, history>>

Restart ==
  /\ pc = "dead"
  /\ Reply
  /\ lastWrite' = NoPath
  /\ mine' = {}
  /\ change' = NoPath
  /\ UNCHANGED <<file, bak, redo, excused>>

Next ==
  \/ \E who \in Who, p \in Files, c \in Contents, isEdit \in BOOLEAN :
       Propose(who, p, c, isEdit)
  \/ NoChange \/ WriteFails \/ WriteDone \/ VerifyRejects \/ VerifyAccepts
  \/ Revert \/ RevertFails \/ Snapshot
  \/ Undo \/ Redo \/ SwitchConversation
  \/ \E p \in Files, c \in UserContents \cup {Absent} : Save(p, c)
  \/ Die \/ Restart

Spec == Init /\ [][Next]_vars

-----------------------------------------------------------------------------
(* Properties *)

(* The guardrail: no code file, and no snapshot of one, holds a content    *)
(* the balance check rejects, except while that content is being verified  *)
(* or where a failed revert has been reported (or the process died before  *)
(* it): not after a refused write, an /undo, a /redo, or any mix of them   *)
(* with the user's own saves (tools.c commit_write).                       *)
InFlight(p) == pc \in {"verify", "revert"} /\ job.path = p

NoUnbalancedCodeLeft ==
  \A p \in Code :
    /\ file[p] \in Unbalanced => p \in excused \/ InFlight(p)
    /\ bak[p] \in Unbalanced => p \in excused
    /\ redo[p] \in Unbalanced => p \in excused

(* /undo brings back what the last overwrite of the file replaced, across  *)
(* refused writes, no-ops, earlier undos and redos, a child's writes, the  *)
(* user's saves, I/O errors other than on that snapshot itself, and a      *)
(* crash with a restart (main.c cmd_undo, tools.c snapshot).               *)
UndoRestoresOverwrite ==
  said = "reverted" /\ change.before # Absent /\ change.backed
    => file[lastWrite] = change.before

(* /undo and /redo touch no file but one this conversation has written: a  *)
(* resumed or a new conversation starts with nothing to undo (agent.c:158, *)
(* "/undo must not target a file from a previous session").                *)
UndoTouchesOwnFilesOnly ==
  [][said' \in {"reverted", "restored", "failed"} =>
       \A p \in Files : file'[p] # file[p] => p \in mine]_vars

-----------------------------------------------------------------------------
(* A statement of a comment that the code does not keep.                   *)

(* main.c:2077 "/undo, /redo: revert / restore the last write or edit": a  *)
(* successful /undo leaves what was there before the file's last write.    *)
UndoRevertsLastWrite ==
  said = "reverted" => file[lastWrite] = change.before
=============================================================================
