----------------------------- MODULE SelfUpdate -----------------------------
(***************************************************************************)
(* /update in main.c: a newer executable is looked for near the program    *)
(* and, on Windows, at GitHub; it has to run and say its version; then the *)
(* running file is renamed to anachron-old.exe and the new one written in  *)
(* its place.  Any step may fail and the process may die at any of them;   *)
(* the next start removes anachron-old.exe.                                *)
(*                                                                         *)
(* An executable is its version and whether it is whole.  A running one    *)
(* cannot be removed or replaced on Windows, where the program's own path  *)
(* stays what it was; on POSIX /proc/self/exe follows the file.            *)
(***************************************************************************)
EXTENDS Naturals

CONSTANTS
  Versions,      \* the first is what is installed
  Names,         \* versions that candidate files bear in their name
  MaxUpdates     \* bound of the model: /update commands

ASSUME UpdateAssumption ==
  /\ Versions \subseteq Nat \ {0} /\ 1 \in Versions
  /\ Names \subseteq Versions
  /\ MaxUpdates \in Nat

VARIABLES
  windows,     \* the platform
  self, old,   \* the executable and anachron-old.exe
  cands,       \* anachron-X.Y.Z*.exe in updates/ and the current folder
  session,     \* the version of the running program, 0 when none runs
  image,       \* where its file is: "self", "old" or "gone"
  pc,          \* the next step of cmd_update
  pick,        \* the name chosen
  bytes,         \* the candidate's bytes, as read
  told,        \* the last message: [what, ver]
  before,      \* history variable: `self` when the command was given
  unrestored,  \* history variable: a failed restore
  updates

vars == <<windows, self, old, cands, session, image, pc, pick, bytes, told,
          before, unrestored, updates>>
Files == <<self, old, cands>>
Rest == <<windows, session, before, unrestored, updates>>

Exe(v) == [there |-> TRUE, whole |-> TRUE, ver |-> v]
Torn == [there |-> TRUE, whole |-> FALSE, ver |-> 0]
Absent == [there |-> FALSE, whole |-> FALSE, ver |-> 0]
Quiet == [what |-> "quiet", ver |-> 0]

Init ==
  /\ windows \in BOOLEAN
  /\ self = Exe(1) /\ old = Absent
  /\ cands = [n \in Names |-> Absent]
  /\ session = 0 /\ image = "self"
  /\ pc = "prompt" /\ pick = 0 /\ bytes = Absent /\ told = Quiet
  /\ before = self /\ unrestored = FALSE /\ updates = 0

Start ==                     \* only a whole executable runs and cleans up
  /\ session = 0
  /\ self.whole
  /\ session' = self.ver
  /\ image' = "self"
  /\ old' \in {Absent, old}
  /\ told' = Quiet
  /\ UNCHANGED <<windows, self, cands, pc, pick, bytes, before, unrestored, updates>>

Die ==                       \* /quit, a kill, a crash
  /\ session # 0
  /\ session' = 0
  /\ pc' = "prompt" /\ pick' = 0 /\ bytes' = Absent /\ told' = Quiet
  /\ UNCHANGED <<windows, Files, image, before, unrestored, updates>>

(* The user copies a file into place: until the copy is done it is torn.   *)
(* A name may lie about the version.  None is replaced during an /update.  *)
DropIn(n, f) ==
  /\ pc = "prompt" \/ ~cands[n].whole
  /\ f \in {Torn} \cup {Exe(v) : v \in Versions}
  /\ cands' = [cands EXCEPT ![n] = f]
  /\ UNCHANGED <<windows, self, old, session, image, pc, pick, bytes, told, before,
                 unrestored, updates>>

Update ==
  /\ session # 0
  /\ pc = "prompt"
  /\ updates < MaxUpdates
  /\ updates' = updates + 1
  /\ pc' = "scan"
  /\ before' = self
  /\ told' = Quiet
  /\ UNCHANGED <<windows, Files, session, image, pick, bytes, unrestored>>

Say(what, v) ==
  /\ pc' = "prompt"
  /\ told' = [what |-> what, ver |-> v]

Newer == {n \in Names : cands[n].there /\ n > session}

Scan ==                      \* the newest name wins
  /\ pc = "scan"
  /\ \E n \in Newer : (\A m \in Newer : m <= n) /\ pick' = n
  /\ pc' = "validate"
  /\ UNCHANGED <<Files, image, bytes, told, Rest>>

NothingFound ==              \* POSIX; or GitHub has nothing newer, or fails
  /\ pc = "scan"
  /\ Newer = {}
  /\ Say("none", 0)
  /\ UNCHANGED <<Files, image, pick, bytes, Rest>>

Fetch(n, f) ==               \* a truncated download over 1 KB is kept too
  /\ pc = "scan"
  /\ windows
  /\ Newer = {} /\ n > session
  /\ f \in {Exe(n), Torn}
  /\ cands' = [cands EXCEPT ![n] = f]
  /\ pick' = n
  /\ pc' = "validate"
  /\ UNCHANGED <<self, old, image, bytes, told, Rest>>

Candidate == cands[pick]

(* Mutant of Validate: the name of the file is believed.                   *)
ValidateByName ==
  /\ pc = "validate"
  /\ Candidate.whole /\ pick > session
  /\ pc' = "read"
  /\ UNCHANGED <<Files, image, pick, bytes, told, Rest>>

Validate ==                  \* the binary's own answer is the truth
  /\ pc = "validate"
  /\ Candidate.whole /\ Candidate.ver > session
  /\ pc' = "read"
  /\ UNCHANGED <<Files, image, pick, bytes, told, Rest>>

Invalid ==
  /\ pc = "validate"
  /\ ~(Candidate.whole /\ Candidate.ver > session)
  /\ Say("unfit", 0)
  /\ UNCHANGED <<Files, image, pick, bytes, Rest>>

Read ==
  /\ pc = "read"
  /\ bytes' = Candidate
  /\ pc' = "remove"
  /\ UNCHANGED <<Files, image, pick, told, Rest>>

ReadFails ==                 \* or its own path cannot be had
  /\ pc = "read"
  /\ Say("unread", 0)
  /\ UNCHANGED <<Files, image, pick, bytes, Rest>>

SelfPath == IF windows THEN "self" ELSE image

RemoveOld ==                 \* remove(oldp); the result is not looked at
  /\ pc = "remove"
  /\ IF windows /\ image = "old"
     THEN UNCHANGED <<old, image>>
     ELSE /\ old' \in {Absent} \cup (IF windows THEN {old} ELSE {})
          /\ image' = IF image = "old" THEN "gone" ELSE image
  /\ pc' = "move"
  /\ UNCHANGED <<self, cands, pick, bytes, told, Rest>>

CanMove == SelfPath = "self" /\ self.there /\ ~(windows /\ image = "old")

(* Mutant of MoveAside: the running file is removed instead of renamed.    *)
MoveAsideRemoves ==
  /\ pc = "move"
  /\ CanMove
  /\ self' = Absent
  /\ image' = IF image = "self" THEN "gone" ELSE image
  /\ pc' = "open"
  /\ UNCHANGED <<old, cands, pick, bytes, told, Rest>>

MoveAside ==
  /\ pc = "move"
  /\ CanMove
  /\ old' = self /\ self' = Absent
  /\ image' = IF image = "self" THEN "old" ELSE image
  /\ pc' = "open"
  /\ UNCHANGED <<cands, pick, bytes, told, Rest>>

MoveFails ==
  /\ pc = "move"
  /\ Say("unmoved", 0)
  /\ UNCHANGED <<Files, image, pick, bytes, Rest>>

OpenNew ==                   \* fopen "wb"
  /\ pc = "open"
  /\ self' = Torn
  /\ pc' = "write"
  /\ UNCHANGED <<old, cands, image, pick, bytes, told, Rest>>

WriteNew ==
  /\ pc = "write"
  /\ self' = bytes
  /\ Say("updated", Candidate.ver)
  /\ UNCHANGED <<old, cands, image, pick, bytes, Rest>>

WriteFails ==
  /\ pc \in {"open", "write"}
  /\ pc' = "restore"
  /\ UNCHANGED <<Files, image, pick, bytes, told, Rest>>

Restore ==                   \* the result is not looked at either
  /\ pc = "restore"
  /\ \/ /\ self' = old /\ old' = Absent
        /\ image' = IF image = "old" THEN "self" ELSE image
        /\ UNCHANGED unrestored
     \/ /\ unrestored' = TRUE
        /\ UNCHANGED <<self, old, image>>
  /\ Say("restored", 0)
  /\ UNCHANGED <<cands, pick, bytes, windows, session, before, updates>>

Next ==
  \/ Start \/ Die
  \/ \E n \in Names : \E f \in {Torn} \cup {Exe(v) : v \in Versions} :
       DropIn(n, f) \/ Fetch(n, f)
  \/ Update \/ Scan \/ NothingFound
  \/ Validate \/ Invalid \/ Read \/ ReadFails
  \/ RemoveOld \/ MoveAside \/ MoveFails
  \/ OpenNew \/ WriteNew \/ WriteFails \/ Restore

Spec == Init /\ [][Next]_vars
-----------------------------------------------------------------------------
Exes == {Absent, Torn} \cup {Exe(v) : v \in Versions}

TypeOK ==
  /\ windows \in BOOLEAN
  /\ self \in Exes /\ old \in Exes /\ bytes \in Exes /\ before \in Exes
  /\ cands \in [Names -> Exes]
  /\ session \in Versions \cup {0}
  /\ image \in {"self", "old", "gone"}
  /\ pc \in {"prompt", "scan", "validate", "read", "remove", "move", "open",
             "write", "restore"}
  /\ pick \in Names \cup {0}
  /\ told.ver \in Versions \cup {0}
  /\ unrestored \in BOOLEAN
  /\ updates \in 0 .. MaxUpdates

(* Whatever fails and whenever the process dies, a whole executable is     *)
(* left under one of the two names: cmd_update renames before it writes,   *)
(* and only an executable that runs removes the old one.  The exception is *)
(* a POSIX session whose restore failed: its own path is now the old       *)
(* file's, and the next /update removes that file as a stale leftover.     *)
ProgramRemains == self.whole \/ old.whole \/ (unrestored /\ ~windows)

(* What /update says is so: "Updated to X" means that X is in place, whole *)
(* and newer than the program that runs; after any other ending the        *)
(* executable is the one that was there before.  (After a restore that     *)
(* failed the message is wrong.)                                           *)
TellsTheTruth ==
  session # 0 /\ pc = "prompt" /\ told.what # "quiet" =>
    IF told.what = "updated"
    THEN self = Exe(told.ver) /\ told.ver > session
    ELSE self = before \/ unrestored
=============================================================================
