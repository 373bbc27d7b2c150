------------------------------ MODULE Session ------------------------------
(***************************************************************************)
(* The conversations of one working directory: main.c as it picks the      *)
(* sandbox folder (--sandbox DIR or "auto"), starts fresh or with          *)
(* --continue, saves after every turn and on /save, loads on /resume and   *)
(* rotates on /new; agent_session_save and _load of core/agent.c; and the  *)
(* clock the folders are named by.  Several terminals may run the program, *)
(* each may spawn a child that works in its folder, any may be killed.     *)
(*                                                                         *)
(* A history is the folder it was begun in and its version: the number the *)
(* turn that ended with it has among all turns, 0 for none.  A file that   *)
(* is open for writing is Torn, and parses as nothing.                     *)
(***************************************************************************)
EXTENDS Naturals, Sequences

CONSTANTS
  Terminals,     \* processes a user starts
  Kids,          \* processes agent_run_parallel starts: --depth 1
  AutoDir,       \* --sandbox auto
  Local,         \* localtime, as a function on the seconds
  MaxTries,      \* names tried for one second, 100 in the code
  SessionNames,  \* what the user calls a saved session; "last" is autosave's
  MaxTurns,      \* bound of the model: turns of all processes
  MaxFolders     \* bound of the model: sandbox folders made

ASSUME SessionAssumption ==
  /\ Terminals \cap Kids = {}
  /\ AutoDir \in BOOLEAN
  /\ 0 \in DOMAIN Local /\ \A t \in DOMAIN Local : t \in Nat /\ Local[t] \in Nat
  /\ MaxTries \in 1 .. 100
  /\ "last" \in SessionNames
  /\ MaxTurns \in Nat /\ MaxFolders \in Nat

VARIABLES
  now,       \* the second
  made,      \* the sandbox folders, in the order they were made
  saved,     \* the saved sessions of each folder, by name
  proc,      \* the processes
  turns,     \* turns ended
  due,       \* history variable: what --continue may find in a folder, that
             \* is the conversation as of its last turn
  resumed    \* history variable: what the last --continue found, what it might
             \* have, and whether the file was one a death had left half-written

vars == <<now, made, saved, proc, turns, due, resumed>>

Processes == Terminals \cup Kids
Stamped == [stamp : {Local[t] : t \in DOMAIN Local}, k : 1 .. MaxTries]
Overflow == [stamp |-> 0, k |-> 101]          \* anachron-sessions/overflow
Fixed == [stamp |-> 0, k |-> 0]               \* the one --sandbox names
Folders == IF AutoDir THEN Stamped \cup {Overflow} ELSE {Fixed}

Histories == [home : Folders, ver : 0 .. MaxTurns]
Fresh(dir) == [home |-> dir, ver |-> 0]
NoFile == [file |-> "none"]
Torn == [file |-> "torn"]

Off == [pc |-> "off"]
At(pc, dir, h) == [pc |-> pc, dir |-> dir, hist |-> h]

TypeOK ==
  /\ now \in DOMAIN Local
  /\ made \in Seq(Folders)
  /\ saved \in [Folders \X SessionNames -> Histories \cup {NoFile, Torn}]
  /\ proc \in [Processes -> {Off} \cup
        [pc : {"make", "prompt", "turn", "open", "write"}, dir : Folders, hist : Histories]]
  /\ turns \in 0 .. MaxTurns
  /\ due \in [Folders -> SUBSET Histories]
  /\ resumed \in [found : Histories, due : SUBSET Histories, torn : BOOLEAN]

Init ==
  /\ now = 0
  /\ made = IF AutoDir THEN <<>> ELSE <<Fixed>>
  /\ saved = [x \in Folders \X SessionNames |-> NoFile]
  /\ proc = [p \in Processes |-> Off]
  /\ turns = 0
  /\ due = [f \in Folders |-> {Fresh(f)}]
  /\ \E f \in Folders : resumed = [found |-> Fresh(f), due |-> {Fresh(f)}, torn |-> FALSE]

-----------------------------------------------------------------------------
(* Folders. *)

Exists(f) == \E j \in DOMAIN made : made[j] = f

(* strcmp on <stamp>, <stamp>-2, ... <stamp>-100, and "overflow".          *)
SuffixRank(k) ==
  IF k = 1 THEN 0 ELSE IF k < 10 THEN 100 * k ELSE IF k < 100 THEN 10 * k ELSE 101

SortsAfter(f, g) ==
  /\ g # Overflow
  /\ \/ f = Overflow
     \/ f.stamp > g.stamp
     \/ f.stamp = g.stamp /\ SuffixRank(f.k) > SuffixRank(g.k)

LastByName(f) == Exists(f) /\ \A j \in DOMAIN made : made[j] # f => SortsAfter(f, made[j])

(* The first name of this second that is not taken, or the shared one.     *)
Candidate(f) ==
  LET Name(k) == [stamp |-> Local[now], k |-> k]
      Taken(k) == Exists(Name(k))
  IN  \/ \E k \in 1 .. MaxTries :
           f = Name(k) /\ ~Taken(k) /\ \A j \in 1 .. k - 1 : Taken(j)
      \/ f = Overflow /\ \A k \in 1 .. MaxTries : Taken(k)

Set(p, state) == proc' = [proc EXCEPT ![p] = state]

(* sandbox_auto_dir picks a name that does not exist ...                   *)
PickFolder(p) ==
  /\ Len(made) < MaxFolders
  /\ \E f \in Folders : Candidate(f) /\ Set(p, At("make", f, Fresh(f)))

(* ... and makes it; plat_mkdir is content with a folder that exists now.  *)
MakeFolder(p) ==
  LET f == proc[p].dir IN
  /\ proc[p].pc = "make"
  /\ made' = IF Exists(f) THEN made ELSE Append(made, f)
  /\ Set(p, At("prompt", f, Fresh(f)))
  /\ UNCHANGED <<now, saved, turns, due, resumed>>

-----------------------------------------------------------------------------
(* Starting, /new, /resume and quitting. *)

Start(p) ==
  /\ p \in Terminals
  /\ proc[p] = Off
  /\ IF AutoDir THEN PickFolder(p) ELSE Set(p, At("prompt", Fixed, Fresh(Fixed)))
  /\ UNCHANGED <<now, made, saved, turns, due, resumed>>

(* agent_session_load: a file that is not there or does not parse leaves   *)
(* the session as it is.                                                   *)
Loaded(file, h) == IF file \in Histories THEN file ELSE h

(* --continue in the folder that sorts last, or in the given one; without  *)
(* any folder it is a fresh start.  (In print mode the turn comes next.)   *)
Continue(p) ==
  /\ p \in Terminals
  /\ proc[p] = Off
  /\ made # <<>>
  /\ \E f \in Folders :
       LET h == Loaded(saved[<<f, "last">>], Fresh(f)) IN
       /\ IF AutoDir THEN LastByName(f) ELSE f = Fixed
       /\ Set(p, At("prompt", f, h))
       /\ resumed' = [found |-> h, due |-> due[made[Len(made)]],
                     torn |-> saved[<<f, "last">>] = Torn]
  /\ UNCHANGED <<now, made, saved, turns, due>>

(* Mutant of New: the folder is rotated, the history is not cleared.       *)
NewKeepsHistory(p) ==
  /\ proc[p].pc = "prompt"
  /\ p \in Terminals
  /\ IF AutoDir
       THEN /\ Len(made) < MaxFolders
            /\ \E f \in Folders :
                 /\ Candidate(f)
                 /\ Set(p, At("prompt", f, proc[p].hist))
                 /\ made' = Append(made, f)
       ELSE Set(p, At("prompt", Fixed, Fresh(Fixed))) /\ UNCHANGED made
  /\ UNCHANGED <<now, saved, turns, due, resumed>>

New(p) ==
  /\ proc[p].pc = "prompt"
  /\ p \in Terminals
  /\ IF AutoDir THEN PickFolder(p) ELSE Set(p, At("prompt", Fixed, Fresh(Fixed)))
  /\ UNCHANGED <<now, made, saved, turns, due, resumed>>

(* Mutant of Resume: the history is freed before the file is looked at.    *)
ResumeFreesFirst(p, name) ==
  LET dir == proc[p].dir IN
  /\ proc[p].pc = "prompt"
  /\ p \in Terminals
  /\ Set(p, At("prompt", dir, Loaded(saved[<<dir, name>>], Fresh(dir))))
  /\ UNCHANGED <<now, made, saved, turns, due, resumed>>

Resume(p, name) ==
  LET dir == proc[p].dir IN
  /\ proc[p].pc = "prompt"
  /\ p \in Terminals
  /\ Set(p, At("prompt", dir, Loaded(saved[<<dir, name>>], proc[p].hist)))
  /\ UNCHANGED <<now, made, saved, turns, due, resumed>>

Quit(p) ==
  /\ proc[p].pc = "prompt"
  /\ Set(p, Off)
  /\ UNCHANGED <<now, made, saved, turns, due, resumed>>

-----------------------------------------------------------------------------
(* Turns and saves. *)

StartTurn(p) ==
  /\ proc[p].pc = "prompt"
  /\ Set(p, [proc[p] EXCEPT !.pc = "turn"])
  /\ UNCHANGED <<now, made, saved, turns, due, resumed>>

(* A turn spawns a child that works in the same folder.                    *)
StartKid(p, kid) ==
  /\ kid \in Kids
  /\ p \in Terminals
  /\ proc[p].pc = "turn"
  /\ proc[kid] = Off
  /\ Set(kid, At("turn", proc[p].dir, Fresh(proc[p].dir)))
  /\ UNCHANGED <<now, made, saved, turns, due, resumed>>

Ended(p) == [home |-> proc[p].hist.home, ver |-> turns + 1]

(* Mutant of TurnEnds: a child saves its conversation as well.             *)
TurnEndsSaves(p) ==
  /\ proc[p].pc = "turn"
  /\ turns < MaxTurns
  /\ turns' = turns + 1
  /\ Set(p, [proc[p] EXCEPT !.pc = "open", !.hist = Ended(p)])
  /\ due' = IF p \in Kids THEN due ELSE [due EXCEPT ![proc[p].dir] = @ \cup {Ended(p)}]
  /\ UNCHANGED <<now, made, saved, resumed>>

(* However it ended; a child prints its report and exits.  Until the file  *)
(* is written, the turn before is what a crash leaves.                     *)
TurnEnds(p) ==
  /\ proc[p].pc = "turn"
  /\ turns < MaxTurns
  /\ turns' = turns + 1
  /\ IF p \in Kids
       THEN Set(p, Off) /\ UNCHANGED due
       ELSE /\ Set(p, [proc[p] EXCEPT !.pc = "open", !.hist = Ended(p)])
            /\ due' = [due EXCEPT ![proc[p].dir] = @ \cup {Ended(p)}]
  /\ UNCHANGED <<now, made, saved, resumed>>

(* session_autosave: fopen("wb") has truncated the file before a byte of   *)
(* the new one is in it.                                                   *)
OpenLast(p) ==
  /\ proc[p].pc = "open"
  /\ saved' = [saved EXCEPT ![<<proc[p].dir, "last">>] = Torn]
  /\ Set(p, [proc[p] EXCEPT !.pc = "write"])
  /\ UNCHANGED <<now, made, turns, due, resumed>>

WriteLast(p) ==
  /\ proc[p].pc = "write"
  /\ saved' = [saved EXCEPT ![<<proc[p].dir, "last">>] = proc[p].hist]
  /\ due' = IF p \in Kids THEN due ELSE [due EXCEPT ![proc[p].dir] = {proc[p].hist}]
  /\ Set(p, [proc[p] EXCEPT !.pc = "prompt"])
  /\ UNCHANGED <<now, made, turns, resumed>>

(* /save under another name, opened and written.                           *)
Save(p, name) ==
  /\ p \in Terminals
  /\ proc[p].pc = "prompt"
  /\ name # "last"
  /\ saved' = [saved EXCEPT ![<<proc[p].dir, name>>] = proc[p].hist]
  /\ UNCHANGED <<now, made, proc, turns, due, resumed>>

(* /save and /save last.                                                   *)
SaveLast(p) ==
  /\ p \in Terminals
  /\ proc[p].pc = "prompt"
  /\ due' = [due EXCEPT ![proc[p].dir] = @ \cup {proc[p].hist}]
  /\ Set(p, [proc[p] EXCEPT !.pc = "open"])
  /\ UNCHANGED <<now, made, saved, turns, resumed>>

Die(p) ==
  /\ proc[p] # Off
  /\ Set(p, Off)
  /\ UNCHANGED <<now, made, saved, turns, due, resumed>>

Tick ==
  /\ now + 1 \in DOMAIN Local
  /\ now' = now + 1
  /\ UNCHANGED <<made, saved, proc, turns, due, resumed>>

Next ==
  \/ \E p \in Processes :
       \/ Start(p) \/ Continue(p) \/ MakeFolder(p) \/ New(p) \/ Quit(p)
       \/ StartTurn(p) \/ TurnEnds(p) \/ OpenLast(p) \/ WriteLast(p) \/ SaveLast(p)
       \/ Die(p)
       \/ \E kid \in Kids : StartKid(p, kid)
       \/ \E name \in SessionNames : Resume(p, name) \/ Save(p, name)
  \/ Tick

Spec == Init /\ [][Next]_vars

-----------------------------------------------------------------------------
(* Properties *)

(* --continue picks up the conversation the user had last, as of its last  *)
(* turn or, when that could not be saved, the turn before: after a quit or *)
(* a kill, whatever /new, /save, /resume and children came in between,     *)
(* unless the kill hit the very write of that file (main.c                 *)
(* session_autosave, session_autoload, sandbox_latest_dir).                *)
ContinueFindsLatest == resumed.torn \/ resumed.found \in resumed.due

(* "so one session's files ... never haunt the next": a conversation stays *)
(* in its folder, at the prompt, in a child and in every saved session.    *)
HistoriesStayHome ==
  /\ \A p \in Processes : proc[p] # Off => proc[p].hist.home = proc[p].dir
  /\ \A f \in Folders, name \in SessionNames :
       saved[<<f, name>>] \in Histories => saved[<<f, name>>].home = f

(* A /resume that fails, on a file that is not there or that another       *)
(* process is writing or left half-written, does not cost the user the     *)
(* conversation at the prompt (agent.c:144-161).                           *)
ResumeLosesNothing ==
  [][\A p \in Terminals, name \in SessionNames :
       proc[p].pc = "prompt" /\ Resume(p, name) =>
         proc'[p].hist \in {proc[p].hist, saved[<<proc[p].dir, name>>]}]_vars

=============================================================================
