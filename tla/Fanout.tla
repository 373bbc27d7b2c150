------------------------------- MODULE Fanout -------------------------------
(***************************************************************************)
(* The parallel sub-agents: agent_run_parallel of core/agent.c with        *)
(* plat_spawn and plat_wait_all of platform_posix.c.  The parent writes a  *)
(* task file and spawns a shell for every task, waits for the processes    *)
(* one after the other, then collects the reports and removes the scratch  *)
(* files, whose names are the same in every batch.                         *)
(*                                                                         *)
(* A child's shell opens its task file and then creates its report file    *)
(* when it gets to run; the report is there when the child ends.  A file   *)
(* that was removed under a child is still written to, for nobody to read. *)
(* The .err file is created and removed with the report file.              *)
(***************************************************************************)
EXTENDS Naturals

CONSTANTS
  MaxTasks,     \* AGENT_MAX_PAR
  MaxBatches,   \* bound of the model: calls of the batch form
  Faults        \* TRUE: a task file may not be written, a fork may fail

ASSUME FanoutAssumption ==
  /\ MaxTasks \in Nat \ {0}
  /\ MaxBatches \in Nat
  /\ Faults \in BOOLEAN

Slots == 1 .. MaxTasks
Batches == 1 .. MaxBatches

VARIABLES
  pc,         \* the parent: "idle", "write", "spawn", "wait" or "collect"
  batch,      \* the batch it is in or has been in last
  n,          \* the number of its tasks
  i,          \* the loop variable of the three loops
  launched,   \* the children of the batch that were spawned
  codes,      \* the exit codes plat_wait_all has filled in
  fed,        \* the combined observation, by task
  task,       \* the task files: whose batch's task is in them
  out,        \* the report files: which file it is, what is in it
  child,      \* the child processes of all batches
  clean       \* history variable: no Ctrl+C in this batch, nothing that an
              \* earlier one left behind when it began

vars == <<pc, batch, n, i, launched, codes, fed, task, out, child, clean>>

NoFile == [file |-> "none"]
Torn == [file |-> "torn"]
TaskOf(b) == [of |-> b]
NotStarted == [answer |-> "could not be started"]
Unknown == "-1"
ExitCodes == {"0", "1", Unknown}       \* Unknown: a signal, or no waitpid

Tasks == [of : Batches]
Reports == [child : Batches \X Slots, task : Tasks]
ReportFile == [made : Batches, text : SUBSET Reports]
Fed == [text : SUBSET Reports, code : ExitCodes]

Unborn == [st |-> "none"]
Forked == [st |-> "forked"]
Opened(read) == [st |-> "opened", read |-> read]
Running(read, made) == [st |-> "running", read |-> read, made |-> made]
Exited(code, report) == [st |-> "exited", code |-> code, report |-> report]
Processes ==
  {Unborn, Forked}
    \cup [st : {"opened"}, read : Tasks \cup {Torn}]
    \cup [st : {"running"}, read : Tasks \cup {Torn}, made : Batches]
    \cup [st : {"exited"}, code : ExitCodes, report : SUBSET Reports]

TypeOK ==
  /\ pc \in {"idle", "write", "spawn", "wait", "collect"}
  /\ batch \in 0 .. MaxBatches
  /\ n \in 0 .. MaxTasks
  /\ i \in Slots
  /\ launched \in 0 .. MaxTasks
  /\ codes \in [Slots -> ExitCodes]
  /\ fed \in [Slots -> Fed \cup {NotStarted}]
  /\ task \in [Slots -> Tasks \cup {Torn, NoFile}]
  /\ out \in [Slots -> ReportFile \cup {NoFile}]
  /\ child \in [Batches \X Slots -> Processes]
  /\ clean \in BOOLEAN

Init ==
  /\ pc = "idle"
  /\ batch = 0 /\ n = 0 /\ i = 1 /\ launched = 0
  /\ codes = [s \in Slots |-> Unknown]
  /\ fed = [s \in Slots |-> NotStarted]
  /\ task = [s \in Slots |-> NoFile]
  /\ out = [s \in Slots |-> NoFile]
  /\ child = [p \in Batches \X Slots |-> Unborn]
  /\ clean = TRUE

-----------------------------------------------------------------------------
(* The parent. *)

Ended(p) == child[p].st \in {"none", "exited"}

NothingLeft ==
  /\ \A p \in DOMAIN child : Ended(p)
  /\ \A s \in Slots : task[s] = NoFile /\ out[s] = NoFile

Begin ==
  /\ pc = "idle"
  /\ batch < MaxBatches
  /\ batch' = batch + 1
  /\ n' \in Slots
  /\ pc' = "write"
  /\ i' = 1
  /\ launched' = 0
  /\ codes' = [s \in Slots |-> Unknown]
  /\ fed' = [s \in Slots |-> NotStarted]
  /\ clean' = NothingLeft
  /\ UNCHANGED <<task, out, child>>

(* Mutant of FannedOut: nobody is waited for.                              *)
FannedOutOnly(count) == pc' = "collect" /\ i' = 1

(* The fan-out loop is over, or broken off.                                *)
FannedOut(count) ==
  /\ pc' = IF count > 0 THEN "wait" ELSE "collect"
  /\ i' = 1

WriteTask ==
  /\ pc = "write"
  /\ task' = [task EXCEPT ![i] = TaskOf(batch)]
  /\ pc' = "spawn"
  /\ UNCHANGED <<batch, n, i, launched, codes, fed, out, child, clean>>

WriteTaskFails ==
  /\ Faults
  /\ pc = "write"
  /\ task' \in {task, [task EXCEPT ![i] = Torn]}
  /\ FannedOut(launched)
  /\ UNCHANGED <<batch, n, launched, codes, fed, out, child, clean>>

Spawn ==
  /\ pc = "spawn"
  /\ child' = [child EXCEPT ![<<batch, i>>] = Forked]
  /\ launched' = launched + 1
  /\ IF i < n THEN pc' = "write" /\ i' = i + 1
              ELSE FannedOut(launched + 1)
  /\ UNCHANGED <<batch, n, codes, fed, task, out, clean>>

SpawnFails ==
  /\ Faults
  /\ pc = "spawn"
  /\ FannedOut(launched)
  /\ UNCHANGED <<batch, n, launched, codes, fed, task, out, child, clean>>

(* Mutant of Waited: all the tasks are waited for, launched or not.        *)
WaitedForTasks(code) ==
  /\ codes' = [codes EXCEPT ![i] = code]
  /\ IF i < n THEN i' = i + 1 /\ UNCHANGED pc
              ELSE i' = 1 /\ pc' = "collect"
  /\ UNCHANGED <<batch, n, launched, fed, task, out, child>>

Waited(code) ==
  /\ codes' = [codes EXCEPT ![i] = code]
  /\ IF i < launched THEN i' = i + 1 /\ UNCHANGED pc
                     ELSE i' = 1 /\ pc' = "collect"
  /\ UNCHANGED <<batch, n, launched, fed, task, out, child>>

(* Mutant of Wait: the first child to end is taken for all of them.        *)
WaitForAny ==
  /\ pc = "wait"
  /\ \E s \in 1 .. launched :
       /\ child[<<batch, s>>].st = "exited"
       /\ Waited(child[<<batch, s>>].code)
       /\ UNCHANGED clean

(* waitpid for one child after the other.                                  *)
Wait ==
  /\ pc = "wait"
  /\ child[<<batch, i>>].st = "exited"
  /\ Waited(child[<<batch, i>>].code)
  /\ UNCHANGED clean

(* SIGINT is caught without SA_RESTART: a waitpid that blocks returns, and *)
(* the loop takes the child for ended.  (A second Ctrl+C kills the parent: *)
(* module AgentTurn.)                                                      *)
WaitInterrupted ==
  /\ pc = "wait"
  /\ child[<<batch, i>>].st # "exited"
  /\ Waited(Unknown)
  /\ clean' = FALSE

InFile(s) == IF out[s] = NoFile THEN {} ELSE out[s].text

Answer(s) ==
  IF s > launched THEN NotStarted ELSE [text |-> InFile(s), code |-> codes[s]]

(* Mutant of Collect: only what was launched is cleaned up.                *)
CollectLaunched ==
  /\ pc = "collect"
  /\ fed' = [fed EXCEPT ![i] = Answer(i)]
  /\ task' = IF i > launched THEN task ELSE [task EXCEPT ![i] = NoFile]
  /\ out' = [out EXCEPT ![i] = NoFile]
  /\ IF i < n THEN i' = i + 1 /\ UNCHANGED pc
              ELSE i' = 1 /\ pc' = "idle"
  /\ UNCHANGED <<batch, n, launched, codes, child, clean>>

Collect ==
  /\ pc = "collect"
  /\ fed' = [fed EXCEPT ![i] = Answer(i)]
  /\ task' = [task EXCEPT ![i] = NoFile]
  /\ out' = [out EXCEPT ![i] = NoFile]
  /\ IF i < n THEN i' = i + 1 /\ UNCHANGED pc
              ELSE i' = 1 /\ pc' = "idle"
  /\ UNCHANGED <<batch, n, launched, codes, child, clean>>

Parent == WriteTask \/ Spawn \/ Wait \/ Collect
Trouble == WriteTaskFails \/ SpawnFails \/ WaitInterrupted

-----------------------------------------------------------------------------
(* A child: a shell with its redirections, then `anachron -p` in its place. *)

Become(b, s, p) ==
  /\ child' = [child EXCEPT ![<<b, s>>] = p]
  /\ UNCHANGED <<pc, batch, n, i, launched, codes, fed, task, clean>>

OpenTask(b, s) ==
  /\ child[<<b, s>>] = Forked
  /\ task[s] # NoFile
  /\ Become(b, s, Opened(task[s]))
  /\ UNCHANGED out

CreateReport(b, s) ==               \* or truncate the one that is there
  LET made == IF out[s] = NoFile THEN b ELSE out[s].made IN
  /\ child[<<b, s>>].st = "opened"
  /\ out' = [out EXCEPT ![s] = [made |-> made, text |-> {}]]
  /\ Become(b, s, Running(child[<<b, s>>].read, made))

NoTask(b, s) ==                     \* "cannot open ...": the shell ends
  /\ child[<<b, s>>] = Forked
  /\ task[s] = NoFile
  /\ Become(b, s, Exited("1", {}))
  /\ UNCHANGED out

(* What a child writes goes to the file it has open, wherever that is.     *)
Report(b, s) ==
  /\ child[<<b, s>>].st = "running"
  /\ child[<<b, s>>].read # Torn
  /\ LET r == [child |-> <<b, s>>, task |-> child[<<b, s>>].read] IN
       /\ out' = IF out[s] # NoFile /\ out[s].made = child[<<b, s>>].made
                   THEN [out EXCEPT ![s].text = @ \cup {r}] ELSE out
       /\ Become(b, s, Exited("0", {r}))

Fail(b, s) ==                       \* no report: a cap, an error, a signal
  /\ child[<<b, s>>].st \in {"forked", "opened", "running"}
  /\ \E code \in {"1", Unknown} : Become(b, s, Exited(code, {}))
  /\ UNCHANGED out

Child(b, s) ==
  OpenTask(b, s) \/ NoTask(b, s) \/ CreateReport(b, s) \/ Report(b, s) \/ Fail(b, s)

-----------------------------------------------------------------------------
Terminated ==
  /\ pc = "idle" /\ batch = MaxBatches
  /\ UNCHANGED vars

Next ==
  \/ Begin \/ Parent \/ Trouble
  \/ \E b \in Batches, s \in Slots : Child(b, s)
  \/ Terminated

(* The parent waits for nothing but its children, and a child, which has   *)
(* no terminal to ask at and a cap on its turn, ends.                      *)
Spec ==
  /\ Init /\ [][Next]_vars
  /\ WF_vars(Parent)
  /\ \A b \in Batches, s \in Slots : WF_vars(Child(b, s))

-----------------------------------------------------------------------------
(* Properties *)

Returned == pc = "idle" /\ batch > 0

(* The observation tells every task's own story: the report its own child  *)
(* wrote about it, or how that child ended, or that it was never started,  *)
(* in whatever order the children ended and wherever the fan-out broke     *)
(* off, although the files of all batches have the same names and an       *)
(* interrupted batch may have left any of its own behind.                  *)
ReportsAreOwn ==
  Returned /\ clean =>
    \A s \in 1 .. n :
      LET p == child[<<batch, s>>] IN
      IF p = Unborn
        THEN fed[s] = NotStarted
        ELSE /\ p.st = "exited"
             /\ fed[s] = [text |-> p.report, code |-> p.code]
             /\ \A r \in p.report : r.task = TaskOf(batch)

(* "Scratch files ... are cleaned up afterwards": a batch nobody           *)
(* interrupted leaves none in the user's directory, also when it could not *)
(* be launched (agent.c agent_run_parallel).                               *)
ScratchCleared ==
  Returned /\ clean => \A s \in 1 .. n : task[s] = NoFile /\ out[s] = NoFile

(* Nothing works on in the user's directory once a batch has returned that *)
(* nobody interrupted (platform_posix.c plat_wait_all).                    *)
NoChildLeftWorking == Returned /\ clean => \A p \in DOMAIN child : Ended(p)

(* A batch returns, whatever its children and the user do.                 *)
BatchReturns == pc # "idle" ~> pc = "idle"

-----------------------------------------------------------------------------
(* A statement of a comment that the code does not keep.                   *)

(* platform.h:103 plat_wait_all "Wait for every spawned handle to exit".   *)
EveryChildIsWaitedFor ==
  Returned => \A s \in Slots : Ended(<<batch, s>>)
=============================================================================
