---------------------------- MODULE FanoutProofs ----------------------------
(***************************************************************************)
(* Proofs about Fanout, for every number of tasks and of batches, whatever *)
(* fails and in whatever order the children run and end.                   *)
(***************************************************************************)
EXTENDS Fanout, TLAPS

Own(s) == child[<<batch, s>>]

Control ==
  /\ launched <= n
  /\ pc \in {"write", "spawn"} => launched = i - 1 /\ i <= n
  /\ pc = "wait" => i <= launched
  /\ pc = "collect" => i <= n
  /\ pc # "idle" => batch > 0

(* Who has been spawned.                                                   *)
Born ==
  /\ \A b \in Batches, s \in Slots : b > batch => child[<<b, s>>] = Unborn
  /\ \A s \in Slots : batch > 0 => (s > launched <=> Own(s) = Unborn)

(* What has become of a task until its report is collected: the report     *)
(* file holds what its own child has put there, from this batch's task.    *)
Story(s) ==
  /\ Own(s).st = "forked" => out[s] = NoFile
  /\ Own(s).st = "opened" => out[s] = NoFile /\ Own(s).read = TaskOf(batch)
  /\ Own(s).st = "running" =>
       /\ out[s] = [made |-> batch, text |-> {}]
       /\ Own(s).made = batch /\ Own(s).read = TaskOf(batch)
  /\ Own(s).st = "exited" =>
       /\ InFile(s) = Own(s).report
       /\ \A r \in Own(s).report : r.task = TaskOf(batch)

Uncollected(s) ==
  /\ s <= launched => Story(s) /\ task[s] = TaskOf(batch)
  /\ s > launched => out[s] = NoFile

Awaited(s) == Own(s).st = "exited" /\ codes[s] = Own(s).code

Collected(s) ==
  /\ task[s] = NoFile /\ out[s] = NoFile
  /\ IF s > launched
       THEN fed[s] = NotStarted
       ELSE /\ fed[s] = [text |-> Own(s).report, code |-> Own(s).code]
            /\ \A r \in Own(s).report : r.task = TaskOf(batch)

(* How far a batch that nobody interrupts has come, task by task.          *)
Progress ==
  clean /\ batch > 0 =>
    /\ \A b \in Batches, s \in Slots : b # batch => Ended(<<b, s>>)
    /\ pc = "spawn" => task[i] = TaskOf(batch)
    /\ \A s \in Slots :
         /\ pc \in {"write", "spawn", "wait"} \/ (pc = "collect" /\ s >= i) => Uncollected(s)
         /\ s <= launched /\ (pc \in {"collect", "idle"} \/ (pc = "wait" /\ s < i)) => Awaited(s)
         /\ s <= n /\ (pc = "idle" \/ (pc = "collect" /\ s < i)) => Collected(s)

IInv == TypeOK /\ Control /\ Born /\ Progress

-----------------------------------------------------------------------------
(* Records. *)

LEMMA Shapes ==
  /\ \A b : TaskOf(b) # NoFile /\ TaskOf(b) # Torn
  /\ \A b, t : [made |-> b, text |-> t] # NoFile
  /\ Unborn.st = "none" /\ Forked.st = "forked"
  /\ \A t : Opened(t).st = "opened" /\ Opened(t).read = t
  /\ \A t, b : /\ Running(t, b).st = "running"
               /\ Running(t, b).read = t /\ Running(t, b).made = b
  /\ \A c, r : /\ Exited(c, r).st = "exited"
               /\ Exited(c, r).code = c /\ Exited(c, r).report = r
<1>1. \A b : TaskOf(b) # NoFile /\ TaskOf(b) # Torn
  BY DEF TaskOf, NoFile, Torn
<1>2. \A b, t : [made |-> b, text |-> t] # NoFile
  BY DEF NoFile
<1>3. Unborn.st = "none" /\ Forked.st = "forked"
  BY DEF Unborn, Forked
<1>4. \A t : Opened(t).st = "opened" /\ Opened(t).read = t
  BY DEF Opened
<1>5. \A t, b : /\ Running(t, b).st = "running"
                /\ Running(t, b).read = t /\ Running(t, b).made = b
  BY DEF Running
<1>6. \A c, r : /\ Exited(c, r).st = "exited"
                /\ Exited(c, r).code = c /\ Exited(c, r).report = r
  BY DEF Exited
<1>7. QED BY <1>1, <1>2, <1>3, <1>4, <1>5, <1>6

LEMMA ProcessesOK ==
  /\ Unborn \in Processes /\ Forked \in Processes
  /\ \A t \in Tasks \cup {Torn} : Opened(t) \in Processes
  /\ \A t \in Tasks \cup {Torn}, b \in Batches : Running(t, b) \in Processes
  /\ \A c \in ExitCodes, r \in SUBSET Reports : Exited(c, r) \in Processes
  /\ \A p \in Processes :
       /\ p.st \in {"none", "forked", "opened", "running", "exited"}
       /\ p.st = "none" <=> p = Unborn
       /\ p.st = "opened" => p.read \in Tasks \cup {Torn}
       /\ p.st = "running" => p.read \in Tasks \cup {Torn} /\ p.made \in Batches
       /\ p.st = "exited" => p.code \in ExitCodes /\ p.report \in SUBSET Reports
<1>1. Unborn \in Processes /\ Forked \in Processes
  BY DEF Processes
<1>2. \A t \in Tasks \cup {Torn} : Opened(t) \in Processes
  BY DEF Processes, Opened
<1>3. \A t \in Tasks \cup {Torn}, b \in Batches : Running(t, b) \in Processes
  BY DEF Processes, Running
<1>4. \A c \in ExitCodes, r \in SUBSET Reports : Exited(c, r) \in Processes
  BY DEF Processes, Exited
<1>5. ASSUME NEW p \in Processes
      PROVE  /\ p.st \in {"none", "forked", "opened", "running", "exited"}
             /\ p.st = "none" <=> p = Unborn
             /\ p.st = "opened" => p.read \in Tasks \cup {Torn}
             /\ p.st = "running" => p.read \in Tasks \cup {Torn} /\ p.made \in Batches
             /\ p.st = "exited" => p.code \in ExitCodes /\ p.report \in SUBSET Reports
  <2>1. CASE p \in {Unborn, Forked}
    BY <2>1 DEF Unborn, Forked
  <2>2. CASE p \in [st : {"opened"}, read : Tasks \cup {Torn}]
    BY <2>2 DEF Unborn
  <2>3. CASE p \in [st : {"running"}, read : Tasks \cup {Torn}, made : Batches]
    BY <2>3 DEF Unborn
  <2>4. CASE p \in [st : {"exited"}, code : ExitCodes, report : SUBSET Reports]
    BY <2>4 DEF Unborn
  <2>5. QED BY <2>1, <2>2, <2>3, <2>4 DEF Processes
<1>6. QED BY <1>1, <1>2, <1>3, <1>4, <1>5

LEMMA InitInv == Init => IInv
<1> SUFFICES ASSUME Init PROVE IInv
  OBVIOUS
<1>1. TypeOK
  BY FanoutAssumption, ProcessesOK DEF Init, TypeOK, Slots, Batches, ExitCodes, Unknown
<1>2. Control /\ Progress
  BY FanoutAssumption DEF Init, Control, Progress
<1>3. Born
  BY DEF Init, Born
<1>4. QED BY <1>1, <1>2, <1>3 DEF IInv

(* What the steps have in common: the loop variables stay in their ranges. *)
LEMMA Ranges ==
  IInv => /\ n \in Nat /\ i \in Nat /\ i >= 1 /\ i <= MaxTasks /\ launched \in Nat /\ batch \in Nat
          /\ n <= MaxTasks /\ launched <= n
          /\ MaxTasks \in Nat /\ MaxBatches \in Nat /\ batch <= MaxBatches
          /\ (pc # "idle" => batch \in Batches)
          /\ i \in Slots
BY FanoutAssumption DEF IInv, TypeOK, Control, Slots, Batches

LEMMA BeginStep == IInv /\ Begin => IInv'
<1> SUFFICES ASSUME IInv, Begin PROVE IInv'
  OBVIOUS
<1>1. /\ pc = "idle" /\ batch < MaxBatches /\ batch' = batch + 1 /\ n' \in Slots
      /\ pc' = "write" /\ i' = 1 /\ launched' = 0 /\ clean' = NothingLeft
      /\ task' = task /\ out' = out /\ child' = child
      /\ codes' = [s \in Slots |-> Unknown] /\ fed' = [s \in Slots |-> NotStarted]
  BY DEF Begin
<1>2. TypeOK'
  <2>1. batch' \in 0 .. MaxBatches /\ n' \in 0 .. MaxTasks /\ i' \in Slots
    BY <1>1, Ranges DEF Slots
  <2>2. codes' \in [Slots -> ExitCodes] /\ fed' \in [Slots -> Fed \cup {NotStarted}]
    BY <1>1 DEF ExitCodes
  <2>3. clean' \in BOOLEAN
    BY <1>1 DEF NothingLeft
  <2>4. QED BY <1>1, <2>1, <2>2, <2>3, Ranges DEF IInv, TypeOK
<1>3. Control'
  BY <1>1, Ranges DEF Control, Slots
<1>4. batch' \in Batches /\ \A s \in Slots : s > 0
  BY <1>1, Ranges DEF Batches, Slots
<1>5. Born'
  BY <1>1, <1>4, Ranges DEF IInv, Born, Own, Batches
<1>6. Progress'
  <2> SUFFICES ASSUME clean' PROVE Progress'
    BY DEF Progress
  <2>1. NothingLeft
    BY <1>1
  <2>2. \A b \in Batches, s \in Slots : Ended(<<b, s>>)'
    <3>1. DOMAIN child = Batches \X Slots
      BY DEF IInv, TypeOK
    <3>2. \A b \in Batches, s \in Slots : Ended(<<b, s>>)
      BY <2>1, <3>1 DEF NothingLeft
    <3>3. QED BY <1>1, <3>2 DEF Ended
  <2>3. \A s \in Slots : Uncollected(s)'
    <3>1. \A s \in Slots : ~(s <= launched') /\ out'[s] = NoFile
      BY <1>1, <2>1 DEF NothingLeft, Slots
    <3>2. QED BY <3>1 DEF Uncollected
  <2>4. QED BY <1>1, <1>4, <2>2, <2>3 DEF Progress
<1>7. QED BY <1>2, <1>3, <1>5, <1>6 DEF IInv

(* The children and the files of the tasks that were launched are as they  *)
(* were after a step that leaves them alone.                               *)
LEMMA Untouched ==
  ASSUME NEW s \in Slots, child' = child, batch' = batch
  PROVE  /\ Own(s)' = Own(s)
         /\ out'[s] = out[s] => Story(s)' = Story(s)
         /\ codes'[s] = codes[s] => Awaited(s)' = Awaited(s)
BY DEF Own, Story, Awaited, InFile

LEMMA WriteStep == IInv /\ (WriteTask \/ WriteTaskFails \/ SpawnFails) => IInv'
<1> SUFFICES ASSUME IInv, WriteTask \/ WriteTaskFails \/ SpawnFails PROVE IInv'
  OBVIOUS
<1>1. /\ pc \in {"write", "spawn"} /\ batch' = batch /\ n' = n /\ launched' = launched
      /\ codes' = codes /\ fed' = fed /\ out' = out /\ child' = child /\ clean' = clean
  BY DEF WriteTask, WriteTaskFails, SpawnFails
<1>2. /\ launched = i - 1 /\ i <= n /\ batch > 0
  BY <1>1 DEF IInv, Control
<1>3. /\ task' \in [Slots -> Tasks \cup {Torn, NoFile}]
      /\ \A s \in Slots : s # i => task'[s] = task[s]
  <2>1. TaskOf(batch) \in Tasks
    BY <1>1, Ranges DEF TaskOf, Tasks
  <2>2. task' \in {task, [task EXCEPT ![i] = Torn], [task EXCEPT ![i] = TaskOf(batch)]}
    BY DEF WriteTask, WriteTaskFails, SpawnFails
  <2>3. QED BY <2>1, <2>2, Ranges DEF IInv, TypeOK
<1>4. \/ /\ pc' = "spawn" /\ i' = i /\ task'[i] = TaskOf(batch)
      \/ /\ pc' = (IF launched > 0 THEN "wait" ELSE "collect") /\ i' = 1
  BY Ranges DEF WriteTask, WriteTaskFails, SpawnFails, FannedOut, IInv, TypeOK
<1>5. TypeOK'
  BY <1>1, <1>3, <1>4, Ranges DEF IInv, TypeOK, Slots
<1>6. Control'
  BY <1>1, <1>2, <1>4, Ranges DEF IInv, Control
<1>7. Born'
  BY <1>1 DEF IInv, Born, Own
<1>8. Progress'
  <2> SUFFICES ASSUME clean PROVE Progress'
    BY <1>1 DEF Progress
  <2>1. \A b \in Batches, s \in Slots : b # batch => Ended(<<b, s>>)'
    BY <1>1, <1>2 DEF IInv, Progress, Ended
  <2>2. ASSUME NEW s \in Slots PROVE Uncollected(s)'
    <3>1. Uncollected(s)
      BY <1>1, <1>2 DEF IInv, Progress
    <3>2. s <= launched => task'[s] = task[s]
      BY <1>2, <1>3, Ranges DEF Slots
    <3>3. QED BY <1>1, <3>1, <3>2, Untouched DEF Uncollected
  <2>3. pc' = "spawn" => task'[i'] = TaskOf(batch)
    BY <1>4
  <2>4. pc' # "idle" /\ i' >= 1 /\ (pc' = "wait" \/ pc' = "collect" => i' = 1)
    BY <1>4, Ranges
  <2>5. pc' = "collect" => launched = 0
    BY <1>4, Ranges
  <2>6. QED BY <1>1, <2>1, <2>2, <2>3, <2>4, <2>5, Ranges DEF Progress, Slots, TaskOf
<1>9. QED BY <1>5, <1>6, <1>7, <1>8 DEF IInv

LEMMA SpawnStep == IInv /\ Spawn => IInv'
<1> SUFFICES ASSUME IInv, Spawn PROVE IInv'
  OBVIOUS
<1>1. /\ pc = "spawn" /\ batch' = batch /\ n' = n /\ launched' = launched + 1
      /\ codes' = codes /\ fed' = fed /\ task' = task /\ out' = out /\ clean' = clean
      /\ child' = [child EXCEPT ![<<batch, i>>] = Forked]
  BY DEF Spawn
<1>2. launched = i - 1 /\ i <= n /\ batch > 0 /\ batch \in Batches
  BY <1>1, Ranges DEF IInv, Control
<1>3. \/ pc' = "write" /\ i' = i + 1 /\ i < n
      \/ pc' = "wait" /\ i' = 1
  BY <1>1, <1>2, Ranges DEF Spawn, FannedOut
<1>4. TypeOK'
  <2>1. child' \in [Batches \X Slots -> Processes]
    BY <1>1, <1>2, ProcessesOK, Ranges DEF IInv, TypeOK
  <2>2. i' \in Slots /\ launched' \in 0 .. MaxTasks
    BY <1>1, <1>2, <1>3, Ranges DEF Slots
  <2>3. QED BY <1>1, <1>3, <2>1, <2>2 DEF IInv, TypeOK
<1>5. Control'
  BY <1>1, <1>2, <1>3, Ranges DEF Control
<1>6. /\ \A b \in Batches, s \in Slots : <<b, s>> # <<batch, i>> => child'[<<b, s>>] = child[<<b, s>>]
      /\ child'[<<batch, i>>] = Forked
  BY <1>1, <1>2, Ranges DEF IInv, TypeOK, Own
<1>7. Born'
  <2>1. \A b \in Batches, s \in Slots : b > batch => child'[<<b, s>>] = Unborn
    BY <1>2, <1>6, Ranges DEF IInv, Born, Batches
  <2>2. ASSUME NEW s \in Slots PROVE (s > launched + 1) <=> (Own(s)' = Unborn)
    <3>1. CASE s = i
      <4>1. Own(s)' = Forked
        BY <1>1, <1>6, <3>1 DEF Own
      <4>2. Forked # Unborn
        BY Shapes
      <4>3. ~(s > launched + 1)
        BY <1>2, <3>1, Ranges
      <4>4. QED BY <4>1, <4>2, <4>3
    <3>2. CASE s # i
      <4>1. Own(s)' = Own(s)
        BY <1>1, <1>2, <1>6, <3>2 DEF Own
      <4>2. s > launched + 1 <=> s > launched
        BY <1>2, <3>2, Ranges DEF Slots
      <4>3. QED BY <1>2, <4>1, <4>2 DEF IInv, Born
    <3>3. QED BY <3>1, <3>2
  <2>3. QED BY <1>1, <2>1, <2>2 DEF Born
<1>8. Progress'
  <2> SUFFICES ASSUME clean PROVE Progress'
    BY <1>1 DEF Progress
  <2>1. \A b \in Batches, s \in Slots : b # batch => Ended(<<b, s>>)'
    BY <1>1, <1>2, <1>6 DEF IInv, Progress, Ended
  <2>2. ASSUME NEW s \in Slots PROVE Uncollected(s)'
    <3>1. Uncollected(s)
      BY <1>1, <1>2 DEF IInv, Progress
    <3>2. CASE s = i
      <4>1. task[i] = TaskOf(batch) /\ out[i] = NoFile
        BY <1>1, <1>2, <3>1, <3>2, Ranges DEF IInv, Progress, Uncollected
      <4>2. Own(s)' = Forked /\ out'[s] = NoFile
        BY <1>1, <1>6, <3>2, <4>1 DEF Own
      <4>3. Story(s)'
        BY <4>2, Shapes DEF Story
      <4>4. task'[s] = TaskOf(batch)' /\ s <= launched'
        BY <1>1, <1>2, <3>2, <4>1, Ranges
      <4>5. ~(s > launched')
        BY <1>2, <1>1, <3>2, Ranges
      <4>6. QED BY <4>3, <4>4, <4>5 DEF Uncollected
    <3>3. CASE s # i
      <4>1. Own(s)' = Own(s)
        BY <1>1, <1>2, <1>6, <3>3 DEF Own
      <4>2. Story(s)' = Story(s)
        BY <1>1, <4>1 DEF Story, InFile
      <4>3. s <= launched' <=> s <= launched
        BY <1>1, <1>2, <3>3, Ranges DEF Slots
      <4>4. QED BY <1>1, <3>1, <4>2, <4>3, Ranges DEF Uncollected, Slots
    <3>4. QED BY <3>2, <3>3
  <2>3. QED BY <1>1, <1>3, <2>1, <2>2 DEF Progress, Slots
<1>9. QED BY <1>4, <1>5, <1>7, <1>8 DEF IInv

LEMMA WaitStep == IInv /\ (Wait \/ WaitInterrupted) => IInv'
<1> SUFFICES ASSUME IInv, Wait \/ WaitInterrupted PROVE IInv'
  OBVIOUS
<1>1. PICK code : /\ Waited(code)
                  /\ \/ Own(i).st = "exited" /\ code = Own(i).code /\ clean' = clean
                     \/ code = Unknown /\ clean' = FALSE
  BY DEF Wait, WaitInterrupted, Own
<1>2. /\ pc = "wait" /\ batch' = batch /\ n' = n /\ launched' = launched /\ fed' = fed
      /\ task' = task /\ out' = out /\ child' = child
      /\ codes' = [codes EXCEPT ![i] = code]
  BY <1>1 DEF Wait, WaitInterrupted, Waited
<1>3. i <= launched /\ batch > 0 /\ batch \in Batches
  BY <1>2, Ranges DEF IInv, Control
<1>4. \/ i < launched /\ i' = i + 1 /\ pc' = "wait"
      \/ i = launched /\ i' = 1 /\ pc' = "collect"
  BY <1>1, <1>2, <1>3, Ranges DEF Waited
<1>5. TypeOK'
  <2>1. code \in ExitCodes
    <3>1. Own(i) \in Processes
      BY <1>3, Ranges DEF IInv, TypeOK, Own
    <3>2. QED BY <1>1, <3>1, ProcessesOK DEF ExitCodes
  <2>2. codes' \in [Slots -> ExitCodes]
    BY <1>2, <2>1 DEF IInv, TypeOK
  <2>3. i' \in Slots
    BY <1>4, Ranges DEF Slots
  <2>4. clean' \in BOOLEAN
    BY <1>1 DEF IInv, TypeOK
  <2>5. pc' \in {"wait", "collect"}
    BY <1>4
  <2>6. QED BY <1>2, <2>2, <2>3, <2>4, <2>5 DEF IInv, TypeOK
<1>6. Control'
  BY <1>2, <1>3, <1>4, Ranges DEF IInv, Control
<1>7. Born'
  BY <1>2 DEF IInv, Born, Own
<1>8. Progress'
  <2> SUFFICES ASSUME clean' PROVE Progress'
    BY DEF Progress
  <2>0. clean /\ Own(i).st = "exited" /\ code = Own(i).code
    BY <1>1 DEF IInv, TypeOK
  <2>1. \A b \in Batches, s \in Slots : b # batch => Ended(<<b, s>>)'
    BY <1>2, <1>3, <2>0 DEF IInv, Progress, Ended
  <2>2. ASSUME NEW s \in Slots PROVE Uncollected(s)'
    <3>1. Uncollected(s)
      BY <1>2, <1>3, <2>0 DEF IInv, Progress
    <3>2. QED BY <1>2, <3>1, Untouched DEF Uncollected
  <2>3. ASSUME NEW s \in Slots, s <= i PROVE Awaited(s)'
    <3>1. CASE s = i
      BY <1>2, <2>0, <3>1, Untouched DEF IInv, TypeOK, Awaited
    <3>2. CASE s < i
      <4>1. Awaited(s)
        BY <1>2, <1>3, <2>0, <3>2, Ranges DEF IInv, Progress, Slots
      <4>2. codes'[s] = codes[s]
        BY <1>2, <3>2, Ranges DEF IInv, TypeOK, Slots
      <4>3. QED BY <1>2, <4>1, <4>2, Untouched
    <3>3. QED BY <2>3, <3>1, <3>2, Ranges DEF Slots
  <2>4. \A s \in Slots : pc' = "wait" /\ s < i' => s <= i
    BY <1>4, Ranges DEF Slots
  <2>5. \A s \in Slots : pc' = "collect" /\ s <= launched => s <= i
    BY <1>4, Ranges DEF Slots
  <2>6. pc' \in {"wait", "collect"} /\ \A s \in Slots : ~(pc' = "collect" /\ s < i')
    BY <1>4 DEF Slots
  <2>7. ASSUME NEW s \in Slots
        PROVE  (/\ pc \in {"write", "spawn", "wait"} \/ (pc = "collect" /\ s >= i) => Uncollected(s)
                /\ s <= launched /\ (pc \in {"collect", "idle"} \/ (pc = "wait" /\ s < i)) => Awaited(s)
                /\ s <= n /\ (pc = "idle" \/ (pc = "collect" /\ s < i)) => Collected(s))'
    <3>1. s <= launched' /\ (pc' = "collect" \/ (pc' = "wait" /\ s < i')) => Awaited(s)'
      BY <1>2, <2>3, <2>4, <2>5
    <3>2. QED BY <2>2, <2>6, <3>1
  <2>8. QED BY <1>2, <2>1, <2>2, <2>6, <2>7 DEF Progress
<1>9. QED BY <1>5, <1>6, <1>7, <1>8 DEF IInv

LEMMA CollectStep == IInv /\ Collect => IInv'
<1> SUFFICES ASSUME IInv, Collect PROVE IInv'
  OBVIOUS
<1>1. /\ pc = "collect" /\ batch' = batch /\ n' = n /\ launched' = launched
      /\ codes' = codes /\ child' = child /\ clean' = clean
      /\ fed' = [fed EXCEPT ![i] = Answer(i)]
      /\ task' = [task EXCEPT ![i] = NoFile] /\ out' = [out EXCEPT ![i] = NoFile]
  BY DEF Collect
<1>2. i <= n /\ batch > 0 /\ batch \in Batches
  BY <1>1, Ranges DEF IInv, Control
<1>3. \/ i < n /\ i' = i + 1 /\ pc' = "collect"
      \/ i = n /\ i' = 1 /\ pc' = "idle"
  BY <1>1, <1>2, Ranges DEF Collect
<1>4. TypeOK'
  <2>1. InFile(i) \in SUBSET Reports
    BY Ranges DEF InFile, IInv, TypeOK, ReportFile
  <2>2. codes[i] \in ExitCodes
    BY Ranges DEF IInv, TypeOK
  <2>3. Answer(i) \in Fed \cup {NotStarted}
    BY <2>1, <2>2 DEF Answer, Fed
  <2>4. /\ fed' \in [Slots -> Fed \cup {NotStarted}]
        /\ task' \in [Slots -> Tasks \cup {Torn, NoFile}]
        /\ out' \in [Slots -> ReportFile \cup {NoFile}]
    BY <1>1, <2>3 DEF IInv, TypeOK
  <2>5. i' \in Slots
    BY <1>2, <1>3, Ranges DEF Slots
  <2>6. QED BY <1>1, <1>3, <2>4, <2>5 DEF IInv, TypeOK
<1>5. Control'
  BY <1>1, <1>2, <1>3, Ranges DEF IInv, Control
<1>6. Born'
  BY <1>1 DEF IInv, Born, Own
<1>7. Progress'
  <2> SUFFICES ASSUME clean PROVE Progress'
    BY <1>1 DEF Progress
  <2>1. \A b \in Batches, s \in Slots : b # batch => Ended(<<b, s>>)'
    BY <1>1, <1>2 DEF IInv, Progress, Ended
  <2>2. ASSUME NEW s \in Slots, s <= launched PROVE Awaited(s) /\ Awaited(s)'
    <3>1. Awaited(s)
      BY <1>1, <1>2, <2>2 DEF IInv, Progress
    <3>2. QED BY <1>1, <3>1, Untouched
  <2>3. ASSUME NEW s \in Slots, s > i PROVE Uncollected(s)'
    <3>1. Uncollected(s)
      BY <1>1, <1>2, <2>3, Ranges DEF IInv, Progress, Slots
    <3>2. task'[s] = task[s] /\ out'[s] = out[s]
      BY <1>1, <2>3, Ranges DEF IInv, TypeOK, Slots
    <3>3. QED BY <1>1, <3>1, <3>2, Untouched DEF Uncollected
  <2>4. ASSUME NEW s \in Slots, s < i, s <= n PROVE Collected(s)'
    <3>1. Collected(s)
      BY <1>1, <1>2, <2>4 DEF IInv, Progress
    <3>2. task'[s] = task[s] /\ out'[s] = out[s] /\ fed'[s] = fed[s]
      BY <1>1, <2>4, Ranges DEF IInv, TypeOK, Slots
    <3>3. QED BY <1>1, <3>1, <3>2, Untouched DEF Collected
  <2>5. ASSUME NEW s \in Slots, s = i PROVE Collected(s)'
    <3>1. task'[s] = NoFile /\ out'[s] = NoFile /\ fed'[s] = Answer(s)
      BY <1>1, <2>5 DEF IInv, TypeOK
    <3>2. Uncollected(s)
      BY <1>1, <1>2, <2>5, Ranges DEF IInv, Progress
    <3>3. CASE s > launched
      BY <1>1, <3>1, <3>3 DEF Collected, Answer
    <3>4. CASE s <= launched
      <4>1. Own(s).st = "exited" /\ codes[s] = Own(s).code
        BY <2>2, <3>4 DEF Awaited
      <4>2. InFile(s) = Own(s).report /\ \A r \in Own(s).report : r.task = TaskOf(batch)
        BY <3>2, <3>4, <4>1 DEF Uncollected, Story
      <4>3. Answer(s) = [text |-> Own(s).report, code |-> Own(s).code]
        BY <3>4, <4>1, <4>2, Ranges DEF Answer, Slots
      <4>4. Own(s)' = Own(s)
        BY <1>1, Untouched
      <4>5. QED BY <1>1, <3>1, <3>4, <4>2, <4>3, <4>4, Ranges DEF Collected, TaskOf, Slots
    <3>5. QED BY <3>3, <3>4, Ranges DEF Slots
  <2>6. \A s \in Slots :
          /\ pc' = "collect" => (s >= i' => s > i) /\ (s < i' => s < i \/ s = i)
          /\ pc' = "idle" /\ s <= n => s < i \/ s = i
          /\ s < i \/ s = i => s <= n
    BY <1>2, <1>3, Ranges DEF Slots
  <2>7. pc' \in {"collect", "idle"}
    BY <1>3
  <2>8. ASSUME NEW s \in Slots
        PROVE  (/\ pc \in {"write", "spawn", "wait"} \/ (pc = "collect" /\ s >= i) => Uncollected(s)
                /\ s <= launched /\ (pc \in {"collect", "idle"} \/ (pc = "wait" /\ s < i)) => Awaited(s)
                /\ s <= n /\ (pc = "idle" \/ (pc = "collect" /\ s < i)) => Collected(s))'
    <3>1. pc' = "collect" /\ s >= i' => Uncollected(s)'
      BY <2>3, <2>6
    <3>2. s <= launched' => Awaited(s)'
      BY <1>1, <2>2
    <3>3. s <= n' /\ (pc' = "idle" \/ (pc' = "collect" /\ s < i')) => Collected(s)'
      <4>1. s < i => Collected(s)'
        BY <2>4, <2>6
      <4>2. s = i => Collected(s)'
        BY <2>5
      <4>3. QED BY <1>1, <2>6, <4>1, <4>2
    <3>4. QED BY <2>7, <3>1, <3>2, <3>3
  <2>9. QED BY <1>1, <2>1, <2>7, <2>8 DEF Progress
<1>8. QED BY <1>4, <1>5, <1>6, <1>7 DEF IInv

(* A child's step changes its own process and at most its own report file. *)
LEMMA ChildChanges ==
  ASSUME NEW b \in Batches, NEW s \in Slots, IInv, Child(b, s)
  PROVE  /\ pc' = pc /\ batch' = batch /\ n' = n /\ i' = i /\ launched' = launched
         /\ codes' = codes /\ fed' = fed /\ task' = task /\ clean' = clean
         /\ child[<<b, s>>].st \in {"forked", "opened", "running"}
         /\ child' \in [Batches \X Slots -> Processes]
         /\ child'[<<b, s>>].st \in {"opened", "running", "exited"}
         /\ \A c \in Batches, q \in Slots :
              <<c, q>> # <<b, s>> => child'[<<c, q>>] = child[<<c, q>>]
         /\ out' \in [Slots -> ReportFile \cup {NoFile}]
         /\ \A q \in Slots : q # s => out'[q] = out[q]
<1>1. child[<<b, s>>] \in Processes /\ task[s] \in Tasks \cup {Torn, NoFile}
      /\ out[s] \in ReportFile \cup {NoFile}
  BY DEF IInv, TypeOK
<1>2. ASSUME NEW p, Become(b, s, p), p \in Processes,
             child[<<b, s>>].st \in {"forked", "opened", "running"},
             p.st \in {"opened", "running", "exited"},
             out' \in [Slots -> ReportFile \cup {NoFile}],
             \A q \in Slots : q # s => out'[q] = out[q]
      PROVE  /\ pc' = pc /\ batch' = batch /\ n' = n /\ i' = i /\ launched' = launched
             /\ codes' = codes /\ fed' = fed /\ task' = task /\ clean' = clean
             /\ child' \in [Batches \X Slots -> Processes]
             /\ child'[<<b, s>>].st \in {"opened", "running", "exited"}
             /\ \A c \in Batches, q \in Slots :
                  <<c, q>> # <<b, s>> => child'[<<c, q>>] = child[<<c, q>>]
  BY <1>2 DEF Become, IInv, TypeOK
<1>3. ASSUME UNCHANGED out
      PROVE  /\ out' \in [Slots -> ReportFile \cup {NoFile}]
             /\ \A q \in Slots : q # s => out'[q] = out[q]
  BY <1>3 DEF IInv, TypeOK
<1>4. CASE OpenTask(b, s)
  <2>1. Opened(task[s]) \in Processes /\ Opened(task[s]).st = "opened"
    BY <1>1, <1>4, ProcessesOK, Shapes DEF OpenTask
  <2>2. child[<<b, s>>].st = "forked"
    BY <1>4, Shapes DEF OpenTask
  <2>3. QED BY <1>2, <1>3, <1>4, <2>1, <2>2 DEF OpenTask
<1>5. CASE NoTask(b, s)
  <2>1. Exited("1", {}) \in Processes /\ Exited("1", {}).st = "exited"
    BY ProcessesOK, Shapes DEF ExitCodes
  <2>2. child[<<b, s>>].st = "forked"
    BY <1>5, Shapes DEF NoTask
  <2>3. QED BY <1>2, <1>3, <1>5, <2>1, <2>2 DEF NoTask
<1>6. CASE CreateReport(b, s)
  <2>1. PICK made : /\ made = IF out[s] = NoFile THEN b ELSE out[s].made
                    /\ out' = [out EXCEPT ![s] = [made |-> made, text |-> {}]]
                    /\ Become(b, s, Running(child[<<b, s>>].read, made))
    BY <1>6 DEF CreateReport
  <2>2. made \in Batches
    BY <1>1, <2>1 DEF ReportFile
  <2>3. child[<<b, s>>].st = "opened"
    BY <1>6 DEF CreateReport
  <2>4. /\ Running(child[<<b, s>>].read, made) \in Processes
        /\ Running(child[<<b, s>>].read, made).st = "running"
    BY <1>1, <2>2, <2>3, ProcessesOK, Shapes
  <2>5. [made |-> made, text |-> {}] \in ReportFile
    BY <2>2 DEF ReportFile
  <2>6. /\ out' \in [Slots -> ReportFile \cup {NoFile}]
        /\ \A q \in Slots : q # s => out'[q] = out[q]
    BY <2>1, <2>5 DEF IInv, TypeOK
  <2>7. QED BY <1>2, <2>1, <2>3, <2>4, <2>6
<1>7. CASE Report(b, s)
  <2>1. PICK r : /\ r = [child |-> <<b, s>>, task |-> child[<<b, s>>].read]
                 /\ out' = IF out[s] # NoFile /\ out[s].made = child[<<b, s>>].made
                             THEN [out EXCEPT ![s].text = @ \cup {r}] ELSE out
                 /\ Become(b, s, Exited("0", {r}))
    BY <1>7 DEF Report
  <2>2. child[<<b, s>>].st = "running" /\ child[<<b, s>>].read # Torn
    BY <1>7 DEF Report
  <2>3. child[<<b, s>>].read \in Tasks
    BY <1>1, <2>2, ProcessesOK
  <2>4. r \in Reports
    BY <2>1, <2>3 DEF Reports
  <2>5. Exited("0", {r}) \in Processes /\ Exited("0", {r}).st = "exited"
    BY <2>4, ProcessesOK, Shapes DEF ExitCodes
  <2>6. /\ out' \in [Slots -> ReportFile \cup {NoFile}]
        /\ \A q \in Slots : q # s => out'[q] = out[q]
    <3>1. CASE out[s] # NoFile /\ out' = [out EXCEPT ![s].text = @ \cup {r}]
      <4>1. out[s] \in ReportFile
        BY <1>1, <3>1
      <4>2. [out[s] EXCEPT !.text = @ \cup {r}] \in ReportFile
        BY <2>4, <4>1 DEF ReportFile
      <4>3. QED BY <3>1, <4>2 DEF IInv, TypeOK
    <3>2. CASE out' = out
      BY <1>3, <3>2
    <3>3. QED BY <2>1, <3>1, <3>2
  <2>7. QED BY <1>2, <2>1, <2>2, <2>5, <2>6
<1>8. CASE Fail(b, s)
  <2>1. PICK code \in {"1", Unknown} : Become(b, s, Exited(code, {}))
    BY <1>8 DEF Fail
  <2>2. Exited(code, {}) \in Processes /\ Exited(code, {}).st = "exited"
    BY ProcessesOK, Shapes DEF ExitCodes
  <2>3. QED BY <1>2, <1>3, <1>8, <2>1, <2>2 DEF Fail
<1>9. QED BY <1>4, <1>5, <1>6, <1>7, <1>8 DEF Child

(* In a batch that nobody interrupts a child that works is one of its own, *)
(* and its step leaves the story of its task true.                         *)
LEMMA ChildStory ==
  ASSUME NEW b \in Batches, NEW s \in Slots, IInv, Child(b, s), b = batch,
         Story(s), task[s] = TaskOf(batch)
  PROVE  Story(s)'
<1>1. /\ batch' = batch /\ task' = task
      /\ child' \in [Batches \X Slots -> Processes] /\ out' \in [Slots -> ReportFile \cup {NoFile}]
  BY ChildChanges
<1>2. child \in [Batches \X Slots -> Processes] /\ out \in [Slots -> ReportFile \cup {NoFile}]
  BY DEF IInv, TypeOK
<1>3. ASSUME NEW p, Become(b, s, p) PROVE Own(s)' = p
  BY <1>1, <1>2, <1>3 DEF Become, Own
<1>4. CASE OpenTask(b, s)
  <2>1. Own(s)' = Opened(TaskOf(batch))
    BY <1>3, <1>4 DEF OpenTask
  <2>2. out'[s] = NoFile
    BY <1>4, Shapes DEF OpenTask, Story, Own
  <2>3. QED BY <1>1, <2>1, <2>2, Shapes DEF Story, TaskOf
<1>5. CASE NoTask(b, s)
  BY <1>5, Shapes DEF NoTask
<1>6. CASE CreateReport(b, s)
  <2>1. Own(s).st = "opened" /\ out[s] = NoFile /\ Own(s).read = TaskOf(batch)
    BY <1>6 DEF CreateReport, Story, Own
  <2>2. Own(s)' = Running(TaskOf(batch), b) /\ out'[s] = [made |-> b, text |-> {}]
    BY <1>2, <1>3, <1>6, <2>1 DEF CreateReport, Own
  <2>3. QED BY <1>1, <2>2, Shapes DEF Story, TaskOf
<1>7. CASE Report(b, s)
  <2>1. /\ Own(s).st = "running" /\ out[s] = [made |-> batch, text |-> {}]
        /\ Own(s).made = batch /\ Own(s).read = TaskOf(batch)
    BY <1>7 DEF Report, Story, Own
  <2>2. PICK r : /\ r = [child |-> <<b, s>>, task |-> TaskOf(batch)]
                 /\ out' = IF out[s] # NoFile /\ out[s].made = child[<<b, s>>].made
                             THEN [out EXCEPT ![s].text = @ \cup {r}] ELSE out
                 /\ Become(b, s, Exited("0", {r}))
    BY <1>7, <2>1 DEF Report, Own
  <2>3. out[s] # NoFile /\ out[s].made = child[<<b, s>>].made
    BY <2>1, Shapes DEF Own
  <2>4. out'[s] # NoFile /\ out'[s].text = {r}
    <3>1. out'[s] = [out[s] EXCEPT !.text = @ \cup {r}]
      BY <1>2, <2>2, <2>3
    <3>2. [out[s] EXCEPT !.text = @ \cup {r}] = [made |-> batch, text |-> {r}]
      BY <2>1
    <3>3. QED BY <3>1, <3>2, Shapes
  <2>5. Own(s)' = Exited("0", {r})
    BY <1>3, <2>2
  <2>6. r.task = TaskOf(batch)'
    BY <1>1, <2>2 DEF TaskOf
  <2>7. QED BY <2>4, <2>5, <2>6, Shapes DEF Story, InFile
<1>8. CASE Fail(b, s)
  <2>1. PICK code : Become(b, s, Exited(code, {})) /\ out' = out
    BY <1>8 DEF Fail
  <2>2. Own(s)' = Exited(code, {})
    BY <1>3, <2>1
  <2>3. Own(s).st \in {"forked", "opened", "running"}
    BY <1>8 DEF Fail, Own
  <2>4. InFile(s)' = {}
    BY <2>1, <2>3 DEF Story, InFile
  <2>5. QED BY <2>2, <2>4, Shapes DEF Story
<1>9. QED BY <1>4, <1>5, <1>6, <1>7, <1>8 DEF Child

LEMMA ChildStep ==
  ASSUME NEW b \in Batches, NEW s \in Slots, IInv, Child(b, s)
  PROVE  IInv'
<1>1. /\ pc' = pc /\ batch' = batch /\ n' = n /\ i' = i /\ launched' = launched
      /\ codes' = codes /\ fed' = fed /\ task' = task /\ clean' = clean
      /\ child[<<b, s>>].st \in {"forked", "opened", "running"}
      /\ child' \in [Batches \X Slots -> Processes]
      /\ child'[<<b, s>>].st \in {"opened", "running", "exited"}
      /\ \A c \in Batches, q \in Slots :
           <<c, q>> # <<b, s>> => child'[<<c, q>>] = child[<<c, q>>]
      /\ out' \in [Slots -> ReportFile \cup {NoFile}]
      /\ \A q \in Slots : q # s => out'[q] = out[q]
  BY ChildChanges
<1>2. child[<<b, s>>] # Unborn /\ child'[<<b, s>>] # Unborn
  BY <1>1, Shapes
<1>3. TypeOK'
  BY <1>1 DEF IInv, TypeOK
<1>4. Control'
  BY <1>1 DEF IInv, Control
<1>5. Born'
  <2>1. \A c \in Batches, q \in Slots : child'[<<c, q>>] = Unborn <=> child[<<c, q>>] = Unborn
    BY <1>1, <1>2
  <2>2. batch > 0 => batch \in Batches
    BY Ranges DEF Batches
  <2>3. QED BY <1>1, <2>1, <2>2 DEF IInv, Born, Own
<1>6. Progress'
  <2> SUFFICES ASSUME clean, batch > 0 PROVE Progress'
    BY <1>1 DEF Progress
  <2>1. b = batch
    BY <1>1 DEF IInv, Progress, Ended
  <2>2. ~(s > launched) /\ s <= launched
    <3>1. ~(s > launched)
      BY <1>2, <2>1 DEF IInv, Born, Own
    <3>2. QED BY <3>1, Ranges DEF Slots
  <2>3. ~Awaited(s)
    BY <1>1, <2>1 DEF Awaited, Own
  <2>4. pc \in {"write", "spawn", "wait"} /\ ~(pc = "wait" /\ s < i)
    BY <2>2, <2>3 DEF IInv, Progress, TypeOK
  <2>5. \A c \in Batches, q \in Slots : c # batch => Ended(<<c, q>>)'
    BY <1>1, <2>1 DEF IInv, Progress, Ended
  <2>6. ASSUME NEW q \in Slots
        PROVE  /\ Uncollected(q)'
               /\ q <= launched /\ pc = "wait" /\ q < i => Awaited(q)'
    <3>1. Uncollected(q) /\ (q <= launched /\ pc = "wait" /\ q < i => Awaited(q))
      BY <2>4 DEF IInv, Progress
    <3>2. CASE q = s
      <4>1. Story(s) /\ task[s] = TaskOf(batch)
        BY <2>2, <3>1, <3>2 DEF Uncollected
      <4>2. Story(q)'
        BY <2>1, <3>2, <4>1, ChildStory
      <4>3. QED BY <1>1, <2>2, <2>4, <3>2, <4>1, <4>2 DEF Uncollected, TaskOf
    <3>3. CASE q # s
      <4>1. Own(q)' = Own(q) /\ out'[q] = out[q]
        <5>1. batch \in Batches
          BY <2>1
        <5>2. QED BY <1>1, <3>3, <5>1 DEF Own
      <4>2. Story(q)' = Story(q) /\ Awaited(q)' = Awaited(q)
        BY <1>1, <4>1 DEF Story, Awaited, InFile
      <4>3. QED BY <1>1, <3>1, <4>1, <4>2 DEF Uncollected
    <3>4. QED BY <3>2, <3>3
  <2>7. pc = "spawn" => task[i] = TaskOf(batch)
    BY DEF IInv, Progress
  <2>8. QED BY <1>1, <2>4, <2>5, <2>6, <2>7 DEF Progress, TaskOf
<1>7. QED BY <1>3, <1>4, <1>5, <1>6 DEF IInv

LEMMA StepInv == IInv /\ [Next]_vars => IInv'
<1> SUFFICES ASSUME IInv, [Next]_vars PROVE IInv'
  OBVIOUS
<1>1. CASE UNCHANGED vars
  BY <1>1 DEF vars, IInv, TypeOK, Control, Born, Progress, Own, Ended, Uncollected, Story,
              InFile, Awaited, Collected
<1>2. CASE Begin \/ Parent \/ Trouble
  BY <1>2, BeginStep, WriteStep, SpawnStep, WaitStep, CollectStep DEF Parent, Trouble
<1>3. ASSUME NEW b \in Batches, NEW s \in Slots, Child(b, s) PROVE IInv'
  BY <1>3, ChildStep
<1>4. CASE Terminated
  BY <1>1, <1>4 DEF Terminated
<1>5. QED BY <1>1, <1>2, <1>3, <1>4 DEF Next

LEMMA IInvHolds == Spec => []IInv
BY InitInv, StepInv, PTL DEF Spec

-----------------------------------------------------------------------------
(* Type correctness.                                                       *)
THEOREM FanoutTypeCorrect == Spec => []TypeOK
<1>1. IInv => TypeOK
  BY DEF IInv
<1>2. QED BY <1>1, IInvHolds, PTL

(* agent_run_parallel tells every task its own child's report, in whatever *)
(* order children run and end and wherever the fan-out breaks off.         *)
THEOREM ReportsStayOwn == Spec => []ReportsAreOwn
<1>1. ASSUME IInv PROVE ReportsAreOwn
  <2> SUFFICES ASSUME Returned, clean, NEW s \in 1 .. n
               PROVE  IF Own(s) = Unborn
                        THEN fed[s] = NotStarted
                        ELSE /\ Own(s).st = "exited"
                             /\ fed[s] = [text |-> Own(s).report, code |-> Own(s).code]
                             /\ \A r \in Own(s).report : r.task = TaskOf(batch)
    BY DEF ReportsAreOwn, Own
  <2>1. pc = "idle" /\ batch > 0 /\ s \in Slots /\ s <= n
    BY <1>1, Ranges DEF Returned, Slots
  <2>2. s > launched <=> Own(s) = Unborn
    BY <1>1, <2>1 DEF IInv, Born
  <2>3. Collected(s) /\ (s <= launched => Awaited(s))
    BY <1>1, <2>1 DEF IInv, Progress
  <2>4. s > launched \/ s <= launched
    BY <1>1, <2>1, Ranges DEF Slots
  <2>5. QED BY <2>2, <2>3, <2>4 DEF Collected, Awaited
<1>2. QED BY <1>1, IInvHolds, PTL

(* The scratch files of a batch that nobody interrupted are gone.          *)
THEOREM ScratchIsCleared == Spec => []ScratchCleared
<1>1. ASSUME IInv PROVE ScratchCleared
  <2> SUFFICES ASSUME Returned, clean, NEW s \in 1 .. n
               PROVE  task[s] = NoFile /\ out[s] = NoFile
    BY DEF ScratchCleared
  <2>1. pc = "idle" /\ batch > 0 /\ s \in Slots /\ s <= n
    BY <1>1, Ranges DEF Returned, Slots
  <2>2. QED BY <1>1, <2>1 DEF IInv, Progress, Collected
<1>2. QED BY <1>1, IInvHolds, PTL

(* No child works on once a batch that nobody interrupted has returned.    *)
THEOREM NoChildWorksOn == Spec => []NoChildLeftWorking
<1>1. ASSUME IInv PROVE NoChildLeftWorking
  <2> SUFFICES ASSUME Returned, clean, NEW b \in Batches, NEW s \in Slots
               PROVE  Ended(<<b, s>>)
    BY <1>1 DEF NoChildLeftWorking, IInv, TypeOK
  <2>1. pc = "idle" /\ batch > 0
    BY DEF Returned
  <2>2. CASE b # batch
    BY <1>1, <2>1, <2>2 DEF IInv, Progress
  <2>3. CASE b = batch
    <3>1. s > launched => Own(s).st = "none"
      BY <1>1, <2>1, Shapes DEF IInv, Born
    <3>2. s <= launched => Own(s).st = "exited"
      BY <1>1, <2>1 DEF IInv, Progress, Awaited
    <3>3. s > launched \/ s <= launched
      BY <1>1, Ranges DEF Slots
    <3>4. QED BY <2>3, <3>1, <3>2, <3>3 DEF Ended, Own
  <2>4. QED BY <2>2, <2>3
<1>2. QED BY <1>1, IInvHolds, PTL
=============================================================================
