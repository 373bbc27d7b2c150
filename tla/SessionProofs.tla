---------------------------- MODULE SessionProofs ----------------------------
(***************************************************************************)
(* Proofs about Session, for any number of terminals, children, folders    *)
(* and names, and whatever the clock does; what --continue finds, last,    *)
(* under the conditions it is promised for.                                *)
(***************************************************************************)
EXTENDS Session, TLAPS

IInv == TypeOK /\ HistoriesStayHome

States == [pc : {"make", "prompt", "turn", "open", "write"}, dir : Folders, hist : Histories]

(* A process that is on, with a history of its folder.                     *)
AtHome(state) == state \in States /\ state.hist.home = state.dir

LEMMA Atoms ==
  /\ Off.pc = "off" /\ Off \notin States
  /\ NoFile \notin Histories /\ Torn \notin Histories
  /\ \A f \in Folders : Fresh(f) \in Histories /\ Fresh(f).home = f
  /\ "last" \in SessionNames /\ MaxTurns \in Nat
  /\ AutoDir \/ Fixed \in Folders
<1>1. Off.pc = "off" /\ Off \notin States
  BY DEF Off, States
<1>2. NoFile \notin Histories /\ Torn \notin Histories
  BY DEF NoFile, Torn, Histories
<1>3. "last" \in SessionNames /\ MaxTurns \in Nat
  BY SessionAssumption
<1>4. \A f \in Folders : Fresh(f) \in Histories /\ Fresh(f).home = f
  BY <1>3 DEF Fresh, Histories
<1>5. AutoDir \/ Fixed \in Folders
  BY DEF Folders
<1>6. QED BY <1>1, <1>2, <1>3, <1>4, <1>5

LEMMA AtOK ==
  ASSUME NEW pc \in {"make", "prompt", "turn", "open", "write"},
         NEW dir \in Folders, NEW h \in Histories, h.home = dir
  PROVE  AtHome(At(pc, dir, h)) /\ At(pc, dir, h).hist = h
BY DEF At, AtHome, States

LEMMA OnIsHome ==
  ASSUME IInv, NEW p \in Processes, proc[p].pc # "off"
  PROVE  AtHome(proc[p]) /\ proc[p].dir \in Folders /\ proc[p].hist \in Histories
BY Atoms DEF IInv, TypeOK, HistoriesStayHome, AtHome, States

LEMMA LoadedOK ==
  ASSUME IInv, NEW f \in Folders, NEW name \in SessionNames,
         NEW h \in Histories, h.home = f
  PROVE  Loaded(saved[<<f, name>>], h) \in Histories /\ Loaded(saved[<<f, name>>], h).home = f
BY DEF IInv, HistoriesStayHome, Loaded

LEMMA InitInv == Init => IInv
<1> SUFFICES ASSUME Init PROVE IInv
  OBVIOUS
<1>1. TypeOK
  <2>1. made \in Seq(Folders)
    BY Atoms DEF Init
  <2>2. resumed \in [found : Histories, due : SUBSET Histories, torn : BOOLEAN]
    BY Atoms DEF Init
  <2>3. due \in [Folders -> SUBSET Histories] /\ turns \in 0 .. MaxTurns
    BY Atoms DEF Init
  <2>4. /\ proc \in [Processes -> {Off} \cup States] /\ now \in DOMAIN Local
        /\ saved \in [Folders \X SessionNames -> Histories \cup {NoFile, Torn}]
    BY SessionAssumption DEF Init
  <2>5. QED BY <2>1, <2>2, <2>3, <2>4 DEF TypeOK, States
<1>2. HistoriesStayHome
  BY Atoms DEF Init, HistoriesStayHome
<1>3. QED BY <1>1, <1>2 DEF IInv

-----------------------------------------------------------------------------
(* What the steps have in common.                                          *)

LEMMA SetSafe ==
  ASSUME IInv, NEW p \in Processes, NEW state, state = Off \/ AtHome(state), Set(p, state),
         saved' = saved
  PROVE  proc' \in [Processes -> {Off} \cup States] /\ HistoriesStayHome'
<1>1. proc \in [Processes -> {Off} \cup States]
  BY DEF IInv, TypeOK, States
<1>2. proc' \in [Processes -> {Off} \cup States]
  BY <1>1 DEF Set, AtHome
<1>3. \A q \in Processes : proc'[q] # Off => proc'[q].hist.home = proc'[q].dir
  BY <1>1 DEF Set, AtHome, IInv, HistoriesStayHome
<1>4. QED BY <1>2, <1>3 DEF IInv, HistoriesStayHome

LEMMA SaveSafe ==
  ASSUME IInv, NEW f \in Folders, NEW name \in SessionNames, NEW file,
         file = Torn \/ (file \in Histories /\ file.home = f),
         saved' = [saved EXCEPT ![<<f, name>>] = file]
  PROVE  /\ saved' \in [Folders \X SessionNames -> Histories \cup {NoFile, Torn}]
         /\ \A g \in Folders, other \in SessionNames :
              saved'[<<g, other>>] \in Histories => saved'[<<g, other>>].home = g
<1>1. saved \in [Folders \X SessionNames -> Histories \cup {NoFile, Torn}]
  BY DEF IInv, TypeOK
<1>2. saved' \in [Folders \X SessionNames -> Histories \cup {NoFile, Torn}]
  BY <1>1
<1>3. ASSUME NEW g \in Folders, NEW other \in SessionNames, saved'[<<g, other>>] \in Histories
      PROVE  saved'[<<g, other>>].home = g
  <2>1. CASE g = f /\ other = name
    BY <1>1, <1>3, <2>1, Atoms
  <2>2. CASE ~(g = f /\ other = name)
    <3>1. saved'[<<g, other>>] = saved[<<g, other>>]
      BY <1>1, <2>2
    <3>2. QED BY <1>3, <3>1 DEF IInv, HistoriesStayHome
  <2>3. QED BY <2>1, <2>2
<1>4. QED BY <1>2, <1>3

(* A step that only moves processes between the folders.                   *)
LEMMA MoveSafe ==
  ASSUME IInv, NEW p \in Processes, NEW state, state = Off \/ AtHome(state), Set(p, state),
         now' = now, saved' = saved, made' \in Seq(Folders), turns' \in 0 .. MaxTurns,
         due' \in [Folders -> SUBSET Histories],
         resumed' \in [found : Histories, due : SUBSET Histories, torn : BOOLEAN]
  PROVE  IInv'
BY SetSafe DEF IInv, TypeOK, States

-----------------------------------------------------------------------------
(* The steps. *)

LEMMA PickState ==
  ASSUME NEW p, PickFolder(p)
  PROVE  \E state : AtHome(state) /\ Set(p, state)
<1>1. PICK f \in Folders : Set(p, At("make", f, Fresh(f)))
  BY DEF PickFolder
<1>2. AtHome(At("make", f, Fresh(f)))
  BY Atoms, AtOK
<1>3. QED BY <1>1, <1>2

LEMMA EnterStep ==
  ASSUME IInv, NEW p \in Processes, Start(p) \/ Continue(p) \/ MakeFolder(p) \/ New(p)
  PROVE  IInv'
<1>1. /\ made \in Seq(Folders) /\ turns \in 0 .. MaxTurns
      /\ due \in [Folders -> SUBSET Histories]
      /\ resumed \in [found : Histories, due : SUBSET Histories, torn : BOOLEAN]
  BY DEF IInv, TypeOK
<1>2. CASE Start(p) \/ New(p)
  <2>1. PICK state : AtHome(state) /\ Set(p, state)
    <3>1. CASE AutoDir
      BY <1>2, <3>1, PickState DEF Start, New
    <3>2. CASE ~AutoDir
      <4>1. Set(p, At("prompt", Fixed, Fresh(Fixed)))
        BY <1>2, <3>2 DEF Start, New
      <4>2. AtHome(At("prompt", Fixed, Fresh(Fixed)))
        BY <3>2, Atoms, AtOK
      <4>3. QED BY <4>1, <4>2
    <3>3. QED BY <3>1, <3>2
  <2>2. UNCHANGED <<now, made, saved, turns, due, resumed>>
    BY <1>2 DEF Start, New
  <2>3. QED BY <1>1, <2>1, <2>2, MoveSafe
<1>3. CASE Continue(p)
  <2> DEFINE h(f) == Loaded(saved[<<f, "last">>], Fresh(f))
  <2>1. PICK f \in Folders :
          /\ Set(p, At("prompt", f, h(f)))
          /\ resumed' = [found |-> h(f), due |-> due[made[Len(made)]],
                        torn |-> saved[<<f, "last">>] = Torn]
    BY <1>3 DEF Continue
  <2>2. h(f) \in Histories /\ h(f).home = f
    BY Atoms, LoadedOK
  <2>3. due[made[Len(made)]] \in SUBSET Histories
    <3>1. made[Len(made)] \in Folders
      BY <1>1, <1>3 DEF Continue
    <3>2. QED BY <1>1, <3>1
  <2>4. resumed' \in [found : Histories, due : SUBSET Histories, torn : BOOLEAN]
    BY <2>1, <2>2, <2>3
  <2>5. AtHome(At("prompt", f, h(f)))
    BY <2>2, AtOK
  <2>6. UNCHANGED <<now, made, saved, turns, due>>
    BY <1>3 DEF Continue
  <2>7. QED BY <1>1, <2>1, <2>4, <2>5, <2>6, MoveSafe
<1>4. CASE MakeFolder(p)
  <2>1. PICK f : f = proc[p].dir
    OBVIOUS
  <2>2. /\ proc[p].pc = "make" /\ made' = (IF Exists(f) THEN made ELSE Append(made, f))
        /\ Set(p, At("prompt", f, Fresh(f)))
        /\ UNCHANGED <<now, saved, turns, due, resumed>>
    BY <1>4, <2>1 DEF MakeFolder
  <2>3. f \in Folders
    BY <2>1, <2>2, OnIsHome
  <2>4. made' \in Seq(Folders)
    BY <1>1, <2>2, <2>3
  <2>5. AtHome(At("prompt", f, Fresh(f)))
    BY <2>3, Atoms, AtOK
  <2>6. QED BY <1>1, <2>2, <2>4, <2>5, MoveSafe
<1>5. QED BY <1>2, <1>3, <1>4

LEMMA TurnStep ==
  ASSUME IInv, NEW p \in Processes,
         \/ Quit(p) \/ Die(p) \/ StartTurn(p) \/ TurnEnds(p) \/ SaveLast(p)
         \/ \E kid \in Kids : StartKid(p, kid)
         \/ \E name \in SessionNames : Resume(p, name)
  PROVE  IInv'
<1>1. /\ made \in Seq(Folders) /\ turns \in 0 .. MaxTurns
      /\ due \in [Folders -> SUBSET Histories]
      /\ resumed \in [found : Histories, due : SUBSET Histories, torn : BOOLEAN]
  BY DEF IInv, TypeOK
<1>2. CASE Quit(p) \/ Die(p)
  BY <1>1, <1>2, MoveSafe DEF Quit, Die
<1>3. ASSUME NEW pc \in {"turn", "open"}, proc[p].pc # "off"
      PROVE  AtHome([proc[p] EXCEPT !.pc = pc])
  BY <1>3, OnIsHome DEF AtHome, States
<1>4. CASE StartTurn(p)
  BY <1>1, <1>3, <1>4, MoveSafe DEF StartTurn
<1>5. CASE SaveLast(p)
  <2>1. proc[p].dir \in Folders /\ proc[p].hist \in Histories /\ proc[p].pc # "off"
    BY <1>5, OnIsHome DEF SaveLast
  <2>2. due' \in [Folders -> SUBSET Histories]
    BY <1>1, <1>5, <2>1 DEF SaveLast
  <2>3. QED BY <1>1, <1>3, <1>5, <2>1, <2>2, MoveSafe DEF SaveLast
<1>6. CASE TurnEnds(p)
  <2>1. AtHome(proc[p]) /\ proc[p].dir \in Folders /\ proc[p].hist \in Histories
    BY <1>6, OnIsHome DEF TurnEnds
  <2>2. turns' \in 0 .. MaxTurns /\ turns' = turns + 1
    BY <1>1, <1>6, Atoms DEF TurnEnds
  <2>3. Ended(p) \in Histories /\ Ended(p).home = proc[p].dir
    BY <2>1, <2>2 DEF Ended, Histories, AtHome
  <2>4. AtHome([proc[p] EXCEPT !.pc = "open", !.hist = Ended(p)])
    BY <2>1, <2>3 DEF AtHome, States
  <2>5. due' \in [Folders -> SUBSET Histories]
    BY <1>1, <1>6, <2>1, <2>3 DEF TurnEnds
  <2>6. QED BY <1>1, <1>6, <2>2, <2>4, <2>5, MoveSafe DEF TurnEnds
<1>7. ASSUME NEW kid \in Kids, StartKid(p, kid) PROVE IInv'
  <2>1. proc[p].dir \in Folders
    BY <1>7, OnIsHome DEF StartKid
  <2>2. AtHome(At("turn", proc[p].dir, Fresh(proc[p].dir)))
    BY <2>1, Atoms, AtOK
  <2>3. kid \in Processes
    BY DEF Processes
  <2>4. QED BY <1>1, <1>7, <2>2, <2>3, MoveSafe DEF StartKid
<1>8. ASSUME NEW name \in SessionNames, Resume(p, name) PROVE IInv'
  <2>1. AtHome(proc[p]) /\ proc[p].dir \in Folders /\ proc[p].hist \in Histories
    BY <1>8, OnIsHome DEF Resume
  <2>2. PICK h : /\ h = Loaded(saved[<<proc[p].dir, name>>], proc[p].hist)
                 /\ Set(p, At("prompt", proc[p].dir, h))
    BY <1>8 DEF Resume
  <2>3. h \in Histories /\ h.home = proc[p].dir
    BY <2>1, <2>2, LoadedOK DEF AtHome
  <2>4. AtHome(At("prompt", proc[p].dir, h))
    BY <2>1, <2>3, AtOK
  <2>5. QED BY <1>1, <1>8, <2>2, <2>4, MoveSafe DEF Resume
<1>9. QED BY <1>2, <1>4, <1>5, <1>6, <1>7, <1>8

LEMMA FileStep ==
  ASSUME IInv, NEW p \in Processes,
         OpenLast(p) \/ WriteLast(p) \/ \E name \in SessionNames : Save(p, name)
  PROVE  IInv'
<1>1. AtHome(proc[p]) /\ proc[p].dir \in Folders /\ proc[p].hist \in Histories
  BY OnIsHome DEF OpenLast, WriteLast, Save
<1>2. PICK name \in SessionNames : \E file :
        /\ file = Torn \/ file = proc[p].hist
        /\ saved' = [saved EXCEPT ![<<proc[p].dir, name>>] = file]
  BY Atoms DEF OpenLast, WriteLast, Save
<1>3. /\ saved' \in [Folders \X SessionNames -> Histories \cup {NoFile, Torn}]
      /\ \A g \in Folders, other \in SessionNames :
           saved'[<<g, other>>] \in Histories => saved'[<<g, other>>].home = g
  <2>1. PICK file : /\ file = Torn \/ file = proc[p].hist
                    /\ saved' = [saved EXCEPT ![<<proc[p].dir, name>>] = file]
    BY <1>2
  <2>2. file = Torn \/ (file \in Histories /\ file.home = proc[p].dir)
    BY <1>1, <2>1 DEF AtHome
  <2>3. QED BY <1>1, <2>1, <2>2, SaveSafe
<1>4. /\ proc' \in [Processes -> {Off} \cup States]
      /\ \A q \in Processes : proc'[q] # Off => proc'[q].hist.home = proc'[q].dir
  <2>1. proc \in [Processes -> {Off} \cup States]
    BY DEF IInv, TypeOK, States
  <2>2. \A pc \in {"write", "prompt"} : AtHome([proc[p] EXCEPT !.pc = pc])
    BY <1>1 DEF AtHome, States
  <2>3. proc' = proc \/ \E pc \in {"write", "prompt"} :
                          proc' = [proc EXCEPT ![p] = [proc[p] EXCEPT !.pc = pc]]
    BY DEF OpenLast, WriteLast, Save, Set
  <2>4. QED BY <2>1, <2>2, <2>3 DEF AtHome, IInv, HistoriesStayHome
<1>5. due' \in [Folders -> SUBSET Histories]
  <2>1. due \in [Folders -> SUBSET Histories]
    BY DEF IInv, TypeOK
  <2>2. due' = due \/ due' = [due EXCEPT ![proc[p].dir] = {proc[p].hist}]
    BY DEF OpenLast, WriteLast, Save
  <2>3. {proc[p].hist} \in SUBSET Histories
    BY <1>1
  <2>4. QED BY <1>1, <2>1, <2>2, <2>3
<1>6. now' = now /\ made' = made /\ turns' = turns /\ resumed' = resumed
  BY DEF OpenLast, WriteLast, Save
<1>7. TypeOK'
  BY <1>3, <1>4, <1>5, <1>6 DEF IInv, TypeOK, States
<1>8. QED BY <1>3, <1>4, <1>7 DEF IInv, HistoriesStayHome

LEMMA StepInv == IInv /\ [Next]_vars => IInv'
<1> SUFFICES ASSUME IInv, [Next]_vars PROVE IInv'
  OBVIOUS
<1>1. CASE UNCHANGED vars
  BY <1>1 DEF vars, IInv, TypeOK, HistoriesStayHome
<1>2. CASE Tick
  BY <1>2 DEF Tick, IInv, TypeOK, HistoriesStayHome
<1>3. QED BY <1>1, <1>2, EnterStep, TurnStep, FileStep DEF Next

LEMMA IInvHolds == Spec => []IInv
BY InitInv, StepInv, PTL DEF Spec

-----------------------------------------------------------------------------
(* Type correctness.                                                       *)
THEOREM SessionTypeCorrect == Spec => []TypeOK
<1>1. IInv => TypeOK
  BY DEF IInv
<1>2. QED BY <1>1, IInvHolds, PTL

(* No conversation and no saved session leaves its sandbox folder.         *)
THEOREM HistoriesAreAtHome == Spec => []HistoriesStayHome
<1>1. IInv => HistoriesStayHome
  BY DEF IInv
<1>2. QED BY <1>1, IInvHolds, PTL

(* /resume leaves the conversation at the prompt or brings the saved one.  *)
THEOREM ResumeIsSafe == Spec => ResumeLosesNothing
<1>1. ASSUME IInv, NEW p \in Terminals, NEW name \in SessionNames, Resume(p, name)
      PROVE  proc'[p].hist \in {proc[p].hist, saved[<<proc[p].dir, name>>]}
  <2>1. p \in Processes /\ proc \in [Processes -> {Off} \cup States]
    BY <1>1 DEF IInv, TypeOK, States, Processes
  <2>2. proc'[p] = At("prompt", proc[p].dir, Loaded(saved[<<proc[p].dir, name>>], proc[p].hist))
    BY <1>1, <2>1 DEF Resume, Set
  <2>3. QED BY <2>2 DEF At, Loaded
<1>2. IInv /\ [Next]_vars =>
        \A p \in Terminals, name \in SessionNames :
          proc[p].pc = "prompt" /\ Resume(p, name) =>
            proc'[p].hist \in {proc[p].hist, saved[<<proc[p].dir, name>>]}
  BY <1>1
<1>3. QED BY <1>2, IInvHolds, PTL DEF ResumeLosesNothing, Spec
-----------------------------------------------------------------------------
(***************************************************************************)
(* Which conversation --continue finds.  The name of a folder tells when   *)
(* it was made as long as the clock does not go back and no second sees    *)
(* ten of them: "<stamp>-10" sorts before "<stamp>-2", and "overflow"      *)
(* after all.                                                              *)
(***************************************************************************)
ClockForward == \A s, t \in DOMAIN Local : s <= t => Local[s] <= Local[t]
OneTerminal == \A p, q \in Terminals : p = q

Unhurried == \A j \in DOMAIN made : made[j] # Overflow /\ made[j].k <= 9

Name(s, k) == [stamp |-> s, k |-> k]
Before(g, f) == g.stamp < f.stamp \/ (g.stamp = f.stamp /\ g.k < f.k)

(* A name is taken only when the ones before it are.                       *)
InTurn(f) ==
  /\ f \in Stamped /\ f.stamp <= Local[now]
  /\ \A k \in 1 .. f.k - 1 : Exists(Name(f.stamp, k))

Latest(f) == InTurn(f) /\ \A j \in DOMAIN made : Before(made[j], f)

Ordered ==
  /\ \A j \in DOMAIN made : InTurn(made[j])
  /\ \A i, j \in DOMAIN made : i < j => Before(made[i], made[j])
  /\ \A p \in Terminals : proc[p].pc = "make" =>
       proc[p].dir = Overflow \/ Latest(proc[p].dir)

(* The file --continue will read holds what the user is due.               *)
SavedIsDue ==
  \A f \in Folders :
    saved[<<f, "last">>] = Torn \/ Loaded(saved[<<f, "last">>], Fresh(f)) \in due[f]

KidsOnlyWork == \A kid \in Kids : proc[kid].pc \in {"off", "turn"}

LatestInv ==
  /\ IInv
  /\ KidsOnlyWork
  /\ SavedIsDue
  /\ IF AutoDir THEN Unhurried => Ordered ELSE made = <<Fixed>>
  /\ Unhurried => ContinueFindsLatest

(* --continue is promised to the user of one terminal; with --sandbox DIR  *)
(* there is only the one folder to find.                                   *)
Promised == AutoDir => OneTerminal /\ ClockForward

LEMMA InitLatest == Init => LatestInv
<1> SUFFICES ASSUME Init PROVE LatestInv
  OBVIOUS
<1>1. IInv
  BY InitInv
<1>2. KidsOnlyWork
  BY DEF Init, KidsOnlyWork, Processes, Off
<1>3. SavedIsDue
  <2>1. ASSUME NEW f \in Folders PROVE Loaded(saved[<<f, "last">>], Fresh(f)) \in due[f]
    <3>1. saved[<<f, "last">>] = NoFile /\ due[f] = {Fresh(f)}
      BY Atoms DEF Init
    <3>2. QED BY <3>1, Atoms DEF Loaded
  <2>2. QED BY <2>1 DEF SavedIsDue
<1>4. AutoDir => Ordered
  <2>1. \A p \in Terminals : proc[p].pc # "make"
    BY DEF Init, Processes, Off
  <2>2. AutoDir => DOMAIN made = {}
    BY DEF Init
  <2>3. QED BY <2>1, <2>2 DEF Ordered
<1>5. ~AutoDir => made = <<Fixed>>
  BY DEF Init
<1>6. ContinueFindsLatest
  BY DEF Init, ContinueFindsLatest
<1>7. QED BY <1>1, <1>2, <1>3, <1>4, <1>5, <1>6 DEF LatestInv

LEMMA KidsStep ==
  ASSUME LatestInv, [Next]_vars
  PROVE  KidsOnlyWork'
<1>1. proc \in [Processes -> {Off} \cup States] /\ KidsOnlyWork /\ Kids \cap Terminals = {}
      /\ Processes = Terminals \cup Kids
  BY SessionAssumption DEF LatestInv, IInv, TypeOK, States, Processes
<1>2. \A p \in Processes : proc[p].pc \in {"make", "prompt", "open", "write"} => p \notin Kids
  BY <1>1 DEF KidsOnlyWork
<1>3. ASSUME NEW p \in Processes, NEW state, Set(p, state),
             p \notin Kids \/ state.pc \in {"off", "turn"}
      PROVE  KidsOnlyWork'
  <2>1. \A kid \in Kids : kid \in Processes
    BY <1>1
  <2>2. \A kid \in Kids : proc'[kid] = IF kid = p THEN state ELSE proc[kid]
    BY <1>1, <1>3, <2>1 DEF Set
  <2>3. QED BY <1>1, <1>3, <2>2 DEF KidsOnlyWork
<1>4. CASE proc' = proc
  BY <1>1, <1>4 DEF KidsOnlyWork
<1>5. \A p \in Terminals : p \notin Kids
  BY <1>1
<1>6. ASSUME NEW p \in Processes,
             \/ Start(p) \/ Continue(p) \/ MakeFolder(p) \/ New(p) \/ Quit(p)
             \/ StartTurn(p) \/ TurnEnds(p) \/ OpenLast(p) \/ WriteLast(p) \/ SaveLast(p)
             \/ Die(p)
             \/ \E name \in SessionNames : Resume(p, name)
      PROVE  \E state : Set(p, state) /\ (p \notin Kids \/ state.pc \in {"off", "turn"})
  <2>1. CASE Start(p) \/ New(p)
    BY <1>5, <2>1 DEF Start, New, PickFolder
  <2>2. CASE Continue(p) \/ SaveLast(p) \/ \E name \in SessionNames : Resume(p, name)
    BY <1>5, <2>2 DEF Continue, SaveLast, Resume
  <2>3. CASE MakeFolder(p) \/ OpenLast(p) \/ WriteLast(p)
    BY <1>2, <2>3 DEF MakeFolder, OpenLast, WriteLast
  <2>4. CASE Quit(p) \/ Die(p)
    BY <2>4, Atoms DEF Quit, Die
  <2>5. CASE StartTurn(p)
    <3>1. Set(p, [proc[p] EXCEPT !.pc = "turn"]) /\ proc[p].pc = "prompt"
      BY <2>5 DEF StartTurn
    <3>2. QED BY <1>2, <3>1
  <2>6. CASE TurnEnds(p)
    BY <2>6, Atoms DEF TurnEnds
  <2>7. QED BY <1>6, <2>1, <2>2, <2>3, <2>4, <2>5, <2>6
<1>7. ASSUME NEW p \in Processes, NEW kid \in Kids, StartKid(p, kid)
      PROVE  KidsOnlyWork'
  <2>1. kid \in Processes /\ Set(kid, At("turn", proc[p].dir, Fresh(proc[p].dir)))
    BY <1>1, <1>7 DEF StartKid
  <2>2. At("turn", proc[p].dir, Fresh(proc[p].dir)).pc = "turn"
    BY DEF At
  <2>3. QED BY <1>3, <2>1, <2>2
<1>8. ASSUME NEW p \in Processes, NEW name \in SessionNames, Save(p, name)
      PROVE  KidsOnlyWork'
  BY <1>4, <1>8 DEF Save
<1>9. CASE Tick \/ UNCHANGED vars
  BY <1>4, <1>9 DEF Tick, vars
<1>10. QED BY <1>3, <1>6, <1>7, <1>8, <1>9 DEF Next

(* Files and dues.                                                         *)
LEMMA DueStep ==
  ASSUME LatestInv, [Next]_vars
  PROVE  SavedIsDue'
<1>1. /\ saved \in [Folders \X SessionNames -> Histories \cup {NoFile, Torn}]
      /\ due \in [Folders -> SUBSET Histories] /\ SavedIsDue /\ "last" \in SessionNames
  BY Atoms DEF LatestInv, IInv, TypeOK
<1>2. ASSUME saved' = saved, \A f \in Folders : due[f] \subseteq due'[f]
      PROVE  SavedIsDue'
  BY <1>1, <1>2 DEF SavedIsDue
<1>3. ASSUME UNCHANGED <<saved, due>> PROVE SavedIsDue'
  BY <1>2, <1>3
<1>4. ASSUME NEW p \in Processes, TurnEnds(p) \/ SaveLast(p)
      PROVE  SavedIsDue'
  <2>1. saved' = saved
    BY <1>4 DEF TurnEnds, SaveLast
  <2>2. PICK more : due' = due \/ due' = [due EXCEPT ![proc[p].dir] = @ \cup more]
    BY <1>4 DEF TurnEnds, SaveLast
  <2>3. \A f \in Folders : due[f] \subseteq due'[f]
    BY <1>1, <2>2
  <2>4. QED BY <1>2, <2>1, <2>3
<1>5. ASSUME NEW p \in Processes, OpenLast(p)
      PROVE  SavedIsDue'
  <2>1. saved' = [saved EXCEPT ![<<proc[p].dir, "last">>] = Torn] /\ due' = due
    BY <1>5 DEF OpenLast
  <2>2. \A f \in Folders :
          saved'[<<f, "last">>] = IF f = proc[p].dir THEN Torn ELSE saved[<<f, "last">>]
    BY <1>1, <2>1
  <2>3. QED BY <1>1, <2>1, <2>2 DEF SavedIsDue
<1>6. ASSUME NEW p \in Processes, WriteLast(p)
      PROVE  SavedIsDue'
  <2>1. p \notin Kids
    BY <1>6 DEF WriteLast, LatestInv, KidsOnlyWork
  <2>2. proc[p].dir \in Folders /\ proc[p].hist \in Histories
    BY <1>6, OnIsHome DEF WriteLast, LatestInv
  <2>3. /\ saved' = [saved EXCEPT ![<<proc[p].dir, "last">>] = proc[p].hist]
        /\ due' = [due EXCEPT ![proc[p].dir] = {proc[p].hist}]
    BY <1>6, <2>1 DEF WriteLast
  <2>4. ASSUME NEW f \in Folders
        PROVE  saved'[<<f, "last">>] = Torn \/ Loaded(saved'[<<f, "last">>], Fresh(f)) \in due'[f]
    <3>1. CASE f = proc[p].dir
      <4>1. saved'[<<f, "last">>] = proc[p].hist /\ due'[f] = {proc[p].hist}
        BY <1>1, <2>2, <2>3, <3>1
      <4>2. QED BY <2>2, <4>1 DEF Loaded
    <3>2. CASE f # proc[p].dir
      <4>1. saved'[<<f, "last">>] = saved[<<f, "last">>] /\ due'[f] = due[f]
        BY <1>1, <2>2, <2>3, <3>2
      <4>2. QED BY <1>1, <4>1 DEF SavedIsDue
    <3>3. QED BY <3>1, <3>2
  <2>5. QED BY <2>4 DEF SavedIsDue
<1>7. ASSUME NEW p \in Processes, NEW name \in SessionNames, Save(p, name)
      PROVE  SavedIsDue'
  <2>1. /\ name # "last" /\ due' = due
        /\ saved' = [saved EXCEPT ![<<proc[p].dir, name>>] = proc[p].hist]
    BY <1>7 DEF Save
  <2>2. \A f \in Folders : saved'[<<f, "last">>] = saved[<<f, "last">>]
    BY <1>1, <2>1
  <2>3. QED BY <1>1, <2>1, <2>2 DEF SavedIsDue
<1>8. ASSUME NEW p \in Processes,
             \/ Start(p) \/ Continue(p) \/ MakeFolder(p) \/ New(p) \/ Quit(p)
             \/ StartTurn(p) \/ Die(p)
             \/ \E kid \in Kids : StartKid(p, kid)
             \/ \E name \in SessionNames : Resume(p, name)
      PROVE  UNCHANGED <<saved, due>>
  BY <1>8 DEF Start, Continue, MakeFolder, New, Quit, StartTurn, Die, StartKid, Resume
<1>9. CASE Tick \/ UNCHANGED vars
  BY <1>3, <1>9 DEF Tick, vars
<1>10. QED BY <1>3, <1>4, <1>5, <1>6, <1>7, <1>8, <1>9 DEF Next
(* Folders.                                                                *)
LEMMA LocalIsNat ==
  ASSUME LatestInv
  PROVE  /\ now \in Nat /\ now \in DOMAIN Local /\ Local[now] \in Nat
         /\ \A f \in Stamped : f.stamp \in Nat /\ f.k \in Nat /\ f.k >= 1 /\ f = Name(f.stamp, f.k)
         /\ \A k \in 1 .. MaxTries : Name(Local[now], k) \in Stamped
         /\ made \in Seq(Folders) /\ Len(made) \in Nat /\ DOMAIN made = 1 .. Len(made)
<1>1. now \in DOMAIN Local /\ made \in Seq(Folders)
  BY DEF LatestInv, IInv, TypeOK
<1>2. now \in Nat /\ Local[now] \in Nat /\ MaxTries \in Nat
  BY <1>1, SessionAssumption
<1>3. ASSUME NEW f \in Stamped
      PROVE  f.stamp \in Nat /\ f.k \in Nat /\ f.k >= 1 /\ f = Name(f.stamp, f.k)
  <2>1. f.stamp \in Nat
    BY SessionAssumption DEF Stamped
  <2>2. f.k \in 1 .. MaxTries /\ f = Name(f.stamp, f.k)
    BY DEF Stamped, Name
  <2>3. QED BY <1>2, <2>1, <2>2
<1>4. \A k \in 1 .. MaxTries : Name(Local[now], k) \in Stamped
  BY <1>1 DEF Stamped, Name
<1>5. QED BY <1>1, <1>2, <1>3, <1>4

(* The name that is picked sorts after every folder there is.              *)
LEMMA CandidateIsLatest ==
  ASSUME LatestInv, Ordered, NEW f \in Folders, Candidate(f)
  PROVE  f = Overflow \/ Latest(f)
<1> SUFFICES ASSUME f # Overflow PROVE Latest(f)
  OBVIOUS
<1>1. PICK k \in 1 .. MaxTries :
        f = Name(Local[now], k) /\ ~Exists(f) /\ \A j \in 1 .. k - 1 : Exists(Name(Local[now], j))
  BY DEF Candidate, Name
<1>2. f \in Stamped /\ f.stamp = Local[now] /\ f.k = k /\ Local[now] \in Nat
  BY <1>1, LocalIsNat DEF Name
<1>3. InTurn(f)
  BY <1>1, <1>2 DEF InTurn
<1>4. ASSUME NEW j \in DOMAIN made
      PROVE  Before(made[j], f)
  <2> DEFINE g == made[j]
  <2> SUFFICES Before(g, f)
    OBVIOUS
  <2>1. InTurn(g) /\ Exists(g)
    BY DEF Ordered, Exists
  <2>2. /\ g \in Stamped /\ g.stamp \in Nat /\ g.k \in Nat /\ g = Name(g.stamp, g.k)
        /\ g.stamp <= Local[now]
    BY <2>1, LocalIsNat DEF InTurn
  <2> HIDE DEF g
  <2>3. CASE g.stamp # Local[now]
    BY <1>2, <2>2, <2>3 DEF Before
  <2>4. CASE g.stamp = Local[now]
    <3>1. g.k # k
      BY <1>1, <2>1, <2>2, <2>4
    <3>2. ~(g.k > k)
      <4> SUFFICES ASSUME g.k > k PROVE FALSE
        OBVIOUS
      <4>1. k \in 1 .. g.k - 1
        BY <2>2
      <4>2. Exists(Name(g.stamp, k))
        BY <2>1, <4>1 DEF InTurn
      <4>3. QED BY <1>1, <2>4, <4>2
    <3>3. g.k < k
      BY <2>2, <3>1, <3>2
    <3>4. QED BY <1>2, <2>4, <3>3 DEF Before
  <2>5. QED BY <2>3, <2>4
<1>5. QED BY <1>3, <1>4 DEF Latest

LEMMA TimeKeepsOrder ==
  ASSUME LatestInv, Ordered, made' = made, Local[now'] \in Nat, Local[now] <= Local[now'],
         \A p \in Terminals : proc'[p].pc = "make" =>
           \/ proc'[p].dir = Overflow
           \/ Latest(proc'[p].dir)
           \/ proc[p].pc = "make" /\ proc[p].dir = proc'[p].dir
  PROVE  Ordered'
<1>1. ASSUME NEW f, InTurn(f)
      PROVE  /\ f \in Stamped /\ f.stamp <= Local[now']
             /\ \A k \in 1 .. f.k - 1 : \E j \in DOMAIN made' : made'[j] = Name(f.stamp, k)
  <2>1. f \in Stamped /\ f.stamp \in Nat /\ f.stamp <= Local[now] /\ Local[now] \in Nat
    BY <1>1, LocalIsNat DEF InTurn
  <2>2. f.stamp <= Local[now']
    BY <2>1
  <2>3. QED BY <1>1, <2>1, <2>2 DEF InTurn, Exists
<1>2. \A j \in DOMAIN made' : InTurn(made[j])
  BY DEF Ordered
<1>3. ASSUME NEW p \in Terminals, proc'[p].pc = "make", proc'[p].dir # Overflow
      PROVE  Latest(proc'[p].dir)
  BY <1>3 DEF Ordered
<1>4. \A i, j \in DOMAIN made' : i < j => Before(made'[i], made'[j])
  BY DEF Ordered
<1>5. QED BY <1>1, <1>2, <1>3, <1>4 DEF Ordered, Latest, InTurn, Exists

LEMMA OrderedStep ==
  ASSUME LatestInv, Ordered, AutoDir, Promised, Unhurried', [Next]_vars
  PROVE  Ordered'
<1>1. /\ proc \in [Processes -> {Off} \cup States] /\ KidsOnlyWork /\ Kids \cap Terminals = {}
      /\ Processes = Terminals \cup Kids
  BY SessionAssumption DEF LatestInv, IInv, TypeOK, States, Processes
<1>2. Local[now] \in Nat /\ Local[now] <= Local[now]
  BY LocalIsNat
<1>3. ASSUME NEW p \in Terminals, Start(p) \/ New(p)
      PROVE  Ordered'
  <2>1. PICK f \in Folders : Candidate(f) /\ Set(p, At("make", f, Fresh(f)))
    BY <1>3 DEF Start, New, PickFolder
  <2>2. f = Overflow \/ Latest(f)
    BY <2>1, CandidateIsLatest
  <2>3. proc'[p].dir = f
    BY <1>1, <2>1 DEF Set, At
  <2>4. \A q \in Terminals : q = p
    BY DEF Promised, OneTerminal
  <2>5. made' = made /\ now' = now
    BY <1>3 DEF Start, New
  <2>6. QED BY <1>2, <2>2, <2>3, <2>4, <2>5, TimeKeepsOrder
<1>4. ASSUME NEW p \in Processes, MakeFolder(p)
      PROVE  Ordered'
  <2>1. proc[p].pc = "make" /\ p \in Terminals /\ now' = now
    BY <1>1, <1>4 DEF MakeFolder, KidsOnlyWork
  <2>2. PICK f : f = proc[p].dir
    OBVIOUS
  <2>3. /\ made' = IF Exists(f) THEN made ELSE Append(made, f)
        /\ Set(p, At("prompt", f, Fresh(f)))
    BY <1>4, <2>2 DEF MakeFolder
  <2>4. f \in Folders
    BY <2>1, <2>2, OnIsHome DEF LatestInv
  <2>5. proc'[p].pc = "prompt" /\ \A q \in Terminals : q = p
    BY <1>1, <2>1, <2>3 DEF Set, At, Promised, OneTerminal
  <2>6. CASE Exists(f)
    BY <1>2, <2>1, <2>3, <2>5, <2>6, TimeKeepsOrder
  <2>7. CASE ~Exists(f)
    <3>1. made' = Append(made, f) /\ made \in Seq(Folders) /\ Len(made) \in Nat
      BY <2>3, <2>7, LocalIsNat
    <3>2. /\ DOMAIN made' = 1 .. Len(made) + 1 /\ made'[Len(made) + 1] = f
          /\ DOMAIN made = 1 .. Len(made)
          /\ \A j \in DOMAIN made : made'[j] = made[j] /\ j \in DOMAIN made'
      BY <2>4, <3>1
    <3>3. f # Overflow
      BY <3>1, <3>2 DEF Unhurried
    <3>4. Latest(f)
      BY <2>1, <2>2, <3>3 DEF Ordered
    <3>5. \A g : Exists(g) => \E j \in DOMAIN made' : made'[j] = g
      BY <3>2 DEF Exists
    <3>6. ASSUME NEW j \in DOMAIN made'
          PROVE  /\ made'[j] \in Stamped /\ made'[j].stamp <= Local[now']
                 /\ \A k \in 1 .. made'[j].k - 1 :
                      \E i \in DOMAIN made' : made'[i] = Name(made'[j].stamp, k)
      <4>1. InTurn(made'[j])
        <5>1. CASE j = Len(made) + 1
          BY <3>2, <3>4, <5>1 DEF Latest
        <5>2. CASE j # Len(made) + 1
          <6>1. j \in DOMAIN made
            BY <3>1, <3>2, <5>2
          <6>2. InTurn(made[j])
            BY <6>1 DEF Ordered
          <6>3. QED BY <3>2, <6>1, <6>2
        <5>3. QED BY <5>1, <5>2
      <4>2. QED BY <2>1, <3>5, <4>1 DEF InTurn
    <3>7. ASSUME NEW i \in DOMAIN made', NEW j \in DOMAIN made', i < j
          PROVE  Before(made'[i], made'[j])
      <4>1. i \in DOMAIN made
        BY <3>1, <3>2, <3>7
      <4>2. CASE j = Len(made) + 1
        BY <3>2, <3>4, <4>1, <4>2 DEF Latest
      <4>3. CASE j # Len(made) + 1
        <5>1. j \in DOMAIN made
          BY <3>1, <3>2, <4>3
        <5>2. Before(made[i], made[j])
          BY <3>7, <4>1, <5>1 DEF Ordered
        <5>3. QED BY <3>2, <4>1, <5>1, <5>2
      <4>4. QED BY <4>2, <4>3
    <3>8. \A q \in Terminals : proc'[q].pc # "make"
      BY <2>5
    <3>9. QED BY <3>6, <3>7, <3>8 DEF Ordered, InTurn, Exists
  <2>8. QED BY <2>6, <2>7
<1>5. CASE Tick
  <2>1. now' = now + 1 /\ now' \in DOMAIN Local /\ made' = made /\ proc' = proc
    BY <1>5 DEF Tick
  <2>2. Local[now'] \in Nat /\ now \in DOMAIN Local /\ now \in Nat
    BY <2>1, SessionAssumption, LocalIsNat
  <2>3. Local[now] <= Local[now']
    BY <2>1, <2>2 DEF Promised, ClockForward
  <2>4. QED BY <2>1, <2>2, <2>3, TimeKeepsOrder
<1>6. CASE UNCHANGED vars
  BY <1>2, <1>6, TimeKeepsOrder DEF vars
(* The rest neither makes a folder nor is about to.                        *)
<1>7. ASSUME NEW p \in Processes, NEW state, Set(p, state), state.pc # "make",
             made' = made, now' = now
      PROVE  Ordered'
  <2>1. \A q \in Terminals : q \in Processes
    BY <1>1
  <2>2. \A q \in Terminals : proc'[q] = IF q = p THEN state ELSE proc[q]
    BY <1>1, <1>7, <2>1 DEF Set
  <2>3. QED BY <1>2, <1>7, <2>2, TimeKeepsOrder
<1>8. ASSUME NEW p \in Processes,
             \/ Continue(p) \/ Quit(p) \/ Die(p)
             \/ StartTurn(p) \/ TurnEnds(p) \/ OpenLast(p) \/ WriteLast(p) \/ SaveLast(p)
             \/ \E name \in SessionNames : Resume(p, name)
      PROVE  (\E state : Set(p, state) /\ state.pc # "make") /\ made' = made /\ now' = now
  <2>1. CASE Continue(p) \/ \E name \in SessionNames : Resume(p, name)
    <3>1. \A dir, h : At("prompt", dir, h).pc # "make"
      BY DEF At
    <3>2. QED BY <2>1, <3>1 DEF Continue, Resume
  <2>2. CASE Quit(p) \/ Die(p)
    BY <2>2, Atoms DEF Quit, Die
  <2>3. CASE StartTurn(p) \/ TurnEnds(p) \/ OpenLast(p) \/ WriteLast(p) \/ SaveLast(p)
    <3>1. proc[p] \in States
      BY <1>1, <2>3, Atoms DEF StartTurn, TurnEnds, OpenLast, WriteLast, SaveLast
    <3>2. \A pc \in {"turn", "open", "write", "prompt"} : \A h :
            /\ [proc[p] EXCEPT !.pc = pc].pc # "make"
            /\ [proc[p] EXCEPT !.pc = pc, !.hist = h].pc # "make"
      BY <3>1 DEF States
    <3>3. QED BY <2>3, <3>2, Atoms DEF StartTurn, TurnEnds, OpenLast, WriteLast, SaveLast
  <2>4. QED BY <1>8, <2>1, <2>2, <2>3
<1>9. ASSUME NEW p \in Processes, NEW kid \in Kids, StartKid(p, kid)
      PROVE  Ordered'
  <2>1. kid \in Processes /\ Set(kid, At("turn", proc[p].dir, Fresh(proc[p].dir)))
        /\ made' = made /\ now' = now
    BY <1>1, <1>9 DEF StartKid
  <2>2. At("turn", proc[p].dir, Fresh(proc[p].dir)).pc # "make"
    BY DEF At
  <2>3. QED BY <1>7, <2>1, <2>2
<1>10. ASSUME NEW p \in Processes, NEW name \in SessionNames, Save(p, name)
      PROVE  Ordered'
  BY <1>2, <1>10, TimeKeepsOrder DEF Save
<1>11. \A p \in Processes : Start(p) \/ New(p) => p \in Terminals
  BY DEF Start, New
<1>12. QED BY <1>3, <1>4, <1>5, <1>6, <1>7, <1>8, <1>9, <1>10, <1>11 DEF Next

(* strcmp agrees with the order in which the folders were made.            *)
LEMMA LastIsLatest ==
  ASSUME LatestInv, Ordered, Unhurried, made # <<>>, NEW f \in Folders, LastByName(f)
  PROVE  f = made[Len(made)]
<1> DEFINE l == made[Len(made)]
<1> SUFFICES ASSUME f # l PROVE FALSE
  OBVIOUS
<1>1. Len(made) \in DOMAIN made /\ DOMAIN made = 1 .. Len(made) /\ Len(made) \in Nat
  BY LocalIsNat
<1>2. PICK j \in DOMAIN made : made[j] = f
  BY DEF LastByName, Exists
<1>3. j < Len(made)
  BY <1>1, <1>2
<1>4. Before(f, l) /\ InTurn(f) /\ InTurn(l)
  BY <1>1, <1>2, <1>3 DEF Ordered
<1>5. SortsAfter(f, l) /\ f # Overflow /\ f.k <= 9 /\ l.k <= 9
  BY <1>1, <1>2 DEF LastByName, Unhurried
<1>6. /\ f.stamp \in Nat /\ l.stamp \in Nat /\ f.k \in Nat /\ l.k \in Nat
      /\ f.k >= 1 /\ l.k >= 1
  BY <1>4, LocalIsNat DEF InTurn
<1> HIDE DEF l
<1>7. f.stamp = l.stamp /\ f.k < l.k /\ SuffixRank(f.k) > SuffixRank(l.k)
  BY <1>4, <1>5, <1>6 DEF Before, SortsAfter
<1>8. SuffixRank(f.k) <= SuffixRank(l.k)
  BY <1>5, <1>6, <1>7 DEF SuffixRank
<1>9. SuffixRank(f.k) \in Nat /\ SuffixRank(l.k) \in Nat
  BY <1>6 DEF SuffixRank
<1>10. QED BY <1>7, <1>8, <1>9

LEMMA ContinueStep ==
  ASSUME LatestInv, Promised, NEW p, Continue(p), Unhurried
  PROVE  ContinueFindsLatest'
<1>1. PICK f \in Folders :
        /\ IF AutoDir THEN LastByName(f) ELSE f = Fixed
        /\ resumed' = [found |-> Loaded(saved[<<f, "last">>], Fresh(f)), due |-> due[made[Len(made)]],
                      torn |-> saved[<<f, "last">>] = Torn]
  BY DEF Continue
<1>2. f = made[Len(made)]
  <2>1. CASE AutoDir
    BY <1>1, <2>1, LastIsLatest DEF LatestInv, Continue
  <2>2. CASE ~AutoDir
    <3>1. made = <<Fixed>> /\ f = Fixed
      BY <1>1, <2>2 DEF LatestInv
    <3>2. QED BY <3>1
  <2>3. QED BY <2>1, <2>2
<1>3. saved[<<f, "last">>] = Torn \/ Loaded(saved[<<f, "last">>], Fresh(f)) \in due[f]
  BY DEF LatestInv, SavedIsDue
<1>4. QED BY <1>1, <1>2, <1>3 DEF ContinueFindsLatest

(* A folder is never unmade.                                               *)
LEMMA FoldersStay ==
  ASSUME LatestInv, [Next]_vars
  PROVE  /\ Unhurried' => Unhurried
         /\ ~AutoDir => made' = <<Fixed>>
<1>1. made \in Seq(Folders) /\ KidsOnlyWork /\ (~AutoDir => made = <<Fixed>>)
  BY DEF LatestInv, IInv, TypeOK
<1>2. CASE made' = made
  BY <1>1, <1>2 DEF Unhurried
<1>3. ASSUME NEW p \in Processes, MakeFolder(p)
      PROVE  /\ Unhurried' => Unhurried
             /\ ~AutoDir => made' = <<Fixed>>
  <2>1. PICK f \in Folders : made' = IF Exists(f) THEN made ELSE Append(made, f)
    BY <1>3, OnIsHome DEF MakeFolder, LatestInv
  <2>2. CASE Exists(f)
    BY <1>2, <2>1, <2>2
  <2>3. CASE ~Exists(f)
    <3>1. made' = Append(made, f) /\ \A j \in DOMAIN made : j \in DOMAIN made' /\ made'[j] = made[j]
      BY <1>1, <2>1, <2>3
    <3>2. AutoDir
      <4> SUFFICES ASSUME ~AutoDir PROVE FALSE
        OBVIOUS
      <4>1. made = <<Fixed>> /\ f = Fixed
        BY <1>1 DEF Folders
      <4>2. QED BY <2>3, <4>1 DEF Exists
    <3>3. QED BY <3>1, <3>2 DEF Unhurried
  <2>4. QED BY <2>2, <2>3
<1>4. (\A p \in Processes : ~MakeFolder(p)) => made' = made
  BY DEF Next, Start, Continue, New, Quit, StartTurn, TurnEnds, OpenLast, WriteLast, SaveLast,
         Die, StartKid, Resume, Save, Tick, vars
<1>5. QED BY <1>2, <1>3, <1>4

LEMMA LatestStep == Promised /\ LatestInv /\ [Next]_vars => LatestInv'
<1> SUFFICES ASSUME Promised, LatestInv, [Next]_vars PROVE LatestInv'
  OBVIOUS
<1>1. IInv' /\ KidsOnlyWork' /\ SavedIsDue'
  BY StepInv, KidsStep, DueStep DEF LatestInv
<1>2. (Unhurried' => Unhurried) /\ (~AutoDir => made' = <<Fixed>>)
  BY FoldersStay
<1>3. AutoDir => (Unhurried' => Ordered')
  BY <1>2, OrderedStep DEF LatestInv
<1>4. Unhurried' => ContinueFindsLatest'
  <2>1. CASE \E p \in Processes : Continue(p)
    BY <1>2, <2>1, ContinueStep
  <2>2. CASE \A p \in Processes : ~Continue(p)
    <3>1. resumed' = resumed
      BY <2>2 DEF Next, Start, MakeFolder, New, Quit, StartTurn, TurnEnds, OpenLast, WriteLast,
                  SaveLast, Die, StartKid, Resume, Save, Tick, vars
    <3>2. QED BY <1>2, <3>1 DEF LatestInv, ContinueFindsLatest
  <2>3. QED BY <2>1, <2>2
<1>5. QED BY <1>1, <1>2, <1>3, <1>4 DEF LatestInv

(* --continue finds the conversation as of its last turn, or the one       *)
(* before where the last could not be saved, unless the kill hit the write *)
(* of that very file (sandbox_latest_dir, session_autoload): with          *)
(* --sandbox DIR for any number of terminals; with "auto" for one, as long *)
(* as local time does not go back and no second has seen ten folders.      *)
THEOREM ContinueIsRight ==
  ASSUME Promised
  PROVE  Spec => [](Unhurried => ContinueFindsLatest)
<1>1. Init => LatestInv
  BY InitLatest
<1>2. LatestInv /\ [Next]_vars => LatestInv'
  BY LatestStep
<1>3. LatestInv => (Unhurried => ContinueFindsLatest)
  BY DEF LatestInv
<1>4. QED BY <1>1, <1>2, <1>3, PTL DEF Spec
=============================================================================
