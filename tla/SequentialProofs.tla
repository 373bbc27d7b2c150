-------------------------- MODULE SequentialProofs --------------------------
(***************************************************************************)
(* Proofs about parts of the program in which one actor works alone:       *)
(* /update (SelfUpdate), for every set of versions and of names, whichever *)
(* step fails, whenever the process dies and whatever files are copied in  *)
(* meanwhile; the line editor (LineEditor), for every alphabet, every      *)
(* length of the buffer and of the history, and every run of keys; the     *)
(* paths of the model (Sandbox), for every text and every depth; the calls *)
(* it writes (ToolCalls), for all it may say before them; the replies it   *)
(* streams to the screen (StreamView), for every tag and hold; the process *)
(* that comes of a command line and of a parent's (Launch), for every      *)
(* config, environment and answer; and what a user types at the prompt     *)
(* (Commands), for every table and limit.                                  *)
(***************************************************************************)
EXTENDS SelfUpdate, LineEditor, Inputs,
        FiniteSetTheorems, SequenceTheorems, WellFoundedInduction, TLAPS

(***************************************************************************)
(* SelfUpdate.                                                             *)
(***************************************************************************)
(* Where the running program's own file is, and what is left without it.   *)
Anchored ==
  session # 0 =>
    /\ image = "self" => self.whole
    /\ image = "old" => old.whole
    /\ windows => image # "gone"
    /\ image # "self" /\ pc \notin {"open", "write", "restore"} => self.whole \/ unrestored

(* The steps of one /update: until the rename nothing has changed, after   *)
(* it the old name holds what was there, and what is to be written is      *)
(* whole, newer, and still what the candidate holds.                       *)
Underway ==
  /\ pc # "prompt" => session # 0
  /\ pc \in {"scan", "validate", "read", "remove", "move"} => self = before
  /\ pc \in {"validate", "read", "remove", "move", "open", "write", "restore"} =>
       pick \in Names
  /\ pc \in {"read", "remove", "move", "open", "write", "restore"} =>
       Candidate.whole /\ Candidate.ver > session
  /\ pc \in {"remove", "move", "open", "write", "restore"} => bytes = Candidate
  /\ pc \in {"open", "write", "restore"} => image = "old" /\ old.whole /\ old = before

IInv == TypeOK /\ Anchored /\ Underway /\ ProgramRemains /\ TellsTheTruth

(* Only an executable of one of the versions is whole.                     *)
LEMMA ExesOK ==
  /\ Absent \in Exes /\ Torn \in Exes
  /\ ~Absent.whole /\ ~Torn.whole
  /\ \A v \in Versions : Exe(v) \in Exes /\ Exe(v).whole /\ Exe(v).there /\ Exe(v).ver = v
  /\ \A e \in Exes : e.whole => e.ver \in Versions /\ e = Exe(e.ver)
  /\ \A e \in Exes : e.ver \in Versions \cup {0}
  /\ 0 \notin Versions /\ 0 \notin Names /\ Names \subseteq Versions
  /\ Versions \subseteq Nat
<1>1. 0 \notin Versions /\ 0 \notin Names /\ Names \subseteq Versions /\ Versions \subseteq Nat
  BY UpdateAssumption
<1>2. Absent \in Exes /\ Torn \in Exes /\ ~Absent.whole /\ ~Torn.whole
  BY DEF Exes, Absent, Torn
<1>3. \A v \in Versions : Exe(v) \in Exes
  BY DEF Exes
<1>4. \A v \in Versions : Exe(v).whole /\ Exe(v).there /\ Exe(v).ver = v
  BY DEF Exe
<1>5. ASSUME NEW e \in Exes
      PROVE  /\ e.whole => e.ver \in Versions /\ e = Exe(e.ver)
             /\ e.ver \in Versions \cup {0}
  <2>1. CASE e \in {Absent, Torn}
    BY <2>1 DEF Absent, Torn
  <2>2. ASSUME NEW v \in Versions, e = Exe(v)
        PROVE  e.ver \in Versions /\ e = Exe(e.ver)
    BY <1>4, <2>2
  <2>3. QED BY <2>1, <2>2 DEF Exes
<1>6. QED BY <1>1, <1>2, <1>3, <1>4, <1>5

LEMMA InitInv == Init => IInv
<1> SUFFICES ASSUME Init PROVE IInv
  OBVIOUS
<1>1. self \in Exes /\ self.whole
  BY ExesOK, UpdateAssumption DEF Init
<1>2. /\ cands \in [Names -> Exes]
      /\ old \in Exes /\ bytes \in Exes /\ before \in Exes
  BY <1>1, ExesOK DEF Init
<1>3. told.ver = 0 /\ updates \in 0 .. MaxUpdates
  BY UpdateAssumption DEF Init, Quiet
<1>4. TypeOK
  BY <1>1, <1>2, <1>3 DEF Init, TypeOK
<1>5. QED
  BY <1>1, <1>4 DEF Init, IInv, Anchored, Underway, ProgramRemains, TellsTheTruth, Quiet

-----------------------------------------------------------------------------
(* One lemma per group of steps.                                           *)

LEMMA SessionStep == IInv /\ (Start \/ Die) => IInv'
<1> SUFFICES ASSUME IInv, Start \/ Die PROVE IInv'
  OBVIOUS
<1>1. CASE Start
  <2>1. TypeOK'
    BY <1>1, ExesOK DEF Start, IInv, TypeOK, Quiet
  <2>2. pc = "prompt"
    BY <1>1 DEF Start, IInv, Underway
  <2>3. QED
    BY <1>1, <2>1, <2>2
       DEF Start, IInv, Anchored, Underway, ProgramRemains, TellsTheTruth, Quiet
<1>2. CASE Die
  <2>1. TypeOK'
    BY <1>2, ExesOK DEF Die, IInv, TypeOK, Quiet, Files
  <2>2. QED
    BY <1>2, <2>1
       DEF Die, IInv, Anchored, Underway, ProgramRemains, TellsTheTruth, Quiet, Files
<1>3. QED BY <1>1, <1>2

(* A file dropped in never changes a candidate that /update has found fit. *)
LEMMA DropInStep ==
  ASSUME NEW n \in Names, NEW f \in {Torn} \cup {Exe(v) : v \in Versions},
         IInv, DropIn(n, f)
  PROVE  IInv'
<1>1. f \in Exes
  BY ExesOK
<1>2. TypeOK'
  BY <1>1 DEF DropIn, IInv, TypeOK
<1>3. ASSUME pc \in {"read", "remove", "move", "open", "write", "restore"}
      PROVE  Candidate' = Candidate
  <2>1. pick \in Names /\ Candidate.whole
    BY <1>3 DEF IInv, Underway
  <2>2. n # pick
    BY <1>3, <2>1 DEF DropIn, Candidate
  <2>3. QED BY <2>1, <2>2 DEF DropIn, Candidate, IInv, TypeOK
<1>4. Underway'
  BY <1>3 DEF DropIn, IInv, Underway
<1>5. QED
  BY <1>2, <1>4 DEF DropIn, IInv, Anchored, ProgramRemains, TellsTheTruth

LEMMA FetchStep ==
  ASSUME NEW n \in Names, NEW f \in {Torn} \cup {Exe(v) : v \in Versions},
         IInv, Fetch(n, f)
  PROVE  IInv'
<1>1. f \in Exes
  BY ExesOK
<1>2. TypeOK'
  BY <1>1 DEF Fetch, IInv, TypeOK, Rest
<1>3. QED
  BY <1>2 DEF Fetch, IInv, Anchored, Underway, ProgramRemains, TellsTheTruth, Rest

(* Up to the decision that the candidate is fit.                           *)
LEMMA ChoosingStep ==
  IInv /\ (Update \/ Scan \/ NothingFound \/ Validate \/ Invalid) => IInv'
<1> SUFFICES ASSUME IInv, Update \/ Scan \/ NothingFound \/ Validate \/ Invalid
             PROVE  IInv'
  OBVIOUS
<1>1. CASE Update
  <2>1. updates' \in 0 .. MaxUpdates
    BY <1>1, UpdateAssumption DEF Update, IInv, TypeOK
  <2>2. TypeOK'
    BY <1>1, <2>1 DEF Update, IInv, TypeOK, Quiet, Files
  <2>3. QED
    BY <1>1, <2>2
       DEF Update, IInv, Anchored, Underway, ProgramRemains, TellsTheTruth, Files
<1>2. CASE Scan
  <2>1. pick' \in Names
    BY <1>2 DEF Scan, Newer
  <2>2. TypeOK'
    BY <1>2, <2>1 DEF Scan, IInv, TypeOK, Files, Rest
  <2>3. QED
    BY <1>2, <2>1, <2>2
       DEF Scan, IInv, Anchored, Underway, ProgramRemains, TellsTheTruth, Files, Rest
<1>3. CASE NothingFound
  BY <1>3 DEF NothingFound, Say, IInv, TypeOK, Anchored, Underway, ProgramRemains,
              TellsTheTruth, Files, Rest
<1>4. CASE Validate
  <2>1. TypeOK'
    BY <1>4 DEF Validate, IInv, TypeOK, Files, Rest
  <2>2. Candidate' = Candidate
    BY <1>4 DEF Validate, Candidate, Files
  <2>3. QED
    BY <1>4, <2>1, <2>2
       DEF Validate, IInv, Anchored, Underway, ProgramRemains, TellsTheTruth, Files, Rest
<1>5. CASE Invalid
  BY <1>5 DEF Invalid, Say, IInv, TypeOK, Anchored, Underway, ProgramRemains,
              TellsTheTruth, Files, Rest
<1>6. QED BY <1>1, <1>2, <1>3, <1>4, <1>5

(* Up to the rename.  It is here that the old executable may go.           *)
LEMMA MovingStep ==
  IInv /\ (Read \/ ReadFails \/ RemoveOld \/ MoveAside \/ MoveFails) => IInv'
<1> SUFFICES ASSUME IInv, Read \/ ReadFails \/ RemoveOld \/ MoveAside \/ MoveFails
             PROVE  IInv'
  OBVIOUS
<1>0. Candidate' = Candidate
  BY DEF Read, ReadFails, RemoveOld, MoveAside, MoveFails, Candidate, Files
<1>1. CASE Read
  <2>1. Candidate \in Exes
    BY <1>1 DEF Read, Candidate, IInv, Underway, TypeOK
  <2>2. TypeOK'
    BY <1>1, <2>1 DEF Read, IInv, TypeOK, Files, Rest
  <2>3. QED
    BY <1>0, <1>1, <2>2
       DEF Read, IInv, Anchored, Underway, ProgramRemains, TellsTheTruth, Files, Rest
<1>2. CASE ReadFails \/ MoveFails
  BY <1>2 DEF ReadFails, MoveFails, Say, IInv, TypeOK, Anchored, Underway,
              ProgramRemains, TellsTheTruth, Files, Rest
<1>3. CASE RemoveOld
  <2>1. session # 0 /\ session' = session /\ windows' = windows
    BY <1>3 DEF RemoveOld, IInv, Underway, Rest
  <2>2. TypeOK'
    BY <1>3, ExesOK DEF RemoveOld, IInv, TypeOK, Rest
  <2>3. Anchored'
    BY <1>3, <2>1 DEF RemoveOld, IInv, TypeOK, Anchored, Rest
  <2>4. ProgramRemains'
    <3>1. CASE windows /\ image = "old"
      BY <1>3, <3>1 DEF RemoveOld, IInv, ProgramRemains, Rest
    <3>2. CASE image = "self"
      BY <1>3, <2>1, <3>2 DEF RemoveOld, IInv, Anchored, ProgramRemains, Rest
    <3>3. CASE image # "self" /\ ~windows
      BY <1>3, <2>1, <3>3 DEF RemoveOld, IInv, Anchored, ProgramRemains, Rest
    <3>4. QED BY <2>1, <3>1, <3>2, <3>3 DEF IInv, Anchored, TypeOK
  <2>5. Underway' /\ TellsTheTruth'
    BY <1>0, <1>3 DEF RemoveOld, IInv, Underway, TellsTheTruth, Rest
  <2>6. QED BY <2>2, <2>3, <2>4, <2>5 DEF IInv
<1>4. CASE MoveAside
  <2>1. session # 0 /\ image = "self" /\ self.whole
    BY <1>4 DEF MoveAside, CanMove, SelfPath, IInv, TypeOK, Anchored, Underway
  <2>2. TypeOK'
    BY <1>4, ExesOK DEF MoveAside, IInv, TypeOK, Rest
  <2>3. QED
    BY <1>0, <1>4, <2>1, <2>2
       DEF MoveAside, IInv, Anchored, Underway, ProgramRemains, TellsTheTruth, Rest
<1>5. QED BY <1>1, <1>2, <1>3, <1>4

(* From the rename on the old executable is the one that is whole.         *)
LEMMA WritingStep ==
  IInv /\ (OpenNew \/ WriteNew \/ WriteFails \/ Restore) => IInv'
<1> SUFFICES ASSUME IInv, OpenNew \/ WriteNew \/ WriteFails \/ Restore PROVE IInv'
  OBVIOUS
<1>0. Candidate' = Candidate
  BY DEF OpenNew, WriteNew, WriteFails, Restore, Candidate, Files
<1>1. /\ session # 0 /\ image = "old" /\ old.whole /\ old = before
      /\ bytes = Candidate /\ Candidate.whole /\ Candidate.ver > session
  BY DEF OpenNew, WriteNew, WriteFails, Restore, IInv, Underway
<1>2. CASE OpenNew
  <2>1. TypeOK'
    BY <1>2, ExesOK DEF OpenNew, IInv, TypeOK, Rest
  <2>2. QED
    BY <1>0, <1>1, <1>2, <2>1
       DEF OpenNew, IInv, Anchored, Underway, ProgramRemains, TellsTheTruth, Rest
<1>3. CASE WriteNew
  <2>1. Candidate.ver \in Versions /\ bytes = Exe(Candidate.ver)
    BY <1>1, ExesOK DEF IInv, TypeOK
  <2>2. told'.what = "updated" /\ told'.ver = Candidate.ver
    BY <1>3 DEF WriteNew, Say
  <2>3. TypeOK'
    BY <1>3, <2>1, <2>2 DEF WriteNew, Say, IInv, TypeOK, Rest
  <2>4. TellsTheTruth'
    BY <1>1, <1>3, <2>1, <2>2 DEF WriteNew, TellsTheTruth, Rest
  <2>5. QED
    BY <1>1, <1>3, <2>3, <2>4
       DEF WriteNew, Say, IInv, Anchored, Underway, ProgramRemains, Rest
<1>4. CASE WriteFails
  BY <1>0, <1>1, <1>4 DEF WriteFails, IInv, TypeOK, Anchored, Underway, ProgramRemains,
                          TellsTheTruth, Files, Rest
<1>5. CASE Restore
  <2>1. TypeOK'
    BY <1>5, ExesOK DEF Restore, Say, IInv, TypeOK
  <2>2. told'.what = "restored"
    BY <1>5 DEF Restore, Say
  <2>3. QED
    BY <1>1, <1>5, <2>1, <2>2
       DEF Restore, Say, IInv, Anchored, Underway, ProgramRemains, TellsTheTruth
<1>6. QED BY <1>2, <1>3, <1>4, <1>5

LEMMA StepInv == IInv /\ [Next]_vars => IInv'
<1> SUFFICES ASSUME IInv, [Next]_vars PROVE IInv'
  OBVIOUS
<1>1. CASE UNCHANGED vars
  BY <1>1 DEF vars, IInv, TypeOK, Anchored, Underway, Candidate, ProgramRemains, TellsTheTruth
<1>2. QED
  BY <1>1, SessionStep, DropInStep, FetchStep, ChoosingStep, MovingStep, WritingStep DEF Next

LEMMA IInvHolds == Spec => []IInv
BY InitInv, StepInv, PTL DEF Spec

-----------------------------------------------------------------------------
(* Type correctness.                                                       *)
THEOREM UpdateTypeCorrect == Spec => []TypeOK
<1>1. IInv => TypeOK
  BY DEF IInv
<1>2. QED BY <1>1, IInvHolds, PTL

(* cmd_update and the clean-up at the start leave a whole executable under *)
(* one of the two names, whatever fails and whenever the process dies.     *)
THEOREM ProgramAlwaysRemains == Spec => []ProgramRemains
<1>1. IInv => ProgramRemains
  BY DEF IInv
<1>2. QED BY <1>1, IInvHolds, PTL

(* The message of /update is true of the file that is in place.            *)
THEOREM UpdateTellsTheTruth == Spec => []TellsTheTruth
<1>1. IInv => TellsTheTruth
  BY DEF IInv
<1>2. QED BY <1>1, IInvHolds, PTL

(***************************************************************************)
(* LineEditor.                                                             *)
(***************************************************************************)
Cell == Printable \cup {Blank}
Screens == [row : Seq(Cell), col : Nat]

(* The row shows the line b, and nothing but blanks after it; the cursor   *)
(* is at p.                                                                *)
Shows(s, b, p) ==
  /\ s \in Screens
  /\ s.col = p
  /\ Len(b) <= Len(s.row)
  /\ \A i \in 1 .. Len(s.row) : s.row[i] = IF i <= Len(b) THEN b[i] ELSE Blank

Lines == {b \in Seq(Printable) : Len(b) <= MaxLine}

EditorInv ==
  /\ buf \in Lines /\ pos \in 0 .. Len(buf)
  /\ hist \in Seq(Lines) /\ Len(hist) <= HistMax
  /\ browse \in 0 .. Len(hist)
  /\ saved \in Lines
  /\ typing \in BOOLEAN
  /\ Shows(Screen, buf, pos)
  /\ typed = IF browse = Len(hist) THEN buf ELSE saved

-----------------------------------------------------------------------------
(* Sequences.                                                              *)
LEMMA ConcatIs ==
  ASSUME NEW S, NEW x \in Seq(S), NEW y \in Seq(S)
  PROVE  /\ x \o y \in Seq(S) /\ Len(x \o y) = Len(x) + Len(y)
         /\ \A i \in 1 .. Len(x) + Len(y) :
              (x \o y)[i] = IF i <= Len(x) THEN x[i] ELSE y[i - Len(x)]
BY ConcatProperties

LEMMA InsertAtIs ==
  ASSUME NEW S, NEW b \in Seq(S), NEW p \in 0 .. Len(b), NEW c \in S
  PROVE  /\ InsertAt(b, p + 1, c) \in Seq(S)
         /\ Len(InsertAt(b, p + 1, c)) = Len(b) + 1
         /\ \A i \in 1 .. Len(b) + 1 :
              InsertAt(b, p + 1, c)[i] = IF i <= p THEN b[i] ELSE IF i = p + 1 THEN c ELSE b[i - 1]
<1> DEFINE u == SubSeq(b, 1, p + 1 - 1)
           v == SubSeq(b, p + 1, Len(b))
           uc == u \o <<c>>
           r == InsertAt(b, p + 1, c)
<1>1. p \in Nat /\ Len(b) \in Nat
  OBVIOUS
<1>2. u \in Seq(S) /\ Len(u) = p /\ \A i \in 1 .. p : u[i] = b[i]
  OBVIOUS
<1>3. v \in Seq(S) /\ Len(v) = Len(b) - p /\ \A i \in 1 .. Len(b) - p : v[i] = b[p + i]
  OBVIOUS
<1>4. r = uc \o v
  <2> HIDE DEF u, v
  <2>1. (u \o <<c>>) \o v = u \o (<<c>> \o v)
    BY <1>2, <1>3, ConcatAssociative
  <2>2. r = u \o (<<c>> \o v) \/ r = (u \o <<c>>) \o v
    BY DEF InsertAt, u, v
  <2>3. QED BY <2>1, <2>2
<1> HIDE DEF u, v, r
<1>5. uc \in Seq(S) /\ Len(uc) = p + 1 /\ \A i \in 1 .. p + 1 : uc[i] = IF i <= p THEN b[i] ELSE c
  BY <1>2
<1> HIDE DEF uc
<1>6. /\ r \in Seq(S) /\ Len(r) = Len(b) + 1
      /\ \A i \in 1 .. Len(b) + 1 : r[i] = IF i <= p + 1 THEN uc[i] ELSE v[i - (p + 1)]
  BY <1>1, <1>3, <1>4, <1>5, ConcatProperties
<1>7. ASSUME NEW i \in 1 .. Len(b) + 1
      PROVE  r[i] = IF i <= p THEN b[i] ELSE IF i = p + 1 THEN c ELSE b[i - 1]
  <2>1. CASE i <= p + 1
    BY <1>1, <1>5, <1>6, <2>1
  <2>2. CASE i > p + 1
    <3>1. i - (p + 1) \in 1 .. Len(b) - p /\ p + (i - (p + 1)) = i - 1
      BY <1>1, <2>2
    <3>2. v[i - (p + 1)] = b[i - 1]
      BY <1>3, <3>1
    <3>3. QED BY <1>1, <1>6, <2>2, <3>2
  <2>3. i <= p + 1 \/ i > p + 1
    BY <1>1
  <2>4. QED BY <2>1, <2>2, <2>3
<1>8. /\ r \in Seq(S) /\ Len(r) = Len(b) + 1
      /\ \A i \in 1 .. Len(b) + 1 : r[i] = IF i <= p THEN b[i] ELSE IF i = p + 1 THEN c ELSE b[i - 1]
  BY <1>6, <1>7
<1>9. QED BY <1>8 DEF r

LEMMA RemoveAtIs ==
  ASSUME NEW S, NEW b \in Seq(S), NEW p \in 1 .. Len(b)
  PROVE  /\ RemoveAt(b, p) \in Seq(S)
         /\ Len(RemoveAt(b, p)) = Len(b) - 1
         /\ \A i \in 1 .. Len(b) - 1 :
              RemoveAt(b, p)[i] = IF i < p THEN b[i] ELSE b[i + 1]
<1> DEFINE u == SubSeq(b, 1, p - 1)
           v == SubSeq(b, p + 1, Len(b))
<1>1. u \in Seq(S) /\ Len(u) = p - 1 /\ \A i \in 1 .. p - 1 : u[i] = b[i]
  OBVIOUS
<1>2. v \in Seq(S) /\ Len(v) = Len(b) - p /\ \A i \in 1 .. Len(b) - p : v[i] = b[p + i]
  OBVIOUS
<1>3. RemoveAt(b, p) = u \o v
  BY DEF RemoveAt
<1> HIDE DEF u, v
<1>0. p \in Nat /\ Len(b) \in Nat
  OBVIOUS
<1>4. /\ u \o v \in Seq(S) /\ Len(u \o v) = Len(b) - 1
      /\ \A i \in 1 .. Len(b) - 1 : (u \o v)[i] = IF i <= p - 1 THEN u[i] ELSE v[i - (p - 1)]
  <2>1. /\ u \o v \in Seq(S) /\ Len(u \o v) = Len(u) + Len(v)
        /\ \A i \in 1 .. Len(u) + Len(v) :
             (u \o v)[i] = IF i <= Len(u) THEN u[i] ELSE v[i - Len(u)]
    BY <1>1, <1>2, ConcatIs
  <2>2. Len(u) = p - 1 /\ Len(u) + Len(v) = Len(b) - 1
    BY <1>0, <1>1, <1>2
  <2>3. QED BY <2>1, <2>2
<1>5. ASSUME NEW i \in 1 .. Len(b) - 1
      PROVE  (u \o v)[i] = IF i < p THEN b[i] ELSE b[i + 1]
  <2>1. CASE i < p
    BY <1>1, <1>4, <2>1
  <2>2. CASE ~(i < p)
    <3>1. i - (p - 1) \in 1 .. Len(b) - p /\ p + (i - (p - 1)) = i + 1
      BY <2>2
    <3>2. QED BY <1>2, <1>4, <2>2, <3>1
  <2>3. QED BY <2>1, <2>2
<1>6. QED BY <1>3, <1>4, <1>5

LEMMA AfterIs ==
  ASSUME NEW S, NEW b \in Seq(S), NEW p \in 0 .. Len(b)
  PROVE  /\ After(b, p) \in Seq(S)
         /\ Len(After(b, p)) = Len(b) - p
         /\ \A i \in 1 .. Len(b) - p : After(b, p)[i] = b[p + i]
BY DEF After

(* What the terminal makes of characters.                                  *)
LEMMA TypeIs ==
  ASSUME NEW s \in Screens, s.col <= Len(s.row), NEW t \in Seq(Cell)
  PROVE  /\ Type(s, t) \in Screens
         /\ Type(s, t).col = s.col + Len(t)
         /\ Len(Type(s, t).row) = IF s.col + Len(t) > Len(s.row) THEN s.col + Len(t) ELSE Len(s.row)
         /\ \A i \in 1 .. Len(Type(s, t).row) :
              Type(s, t).row[i] = IF i \in s.col + 1 .. s.col + Len(t) THEN t[i - s.col]
                                  ELSE s.row[i]
<1> DEFINE w == s.col + Len(t)
           n == IF w > Len(s.row) THEN w ELSE Len(s.row)
           r == [i \in 1 .. n |-> IF i \in s.col + 1 .. w THEN t[i - s.col] ELSE Cells(s.row, i)[i]]
<1>1. s.col \in Nat /\ s.row \in Seq(Cell) /\ Len(t) \in Nat /\ Len(s.row) \in Nat
  BY DEF Screens
<1>2. n \in Nat
  BY <1>1
<1>3. ASSUME NEW i \in 1 .. n
      PROVE  /\ r[i] = IF i \in s.col + 1 .. w THEN t[i - s.col] ELSE s.row[i]
             /\ r[i] \in Cell
  <2>1. CASE i \in s.col + 1 .. w
    BY <1>1, <2>1
  <2>2. CASE i \notin s.col + 1 .. w
    <3>1. i \in 1 .. Len(s.row)
      BY <1>1, <2>2
    <3>2. Cells(s.row, i)[i] = s.row[i]
      BY <1>1, <3>1 DEF Cells
    <3>3. QED BY <1>1, <2>2, <3>1, <3>2
  <2>3. QED BY <2>1, <2>2
<1>4. r \in Seq(Cell) /\ Len(r) = n
  <2> HIDE DEF n
  <2>1. r \in [1 .. n -> Cell]
    BY <1>3
  <2>2. QED BY <1>2, <2>1
<1>5. Type(s, t) = [col |-> w, row |-> r]
  BY DEF Type
<1>6. Type(s, t).row = r /\ Type(s, t).col = w /\ Type(s, t) \in Screens
  BY <1>1, <1>4, <1>5 DEF Screens
<1>7. QED
  <2> HIDE DEF r, n
  <2>1. QED BY <1>3, <1>4, <1>6 DEF n

LEMMA TypeAt ==
  ASSUME NEW s \in Screens, NEW q \in Nat, s.col = q, q <= Len(s.row), NEW t \in Seq(Cell)
  PROVE  /\ Type(s, t) \in Screens
         /\ Type(s, t).col = q + Len(t)
         /\ Len(Type(s, t).row) = IF q + Len(t) > Len(s.row) THEN q + Len(t) ELSE Len(s.row)
         /\ \A i \in 1 .. Len(Type(s, t).row) :
              Type(s, t).row[i] = IF i \in q + 1 .. q + Len(t) THEN t[i - q] ELSE s.row[i]
BY TypeIs

LEMMA BackIs ==
  ASSUME NEW s \in Screens, NEW n \in Nat, n <= s.col
  PROVE  Back(s, n) \in Screens /\ Back(s, n).row = s.row /\ Back(s, n).col = s.col - n
BY DEF Back, Screens

LEMMA RedrawShows ==
  ASSUME NEW b \in Seq(Printable), NEW p \in 0 .. Len(b), NEW pad \in Seq({Blank}),
         NEW s \in Screens, s.col = p, p <= Len(s.row),
         \A i \in 1 .. p : s.row[i] = b[i],
         \A i \in 1 .. Len(s.row) : i > Len(b) + Len(pad) => s.row[i] = Blank
  PROVE  Shows(RedrawTail(s, b, p, pad), b, p)
<1> DEFINE u == After(b, p)
           t == u \o pad
           z == Type(s, t)
<1>1. b \in Seq(Cell) /\ pad \in Seq(Cell) /\ Len(b) \in Nat /\ Len(pad) \in Nat /\ p \in Nat
  BY SeqMonotonic DEF Cell
<1>2. u \in Seq(Cell) /\ Len(u) = Len(b) - p /\ \A i \in 1 .. Len(b) - p : u[i] = b[p + i]
  BY <1>1, AfterIs
<1> HIDE DEF u
<1> HIDE DEF t
<1>0. /\ u \o pad \in Seq(Cell) /\ Len(u \o pad) = Len(u) + Len(pad)
      /\ \A i \in 1 .. Len(u) + Len(pad) :
           (u \o pad)[i] = IF i <= Len(u) THEN u[i] ELSE pad[i - Len(u)]
  <2>1. u \in Seq(Cell) /\ pad \in Seq(Cell)
    BY <1>1, <1>2
  <2>2. QED BY <2>1, ConcatIs
<1>3. /\ t \in Seq(Cell) /\ Len(t) = Len(u) + Len(pad)
      /\ \A i \in 1 .. Len(u) + Len(pad) : t[i] = IF i <= Len(u) THEN u[i] ELSE pad[i - Len(u)]
  BY <1>0 DEF t
<1> HIDE DEF z
<1>4. Len(s.row) \in Nat
  BY DEF Screens
<1>5. /\ z \in Screens /\ z.col = p + Len(t)
      /\ Len(z.row) = IF p + Len(t) > Len(s.row) THEN p + Len(t) ELSE Len(s.row)
      /\ \A i \in 1 .. Len(z.row) : z.row[i] = IF i \in p + 1 .. p + Len(t) THEN t[i - p] ELSE s.row[i]
  <2>1. t \in Seq(Cell) /\ p \in Nat /\ p <= Len(s.row) /\ s.col = p /\ s \in Screens
    BY <1>1, <1>3
  <2>2. /\ Type(s, t) \in Screens /\ Type(s, t).col = p + Len(t)
        /\ Len(Type(s, t).row) = IF p + Len(t) > Len(s.row) THEN p + Len(t) ELSE Len(s.row)
        /\ \A i \in 1 .. Len(Type(s, t).row) :
             Type(s, t).row[i] = IF i \in p + 1 .. p + Len(t) THEN t[i - p] ELSE s.row[i]
    BY <2>1, TypeAt
  <2>3. QED BY <2>2 DEF z
<1>6. p + Len(t) = Len(b) + Len(pad) /\ Len(t) \in Nat
  BY <1>1, <1>2, <1>3
<1>7. RedrawTail(s, b, p, pad) = Back(z, Len(t))
  BY DEF RedrawTail, z, t, u
<1>8. /\ Back(z, Len(t)) \in Screens /\ Back(z, Len(t)).row = z.row /\ Back(z, Len(t)).col = p
  BY <1>1, <1>5, <1>6, BackIs
<1>9. Len(b) <= Len(z.row) /\ Len(z.row) \in Nat
  BY <1>1, <1>4, <1>5, <1>6
<1>10. ASSUME NEW i \in 1 .. Len(z.row)
       PROVE  z.row[i] = IF i <= Len(b) THEN b[i] ELSE Blank
  <2>0. i \in Nat /\ i >= 1
    BY <1>9
  <2>1. CASE i <= p
    <3>1. i \in 1 .. p /\ i \notin p + 1 .. p + Len(t) /\ i <= Len(b)
      BY <1>1, <1>6, <2>0, <2>1
    <3>2. z.row[i] = s.row[i]
      BY <1>5, <3>1
    <3>3. QED BY <3>1, <3>2
  <2>2. CASE i > p /\ i <= Len(b)
    <3>1. i \in p + 1 .. p + Len(t) /\ i - p \in 1 .. Len(b) - p /\ p + (i - p) = i
      BY <1>1, <1>6, <2>0, <2>2
    <3>2. i - p \in 1 .. Len(u) + Len(pad) /\ i - p <= Len(u)
      BY <1>1, <1>2, <3>1
    <3>0. t[i - p] = u[i - p]
      BY <1>3, <3>2
    <3>3. QED BY <1>2, <1>5, <2>2, <3>1, <3>0
  <2>3. CASE i > Len(b) /\ i <= Len(b) + Len(pad)
    <3>1. i \in p + 1 .. p + Len(t) /\ i - p \in 1 .. Len(u) + Len(pad) /\ ~(i - p <= Len(u))
          /\ i - p - Len(u) \in 1 .. Len(pad)
      BY <1>1, <1>2, <1>6, <2>0, <2>3
    <3>2. t[i - p] = pad[i - p - Len(u)]
      BY <1>3, <3>1
    <3>3. pad[i - p - Len(u)] = Blank
      BY <3>1
    <3>4. z.row[i] = Blank
      BY <1>5, <3>1, <3>2, <3>3
    <3>5. ~(i <= Len(b))
      BY <1>1, <2>0, <2>3
    <3>6. QED BY <3>4, <3>5
  <2>4. CASE i > Len(b) + Len(pad)
    <3>1. i \notin p + 1 .. p + Len(t) /\ i \in 1 .. Len(s.row) /\ ~(i <= Len(b))
      BY <1>1, <1>4, <1>5, <1>6, <2>0, <2>4
    <3>2. QED BY <1>5, <2>4, <3>1
  <2>5. i <= p \/ (i > p /\ i <= Len(b)) \/ (i > Len(b) /\ i <= Len(b) + Len(pad))
        \/ i > Len(b) + Len(pad)
    BY <1>1, <2>0
  <2>6. QED BY <2>1, <2>2, <2>3, <2>4, <2>5
<1>11. QED BY <1>7, <1>8, <1>9, <1>10 DEF Shows

(* A cursor moves forward by sending the characters it passes again.       *)
LEMMA TypeForward ==
  ASSUME NEW b \in Seq(Printable), NEW p \in 0 .. Len(b), NEW s, Shows(s, b, p),
         NEW t \in Seq(Printable), p + Len(t) <= Len(b),
         \A i \in 1 .. Len(t) : t[i] = b[p + i]
  PROVE  Shows(Type(s, t), b, p + Len(t))
<1> DEFINE z == Type(s, t)
<1>1. t \in Seq(Cell) /\ Len(b) \in Nat /\ Len(t) \in Nat /\ p \in Nat
  BY SeqMonotonic DEF Cell
<1>2. s \in Screens /\ s.col = p /\ Len(b) <= Len(s.row) /\ Len(s.row) \in Nat
  BY DEF Shows, Screens
<1>3. /\ z \in Screens /\ z.col = p + Len(t) /\ Len(z.row) = Len(s.row)
      /\ \A i \in 1 .. Len(z.row) : z.row[i] = IF i \in p + 1 .. p + Len(t) THEN t[i - p] ELSE s.row[i]
  <2>1. /\ z \in Screens /\ z.col = p + Len(t)
        /\ Len(z.row) = IF p + Len(t) > Len(s.row) THEN p + Len(t) ELSE Len(s.row)
        /\ \A i \in 1 .. Len(z.row) : z.row[i] = IF i \in p + 1 .. p + Len(t) THEN t[i - p] ELSE s.row[i]
    <3>1. p <= Len(s.row)
      BY <1>1, <1>2
    <3>2. QED BY <1>1, <1>2, <3>1, TypeAt
  <2>2. ~(p + Len(t) > Len(s.row))
    BY <1>1, <1>2
  <2> HIDE DEF z
  <2>3. QED BY <2>1, <2>2
<1> HIDE DEF z
<1>4. ASSUME NEW i \in 1 .. Len(z.row)
      PROVE  z.row[i] = IF i <= Len(b) THEN b[i] ELSE Blank
  <2>1. CASE i \in p + 1 .. p + Len(t)
    <3>1. i - p \in 1 .. Len(t) /\ p + (i - p) = i /\ i <= Len(b)
      BY <1>1, <2>1
    <3>2. QED BY <1>3, <2>1, <3>1
  <2>2. CASE i \notin p + 1 .. p + Len(t)
    BY <1>2, <1>3, <2>2 DEF Shows
  <2>3. QED BY <2>1, <2>2
<1>5. QED BY <1>2, <1>3, <1>4 DEF Shows, z

LEMMA BackShows ==
  ASSUME NEW b \in Seq(Printable), NEW p \in 0 .. Len(b), NEW s, Shows(s, b, p),
         NEW n \in 0 .. p
  PROVE  Shows(Back(s, n), b, p - n)
BY BackIs DEF Shows

(* A recalled line is drawn on an empty row.                               *)
LEMMA RecallShows ==
  ASSUME NEW b \in Seq(Printable), NEW p \in 0 .. Len(b), NEW s, Shows(s, b, p),
         NEW t \in Seq(Printable)
  PROVE  Shows(Type(ClearLine(s, p), t), t, Len(t))
<1> DEFINE e == ClearLine(s, p)
           z == Type(e, t)
<1>1. t \in Seq(Cell) /\ Len(t) \in Nat
  BY SeqMonotonic DEF Cell
<1>2. s \in Screens /\ s.col = p
  BY DEF Shows
<1>3. Back(s, p) \in Screens /\ Back(s, p).col = 0
  BY <1>2, BackIs
<1>4. e \in Screens /\ e.col = 0 /\ e.row = <<>>
  <2>1. Cells(Back(s, p).row, 0) = <<>>
    BY DEF Cells
  <2>2. e = [Back(s, p) EXCEPT !.row = <<>>]
    BY <1>3, <2>1 DEF ClearLine, EraseToEnd
  <2>3. e.col = Back(s, p).col /\ e.row = <<>>
    BY <1>3, <2>2 DEF Screens
  <2>4. e = [row |-> <<>>, col |-> 0]
    BY <1>3, <2>2 DEF Screens
  <2>5. <<>> \in Seq(Cell)
    OBVIOUS
  <2>6. [row |-> <<>>, col |-> 0] \in Screens
    BY <2>5 DEF Screens
  <2> HIDE DEF e
  <2>7. QED BY <1>3, <2>3, <2>4, <2>6
<1> HIDE DEF e
<1>5. /\ z \in Screens /\ z.col = Len(t) /\ Len(z.row) = Len(t)
      /\ \A i \in 1 .. Len(z.row) : z.row[i] = IF i \in 1 .. Len(t) THEN t[i] ELSE <<>>[i]
  <2>1. Len(e.row) = 0
    BY <1>4
  <2>2. /\ z \in Screens /\ z.col = 0 + Len(t)
        /\ Len(z.row) = IF 0 + Len(t) > 0 THEN 0 + Len(t) ELSE 0
        /\ \A i \in 1 .. Len(z.row) : z.row[i] = IF i \in 0 + 1 .. 0 + Len(t) THEN t[i - 0] ELSE e.row[i]
    BY <1>1, <1>4, <2>1, TypeAt
  <2> HIDE DEF z
  <2>3. QED BY <1>1, <1>4, <2>2
<1> HIDE DEF z
<1>6. QED BY <1>1, <1>5 DEF Shows, z, e

(* Typing a character, and taking one out.                                 *)
LEMMA InsertShows ==
  ASSUME NEW b \in Seq(Printable), NEW p \in 0 .. Len(b), NEW s, Shows(s, b, p),
         NEW c \in Printable
  PROVE  Shows(RedrawTail(Type(s, <<c>>), InsertAt(b, p + 1, c), p + 1, <<>>),
               InsertAt(b, p + 1, c), p + 1)
<1> DEFINE d == InsertAt(b, p + 1, c)
           z == Type(s, <<c>>)
<1>1. p \in Nat /\ Len(b) \in Nat
  OBVIOUS
<1>2. /\ d \in Seq(Printable) /\ Len(d) = Len(b) + 1
      /\ \A i \in 1 .. Len(b) + 1 : d[i] = IF i <= p THEN b[i] ELSE IF i = p + 1 THEN c ELSE b[i - 1]
  BY InsertAtIs
<1> HIDE DEF d
<1>3. /\ s \in Screens /\ s.col = p /\ Len(b) <= Len(s.row) /\ Len(s.row) \in Nat
      /\ \A i \in 1 .. Len(s.row) : s.row[i] = IF i <= Len(b) THEN b[i] ELSE Blank
  BY DEF Shows, Screens
<1>4. <<c>> \in Seq(Cell) /\ Len(<<c>>) = 1 /\ <<c>>[1] = c
  BY DEF Cell
<1>5. /\ z \in Screens /\ z.col = p + 1
      /\ Len(z.row) = IF p + 1 > Len(s.row) THEN p + 1 ELSE Len(s.row)
      /\ \A i \in 1 .. Len(z.row) : z.row[i] = IF i \in p + 1 .. p + 1 THEN <<c>>[i - p] ELSE s.row[i]
  <2> DEFINE t == <<c>>
  <2>1. Len(t) = 1
    BY <1>4
  <2>0. s \in Screens /\ p \in Nat /\ s.col = p /\ p <= Len(s.row) /\ t \in Seq(Cell)
    BY <1>1, <1>3, <1>4
  <2> HIDE DEF t
  <2>2. /\ Type(s, t) \in Screens /\ Type(s, t).col = p + Len(t)
        /\ Len(Type(s, t).row) = IF p + Len(t) > Len(s.row) THEN p + Len(t) ELSE Len(s.row)
        /\ \A i \in 1 .. Len(Type(s, t).row) :
             Type(s, t).row[i] = IF i \in p + 1 .. p + Len(t) THEN t[i - p] ELSE s.row[i]
    BY <2>0, TypeAt
  <2>3. z = Type(s, t)
    BY DEF t
  <2> HIDE DEF z
  <2>4. /\ z \in Screens /\ z.col = p + 1
        /\ Len(z.row) = IF p + 1 > Len(s.row) THEN p + 1 ELSE Len(s.row)
        /\ \A i \in 1 .. Len(z.row) : z.row[i] = IF i \in p + 1 .. p + 1 THEN t[i - p] ELSE s.row[i]
    BY <2>1, <2>2, <2>3
  <2>5. QED BY <2>4 DEF t
<1> HIDE DEF z
<1>6. p + 1 \in 0 .. Len(d) /\ p + 1 <= Len(z.row) /\ <<>> \in Seq({Blank}) /\ Len(<<>>) = 0
  BY <1>1, <1>2, <1>3, <1>5
<1>7. ASSUME NEW i \in 1 .. p + 1
      PROVE  z.row[i] = d[i]
  <2>1. i \in 1 .. Len(z.row) /\ i \in 1 .. Len(b) + 1
    BY <1>1, <1>3, <1>5
  <2>2. CASE i = p + 1
    <3>1. i - p = 1 /\ i \in p + 1 .. p + 1 /\ ~(i <= p)
      BY <1>1, <2>2
    <3>2. z.row[i] = <<c>>[i - p]
      BY <1>5, <2>1, <3>1
    <3>3. d[i] = c
      BY <1>2, <2>1, <2>2, <3>1
    <3>4. QED BY <1>4, <3>1, <3>2, <3>3
  <2>3. CASE i # p + 1
    <3>1. i <= p /\ i \notin p + 1 .. p + 1 /\ i <= Len(b) /\ i \in 1 .. Len(s.row)
      BY <1>1, <1>3, <2>3
    <3>2. z.row[i] = s.row[i]
      BY <1>5, <2>1, <3>1
    <3>3. QED BY <1>2, <1>3, <2>1, <3>1, <3>2
  <2>4. QED BY <2>2, <2>3
<1>8. ASSUME NEW i \in 1 .. Len(z.row), i > Len(d) + Len(<<>>)
      PROVE  z.row[i] = Blank
  <2>1. i \notin p + 1 .. p + 1 /\ i \in 1 .. Len(s.row) /\ ~(i <= Len(b))
    BY <1>1, <1>2, <1>3, <1>5, <1>6, <1>8
  <2>2. QED BY <1>3, <1>5, <2>1
<1>9. Shows(RedrawTail(z, d, p + 1, <<>>), d, p + 1)
  BY <1>2, <1>5, <1>6, <1>7, <1>8, RedrawShows
<1>10. QED BY <1>9 DEF d, z

LEMMA EraseShows ==
  ASSUME NEW b \in Seq(Printable), NEW p \in 0 .. Len(b) - 1, NEW s, Shows(s, b, p)
  PROVE  Shows(RedrawTail(s, RemoveAt(b, p + 1), p, <<Blank>>), RemoveAt(b, p + 1), p)
<1> DEFINE d == RemoveAt(b, p + 1)
<1>1. p \in Nat /\ Len(b) \in Nat /\ p + 1 \in 1 .. Len(b)
  OBVIOUS
<1>2. /\ d \in Seq(Printable) /\ Len(d) = Len(b) - 1
      /\ \A i \in 1 .. Len(b) - 1 : d[i] = IF i < p + 1 THEN b[i] ELSE b[i + 1]
  BY <1>1, RemoveAtIs
<1> HIDE DEF d
<1>3. /\ s \in Screens /\ s.col = p /\ Len(b) <= Len(s.row) /\ Len(s.row) \in Nat
      /\ \A i \in 1 .. Len(s.row) : s.row[i] = IF i <= Len(b) THEN b[i] ELSE Blank
  BY DEF Shows, Screens
<1>4. <<Blank>> \in Seq({Blank}) /\ Len(<<Blank>>) = 1
  OBVIOUS
<1>5. p \in 0 .. Len(d) /\ p <= Len(s.row)
  BY <1>1, <1>2, <1>3
<1>6. ASSUME NEW i \in 1 .. p
      PROVE  s.row[i] = d[i]
  <2>1. i \in 1 .. Len(s.row) /\ i \in 1 .. Len(b) - 1 /\ i < p + 1 /\ i <= Len(b)
    BY <1>1, <1>3
  <2>2. QED BY <1>2, <1>3, <2>1
<1>7. ASSUME NEW i \in 1 .. Len(s.row), i > Len(d) + Len(<<Blank>>)
      PROVE  s.row[i] = Blank
  <2>1. ~(i <= Len(b))
    BY <1>1, <1>2, <1>3, <1>4, <1>7
  <2>2. QED BY <1>3, <2>1
<1>8. Shows(RedrawTail(s, d, p, <<Blank>>), d, p)
  BY <1>2, <1>3, <1>4, <1>5, <1>6, <1>7, RedrawShows
<1>9. QED BY <1>8 DEF d

(* What is on the screen, without the blanks at its end, is the line.      *)
LEMMA ShownIsTrimmed ==
  ASSUME Blank \notin Printable, NEW b \in Seq(Printable), NEW p \in 0 .. Len(b), NEW s, Shows(s, b, p)
  PROVE  Trimmed(s.row) = b
<1> DEFINE used == {i \in DOMAIN s.row : s.row[i] # Blank}
           n == IF used = {} THEN 0 ELSE CHOOSE m \in used : \A i \in used : i <= m
<1>1. /\ s.row \in Seq(Cell) /\ Len(b) <= Len(s.row) /\ Len(s.row) \in Nat /\ Len(b) \in Nat
      /\ \A i \in 1 .. Len(s.row) : s.row[i] = IF i <= Len(b) THEN b[i] ELSE Blank
  BY DEF Shows, Screens
<1>2. used = 1 .. Len(b)
  <2>1. DOMAIN s.row = 1 .. Len(s.row)
    BY <1>1
  <2>2. \A i \in 1 .. Len(b) : b[i] # Blank
    OBVIOUS
  <2>3. QED BY <1>1, <2>1, <2>2
<1> HIDE DEF used
<1>3. n = Len(b)
  <2>1. CASE Len(b) = 0
    <3>1. used = {}
      BY <1>2, <2>1
    <3>2. QED BY <2>1, <3>1
  <2>2. CASE Len(b) # 0
    <3>1. Len(b) \in used /\ (\A i \in used : i <= Len(b)) /\ used # {}
      BY <1>1, <1>2, <2>2
    <3>2. \A m \in used : (\A i \in used : i <= m) => m = Len(b)
      BY <1>1, <1>2, <3>1
    <3>3. QED BY <3>1, <3>2
  <2>3. QED BY <2>1, <2>2
<1>4. Trimmed(s.row) = SubSeq(s.row, 1, n)
  BY DEF Trimmed, used
<1> HIDE DEF n
<1>5. SubSeq(s.row, 1, Len(b)) = b
  <2>1. /\ SubSeq(s.row, 1, Len(b)) \in Seq(Cell) /\ Len(SubSeq(s.row, 1, Len(b))) = Len(b)
        /\ \A i \in 1 .. Len(b) : SubSeq(s.row, 1, Len(b))[i] = s.row[i]
    BY <1>1
  <2>2. \A i \in 1 .. Len(b) : s.row[i] = b[i]
    BY <1>1
  <2> DEFINE v == SubSeq(s.row, 1, Len(b))
  <2>3. v \in Seq(Cell) /\ Len(v) = Len(b) /\ \A i \in 1 .. Len(b) : v[i] = b[i]
    BY <2>1, <2>2
  <2> HIDE DEF v
  <2>4. b \in Seq(Cell)
    BY SeqMonotonic DEF Cell
  <2>5. v = b
    BY <2>3, <2>4, SeqEqual
  <2>6. QED BY <2>5 DEF v
<1>6. QED BY <1>3, <1>4, <1>5

-----------------------------------------------------------------------------
(* The steps.                                                              *)
LEMMA ScreenIs ==
  ASSUME NEW s \in Screens, Show(s)
  PROVE  Screen' = s
BY DEF Screens, Screen, Show

LEMMA MoveKeeps ==
  ASSUME EditorInv, UNCHANGED <<buf, recall, typing, typed>>, pos' \in 0 .. Len(buf),
         NEW s, Shows(s, buf, pos'), Show(s)
  PROVE  EditorInv'
<1>1. Screen' = s
  BY ScreenIs DEF Shows
<1>2. Shows(Screen', buf', pos')
  BY <1>1
<1>3. QED BY <1>2 DEF EditorInv, recall

LEMMA EditKeeps ==
  ASSUME EditorInv, UNCHANGED <<recall, typing>>, Edited, buf' \in Lines, pos' \in 0 .. Len(buf'),
         NEW s, Shows(s, buf', pos'), Show(s)
  PROVE  EditorInv'
<1>1. Screen' = s
  BY ScreenIs DEF Shows
<1>2. Shows(Screen', buf', pos')
  BY <1>1
<1>3. QED BY <1>2 DEF EditorInv, Edited, recall

LEMMA InsertKeeps ==
  ASSUME EditorInv, NEW c \in Printable, Insert(c)
  PROVE  EditorInv'
<1>1. buf \in Seq(Printable) /\ pos \in 0 .. Len(buf) /\ Shows(Screen, buf, pos) /\ Len(buf) \in Nat
  BY DEF EditorInv, Lines
<1>2. buf' = InsertAt(buf, pos + 1, c) /\ pos' = pos + 1 /\ Len(buf) < MaxLine /\ MaxLine \in Nat
  BY EditorAssumption DEF Insert
<1>3. Shows(RedrawTail(Type(Screen, <<c>>), buf', pos', <<>>), buf', pos')
  BY <1>1, <1>2, InsertShows
<1>4. buf' \in Lines /\ pos' \in 0 .. Len(buf')
  <2>1. buf' \in Seq(Printable) /\ Len(buf') = Len(buf) + 1
    BY <1>1, <1>2, InsertAtIs
  <2>2. QED BY <1>1, <1>2, <2>1 DEF Lines
<1>5. QED BY <1>3, <1>4, EditKeeps DEF Insert

LEMMA EraseKeeps ==
  ASSUME EditorInv, Backspace \/ Delete
  PROVE  EditorInv'
<1>1. /\ buf \in Seq(Printable) /\ pos \in 0 .. Len(buf) /\ Shows(Screen, buf, pos) /\ Len(buf) \in Nat
      /\ Len(buf) <= MaxLine
  BY DEF EditorInv, Lines
<1>2. MaxLine \in Nat
  BY EditorAssumption
<1>3. ASSUME NEW p \in 0 .. Len(buf) - 1, buf' = RemoveAt(buf, p + 1)
      PROVE  buf' \in Lines /\ p \in 0 .. Len(buf')
  <2>1. p + 1 \in 1 .. Len(buf)
    BY <1>1
  <2>2. buf' \in Seq(Printable) /\ Len(buf') = Len(buf) - 1
    BY <1>1, <1>3, <2>1, RemoveAtIs
  <2>3. QED BY <1>1, <1>2, <2>2 DEF Lines
<1>4. CASE Backspace
  <2>1. pos > 0 /\ buf' = RemoveAt(buf, pos) /\ pos' = pos - 1
    BY <1>4 DEF Backspace
  <2>2. pos' \in 0 .. Len(buf) - 1 /\ pos' + 1 = pos /\ pos - 1 \in 0 .. Len(buf) /\ 1 \in 0 .. pos
    BY <1>1, <2>1
  <2>3. Shows(Back(Screen, 1), buf, pos - 1)
    BY <1>1, <2>2, BackShows
  <2>4. Shows(RedrawTail(Back(Screen, 1), buf', pos', <<Blank>>), buf', pos')
    BY <1>1, <2>1, <2>2, <2>3, EraseShows
  <2>5. buf' \in Lines /\ pos' \in 0 .. Len(buf')
    BY <1>3, <2>1, <2>2
  <2>6. QED BY <1>4, <2>4, <2>5, EditKeeps DEF Backspace
<1>5. CASE Delete
  <2>1. pos \in 0 .. Len(buf) - 1 /\ buf' = RemoveAt(buf, pos + 1) /\ pos' = pos
    BY <1>1, <1>5 DEF Delete
  <2>2. Shows(RedrawTail(Screen, buf', pos, <<Blank>>), buf', pos)
    BY <1>1, <2>1, EraseShows
  <2>3. buf' \in Lines /\ pos' \in 0 .. Len(buf')
    BY <1>3, <2>1
  <2>4. QED BY <1>5, <2>1, <2>2, <2>3, EditKeeps DEF Delete
<1>6. QED BY <1>4, <1>5

LEMMA MovesKeep ==
  ASSUME EditorInv, Left \/ Right \/ Home \/ End
  PROVE  EditorInv'
<1>1. /\ buf \in Seq(Printable) /\ pos \in 0 .. Len(buf) /\ Shows(Screen, buf, pos)
      /\ pos \in Nat /\ Len(buf) \in Nat
  BY DEF EditorInv, Lines
<1>2. CASE Left
  <2>1. pos > 0 /\ pos' = pos - 1 /\ 1 \in 0 .. pos
    BY <1>1, <1>2 DEF Left
  <2>2. Shows(Back(Screen, 1), buf, pos')
    BY <1>1, <2>1, BackShows
  <2>3. pos' \in 0 .. Len(buf)
    BY <1>1, <2>1
  <2>4. QED BY <1>2, <2>2, <2>3, MoveKeeps DEF Left
<1>3. CASE Home
  <2>1. pos' = 0 /\ pos - pos = 0 /\ pos \in 0 .. pos
    BY <1>1, <1>3 DEF Home
  <2>2. Shows(Back(Screen, pos), buf, pos - pos)
    BY <1>1, <2>1, BackShows
  <2>3. pos' \in 0 .. Len(buf)
    BY <1>1, <2>1
  <2>4. QED BY <1>3, <2>1, <2>2, <2>3, MoveKeeps DEF Home
<1>4. CASE Right
  <2> DEFINE t == <<buf[pos + 1]>>
  <2>1. pos < Len(buf) /\ pos' = pos + 1
    BY <1>4 DEF Right
  <2>2. pos + 1 \in 1 .. Len(buf)
    BY <1>1, <2>1
  <2>3. t \in Seq(Printable) /\ Len(t) = 1 /\ \A i \in 1 .. 1 : t[i] = buf[pos + i]
    BY <1>1, <2>2
  <2> HIDE DEF t
  <2>4. pos + Len(t) <= Len(buf) /\ pos + Len(t) = pos'
    BY <1>1, <2>1, <2>3
  <2>5. Shows(Type(Screen, t), buf, pos + Len(t))
    BY <1>1, <2>3, <2>4, TypeForward
  <2>6. pos' \in 0 .. Len(buf)
    BY <1>1, <2>1
  <2>7. QED BY <1>4, <2>4, <2>5, <2>6, MoveKeeps DEF Right, t
<1>5. CASE End
  <2> DEFINE t == After(buf, pos)
  <2>1. pos < Len(buf) /\ pos' = Len(buf)
    BY <1>5 DEF End
  <2>2. t \in Seq(Printable) /\ Len(t) = Len(buf) - pos /\ \A i \in 1 .. Len(buf) - pos : t[i] = buf[pos + i]
    BY <1>1, AfterIs
  <2> HIDE DEF t
  <2>3. pos + Len(t) <= Len(buf) /\ pos + Len(t) = pos'
    BY <1>1, <2>1, <2>2
  <2>4. Shows(Type(Screen, t), buf, pos + Len(t))
    BY <1>1, <2>2, <2>3, TypeForward
  <2>5. pos' \in 0 .. Len(buf)
    BY <1>1, <2>1
  <2>6. QED BY <1>5, <2>3, <2>4, <2>5, MoveKeeps DEF End, t
<1>6. QED BY <1>2, <1>3, <1>4, <1>5

(* A stored line is never longer than the buffer, so recalling it cuts     *)
(* nothing off.                                                            *)
LEMMA RecallKeeps ==
  ASSUME EditorInv, NEW wanted \in Lines, Recall(wanted)
  PROVE  /\ buf' = wanted /\ pos' = Len(wanted) /\ Shows(Screen', buf', pos')
         /\ UNCHANGED <<hist, typing, typed>>
<1>1. buf \in Seq(Printable) /\ pos \in 0 .. Len(buf) /\ Shows(Screen, buf, pos)
  BY DEF EditorInv, Lines
<1>2. wanted \in Seq(Printable) /\ Len(wanted) \in Nat /\ MaxLine \in Nat /\ ~(Len(wanted) > MaxLine)
  BY EditorAssumption DEF Lines
<1>3. buf' = SubSeq(wanted, 1, Len(wanted))
  BY <1>2 DEF Recall
<1>4. SubSeq(wanted, 1, Len(wanted)) = wanted
  BY <1>2
<1>5. buf' = wanted /\ pos' = Len(wanted)
  BY <1>3, <1>4 DEF Recall
<1>6. Shows(Type(ClearLine(Screen, pos), wanted), wanted, Len(wanted))
  BY <1>1, <1>2, RecallShows
<1>7. Show(Type(ClearLine(Screen, pos), wanted))
  BY <1>5 DEF Recall
<1>8. Screen' = Type(ClearLine(Screen, pos), wanted)
  BY <1>6, <1>7, ScreenIs DEF Shows
<1>9. QED BY <1>5, <1>6, <1>8 DEF Recall

LEMMA BrowseKeeps ==
  ASSUME EditorInv, Up \/ Down
  PROVE  EditorInv'
<1>1. /\ hist \in Seq(Lines) /\ Len(hist) \in Nat /\ browse \in 0 .. Len(hist)
      /\ saved \in Lines /\ buf \in Lines /\ typing \in BOOLEAN /\ Len(hist) <= HistMax
      /\ typed = IF browse = Len(hist) THEN buf ELSE saved
  BY DEF EditorInv
<1>2. CASE Up
  <2>1. /\ browse > 0 /\ browse' = browse - 1 /\ Recall(hist[browse])
        /\ saved' = IF browse = Len(hist) THEN buf ELSE saved
    BY <1>2 DEF Up
  <2>2. hist[browse] \in Lines
    BY <1>1, <2>1
  <2>3. /\ buf' \in Lines /\ pos' \in 0 .. Len(buf') /\ Shows(Screen', buf', pos')
        /\ hist' = hist /\ typing' = typing /\ typed' = typed
    BY <2>1, <2>2, RecallKeeps DEF Lines
  <2>4. browse' \in 0 .. Len(hist) /\ browse' # Len(hist) /\ saved' = typed /\ saved' \in Lines
    BY <1>1, <2>1
  <2>5. QED BY <1>1, <2>3, <2>4 DEF EditorInv
<1>3. CASE Down
  <2> DEFINE wanted == IF browse' = Len(hist) THEN saved ELSE hist[browse' + 1]
  <2>1. browse < Len(hist) /\ browse' = browse + 1 /\ Recall(wanted) /\ saved' = saved
    BY <1>3 DEF Down
  <2>2. wanted \in Lines /\ (browse' = Len(hist) => wanted = typed)
    BY <1>1, <2>1
  <2> HIDE DEF wanted
  <2>3. /\ buf' = wanted /\ buf' \in Lines /\ pos' \in 0 .. Len(buf') /\ Shows(Screen', buf', pos')
        /\ hist' = hist /\ typing' = typing /\ typed' = typed
    BY <2>1, <2>2, RecallKeeps DEF Lines
  <2>4. browse' \in 0 .. Len(hist) /\ typed' = IF browse' = Len(hist) THEN buf' ELSE saved'
    BY <1>1, <2>1, <2>2, <2>3
  <2>5. QED BY <1>1, <2>1, <2>3, <2>4 DEF EditorInv
<1>4. QED BY <1>2, <1>3

LEMMA EmptyShows == Shows([row |-> <<>>, col |-> 0], <<>>, 0) /\ <<>> \in Seq(Printable)
<1>1. <<>> \in Seq(Cell) /\ Len(<<>>) = 0
  OBVIOUS
<1>2. QED BY <1>1 DEF Shows, Screens

LEMMA NextLineKeeps ==
  ASSUME EditorInv, NEW wanted \in Lines, NextLine(wanted), typing' \in BOOLEAN
  PROVE  EditorInv'
<1>1. hist \in Seq(Lines) /\ Len(hist) \in Nat /\ Len(hist) <= HistMax
  BY DEF EditorInv
<1>2. HistMax \in Nat \ {0} /\ MaxLine \in Nat
  BY EditorAssumption
<1>3. hist' \in Seq(Lines) /\ Len(hist') \in Nat /\ Len(hist') <= HistMax
  <2>1. hist' = Pushed(wanted)
    BY DEF NextLine
  <2>2. CASE Pushed(wanted) = hist
    BY <1>1, <2>1, <2>2
  <2>3. CASE Len(hist) = HistMax /\ Pushed(wanted) = Append(Tail(hist), wanted)
    <3>1. Tail(hist) \in Seq(Lines) /\ Len(Tail(hist)) = Len(hist) - 1
      BY <1>1, <1>2, <2>3
    <3>2. hist' \in Seq(Lines) /\ Len(hist') = Len(Tail(hist)) + 1
      BY <2>1, <2>3, <3>1
    <3>3. QED BY <1>1, <1>2, <2>3, <3>1, <3>2
  <2>4. CASE Len(hist) # HistMax /\ Pushed(wanted) = Append(hist, wanted)
    <3>1. hist' \in Seq(Lines) /\ Len(hist') = Len(hist) + 1
      BY <1>1, <2>1, <2>4
    <3>2. QED BY <1>1, <1>2, <2>4, <3>1
  <2>5. QED BY <2>2, <2>3, <2>4 DEF Pushed
<1>4. /\ browse' = Len(hist') /\ buf' = <<>> /\ pos' = 0 /\ saved' = <<>>
      /\ row' = <<>> /\ col' = 0 /\ typed' = <<>>
  BY DEF NextLine
<1>5. Screen' = [row |-> <<>>, col |-> 0]
  BY <1>4 DEF Screen
<1>6. Shows(Screen', buf', pos')
  BY <1>4, <1>5, EmptyShows
<1>7. buf' \in Lines /\ saved' \in Lines /\ pos' \in 0 .. Len(buf')
  BY <1>2, <1>4 DEF Lines
<1>8. QED BY <1>3, <1>4, <1>6, <1>7 DEF EditorInv

LEMMA EditorStart == ASSUME EditorInit PROVE EditorInv
<1>1. /\ buf = <<>> /\ pos = 0 /\ hist = <<>> /\ browse = 0 /\ saved = <<>>
      /\ row = <<>> /\ col = 0 /\ typing = TRUE /\ typed = <<>>
  BY DEF EditorInit
<1>2. Shows(Screen, buf, pos)
  BY <1>1, EmptyShows DEF Screen
<1>3. <<>> \in Lines /\ hist \in Seq(Lines) /\ Len(hist) = 0 /\ Len(buf) = 0
  BY <1>1, EditorAssumption DEF Lines
<1>4. Len(hist) <= HistMax
  BY <1>3, EditorAssumption
<1>5. QED BY <1>1, <1>2, <1>3, <1>4 DEF EditorInv

LEMMA EditorStep == ASSUME EditorInv, [EditorNext]_editorVars PROVE EditorInv'
<1>1. CASE \E c \in Printable : Insert(c)
  BY <1>1, InsertKeeps
<1>2. CASE Backspace \/ Delete
  BY <1>2, EraseKeeps
<1>3. CASE Left \/ Right \/ Home \/ End
  BY <1>3, MovesKeep
<1>4. CASE Up \/ Down
  BY <1>4, BrowseKeeps
<1>5. CASE Enter \/ CtrlC \/ EndOfFile
  <2>1. typing' \in BOOLEAN /\ buf \in Lines /\ <<>> \in Lines
    <3>1. typing' = typing \/ typing' = FALSE
      BY <1>5 DEF Enter, CtrlC, EndOfFile
    <3>2. <<>> \in Lines
      BY EditorAssumption DEF Lines
    <3>3. QED BY <3>1, <3>2 DEF EditorInv
  <2>2. NextLine(buf) \/ NextLine(<<>>)
    BY <1>5 DEF Enter, CtrlC, EndOfFile
  <2>3. QED BY <2>1, <2>2, NextLineKeeps
<1>6. CASE UNCHANGED editorVars
  <2>1. /\ buf' = buf /\ pos' = pos /\ hist' = hist /\ browse' = browse /\ saved' = saved
        /\ row' = row /\ col' = col /\ typing' = typing /\ typed' = typed
    BY <1>6 DEF editorVars
  <2>2. Screen' = Screen
    BY <2>1 DEF Screen
  <2>3. Shows(Screen', buf', pos')
    BY <2>1, <2>2 DEF EditorInv
  <2>4. QED BY <2>1, <2>3 DEF EditorInv
<1>7. QED BY <1>1, <1>2, <1>3, <1>4, <1>5, <1>6 DEF EditorNext

LEMMA EditorInvShows == ASSUME Blank \notin Printable, EditorInv PROVE ScreenShowsTheLine
<1>1. buf \in Seq(Printable) /\ pos \in 0 .. Len(buf) /\ Shows(Screen, buf, pos)
  BY DEF EditorInv, Lines
<1>2. Trimmed(Screen.row) = buf /\ Screen.col = pos
  BY <1>1, ShownIsTrimmed DEF Shows
<1>3. Screen.row = row /\ Screen.col = col
  BY DEF Screen
<1>4. QED BY <1>1, <1>2, <1>3 DEF ScreenShowsTheLine, EditorInv

(* The row of the terminal is the line that Enter would submit, followed   *)
(* by blanks, with the cursor where the next character goes, although      *)
(* read_line_raw never redraws it whole.  A space of the line may be the   *)
(* blank of an empty cell.                                                 *)
RowIsLine == Shows(Screen, buf, pos)

THEOREM EditorCorrect ==
  EditorInit /\ [][EditorNext]_editorVars => []RowIsLine
<1>1. EditorInit => EditorInv
  BY EditorStart
<1>2. EditorInv /\ [EditorNext]_editorVars => EditorInv'
  BY EditorStep
<1>3. EditorInv => RowIsLine
  BY DEF EditorInv, RowIsLine
<1>4. QED BY <1>1, <1>2, <1>3, PTL

(* Where they can be told apart, what the user sees is the line; and Down  *)
(* past the newest entry of g_hist brings back the line that was typed.    *)
THEOREM EditorShowsTheLine ==
  ASSUME Blank \notin Printable
  PROVE  EditorInit /\ [][EditorNext]_editorVars => []ScreenShowsTheLine
<1>1. EditorInit => EditorInv
  BY EditorStart
<1>2. EditorInv /\ [EditorNext]_editorVars => EditorInv'
  BY EditorStep
<1>3. EditorInv => ScreenShowsTheLine
  BY EditorInvShows
<1>4. QED BY <1>1, <1>2, <1>3, PTL

(***************************************************************************)
(* Induction over a text is the least element of a set of numbers: the     *)
(* induction theorems of the library take an operator, which the provers   *)
(* cannot instantiate.                                                     *)
(***************************************************************************)
LEMMA LeastNat ==
  ASSUME NEW T, T \subseteq Nat, T # {}
  PROVE  \E x \in T : \A y \in T : x <= y
<1>1. PICK x \in T : \A y \in T : <<y, x>> \notin OpToRel(<, Nat)
  BY NatLessThanWellFounded, WFMin
<1>2. ASSUME NEW y \in T PROVE ~(y < x)
  <2>1. y < x => <<y, x>> \in OpToRel(<, Nat)
    BY Zenon DEF OpToRel
  <2>2. QED BY <1>1, <2>1, Zenon
<1>3. \A y \in T : x <= y
  BY <1>2
<1>4. QED BY <1>3

(* A value carried over 1 .. N from c by d is a function.                  *)
IsRun(g, c, d, N) == g[0] = c /\ \A n \in 1 .. N : g[n] = d[<<n, g[n - 1]>>]

LEMMA FiniteRecursion ==
  ASSUME NEW S, NEW c \in S, NEW d \in [Nat \X S -> S], NEW N \in Nat
  PROVE  \E g \in [0 .. N -> S] : IsRun(g, c, d, N)
<1> DEFINE Stuck == {k \in Nat : ~\E g \in [0 .. k -> S] : IsRun(g, c, d, k)}
<1>1. SUFFICES ASSUME Stuck # {} PROVE FALSE
  BY DEF Stuck
<1>2. PICK k \in Stuck : \A m \in Stuck : k <= m
  BY <1>1, LeastNat
<1>3. CASE k = 0
  <2>1. IsRun([i \in 0 .. k |-> c], c, d, k) /\ [i \in 0 .. k |-> c] \in [0 .. k -> S]
    BY <1>3 DEF IsRun
  <2>2. QED BY <2>1
<1>4. CASE k # 0
  <2>1. PICK g \in [0 .. k - 1 -> S] : IsRun(g, c, d, k - 1)
    <3>1. k - 1 \in Nat /\ k - 1 \notin Stuck
      BY <1>2, <1>4
    <3>2. QED BY <3>1
  <2> DEFINE run == [i \in 0 .. k |-> IF i = k THEN d[<<k, g[k - 1]>>] ELSE g[i]]
  <2>2. run \in [0 .. k -> S]
    BY <1>4, <2>1 DEF IsRun
  <2>3. IsRun(run, c, d, k)
    BY <1>4, <2>1 DEF IsRun
  <2>4. QED BY <2>2, <2>3
<1>5. QED BY <1>3, <1>4


(* Induction up to a bound: P holds at 0 and from each number at the next. *)
LEMMA UpTo ==
  ASSUME NEW N \in Nat, NEW P, 0 \in P, \A n \in 1 .. N : n - 1 \in P => n \in P
  PROVE  0 .. N \subseteq P
<1> DEFINE Bad == {n \in 0 .. N : n \notin P}
<1>1. SUFFICES ASSUME Bad # {} PROVE FALSE
  OBVIOUS
<1>2. PICK n \in Bad : \A m \in Bad : n <= m
  <2>1. Bad \subseteq Nat
    OBVIOUS
  <2> HIDE DEF Bad
  <2>2. QED BY <1>1, <2>1, LeastNat
<1>3. n \in 1 .. N /\ n - 1 \in 0 .. N /\ ~(n <= n - 1) /\ n \notin P
  BY <1>2
<1>4. n - 1 \in P
  BY <1>2, <1>3
<1>5. QED BY <1>3, <1>4

(***************************************************************************)
(* Sandbox.                                                                *)
(***************************************************************************)
(* The two loops, unrolled.                                                *)
Pieces(Char) == [done : Seq(Seq(Char)), open : Seq(Char)]

LEMMA CutAtIs ==
  ASSUME NEW Char, NEW p \in Pieces(Char), NEW x \in Char, NEW seps
  PROVE  CutAt(p, x, seps) \in Pieces(Char)
<1> DEFINE q == p.done
           o == p.open
<1>1. q \in Seq(Seq(Char)) /\ o \in Seq(Char)
  BY DEF Pieces
<1>2. Closed(p) = IF o = <<>> THEN q ELSE Append(q, o)
  BY DEF Closed
<1>3. CutAt(p, x, seps) = IF x \in seps THEN [done |-> Closed(p), open |-> <<>>]
                         ELSE [done |-> q, open |-> Append(o, x)]
  BY DEF CutAt
<1> HIDE DEF q, o
<1>4. Append(q, o) \in Seq(Seq(Char)) /\ Append(o, x) \in Seq(Char) /\ <<>> \in Seq(Char)
  BY <1>1
<1>5. Closed(p) \in Seq(Seq(Char))
  BY <1>1, <1>2, <1>4
<1>6. CASE x \in seps
  BY <1>3, <1>4, <1>5, <1>6 DEF Pieces
<1>7. CASE x \notin seps
  BY <1>1, <1>3, <1>4, <1>7 DEF Pieces
<1>8. QED BY <1>6, <1>7

LEMMA CutIs ==
  ASSUME NEW Char, NEW s \in Seq(Char), NEW seps
  PROVE  \E f : /\ f[0] = [done |-> <<>>, open |-> <<>>]
                /\ \A n \in 1 .. Len(s) : f[n] = CutAt(f[n - 1], s[n], seps)
                /\ Cut(s, seps) = Closed(f[Len(s)])
<1> DEFINE N == Len(s)
           S == Pieces(Char)
           c == [done |-> <<>>, open |-> <<>>]
           body(f) == [n \in 0 .. N |-> IF n = 0 THEN c ELSE CutAt(f[n - 1], s[n], seps)]
           upTo == CHOOSE f : f = body(f)
           d == [p \in Nat \X S |-> IF p[1] \in 1 .. N THEN CutAt(p[2], s[p[1]], seps) ELSE c]
<1>1. N \in Nat /\ c \in S /\ \A n \in 1 .. N : s[n] \in Char
  BY DEF Pieces
<1>2. d \in [Nat \X S -> S]
  <2>1. ASSUME NEW p \in S, NEW x \in Char PROVE CutAt(p, x, seps) \in S
    BY CutAtIs
  <2> HIDE DEF S, c
  <2>2. QED BY <1>1, <2>1
<1>3. PICK g \in [0 .. N -> S] : g[0] = c /\ \A n \in 1 .. N : g[n] = d[<<n, g[n - 1]>>]
  <2> HIDE DEF d, N, S, c
  <2>1. \E g \in [0 .. N -> S] : IsRun(g, c, d, N)
    BY <1>1, <1>2, FiniteRecursion
  <2>2. QED BY <2>1 DEF IsRun
<1>4. \A n \in 1 .. N : g[n] = CutAt(g[n - 1], s[n], seps)
  <2> HIDE DEF S, c
  <2>1. ASSUME NEW n \in 1 .. N PROVE g[n] = CutAt(g[n - 1], s[n], seps)
    <3>1. n - 1 \in 0 .. N /\ n \in Nat /\ g[n - 1] \in S
      BY <1>1, <1>3
    <3>2. d[<<n, g[n - 1]>>] = CutAt(g[n - 1], s[n], seps)
      BY <3>1
    <3>3. QED BY <1>3, <3>2
  <2>2. QED BY <2>1
<1> HIDE DEF d, S, c
<1>5. g = body(g)
  <2>1. ASSUME NEW n \in 0 .. N PROVE g[n] = body(g)[n]
    <3>1. CASE n = 0
      BY <1>1, <1>3, <3>1
    <3>2. CASE n # 0
      <4>1. n \in 1 .. N
        BY <1>1, <3>2
      <4>2. QED BY <1>4, <3>2, <4>1
    <3>3. QED BY <3>1, <3>2
  <2>2. QED BY <1>3, <2>1
<1>6. upTo = body(upTo)
  <2> HIDE DEF body
  <2>1. QED BY <1>5
<1>7. Cut(s, seps) = Closed(upTo[N])
  BY DEF Cut, c
<1>8. \A n \in 0 .. N : upTo[n] = IF n = 0 THEN c ELSE CutAt(upTo[n - 1], s[n], seps)
  <2> HIDE DEF upTo
  <2>1. ASSUME NEW n \in 0 .. N PROVE upTo[n] = body(upTo)[n]
    BY <1>6
  <2>2. QED BY <2>1
<1> HIDE DEF upTo, body
<1>9. upTo[0] = c /\ \A n \in 1 .. N : upTo[n] = CutAt(upTo[n - 1], s[n], seps)
  <2>1. 0 \in 0 .. N /\ \A n \in 1 .. N : n \in 0 .. N /\ n # 0
    BY <1>1
  <2>2. QED BY <1>8, <2>1
<1>10. QED BY <1>7, <1>9 DEF c

States(Char) == [ok : BOOLEAN, path : Seq(Seq(Char))]

LEMMA FollowIs ==
  ASSUME NEW Char, NEW p \in States(Char), NEW x \in Seq(Char), MaxDepth \in Nat
  PROVE  Follow(p, x) \in States(Char)
<1> DEFINE q == p.path
<1>1. q \in Seq(Seq(Char))
  BY DEF States
<1>2. Follow(p, x) \in {p, Climb(q), Descend(q, x)}
  BY DEF Follow
<1> HIDE DEF q
<1>3. Append(q, x) \in Seq(Seq(Char)) /\ <<>> \in Seq(Seq(Char))
  BY <1>1
<1>4. q # <<>> => SubSeq(q, 1, Len(q) - 1) \in Seq(Seq(Char))
  BY <1>1
<1>5. Failed \in States(Char)
  BY <1>3 DEF Failed, States
<1>6. Descend(q, x) \in States(Char)
  BY <1>3, <1>5 DEF Descend, States
<1>7. Climb(q) \in States(Char)
  BY <1>4, <1>5 DEF Climb, States
<1>8. QED BY <1>2, <1>6, <1>7

LEMMA ResolvedIs ==
  ASSUME NEW Char, NEW cs \in Seq(Seq(Char)), MaxDepth \in Nat
  PROVE  \E f : /\ f[0] = [ok |-> TRUE, path |-> <<>>]
                /\ \A n \in 1 .. Len(cs) : f[n] = Follow(f[n - 1], cs[n])
                /\ Resolved(cs) = f[Len(cs)]
<1> DEFINE N == Len(cs)
           S == States(Char)
           c == [ok |-> TRUE, path |-> <<>>]
           body(f) == [n \in 0 .. N |-> IF n = 0 THEN c ELSE Follow(f[n - 1], cs[n])]
           upTo == CHOOSE f : f = body(f)
           d == [p \in Nat \X S |-> IF p[1] \in 1 .. N THEN Follow(p[2], cs[p[1]]) ELSE c]
<1>1. N \in Nat /\ c \in S /\ \A n \in 1 .. N : cs[n] \in Seq(Char)
  BY DEF States
<1>2. d \in [Nat \X S -> S]
  <2>1. ASSUME NEW p \in S, NEW x \in Seq(Char) PROVE Follow(p, x) \in S
    BY FollowIs
  <2> HIDE DEF S, c
  <2>2. QED BY <1>1, <2>1
<1>3. PICK g \in [0 .. N -> S] : g[0] = c /\ \A n \in 1 .. N : g[n] = d[<<n, g[n - 1]>>]
  <2> HIDE DEF d, N, S, c
  <2>1. \E g \in [0 .. N -> S] : IsRun(g, c, d, N)
    BY <1>1, <1>2, FiniteRecursion
  <2>2. QED BY <2>1 DEF IsRun
<1>4. \A n \in 1 .. N : g[n] = Follow(g[n - 1], cs[n])
  <2> HIDE DEF S, c
  <2>1. ASSUME NEW n \in 1 .. N PROVE g[n] = Follow(g[n - 1], cs[n])
    <3>1. n - 1 \in 0 .. N /\ n \in Nat
      BY <1>1
    <3>2. g[n - 1] \in S
      BY <1>3, <3>1
    <3>3. d[<<n, g[n - 1]>>] = Follow(g[n - 1], cs[n])
      BY <3>1, <3>2
    <3>4. QED BY <1>3, <3>3
  <2>2. QED BY <2>1
<1> HIDE DEF d, S, c
<1>5. g = body(g)
  <2>1. ASSUME NEW n \in 0 .. N PROVE g[n] = body(g)[n]
    <3>1. CASE n = 0
      BY <1>1, <1>3, <3>1
    <3>2. CASE n # 0
      <4>1. n \in 1 .. N
        BY <1>1, <3>2
      <4>2. QED BY <1>4, <3>2, <4>1
    <3>3. QED BY <3>1, <3>2
  <2>2. QED BY <1>3, <2>1
<1>6. upTo = body(upTo)
  <2> HIDE DEF body
  <2>1. QED BY <1>5
<1>7. Resolved(cs) = upTo[N]
  BY DEF Resolved, c
<1>8. \A n \in 0 .. N : upTo[n] = IF n = 0 THEN c ELSE Follow(upTo[n - 1], cs[n])
  <2> HIDE DEF upTo
  <2>1. ASSUME NEW n \in 0 .. N PROVE upTo[n] = body(upTo)[n]
    BY <1>6
  <2>2. QED BY <2>1
<1> HIDE DEF upTo, body
<1>9. upTo[0] = c /\ \A n \in 1 .. N : upTo[n] = Follow(upTo[n - 1], cs[n])
  <2>1. 0 \in 0 .. N /\ \A n \in 1 .. N : n \in 0 .. N /\ n # 0
    BY <1>1
  <2>2. QED BY <1>8, <2>1
<1>10. QED BY <1>7, <1>9 DEF c
(* A component goes one level down, one up, or nowhere.                    *)
LEMMA CountUp ==
  ASSUME NEW A, NEW n \in Nat \ {0}
  PROVE  LET upTo(m) == {i \in 1 .. m : i \in A}
         IN /\ Cardinality(upTo(n)) \in Nat /\ Cardinality(upTo(n - 1)) \in Nat
            /\ Cardinality(upTo(n)) = Cardinality(upTo(n - 1)) + (IF n \in A THEN 1 ELSE 0)
<1> DEFINE U == {i \in 1 .. n : i \in A}
           V == {i \in 1 .. n - 1 : i \in A}
<1>1. IsFiniteSet(V)
  <2>1. IsFiniteSet(1 .. n - 1) /\ V \in SUBSET (1 .. n - 1)
    BY FS_Interval
  <2>2. QED BY <2>1, FS_Subset
<1>2. n \notin V
  OBVIOUS
<1>3. U = IF n \in A THEN V \cup {n} ELSE V
  OBVIOUS
<1> HIDE DEF U, V
<1>4. Cardinality(V) \in Nat
  BY <1>1, FS_CardinalityType
<1>5. Cardinality(V \cup {n}) = Cardinality(V) + 1
  BY <1>1, <1>2, FS_AddElement
<1>6. Cardinality(U) \in Nat /\ Cardinality(U) = Cardinality(V) + (IF n \in A THEN 1 ELSE 0)
  BY <1>3, <1>4, <1>5
<1>7. QED BY <1>4, <1>6 DEF U, V

LEMMA LevelStep ==
  ASSUME NEW cs, NEW n \in Nat \ {0}
  PROVE  /\ Level(cs, n - 1) \in Int /\ Level(cs, n) \in Int
         /\ Level(cs, n) = Level(cs, n - 1) + (IF cs[n] = Here THEN 0 ELSE IF cs[n] = Parent THEN -1 ELSE 1)
<1> DEFINE A == {i \in 1 .. n : cs[i] \notin {Here, Parent}}
           B == {i \in 1 .. n : cs[i] = Parent}
           up(S, m) == {i \in 1 .. m : i \in S}
<1>1. n \in A <=> cs[n] \notin {Here, Parent}
  OBVIOUS
<1>2. n \in B <=> cs[n] = Parent
  OBVIOUS
<1>3. Level(cs, n) = Cardinality(up(A, n)) - Cardinality(up(B, n))
  <2>1. up(A, n) = {i \in 1 .. n : cs[i] \notin {Here, Parent}} /\ up(B, n) = {i \in 1 .. n : cs[i] = Parent}
    OBVIOUS
  <2>2. QED BY <2>1 DEF Level
<1>4. Level(cs, n - 1) = Cardinality(up(A, n - 1)) - Cardinality(up(B, n - 1))
  <2>1. /\ up(A, n - 1) = {i \in 1 .. n - 1 : cs[i] \notin {Here, Parent}}
        /\ up(B, n - 1) = {i \in 1 .. n - 1 : cs[i] = Parent}
    OBVIOUS
  <2>2. QED BY <2>1 DEF Level
<1> HIDE DEF A, B
<1>5. /\ Cardinality(up(A, n)) \in Nat /\ Cardinality(up(A, n - 1)) \in Nat
      /\ Cardinality(up(A, n)) = Cardinality(up(A, n - 1)) + (IF n \in A THEN 1 ELSE 0)
  BY CountUp
<1>6. /\ Cardinality(up(B, n)) \in Nat /\ Cardinality(up(B, n - 1)) \in Nat
      /\ Cardinality(up(B, n)) = Cardinality(up(B, n - 1)) + (IF n \in B THEN 1 ELSE 0)
  BY CountUp
<1> HIDE DEF up
<1>7. Here # Parent
  BY DEF Here, Parent
<1>8. QED BY <1>1, <1>2, <1>3, <1>4, <1>5, <1>6, <1>7

LEMMA LevelZero == ASSUME NEW cs PROVE Level(cs, 0) = 0
<1>1. \A P : {i \in 1 .. 0 : i \in P} = {}
  OBVIOUS
<1>2. /\ {i \in 1 .. 0 : cs[i] \notin {Here, Parent}} = {}
      /\ {i \in 1 .. 0 : cs[i] = Parent} = {}
  OBVIOUS
<1>3. QED BY <1>2, FS_EmptySet DEF Level

(* What the loop knows after n components.                                 *)
Stays(cs, i, n) ==
  /\ cs[i] \notin {Here, Parent}
  /\ \A m \in i .. n : Level(cs, m) >= Level(cs, i)

Known(cs, r, n) ==
  /\ r.ok <=> \A m \in 1 .. n : Level(cs, m) \in 0 .. MaxDepth
  /\ r.ok => /\ Len(r.path) = Level(cs, n)
             /\ \A k \in 1 .. Len(r.path) : \E i \in 1 .. n :
                  Stays(cs, i, n) /\ Level(cs, i) = k /\ r.path[k] = cs[i]

LEMMA StaysOn ==
  ASSUME NEW cs, NEW n \in Nat \ {0}, NEW i \in 1 .. n - 1, Stays(cs, i, n - 1),
         Level(cs, n) >= Level(cs, i)
  PROVE  i \in 1 .. n /\ Stays(cs, i, n)
<1>1. \A m \in i .. n : m = n \/ m \in i .. n - 1
  OBVIOUS
<1>2. QED BY <1>1 DEF Stays

LEMMA FollowKnows ==
  ASSUME NEW Char, MaxDepth \in Nat, NEW cs \in Seq(Seq(Char)), NEW n \in 1 .. Len(cs),
         NEW r \in States(Char), Known(cs, r, n - 1)
  PROVE  Known(cs, Follow(r, cs[n]), n)
<1> DEFINE L == Level(cs, n)
           K == Level(cs, n - 1)
           e == Follow(r, cs[n])
<1>1. n \in Nat \ {0}
  OBVIOUS
<1>2. K \in Int /\ L \in Int
      /\ L = K + (IF cs[n] = Here THEN 0 ELSE IF cs[n] = Parent THEN -1 ELSE 1)
  BY <1>1, LevelStep
<1>3. r.ok \in BOOLEAN /\ r.path \in Seq(Seq(Char)) /\ Here # Parent
  BY DEF States, Here, Parent
<1>4. \A m \in 1 .. n : m = n \/ m \in 1 .. n - 1
  OBVIOUS
<1>5. 1 .. n - 1 \subseteq 1 .. n /\ n \in 1 .. n
  OBVIOUS
<1>6. (\A m \in 1 .. n : Level(cs, m) \in 0 .. MaxDepth) <=> r.ok /\ L \in 0 .. MaxDepth
  BY <1>4, <1>5 DEF Known
<1>7. ASSUME r.ok
      PROVE  /\ Len(r.path) = K
             /\ \A k \in 1 .. K : k <= L => \E i \in 1 .. n :
                  Stays(cs, i, n) /\ Level(cs, i) = k /\ r.path[k] = cs[i]
  <2>1. Len(r.path) = K
    BY <1>7 DEF Known
  <2>2. ASSUME NEW k \in 1 .. K, k <= L
        PROVE  \E i \in 1 .. n : Stays(cs, i, n) /\ Level(cs, i) = k /\ r.path[k] = cs[i]
    <3>1. PICK i \in 1 .. n - 1 : Stays(cs, i, n - 1) /\ Level(cs, i) = k /\ r.path[k] = cs[i]
      BY <1>7, <2>1, <2>2 DEF Known
    <3>2. Level(cs, n) >= Level(cs, i)
      BY <1>2, <2>2, <3>1
    <3>3. i \in 1 .. n /\ Stays(cs, i, n)
      BY <1>1, <3>1, <3>2, StaysOn
    <3>4. QED BY <3>1, <3>3
  <2>3. QED BY <2>1, <2>2
<1>8. r.ok => K >= 0 /\ K <= MaxDepth
  <2>1. CASE n - 1 \in 1 .. n - 1
    BY <2>1 DEF Known
  <2>2. CASE n - 1 = 0
    BY <2>2, LevelZero
  <2>3. QED BY <2>1, <2>2
(* It is enough to know when it fails, and what is on the stack if not.    *)
<1>9. SUFFICES /\ e.ok <=> r.ok /\ L \in 0 .. MaxDepth
               /\ e.ok => /\ Len(e.path) = L
                          /\ \A k \in 1 .. L : \/ k \in 1 .. K /\ e.path[k] = r.path[k]
                                               \/ k = L /\ Stays(cs, n, n) /\ e.path[k] = cs[n]
  <2> HIDE DEF e
  <2>1. ASSUME e.ok, NEW k \in 1 .. Len(e.path)
        PROVE  \E i \in 1 .. n : Stays(cs, i, n) /\ Level(cs, i) = k /\ e.path[k] = cs[i]
    <3>1. r.ok /\ k \in 1 .. L
      BY <1>9, <2>1
    <3>2. CASE k \in 1 .. K /\ e.path[k] = r.path[k]
      <4>1. k <= L
        BY <1>2, <3>1
      <4>2. \E i \in 1 .. n : Stays(cs, i, n) /\ Level(cs, i) = k /\ r.path[k] = cs[i]
        BY <1>7, <3>1, <3>2, <4>1
      <4>3. QED BY <3>2, <4>2
    <3>3. CASE k = L /\ Stays(cs, n, n) /\ e.path[k] = cs[n]
      BY <1>5, <3>3
    <3>4. QED BY <1>9, <2>1, <3>1, <3>2, <3>3
  <2>2. e.ok => Len(e.path) = Level(cs, n)
    BY <1>9
  <2>3. e.ok <=> \A m \in 1 .. n : Level(cs, m) \in 0 .. MaxDepth
    BY <1>6, <1>9
  <2>4. Known(cs, e, n)
    BY <2>1, <2>2, <2>3 DEF Known
  <2>5. QED BY <2>4 DEF e
<1>10. CASE ~r.ok
  BY <1>3, <1>10 DEF Follow
<1>11. CASE r.ok /\ cs[n] = Here
  <2>1. e = r
    BY <1>3, <1>11 DEF Follow
  <2>2. L = K /\ Len(r.path) = K
    BY <1>2, <1>7, <1>11
  <2> HIDE DEF e, L, K
  <2>3. QED BY <1>2, <1>8, <1>11, <2>1, <2>2
<1>12. CASE r.ok /\ cs[n] = Parent
  <2>1. e = Climb(r.path)
    BY <1>3, <1>12 DEF Follow
  <2>2. L = K - 1 /\ Len(r.path) = K
    BY <1>2, <1>3, <1>7, <1>12
  <2> DEFINE q == r.path
  <2>3. q \in Seq(Seq(Char)) /\ Len(q) = K
    BY <1>3, <2>2
  <2> HIDE DEF e, L, K, q
  <2>4. CASE q = <<>>
    <3>1. ~e.ok
      BY <2>1, <2>4 DEF Climb, Failed, q
    <3>2. L < 0
      BY <1>2, <2>2, <2>3, <2>4
    <3>3. QED BY <1>2, <3>1, <3>2
  <2>5. CASE q # <<>>
    <3>1. e = [ok |-> TRUE, path |-> SubSeq(q, 1, Len(q) - 1)]
      BY <2>1, <2>5 DEF Climb, q
    <3>2. Len(q) \in Nat \ {0}
      BY <2>3, <2>5
    <3>3. Len(SubSeq(q, 1, Len(q) - 1)) = Len(q) - 1
          /\ \A k \in 1 .. Len(q) - 1 : SubSeq(q, 1, Len(q) - 1)[k] = q[k]
      BY <2>3, <3>2
    <3>4. e.ok /\ Len(e.path) = L /\ \A k \in 1 .. L : e.path[k] = q[k]
      BY <2>2, <2>3, <3>1, <3>3
    <3>5. L \in 0 .. MaxDepth /\ \A k \in 1 .. L : k \in 1 .. K
      BY <1>2, <1>8, <1>12, <2>2, <2>3, <3>2
    <3>6. QED BY <1>12, <3>4, <3>5 DEF q
  <2>6. QED BY <2>4, <2>5
<1>13. CASE r.ok /\ cs[n] \notin {Here, Parent}
  <2>1. e = Descend(r.path, cs[n])
    BY <1>13 DEF Follow
  <2>2. L = K + 1 /\ Len(r.path) = K
    BY <1>2, <1>7, <1>13
  <2> DEFINE q == r.path
             c == cs[n]
  <2>3. q \in Seq(Seq(Char)) /\ Len(q) = K /\ c \in Seq(Char)
    BY <1>3, <2>2
  <2>4. Stays(cs, n, n)
    BY <1>2, <1>13 DEF Stays
  <2> HIDE DEF e, L, K, q, c
  <2>5. CASE Len(q) >= MaxDepth
    <3>1. ~e.ok
      BY <2>1, <2>5 DEF Descend, Failed, q, c
    <3>2. L > MaxDepth
      BY <1>2, <2>2, <2>3, <2>5
    <3>3. QED BY <1>2, <3>1, <3>2
  <2>6. CASE ~(Len(q) >= MaxDepth)
    <3>1. e = [ok |-> TRUE, path |-> Append(q, c)]
      BY <2>1, <2>6 DEF Descend, q, c
    <3>2. /\ Len(Append(q, c)) = K + 1 /\ Append(q, c)[K + 1] = c
          /\ \A k \in 1 .. K : Append(q, c)[k] = q[k]
      BY <2>3
    <3>3. e.ok /\ Len(e.path) = L /\ e.path[L] = c /\ \A k \in 1 .. K : e.path[k] = q[k]
      BY <2>2, <3>1, <3>2
    <3>4. L \in 0 .. MaxDepth /\ \A k \in 1 .. L : k \in 1 .. K \/ k = L
      BY <1>2, <1>8, <1>13, <2>2, <2>3, <2>6
    <3>5. QED BY <1>13, <2>4, <3>3, <3>4 DEF q, c
  <2>7. QED BY <2>5, <2>6
<1>14. QED BY <1>3, <1>10, <1>11, <1>12, <1>13

(* The whole loop.                                                         *)
LEMMA ResolvedKnows ==
  ASSUME NEW Char, MaxDepth \in Nat, NEW cs \in Seq(Seq(Char))
  PROVE  Resolved(cs) \in States(Char) /\ Known(cs, Resolved(cs), Len(cs))
<1> DEFINE N == Len(cs)
<1>1. PICK f : /\ f[0] = [ok |-> TRUE, path |-> <<>>]
               /\ \A n \in 1 .. N : f[n] = Follow(f[n - 1], cs[n])
               /\ Resolved(cs) = f[N]
  BY ResolvedIs
<1> DEFINE P == {n \in 0 .. N : f[n] \in States(Char) /\ Known(cs, f[n], n)}
<1>2. N \in Nat
  OBVIOUS
<1>3. 0 \in P
  <2>1. f[0] \in States(Char)
    BY <1>1 DEF States
  <2>2. f[0].ok /\ Len(f[0].path) = 0
    BY <1>1
  <2>3. Known(cs, f[0], 0)
    BY <2>2, LevelZero DEF Known
  <2>4. QED BY <1>2, <2>1, <2>3
<1>4. ASSUME NEW n \in 1 .. N, n - 1 \in P PROVE n \in P
  <2>1. f[n - 1] \in States(Char) /\ Known(cs, f[n - 1], n - 1)
    BY <1>4
  <2>2. f[n] = Follow(f[n - 1], cs[n])
    BY <1>1
  <2>3. cs[n] \in Seq(Char)
    OBVIOUS
  <2>4. f[n] \in States(Char)
    BY <2>1, <2>2, <2>3, FollowIs
  <2>5. Known(cs, f[n], n)
    BY <2>1, <2>2, FollowKnows
  <2>6. QED BY <2>4, <2>5
<1>5. N \in P
  <2>1. 0 .. N \subseteq P
    <3> HIDE DEF P
    <3>1. QED BY <1>2, <1>3, <1>4, UpTo
  <2>2. QED BY <1>2, <2>1
<1>6. QED BY <1>1, <1>5

(* Two components that remain are on two levels.                           *)
LEMMA OneALevel ==
  ASSUME NEW cs, NEW N \in Nat, NEW i \in 1 .. N, NEW j \in 1 .. N,
         Stays(cs, i, N), Stays(cs, j, N), Level(cs, i) = Level(cs, j)
  PROVE  i = j
<1>1. ASSUME NEW a \in 1 .. N, NEW b \in 1 .. N, Stays(cs, a, N), Stays(cs, b, N), a < b
      PROVE  Level(cs, a) # Level(cs, b)
  <2>1. b \in Nat \ {0} /\ b - 1 \in a .. N
    BY <1>1
  <2>2. Level(cs, b - 1) >= Level(cs, a)
    BY <1>1, <2>1 DEF Stays
  <2>3. Level(cs, b - 1) \in Int /\ Level(cs, b) = Level(cs, b - 1) + 1
    BY <1>1, <2>1, LevelStep DEF Stays
  <2>4. a \in Nat \ {0}
    OBVIOUS
  <2>5. Level(cs, a) \in Int
    BY <2>4, LevelStep
  <2>6. QED BY <2>2, <2>3, <2>5
<1>2. QED BY <1>1

(* The pieces of a text are not empty and hold no separator.               *)
Unmarked(p, seps) == p # <<>> /\ \A i \in 1 .. Len(p) : p[i] \notin seps

Unbroken(p, seps) ==
  /\ \A k \in 1 .. Len(p.done) : Unmarked(p.done[k], seps)
  /\ \A i \in 1 .. Len(p.open) : p.open[i] \notin seps

LEMMA ClosedIsPlain ==
  ASSUME NEW Char, NEW p \in Pieces(Char), NEW seps, Unbroken(p, seps)
  PROVE  /\ Closed(p) \in Seq(Seq(Char))
         /\ \A k \in 1 .. Len(Closed(p)) : Unmarked(Closed(p)[k], seps)
<1> DEFINE q == p.done
           o == p.open
<1>1. q \in Seq(Seq(Char)) /\ o \in Seq(Char)
  BY DEF Pieces
<1>2. Closed(p) = IF o = <<>> THEN q ELSE Append(q, o)
  BY DEF Closed
<1>3. \A k \in 1 .. Len(q) : Unmarked(q[k], seps)
  BY DEF Unbroken
<1>4. o # <<>> => Unmarked(o, seps)
  BY DEF Unbroken, Unmarked
<1> HIDE DEF q, o
<1>5. CASE o = <<>>
  BY <1>1, <1>2, <1>3, <1>5
<1>6. CASE o # <<>>
  <2>1. /\ Append(q, o) \in Seq(Seq(Char)) /\ Len(Append(q, o)) = Len(q) + 1
        /\ Append(q, o)[Len(q) + 1] = o
        /\ \A k \in 1 .. Len(q) : Append(q, o)[k] = q[k]
    BY <1>1
  <2>2. \A k \in 1 .. Len(q) + 1 : k = Len(q) + 1 \/ k \in 1 .. Len(q)
    BY <1>1
  <2>3. \A k \in 1 .. Len(q) + 1 : Unmarked(Append(q, o)[k], seps)
    BY <1>3, <1>4, <1>6, <2>1, <2>2
  <2>4. QED BY <1>2, <1>6, <2>1, <2>3
<1>7. QED BY <1>5, <1>6

LEMMA CutAtIsUnbroken ==
  ASSUME NEW Char, NEW p \in Pieces(Char), NEW x \in Char, NEW seps, Unbroken(p, seps)
  PROVE  Unbroken(CutAt(p, x, seps), seps)
<1>1. CASE x \in seps
  <2>1. CutAt(p, x, seps) = [done |-> Closed(p), open |-> <<>>]
    BY <1>1 DEF CutAt
  <2> DEFINE q == Closed(p)
             e == CutAt(p, x, seps)
  <2>2. \A k \in 1 .. Len(q) : Unmarked(q[k], seps)
    BY ClosedIsPlain
  <2>3. e.done = q /\ e.open = <<>> /\ Len(<<>>) = 0
    BY <2>1
  <2> HIDE DEF q, e
  <2>4. Unbroken(e, seps)
    BY <2>2, <2>3 DEF Unbroken
  <2>5. QED BY <2>4 DEF e
<1>2. CASE x \notin seps
  <2> DEFINE o == p.open
  <2>1. o \in Seq(Char) /\ \A i \in 1 .. Len(o) : o[i] \notin seps
    BY DEF Pieces, Unbroken
  <2>2. CutAt(p, x, seps) = [done |-> p.done, open |-> Append(o, x)]
    BY <1>2 DEF CutAt
  <2> HIDE DEF o
  <2>3. \A i \in 1 .. Len(Append(o, x)) : Append(o, x)[i] \notin seps
    BY <1>2, <2>1
  <2>4. QED BY <2>2, <2>3 DEF Unbroken
<1>3. QED BY <1>1, <1>2

LEMMA CutIsPlain ==
  ASSUME NEW Char, NEW s \in Seq(Char), NEW seps
  PROVE  /\ Cut(s, seps) \in Seq(Seq(Char))
         /\ \A k \in 1 .. Len(Cut(s, seps)) : Unmarked(Cut(s, seps)[k], seps)
<1> DEFINE N == Len(s)
<1>1. PICK f : /\ f[0] = [done |-> <<>>, open |-> <<>>]
               /\ \A n \in 1 .. N : f[n] = CutAt(f[n - 1], s[n], seps)
               /\ Cut(s, seps) = Closed(f[N])
  BY CutIs
<1> DEFINE P == {n \in 0 .. N : f[n] \in Pieces(Char) /\ Unbroken(f[n], seps)}
<1>2. N \in Nat
  OBVIOUS
<1>3. 0 \in P
  <2>1. f[0].done = <<>> /\ f[0].open = <<>> /\ Len(<<>>) = 0
    BY <1>1
  <2>2. f[0] \in Pieces(Char)
    BY <1>1 DEF Pieces
  <2>3. Unbroken(f[0], seps)
    BY <2>1 DEF Unbroken
  <2>4. QED BY <1>2, <2>2, <2>3
<1>4. ASSUME NEW n \in 1 .. N, n - 1 \in P PROVE n \in P
  <2>1. f[n - 1] \in Pieces(Char) /\ Unbroken(f[n - 1], seps) /\ s[n] \in Char
    BY <1>4
  <2>2. f[n] = CutAt(f[n - 1], s[n], seps)
    BY <1>1
  <2>3. f[n] \in Pieces(Char) /\ Unbroken(f[n], seps)
    BY <2>1, <2>2, CutAtIs, CutAtIsUnbroken
  <2>4. QED BY <2>3
<1>5. N \in P
  <2>1. 0 .. N \subseteq P
    <3> HIDE DEF P
    <3>1. QED BY <1>2, <1>3, <1>4, UpTo
  <2>2. QED BY <1>2, <2>1
<1>6. QED BY <1>1, <1>5, ClosedIsPlain

(* Wherever a path of the model leads, it is below the root by plain names; *)
(* and no path that stays there is refused (sandbox_resolve).              *)
THEOREM SandboxHolds ==
  ASSUME NEW Char, MaxDepth \in Nat, NEW rel \in Seq(Char)
  PROVE  StaysInside(rel)
<1> DEFINE cs == Components(rel)
           r == SandboxResolve(rel)
           s == Resolved(cs)
           colon == \E i \in DOMAIN rel : rel[i] = ":"
<1>1. cs \in Seq(Seq(Char)) /\ \A k \in 1 .. Len(cs) : Unmarked(cs[k], Separators)
  BY CutIsPlain DEF Components
<1>2. r = IF colon THEN Failed ELSE s
  BY DEF SandboxResolve
<1> HIDE DEF cs, r, s, colon
<1>3. s \in States(Char) /\ Known(cs, s, Len(cs))
  BY <1>1, ResolvedKnows DEF s
<1>4. DOMAIN cs = 1 .. Len(cs) /\ Len(cs) \in Nat
  BY <1>1
<1>5. r.ok <=> /\ ~colon
               /\ \A n \in DOMAIN cs : Level(cs, n) \in 0 .. MaxDepth
  <2>1. ~Failed.ok
    BY DEF Failed
  <2>2. QED BY <1>2, <1>3, <1>4, <2>1 DEF Known
<1>6. ASSUME r.ok
      PROVE  /\ r = s /\ DOMAIN s.path = 1 .. Len(s.path)
             /\ \A k \in 1 .. Len(s.path) : \E i \in 1 .. Len(cs) :
                  Stays(cs, i, Len(cs)) /\ Level(cs, i) = k /\ s.path[k] = cs[i]
  <2>1. r = s
    BY <1>2, <1>6 DEF Failed
  <2>2. s.path \in Seq(Seq(Char))
    BY <1>3 DEF States
  <2>3. QED BY <1>3, <1>6, <2>1, <2>2 DEF Known
<1>7. \A i \in DOMAIN cs : Remains(cs, i) <=> Stays(cs, i, Len(cs))
  BY DEF Remains, Stays
<1>8. ASSUME r.ok, NEW i \in DOMAIN cs, Remains(cs, i)
      PROVE  Level(cs, i) \in DOMAIN r.path /\ r.path[Level(cs, i)] = cs[i]
  <2>1. i \in 1 .. Len(cs) /\ Stays(cs, i, Len(cs)) /\ i \in Nat \ {0}
    BY <1>4, <1>7, <1>8
  <2>2. Level(cs, i) = Level(cs, i - 1) + 1 /\ Level(cs, i - 1) \in Int
    BY <2>1, LevelStep DEF Stays
  <2>3. Level(cs, i - 1) >= 0
    <3>1. CASE i - 1 = 0
      BY <3>1, LevelZero
    <3>2. CASE i - 1 \in 1 .. Len(cs)
      BY <1>4, <1>5, <1>8, <3>2
    <3>3. QED BY <1>4, <2>1, <3>1, <3>2
  <2>4. Level(cs, Len(cs)) >= Level(cs, i)
    BY <1>4, <2>1 DEF Stays
  <2>5. Len(s.path) = Level(cs, Len(cs))
    BY <1>3, <1>6, <1>8 DEF Known
  <2>6. Len(s.path) \in Nat
    BY <1>3 DEF States
  <2>7. Level(cs, i) \in 1 .. Len(s.path)
    BY <2>2, <2>3, <2>4, <2>5, <2>6
  <2>8. PICK j \in 1 .. Len(cs) :
          Stays(cs, j, Len(cs)) /\ Level(cs, j) = Level(cs, i) /\ s.path[Level(cs, i)] = cs[j]
    BY <1>6, <1>8, <2>7
  <2>9. i = j
    BY <1>4, <2>1, <2>8, OneALevel
  <2>10. QED BY <1>6, <1>8, <2>7, <2>8, <2>9
<1>9. ASSUME r.ok, NEW k \in DOMAIN r.path
      PROVE  /\ \E i \in DOMAIN cs : Remains(cs, i) /\ Level(cs, i) = k
             /\ r.path[k] \notin {<<>>, Here, Parent}
             /\ \A i \in DOMAIN r.path[k] : r.path[k][i] \notin Separators
  <2>1. PICK i \in 1 .. Len(cs) : Stays(cs, i, Len(cs)) /\ Level(cs, i) = k /\ r.path[k] = cs[i]
    BY <1>6, <1>9
  <2>2. Unmarked(cs[i], Separators) /\ cs[i] \notin {Here, Parent} /\ cs[i] \in Seq(Char)
    BY <1>1, <2>1 DEF Stays
  <2>3. DOMAIN cs[i] = 1 .. Len(cs[i])
    BY <2>2
  <2>4. QED BY <1>4, <1>7, <2>1, <2>2, <2>3 DEF Unmarked
<1>10. QED BY <1>5, <1>8, <1>9 DEF StaysInside, cs, r, colon

(***************************************************************************)
(* ToolCalls.                                                              *)
(***************************************************************************)
(* The loop over a list, unrolled.                                         *)
LEMMA StringsIs ==
  ASSUME NEW V, NEW list \in Seq(V)
  PROVE  \E f : /\ f[0] = <<>>
                /\ \A n \in 1 .. Len(list) : f[n] = AddString(f[n - 1], list[n])
                /\ Strings(list) = f[Len(list)]
<1> DEFINE N == Len(list)
           S == Seq({v.v : v \in V})
           c == <<>>
           body(f) == [n \in 0 .. N |-> IF n = 0 THEN c ELSE AddString(f[n - 1], list[n])]
           upTo == CHOOSE f : f = body(f)
           d == [p \in Nat \X S |-> IF p[1] \in 1 .. N THEN AddString(p[2], list[p[1]]) ELSE c]
<1>1. N \in Nat /\ c \in S /\ \A n \in 1 .. N : list[n] \in V
  OBVIOUS
<1>2. d \in [Nat \X S -> S]
  <2>1. ASSUME NEW p \in S, NEW x \in V PROVE AddString(p, x) \in S
    BY DEF AddString
  <2> HIDE DEF S, c
  <2>2. QED BY <1>1, <2>1
<1>3. PICK g \in [0 .. N -> S] : g[0] = c /\ \A n \in 1 .. N : g[n] = d[<<n, g[n - 1]>>]
  <2> HIDE DEF d, N, S, c
  <2>1. \E g \in [0 .. N -> S] : IsRun(g, c, d, N)
    BY <1>1, <1>2, FiniteRecursion
  <2>2. QED BY <2>1 DEF IsRun
<1>4. \A n \in 1 .. N : g[n] = AddString(g[n - 1], list[n])
  <2> HIDE DEF S, c
  <2>1. ASSUME NEW n \in 1 .. N PROVE g[n] = AddString(g[n - 1], list[n])
    <3>1. n - 1 \in 0 .. N /\ n \in Nat
      BY <1>1
    <3>2. g[n - 1] \in S
      BY <1>3, <3>1
    <3>3. d[<<n, g[n - 1]>>] = AddString(g[n - 1], list[n])
      BY <3>1, <3>2
    <3>4. QED BY <1>3, <3>3
  <2>2. QED BY <2>1
<1> HIDE DEF d, S, c
<1>5. g = body(g)
  <2>1. ASSUME NEW n \in 0 .. N PROVE g[n] = body(g)[n]
    <3>1. CASE n = 0
      BY <1>1, <1>3, <3>1
    <3>2. CASE n # 0
      <4>1. n \in 1 .. N
        BY <1>1, <3>2
      <4>2. QED BY <1>4, <3>2, <4>1
    <3>3. QED BY <3>1, <3>2
  <2>2. QED BY <1>3, <2>1
<1>6. upTo = body(upTo)
  <2> HIDE DEF body
  <2>1. QED BY <1>5
<1>7. Strings(list) = upTo[N]
  BY DEF Strings, c
<1>8. \A n \in 0 .. N : upTo[n] = IF n = 0 THEN c ELSE AddString(upTo[n - 1], list[n])
  <2> HIDE DEF upTo
  <2>1. ASSUME NEW n \in 0 .. N PROVE upTo[n] = body(upTo)[n]
    BY <1>6
  <2>2. QED BY <2>1
<1> HIDE DEF upTo, body
<1>9. upTo[0] = c /\ \A n \in 1 .. N : upTo[n] = AddString(upTo[n - 1], list[n])
  <2>1. 0 \in 0 .. N /\ \A n \in 1 .. N : n \in 0 .. N /\ n # 0
    BY <1>1
  <2>2. QED BY <1>8, <2>1
<1>10. QED BY <1>7, <1>9 DEF c

LEMMA StringsAreTheirs ==
  ASSUME NEW V, NEW list \in Seq(V)
  PROVE  /\ Strings(list) \in Seq({v.v : v \in V}) /\ Len(Strings(list)) <= Len(list)
         /\ \A i \in 1 .. Len(Strings(list)) : \E k \in 1 .. Len(list) :
              list[k].t = "str" /\ list[k].v = Strings(list)[i]
<1> DEFINE N == Len(list)
           S == Seq({v.v : v \in V})
           From(s, n) == \A i \in 1 .. Len(s) : \E k \in 1 .. n : list[k].t = "str" /\ list[k].v = s[i]
<1>1. PICK f : /\ f[0] = <<>>
               /\ \A n \in 1 .. N : f[n] = AddString(f[n - 1], list[n])
               /\ Strings(list) = f[N]
  BY StringsIs
<1> DEFINE P == {n \in 0 .. N : f[n] \in S /\ Len(f[n]) <= n /\ From(f[n], n)}
<1>2. N \in Nat
  OBVIOUS
<1>3. 0 \in P
  <2>1. <<>> \in S /\ Len(<<>>) = 0
    OBVIOUS
  <2>2. From(f[0], 0)
    BY <1>1, <2>1
  <2> HIDE DEF S, From
  <2>3. QED BY <1>1, <1>2, <2>1, <2>2
<1>4. ASSUME NEW n \in 1 .. N, n - 1 \in P PROVE n \in P
  <2> DEFINE s == f[n - 1]
             x == list[n]
  <2>1. s \in S /\ Len(s) <= n - 1 /\ From(s, n - 1) /\ n \in 0 .. N
    BY <1>2, <1>4
  <2>2. x.v \in {v.v : v \in V}
    <3>1. x \in V
      OBVIOUS
    <3> HIDE DEF x
    <3>2. QED BY <3>1
  <2>3. f[n] = IF x.t = "str" THEN Append(s, x.v) ELSE s
    BY <1>1 DEF AddString
  <2>4. CASE x.t # "str"
    <3>1. f[n] = s /\ 1 .. n - 1 \subseteq 1 .. n
      BY <2>3, <2>4
    <3>2. From(s, n)
      BY <2>1, <3>1
    <3> HIDE DEF s, From
    <3>3. QED BY <1>2, <2>1, <3>1, <3>2
  <2>5. CASE x.t = "str"
    <3> DEFINE y == x.v
               e == Append(s, y)
    <3>1. list[n].t = "str" /\ list[n].v = y /\ n \in 1 .. n /\ 1 .. n - 1 \subseteq 1 .. n
      BY <2>5
    <3>2. s \in Seq({v.v : v \in V}) /\ y \in {v.v : v \in V}
      BY <2>1, <2>2
    <3> HIDE DEF s, x, y
    <3>3. e \in S /\ Len(e) = Len(s) + 1 /\ e[Len(s) + 1] = y /\ \A i \in 1 .. Len(s) : e[i] = s[i]
      BY <3>2
    <3>4. Len(s) \in Nat /\ \A i \in 1 .. Len(s) + 1 : i \in 1 .. Len(s) \/ i = Len(s) + 1
      BY <3>2
    <3> HIDE DEF e
    <3>5. From(e, n)
      BY <2>1, <3>1, <3>3, <3>4
    <3>6. f[n] = e
      BY <2>3, <2>5 DEF e, y
    <3>7. Len(e) <= n
      BY <2>1, <3>3, <3>4
    <3> HIDE DEF From, S
    <3>8. QED BY <1>2, <2>1, <3>3, <3>5, <3>6, <3>7
  <2>6. QED BY <2>4, <2>5
<1>5. N \in P
  <2>1. 0 .. N \subseteq P
    <3> HIDE DEF P
    <3>1. QED BY <1>2, <1>3, <1>4, UpTo
  <2>2. N \in P
    <3> HIDE DEF P
    <3>1. QED BY <1>2, <2>1
  <2>3. QED BY <2>2
<1>6. QED BY <1>1, <1>5

(* Where the parser starts.                                                *)
LEMMA FirstIs ==
  ASSUME NEW V, NEW reply \in Seq(V), NEW kinds
  PROVE  \/ FirstOf(reply, kinds) = 0 /\ \A i \in 1 .. Len(reply) : reply[i].is \notin kinds
         \/ /\ FirstOf(reply, kinds) \in 1 .. Len(reply) /\ reply[FirstOf(reply, kinds)].is \in kinds
            /\ \A i \in 1 .. Len(reply) : reply[i].is \in kinds => FirstOf(reply, kinds) <= i
<1> DEFINE at == {i \in DOMAIN reply : reply[i].is \in kinds}
<1>1. at \subseteq Nat /\ DOMAIN reply = 1 .. Len(reply)
  OBVIOUS
<1>2. FirstOf(reply, kinds) = IF at = {} THEN 0 ELSE CHOOSE i \in at : \A k \in at : i <= k
  BY DEF FirstOf
<1>3. CASE at = {}
  BY <1>1, <1>2, <1>3
<1>4. CASE at # {}
  <2>1. \E i \in at : \A k \in at : i <= k
    <3> HIDE DEF at
    <3>1. QED BY <1>1, <1>4, LeastNat
  <2>2. FirstOf(reply, kinds) \in at /\ \A k \in at : FirstOf(reply, kinds) <= k
    BY <1>2, <1>4, <2>1
  <2>3. QED BY <1>1, <2>2
<1>5. QED BY <1>3, <1>4

EndOf(said, tagged) == Len(said) + (IF tagged THEN 1 ELSE 0)

(* Prose, perhaps the tag, and o.                                          *)
EndsWith(reply, said, tagged, o) ==
  LET n == EndOf(said, tagged)
  IN /\ reply \in Seq(Items \cup {o}) /\ Len(reply) = n + 1 /\ reply[n + 1] = o
     /\ \A i \in 1 .. Len(said) : reply[i] = said[i]
     /\ tagged => reply[n] = [is |-> "tag"]

LEMMA WrittenIs ==
  ASSUME NEW said \in Seq(Items), NEW tagged \in BOOLEAN, NEW obj
  PROVE  EndsWith(Written(said, tagged, obj), said, tagged, [is |-> "object", obj |-> obj])
<1> DEFINE o == [is |-> "object", obj |-> obj]
           T == Items \cup {o}
           g == IF tagged THEN <<[is |-> "tag"]>> ELSE <<>>
<1>1. [is |-> "tag"] \in Items
  BY DEF Items
<1>2. g \in Seq(T) /\ said \in Seq(T) /\ <<o>> \in Seq(T) /\ Len(<<o>>) = 1 /\ <<o>>[1] = o
  <2>1. o \in T /\ Items \subseteq T
    OBVIOUS
  <2> HIDE DEF T, o
  <2>2. <<o>> \in Seq(T) /\ Len(<<o>>) = 1 /\ <<o>>[1] = o
    BY <2>1
  <2>3. g \in Seq(T)
    BY <1>1, <2>1
  <2>4. said \in Seq(T)
    BY <2>1
  <2>5. QED BY <2>2, <2>3, <2>4
<1>3. Len(g) = (IF tagged THEN 1 ELSE 0) /\ (tagged => g[1] = [is |-> "tag"])
  OBVIOUS
<1>4. Written(said, tagged, obj) = said \o g \o <<o>>
  BY DEF Written
<1> HIDE DEF T, g, o
<1>5. /\ said \o g \in Seq(T) /\ Len(said \o g) = Len(said) + Len(g)
      /\ \A i \in 1 .. Len(said) : (said \o g)[i] = said[i]
      /\ tagged => (said \o g)[Len(said) + 1] = g[1]
  <2>1. /\ said \o g \in Seq(T) /\ Len(said \o g) = Len(said) + Len(g)
        /\ \A i \in 1 .. Len(said) + Len(g) :
             (said \o g)[i] = IF i <= Len(said) THEN said[i] ELSE g[i - Len(said)]
    BY <1>2, ConcatProperties
  <2>2. Len(said) \in Nat
    BY <1>2
  <2>3. tagged => (said \o g)[Len(said) + 1] = g[1]
    BY <1>3, <2>1, <2>2
  <2>4. \A i \in 1 .. Len(said) : (said \o g)[i] = said[i]
    BY <1>3, <2>1, <2>2
  <2>5. QED BY <2>1, <2>3, <2>4
<1> DEFINE b == said \o g
<1>6. b \in Seq(T) /\ Len(said) \in Nat /\ Len(b) = Len(said) + (IF tagged THEN 1 ELSE 0)
  BY <1>3, <1>5
<1> HIDE DEF b
<1>7. /\ b \o <<o>> \in Seq(T) /\ Len(b \o <<o>>) = Len(b) + 1 /\ (b \o <<o>>)[Len(b) + 1] = o
      /\ \A i \in 1 .. Len(b) : (b \o <<o>>)[i] = b[i]
  BY <1>2, <1>6
<1>8. /\ \A i \in 1 .. Len(said) : (b \o <<o>>)[i] = said[i]
      /\ tagged => (b \o <<o>>)[Len(said) + 1] = [is |-> "tag"]
  BY <1>3, <1>5, <1>6, <1>7 DEF b
<1>9. Written(said, tagged, obj) = b \o <<o>>
  BY <1>4 DEF b
<1>10. QED BY <1>6, <1>7, <1>8, <1>9 DEF T, o, EndOf, EndsWith

(* Only the object can parse; and where nothing leads it astray, it does.  *)
LEMMA ParseIs ==
  ASSUME NEW said \in Seq(Items), NEW tagged \in BOOLEAN, NEW obj
  PROVE  LET parsed == ToolcallParse(Written(said, tagged, obj))
         IN /\ parsed \in {Fails, Call(obj)}
            /\ Leads(said, tagged) => parsed = Call(obj)
<1> DEFINE reply == Written(said, tagged, obj)
           m == Len(said)
           n == EndOf(said, tagged)
           o == [is |-> "object", obj |-> obj]
           T == Items \cup {o}
<1>1. /\ reply \in Seq(T) /\ Len(reply) = n + 1 /\ reply[n + 1] = o
      /\ \A i \in 1 .. m : reply[i] = said[i]
      /\ tagged => reply[n] = [is |-> "tag"]
  <2>1. EndsWith(reply, said, tagged, o)
    BY WrittenIs
  <2> HIDE DEF reply, o
  <2>2. QED BY <2>1, Zenon DEF EndsWith
<1>2. m \in Nat /\ n \in Nat /\ m <= n /\ DOMAIN reply = 1 .. Len(reply)
  BY <1>1 DEF EndOf
<1>3. \A i \in 1 .. m : said[i].is \in {"prose", "tag", "brace"}
  <2>1. \A x \in Items : x.is \in {"prose", "tag", "brace"}
    BY DEF Items
  <2>2. QED BY <2>1
<1>4. o.is = "object" /\ o.obj = obj
  OBVIOUS
<1>5. \A i \in 1 .. n : i \in 1 .. m \/ (tagged /\ i = n /\ n = m + 1)
  BY <1>2 DEF EndOf
<1> HIDE DEF reply, m, n, o, T
<1>6. \A i \in 1 .. n + 1 : reply[i].is = "object" => i = n + 1
  <2>1. \A i \in 1 .. n : reply[i].is # "object"
    BY <1>1, <1>3, <1>5
  <2>2. QED BY <1>2, <2>1
<1>7. ToolcallParse(reply) = LET at == JsonStart(reply) IN
        IF at \in 1 .. n + 1 /\ reply[at].is = "object" THEN Call(reply[at].obj) ELSE Fails
  BY <1>1, <1>2 DEF ToolcallParse
<1>8. ToolcallParse(reply) \in {Fails, Call(obj)}
  BY <1>1, <1>4, <1>6, <1>7
<1>9. ASSUME JsonStart(reply) = n + 1 PROVE ToolcallParse(reply) = Call(obj)
  BY <1>1, <1>2, <1>4, <1>7, <1>9
<1>10. ASSUME Leads(said, tagged) PROVE JsonStart(reply) = n + 1
  <2>1. CASE tagged
    <3>1. \A i \in 1 .. m : said[i].is \notin {"tag"}
      BY <1>10, <2>1, FirstIs DEF Leads, m
    <3>2. n = m + 1 /\ reply[n].is = "tag"
      BY <1>1, <2>1 DEF n, m, EndOf
    <3>3. FirstOf(reply, {"tag"}) = n
      <4> DEFINE F == FirstOf(reply, {"tag"})
      <4>1. /\ F \in 1 .. n + 1 /\ reply[F].is = "tag"
            /\ \A i \in 1 .. n + 1 : reply[i].is = "tag" => F <= i
        BY <1>1, <1>2, <3>2, FirstIs
      <4> HIDE DEF F
      <4>2. F \notin 1 .. m /\ F # n + 1
        BY <1>1, <1>4, <3>1, <4>1
      <4>3. F = n
        BY <1>2, <3>2, <4>1, <4>2
      <4>4. QED BY <4>3 DEF F
    <3>4. QED BY <1>2, <3>2, <3>3 DEF JsonStart
  <2>2. CASE ~tagged
    <3>1. \A i \in 1 .. m : said[i].is \notin {"brace", "tag"}
      BY <1>10, <2>2, FirstIs DEF Leads, m
    <3>2. n = m
      BY <1>2, <2>2 DEF n, m, EndOf
    <3>3. \A i \in 1 .. n + 1 : reply[i].is \notin {"tag"}
      BY <1>1, <1>2, <1>4, <3>1, <3>2
    <3>4. FirstOf(reply, {"tag"}) = 0
      BY <1>1, <3>3, FirstIs
    <3>5. \A i \in 1 .. n + 1 : reply[i].is \in {"brace", "object"} <=> i = n + 1
      <4>1. \A i \in 1 .. n + 1 : i \in 1 .. m \/ i = n + 1
        BY <1>2, <3>2
      <4>2. \A i \in 1 .. m : reply[i].is \notin {"brace", "object"} /\ i # n + 1
        BY <1>1, <1>2, <1>3, <3>1, <3>2
      <4>3. reply[n + 1].is = "object"
        BY <1>1, <1>4
      <4>4. QED BY <4>1, <4>2, <4>3
    <3>6. FirstOf(reply, {"brace", "object"}) = n + 1
      BY <1>1, <1>2, <3>5, FirstIs
    <3>7. QED BY <3>4, <3>6 DEF JsonStart
  <2>3. QED BY <2>1, <2>2
<1>11. QED BY <1>8, <1>9, <1>10 DEF reply

(* The keys that are not arguments.                                        *)
Meta == {"name", "arguments", "parameters"}

LEMMA ValuesAre ==
  ASSUME NEW name, NEW args
  PROVE  /\ Missing.t = "none" /\ Str(name).t = "str" /\ Str(name).v = name
         /\ Obj(args).t = "obj" /\ Obj(args).v = args
BY DEF Missing, Str, Obj

(* In each shape the parser finds the name ...                             *)
LEMMA NameIs ==
  ASSUME NEW name, NEW args, ArgsOK(args), NEW shape \in Shapes
  PROVE  /\ name # "" => CallName(Shaped(name, args, shape)) = name
         /\ name = "" => CallName(Shaped(name, args, shape)) \in {"agent", ""}
<1> DEFINE root == Shaped(name, args, shape)
<1>1. Meta \cap DOMAIN args = {}
  BY DEF ArgsOK, Meta
<1>2. Get(root, "name") = IF name = "" THEN Missing ELSE Str(name)
  BY <1>1 DEF Get, Shapes, Meta, Shaped, Obj
<1> HIDE DEF root
<1>3. (name # "" => CallName(root) = name) /\ (name = "" => CallName(root) \in {"agent", ""})
  BY <1>2, ValuesAre DEF CallName, IsStr
<1>4. QED BY <1>3 DEF root

(* ... and, under every key an argument may have, what the model gave.     *)
LEMMA ContainerIs ==
  ASSUME NEW name, NEW args, ArgsOK(args), NEW shape \in Shapes
  PROVE  \A k : k \notin Meta =>
           Get(Container(Shaped(name, args, shape)), k) = Get(Obj(args), k)
<1> DEFINE root == Shaped(name, args, shape)
           named == IF name = "" THEN {} ELSE {"name"}
           keys == IF shape = "hoisted" THEN DOMAIN args ELSE {shape}
<1>1. /\ DOMAIN root.v = named \cup keys
      /\ \A k \in named \cup keys : root.v[k] =
           IF k = "name" THEN Str(name) ELSE IF shape = "hoisted" THEN args[k] ELSE Obj(args)
  BY DEF Shaped, Obj
<1>2. Meta \cap DOMAIN args = {}
  BY DEF ArgsOK, Meta
<1>3. Missing.t = "none" /\ Obj(args).t = "obj" /\ Obj(args).v = args
  BY ValuesAre
<1> HIDE DEF root
<1>4. \A k : k \notin Meta => Get(Container(root), k) = Get(Obj(args), k)
  <2>1. CASE shape = "hoisted"
    <3>1. Get(root, "arguments") = Missing /\ Get(root, "parameters") = Missing
      BY <1>1, <1>2, <2>1 DEF Get, Meta
    <3>2. Container(root) = root
      BY <1>3, <3>1 DEF Container
    <3>3. ASSUME NEW k, k \notin Meta PROVE Get(root, k) = Get(Obj(args), k)
      <4>1. k # "name" /\ k \notin named
        BY <3>3 DEF Meta
      <4>2. k \in DOMAIN root.v <=> k \in DOMAIN args
        BY <1>1, <2>1, <4>1
      <4>3. k \in DOMAIN args => root.v[k] = args[k]
        BY <1>1, <2>1, <4>1
      <4>4. QED BY <1>3, <4>2, <4>3 DEF Get
    <3>4. QED BY <3>2, <3>3
  <2>2. CASE shape # "hoisted"
    <3>1. Get(root, shape) = Obj(args) /\ shape \in {"arguments", "parameters"}
      BY <1>1, <2>2 DEF Get, Shapes
    <3>2. shape = "parameters" => Get(root, "arguments") = Missing
      BY <1>1, <2>2 DEF Get
    <3>3. Container(root) = Obj(args)
      BY <1>3, <3>1, <3>2 DEF Container
    <3>4. QED BY <3>3
  <2>3. QED BY <2>1, <2>2
<1>5. QED BY <1>4 DEF root

LEMMA RequiredArePlain ==
  \A kind \in DOMAIN Required : (Required[kind] \cup Optional[kind]) \cap Meta = {}
<1>1. ASSUME NEW kind \in DOMAIN Required PROVE Required[kind] \cap Meta = {}
  BY DEF Required, Meta
<1>2. ASSUME NEW kind \in DOMAIN Required PROVE Optional[kind] \cap Meta = {}
  <2>1. Optional[kind] \in {{"path"}, {"task"}, {}}
    BY DEF Optional
  <2>2. QED BY <2>1 DEF Meta
<1>3. QED BY <1>1, <1>2

(* A call depends on what lies under the arguments' keys and nothing else. *)
LEMMA CallOfSame ==
  ASSUME NEW kind, NEW a, NEW b, \A k : k \notin Meta => Get(a, k) = Get(b, k)
  PROVE  CallOf(kind, a) = CallOf(kind, b)
<1>1. CASE kind \notin DOMAIN Required
  BY <1>1 DEF CallOf
<1>2. CASE kind \in DOMAIN Required
  <2> DEFINE K == Required[kind] \cup Optional[kind]
  <2>1. \A k \in K : Get(a, k) = Get(b, k)
    BY <1>2, RequiredArePlain
  <2>2. {k \in K : IsStr(a, k)} = {k \in K : IsStr(b, k)}
    BY <2>1 DEF IsStr
  <2>3. Get(a, "tasks") = Get(b, "tasks") /\ Get(a, "offset") = Get(b, "offset")
    BY DEF Meta
  <2>4. Tasks(a) = Tasks(b) /\ Offset(a) = Offset(b)
    BY <2>3, Zenon DEF Tasks, Offset
  <2> DEFINE G == {k \in K : IsStr(a, k)}
             D == IF kind = "screenshot" /\ "path" \notin G THEN {"path"} ELSE {}
             V(x) == [k \in G \cup D |-> IF k \in G THEN Get(x, k).v ELSE "screenshot.png"]
  <2>5. V(a) = V(b)
    <3>1. \A k \in G : Get(a, k) = Get(b, k)
      BY <2>1
    <3> HIDE DEF G, D
    <3>2. QED BY <3>1
  <2>6. QED BY <2>2, <2>4, <2>5, Zenon DEF CallOf
<1>3. QED BY <1>1, <1>2

LEMMA TasksAreGiven ==
  ASSUME NEW args, ArgsOK(args), MaxPar \in Nat
  PROVE  /\ Len(Tasks(Obj(args))) <= MaxPar
         /\ \A i \in DOMAIN Tasks(Obj(args)) : \E k \in DOMAIN args["tasks"].v :
              args["tasks"].v[k].t = "str" /\ args["tasks"].v[k].v = Tasks(Obj(args))[i]
<1> DEFINE ts == Get(Obj(args), "tasks")
           most == IF Len(ts.v) > MaxPar THEN MaxPar ELSE Len(ts.v)
<1>1. Tasks(Obj(args)) = IF ts.t = "arr" THEN Strings(SubSeq(ts.v, 1, most)) ELSE <<>>
  BY DEF Tasks
<1>2. CASE ts.t # "arr"
  <2>1. Tasks(Obj(args)) = <<>>
    BY <1>1, <1>2
  <2>2. QED BY <2>1
<1>3. CASE ts.t = "arr"
  <2>1. "tasks" \in DOMAIN args /\ ts = args["tasks"]
    BY <1>3 DEF Get, Obj, Missing
  <2>2. IsList(ts.v)
    BY <1>3, <2>1 DEF ArgsOK
  <2> HIDE DEF ts
  <2> DEFINE list == ts.v
             V == {list[i] : i \in 1 .. Len(list)}
             sub == SubSeq(list, 1, most)
  <2>3. Len(list) \in Nat /\ list \in Seq(V)
    BY <2>2 DEF IsList
  <2> HIDE DEF list
  <2>4. most \in 0 .. Len(list) /\ most <= MaxPar
    BY <2>3 DEF list
  <2> HIDE DEF most
  <2>5. sub \in Seq(V) /\ Len(sub) = most /\ \A k \in 1 .. most : sub[k] = list[k]
    BY <2>3, <2>4
  <2> HIDE DEF V, sub
  <2>6. /\ Strings(sub) \in Seq({v.v : v \in V}) /\ Len(Strings(sub)) <= Len(sub)
        /\ \A i \in 1 .. Len(Strings(sub)) : \E k \in 1 .. Len(sub) :
             sub[k].t = "str" /\ sub[k].v = Strings(sub)[i]
    BY <2>5, StringsAreTheirs
  <2>7. Tasks(Obj(args)) = Strings(sub) /\ DOMAIN Strings(sub) = 1 .. Len(Strings(sub))
    BY <1>1, <1>3, <2>6 DEF sub, list
  <2>8. DOMAIN list = 1 .. Len(list) /\ \A k \in 1 .. most : k \in 1 .. Len(list)
    BY <2>3, <2>4
  <2>9. \A i \in 1 .. Len(Strings(sub)) : \E k \in DOMAIN list :
          list[k].t = "str" /\ list[k].v = Strings(sub)[i]
    BY <2>5, <2>6, <2>8
  <2>10. Len(Strings(sub)) <= MaxPar
    <3>1. Len(Strings(sub)) \in Nat /\ most \in Int
      BY <2>3, <2>4, <2>6
    <3>2. QED BY <2>4, <2>5, <2>6, <3>1
  <2>11. QED BY <2>1, <2>7, <2>9, <2>10 DEF list
<1>4. QED BY <1>2, <1>3

LEMMA CallIsComplete ==
  ASSUME NEW kind, NEW args, ArgsOK(args), MaxPar \in Nat,
         CallOf(kind, Obj(args)).kind # "none"
  PROVE  Complete(CallOf(kind, Obj(args)), args)
<1> DEFINE a == Obj(args)
           G == {k \in Required[kind] \cup Optional[kind] : IsStr(a, k)}
           tasks == IF kind = "agent" THEN Tasks(a) ELSE <<>>
           D == IF kind = "screenshot" /\ "path" \notin G THEN {"path"} ELSE {}
           V == [k \in G \cup D |-> IF k \in G THEN Get(a, k).v ELSE "screenshot.png"]
           off == IF kind = "read_file" THEN Offset(a) ELSE -1
           call == [kind |-> kind, args |-> V, tasks |-> tasks, offset |-> off]
<1>1. Fails.kind = "none"
  BY DEF Fails
<1>2. CallOf(kind, a) = call /\ Required[kind] \subseteq G
  BY <1>1, Zenon DEF CallOf
<1>3. call.kind = kind /\ call.args = V /\ call.tasks = tasks /\ call.offset = off
  OBVIOUS
<1>4. \A k \in G : k \in DOMAIN args /\ args[k].t = "str" /\ args[k].v = Get(a, k).v
  BY DEF IsStr, Get, Obj, Missing
<1>5. D # {} => kind = "screenshot"
  OBVIOUS
<1>6. DOMAIN V = G \cup D /\ \A k \in G : V[k] = Get(a, k).v
  OBVIOUS
<1>7. off >= -1
  <2>1. "offset" \in DOMAIN args => (args["offset"].t = "num" => args["offset"].v \in Int)
    BY DEF ArgsOK
  <2>2. QED BY <2>1 DEF Offset, Get, Obj, Missing
<1>8. /\ Len(tasks) <= MaxPar
      /\ \A i \in DOMAIN tasks : \E k \in DOMAIN args["tasks"].v :
           args["tasks"].v[k].t = "str" /\ args["tasks"].v[k].v = tasks[i]
  <2>1. CASE kind = "agent"
    BY <2>1, TasksAreGiven
  <2>2. CASE kind # "agent"
    BY <2>2
  <2>3. QED BY <2>1, <2>2
<1> HIDE DEF G, D, V, tasks, off, call, a
<1>9. Required[kind] \subseteq DOMAIN V
  BY <1>2, <1>6
<1>10. \A k \in DOMAIN V : (k \in DOMAIN args /\ args[k].t = "str" /\ args[k].v = V[k]) \/ kind = "screenshot"
  BY <1>4, <1>5, <1>6
<1>11. Complete(call, args)
  BY <1>3, <1>7, <1>8, <1>9, <1>10 DEF Complete
<1>12. QED BY <1>2, <1>11 DEF a

(* The call a model writes is understood: its shape does not change what   *)
(* is parsed, nor does what was said said, behind a tag or without one;  *)
(* a kind whose arguments are there is recognised; and whatever parses is  *)
(* complete, with the model's own arguments and at most MaxPar tasks.  For *)
(* every reply said it, every name and all arguments.                     *)
THEOREM CallsAlwaysUnderstood ==
  ASSUME NEW said \in Seq(Items), NEW tagged \in BOOLEAN, NEW name, NEW args,
         ArgsOK(args), MaxPar \in Nat
  PROVE  CallUnderstood(said, tagged, name, args)
<1> DEFINE root(s) == Shaped(name, args, s)
           call(s) == ToolcallParse(Written(said, tagged, root(s)))
           alone == ToolcallParse(Written(<<>>, FALSE, root("hoisted")))
           kind == KindOf(name)
           a == Obj(args)
<1>1. ASSUME NEW s \in Shapes
      PROVE  Call(root(s)) = CallOf(KindOf(CallName(root(s))), a)
  <2>1. \A k : k \notin Meta => Get(Container(root(s)), k) = Get(a, k)
    BY ContainerIs
  <2> HIDE DEF root, a
  <2>2. CallOf(KindOf(CallName(root(s))), Container(root(s))) = CallOf(KindOf(CallName(root(s))), a)
    BY <2>1, CallOfSame
  <2>3. QED BY <2>2, Zenon DEF Call
<1>2. ASSUME NEW s \in Shapes
      PROVE  /\ call(s) \in {Fails, Call(root(s))}
             /\ Leads(said, tagged) => call(s) = Call(root(s))
  <2> HIDE DEF root
  <2>1. QED BY ParseIs
<1>3. alone = Call(root("hoisted"))
  <2>1. FirstOf(<<>>, {"brace", "tag"}) = 0
    BY DEF FirstOf
  <2>2. Leads(<<>>, FALSE)
    BY <2>1 DEF Leads
  <2>3. <<>> \in Seq(Items)
    OBVIOUS
  <2> HIDE DEF root
  <2>4. QED BY <2>2, <2>3, ParseIs
<1>4. "hoisted" \in Shapes
  BY DEF Shapes
<1>5. ASSUME name # "", NEW s \in Shapes PROVE Call(root(s)) = CallOf(kind, a)
  <2>1. CallName(root(s)) = name
    BY <1>5, NameIs
  <2> HIDE DEF root, a
  <2>2. QED BY <1>1, <2>1
<1>6. ASSUME Leads(said, tagged), name # "", NEW s \in Shapes PROVE call(s) = alone
  <2> HIDE DEF root, a, call, alone
  <2>1. QED BY <1>2, <1>3, <1>4, <1>5, <1>6
<1>7. ASSUME kind \in DOMAIN Required \ {"agent"},
             \A k \in Required[kind] : k \in DOMAIN args /\ args[k].t = "str"
      PROVE  alone.kind = kind
  <2>1. name # ""
    BY <1>7 DEF KindOf, Required
  <2>2. alone = CallOf(kind, a)
    <3> HIDE DEF root, a, alone
    <3>1. QED BY <1>3, <1>4, <1>5, <2>1
  <2>3. \A k \in Required[kind] : IsStr(a, k)
    BY <1>7 DEF IsStr, Get, Obj
  <2> HIDE DEF alone, a, kind
  <2>4. CallOf(kind, a).kind = kind
    BY <1>7, <2>3 DEF CallOf
  <2>5. QED BY <2>2, <2>4
<1>8. ASSUME NEW s \in Shapes, call(s).kind # "none" PROVE Complete(call(s), args)
  <2> HIDE DEF call, root
  <2>1. call(s) = Call(root(s))
    BY <1>2, <1>8 DEF Fails
  <2>2. call(s) = CallOf(KindOf(CallName(root(s))), a)
    BY <1>1, <2>1
  <2>3. QED BY <1>8, <2>2, CallIsComplete
<1>9. QED BY <1>6, <1>7, <1>8 DEF CallUnderstood

(***************************************************************************)
(* Launch.  The options that a reading of the command line may have        *)
(* reached, and what each step leaves of them.                             *)
(***************************************************************************)
Opts ==
  [model : Texts \cup {NoModel}, sandbox : Texts, small_model : Texts \cup {NoModel},
   max_iters : Counts, ctx : Counts, pinned : SUBSET {"ctx", "max_iters"},
   verify : BOOLEAN, plan : BOOLEAN, grammar : BOOLEAN, yolo : BOOLEAN, lean : BOOLEAN,
   print : BOOLEAN, cont : BOOLEAN, depth : Int,
   permission : Perms, words : Seq(Texts)]

LEMMA AtoiIs == ASSUME NEW a PROVE Atoi(a) \in Counts /\ Atoi(a) \in Int
<1>1. \A n \in Counts : n \in Int
  BY LaunchAssumption
<1>2. 0 \in Counts
  BY LaunchAssumption
<1>3. Atoi(a) \in Counts
  BY <1>2, LaunchAssumption DEF Atoi
<1>4. QED BY <1>1, <1>3

LEMMA OptionIs ==
  ASSUME NEW o \in Opts, NEW a \in Valued, NEW v \in Texts
  PROVE  Option(o, a, v) \in Opts
<1>1. Atoi(v) \in Int /\ Atoi(v) \in Counts
  BY AtoiIs
<1>2. CASE a = "--model"
  BY <1>2 DEF Option, Opts
<1>3. CASE a = "--sandbox"
  BY <1>3 DEF Option, Opts
<1>4. CASE a = "--ctx"
  BY <1>1, <1>4 DEF Option, Opts
<1>5. CASE a = "--max-iters"
  BY <1>1, <1>5 DEF Option, Opts
<1>6. CASE a = "--depth"
  BY <1>1, <1>6 DEF Option, Opts
<1>7. QED BY <1>2, <1>3, <1>4, <1>5, <1>6 DEF Valued

LEMMA SwitchIs ==
  ASSUME NEW o \in Opts, NEW a \in Switches
  PROVE  Switch(o, a) \in Opts
<1>1. CASE a = "--here"
  BY <1>1, LaunchAssumption DEF Switch, Opts
<1>2. CASE a = "--no-grammar"
  BY <1>2 DEF Switch, Opts
<1>3. CASE a \in {"--verify", "--no-verify"}
  BY <1>3 DEF Switch, Opts
<1>4. CASE a \in {"--plan", "--no-plan"}
  BY <1>4 DEF Switch, Opts
<1>5. CASE a = "--yolo"
  BY <1>5 DEF Switch, Opts
<1>6. CASE a = "-p"
  BY <1>6 DEF Switch, Opts
<1>7. CASE a = "-c"
  BY <1>7 DEF Switch, Opts
<1>8. CASE a = "--lean"
  BY <1>8 DEF Switch, Opts
<1>9. QED BY <1>1, <1>2, <1>3, <1>4, <1>5, <1>6, <1>7, <1>8 DEF Switches

LEMMA AsTaskIs ==
  ASSUME NEW o \in Opts, NEW a \in Texts
  PROVE  AsTask(o, a) \in Opts
<1>1. o.words \in Seq(Texts)
  BY DEF Opts
<1>2. Append(o.words, a) \in Seq(Texts)
  BY <1>1
<1>3. QED BY <1>2 DEF AsTask, Opts

LEMMA DefaultsIs == Defaults \in Opts
<1>1. <<>> \in Perms
  <2>1. <<>> \in [{} -> {"allow", "ask", "deny"}]
    OBVIOUS
  <2>2. QED BY <2>1 DEF Perms
<1>2. <<>> \in Seq(Texts)
  OBVIOUS
<1>3. QED BY <1>1, <1>2, LaunchAssumption DEF Defaults, Opts

LEMMA OptsRun == (\A o \in Opts : Runs(o)) /\ ~Runs(Exit(0)) /\ ~Runs(Exit(1)) /\ ~Runs(Exit(2))
BY DEF Opts, Runs, Exit

(* What is kept of a command line while it is read.                        *)
Readings == [o : Opts \cup {Exit(0)}, wait : Valued \cup {""}]

LEMMA ReadingIs ==
  ASSUME NEW x \in Opts \cup {Exit(0)}, NEW y \in Valued \cup {""}
  PROVE  [o |-> x, wait |-> y] \in Readings
BY DEF Readings

LEMMA ReadArgIs ==
  ASSUME NEW r \in Readings, NEW a \in Texts
  PROVE  ReadArg(r, a) \in Readings
<1>1. r.o \in Opts \cup {Exit(0)} /\ r.wait \in Valued \cup {""}
  BY DEF Readings
<1>2. CASE ~Runs(r.o)
  BY <1>2 DEF ReadArg
<1>3. CASE Runs(r.o)
  <2>1. r.o \in Opts
    BY <1>1, <1>3, OptsRun
  <2>2. CASE r.wait # ""
    <3>1. Option(r.o, r.wait, a) \in Opts
      BY <1>1, <2>1, <2>2, OptionIs
    <3>2. ReadArg(r, a) = [o |-> Option(r.o, r.wait, a), wait |-> ""]
      BY <1>3, <2>2 DEF ReadArg
    <3>3. QED BY <3>1, <3>2, ReadingIs
  <2>3. CASE r.wait = "" /\ a \in Valued
    <3>1. ReadArg(r, a) = [o |-> r.o, wait |-> a]
      BY <1>3, <2>3 DEF ReadArg
    <3>2. QED BY <2>1, <2>3, <3>1, ReadingIs
  <2>4. CASE r.wait = "" /\ a \in Switches
    <3>1. Switch(r.o, a) \in Opts /\ a \notin Valued
      BY <2>1, <2>4, SwitchIs DEF Valued, Switches
    <3>2. ReadArg(r, a) = [o |-> Switch(r.o, a), wait |-> ""]
      BY <1>3, <2>4, <3>1 DEF ReadArg
    <3>3. QED BY <3>1, <3>2, ReadingIs
  <2>5. CASE r.wait = "" /\ a \notin Switches \cup Valued
    <3>1. AsTask(r.o, a) \in Opts
      BY <2>1, AsTaskIs
    <3>2. ReadArg(r, a) \in {[o |-> Exit(0), wait |-> ""], [o |-> AsTask(r.o, a), wait |-> ""]}
      BY <1>3, <2>5 DEF ReadArg
    <3>3. QED BY <3>1, <3>2, ReadingIs
  <2>6. QED BY <2>2, <2>3, <2>4, <2>5
<1>4. QED BY <1>2, <1>3

LEMMA FromArgsIs ==
  ASSUME NEW o \in Opts, NEW argv \in Seq(Texts)
  PROVE  \E f \in [0 .. Len(argv) -> Readings] :
           /\ f[0] = [o |-> o, wait |-> ""]
           /\ \A n \in 1 .. Len(argv) : f[n] = ReadArg(f[n - 1], argv[n])
           /\ FromArgs(o, argv) = IF f[Len(argv)].wait = "" THEN f[Len(argv)].o
                                  ELSE AsTask(f[Len(argv)].o, f[Len(argv)].wait)
<1> DEFINE N == Len(argv)
           c == [o |-> o, wait |-> ""]
           body(f) == [n \in 0 .. N |-> IF n = 0 THEN c ELSE ReadArg(f[n - 1], argv[n])]
           upTo == CHOOSE f : f = body(f)
           d == [p \in Nat \X Readings |-> IF p[1] \in 1 .. N THEN ReadArg(p[2], argv[p[1]]) ELSE c]
<1>1. N \in Nat /\ c \in Readings /\ \A n \in 1 .. N : argv[n] \in Texts
  BY DEF Readings
<1>2. d \in [Nat \X Readings -> Readings]
  <2> HIDE DEF c
  <2>1. QED BY <1>1, ReadArgIs
<1>3. PICK g \in [0 .. N -> Readings] : g[0] = c /\ \A n \in 1 .. N : g[n] = d[<<n, g[n - 1]>>]
  <2> HIDE DEF d, N, c
  <2>1. \E g \in [0 .. N -> Readings] : IsRun(g, c, d, N)
    BY <1>1, <1>2, FiniteRecursion
  <2>2. QED BY <2>1 DEF IsRun
<1>4. \A n \in 1 .. N : g[n] = ReadArg(g[n - 1], argv[n])
  <2> HIDE DEF c
  <2>1. ASSUME NEW n \in 1 .. N PROVE g[n] = ReadArg(g[n - 1], argv[n])
    <3>1. n - 1 \in 0 .. N /\ n \in Nat
      BY <1>1
    <3>2. g[n - 1] \in Readings
      BY <1>3, <3>1
    <3>3. d[<<n, g[n - 1]>>] = ReadArg(g[n - 1], argv[n])
      BY <3>1, <3>2
    <3>4. QED BY <1>3, <3>3
  <2>2. QED BY <2>1
<1> HIDE DEF d, c
<1>5. g = body(g)
  <2>1. ASSUME NEW n \in 0 .. N PROVE g[n] = body(g)[n]
    <3>1. CASE n = 0
      BY <1>1, <1>3, <3>1
    <3>2. CASE n # 0
      <4>1. n \in 1 .. N
        BY <1>1, <3>2
      <4>2. QED BY <1>4, <3>2, <4>1
    <3>3. QED BY <3>1, <3>2
  <2>2. QED BY <1>3, <2>1
<1>6. upTo = body(upTo)
  <2> HIDE DEF body
  <2>1. QED BY <1>5
<1>7. FromArgs(o, argv) = LET r == upTo[N] IN IF r.wait = "" THEN r.o ELSE AsTask(r.o, r.wait)
  BY DEF FromArgs, AllRead, c
<1>8. \A n \in 0 .. N : upTo[n] = IF n = 0 THEN c ELSE ReadArg(upTo[n - 1], argv[n])
  <2> HIDE DEF upTo
  <2>1. ASSUME NEW n \in 0 .. N PROVE upTo[n] = body(upTo)[n]
    BY <1>6
  <2>2. QED BY <2>1
<1> HIDE DEF upTo, body
<1>9. upTo[0] = c /\ \A n \in 1 .. N : upTo[n] = ReadArg(upTo[n - 1], argv[n])
  <2>1. 0 \in 0 .. N /\ \A n \in 1 .. N : n \in 0 .. N /\ n # 0
    BY <1>1
  <2>2. QED BY <1>8, <2>1
<1>10. \A n \in 0 .. N : upTo[n] \in Readings
  <2> DEFINE P == {n \in 0 .. N : upTo[n] \in Readings}
  <2>1. 0 \in P
    BY <1>1, <1>9
  <2>2. ASSUME NEW n \in 1 .. N, n - 1 \in P PROVE n \in P
    <3>1. upTo[n - 1] \in Readings /\ n \in 0 .. N
      BY <1>1, <2>2
    <3>2. ReadArg(upTo[n - 1], argv[n]) \in Readings
      BY <1>1, <3>1, ReadArgIs
    <3>3. QED BY <1>9, <3>1, <3>2
  <2>3. 0 .. N \subseteq P
    <3> HIDE DEF P
    <3>1. QED BY <1>1, <2>1, <2>2, UpTo
  <2>4. QED BY <2>3
<1>11. upTo \in [0 .. N -> Readings]
  <2>1. upTo = [n \in 0 .. N |-> upTo[n]]
    BY <1>6 DEF body
  <2>2. QED BY <1>10, <2>1
<1>12. QED BY <1>7, <1>9, <1>11 DEF c

LEMMA FromConfigFields ==
  ASSUME NEW o \in Opts, NEW conf
  PROVE  /\ FromConfig(o, conf).pinned = DOMAIN conf \cap {"ctx", "max_iters"}
         /\ \A k \in {"model", "sandbox", "small_model", "verify", "plan", "grammar", "yolo", "lean",
                      "permission"} :
              FromConfig(o, conf)[k] = IF k \in DOMAIN conf THEN conf[k] ELSE o[k]
         /\ \A k \in {"ctx", "max_iters"} : FromConfig(o, conf)[k] =
              IF k \in DOMAIN conf /\ conf[k] # NotANumber THEN conf[k] ELSE o[k]
         /\ \A k \in {"print", "cont", "depth", "words"} : FromConfig(o, conf)[k] = o[k]
BY DEF FromConfig, Opts

LEMMA FromConfigIs ==
  ASSUME NEW o \in Opts, NEW conf, ConfOK(conf)
  PROVE  FromConfig(o, conf) \in Opts
<1> DEFINE c == FromConfig(o, conf)
<1>1. DOMAIN o = {"model", "sandbox", "small_model", "max_iters", "ctx", "pinned", "verify", "plan",
                  "grammar", "yolo", "lean", "print", "cont", "depth", "permission", "words"}
  BY DEF Opts
<1>2. c = [k \in DOMAIN o |-> c[k]]
  BY DEF FromConfig
<1>3. /\ c.model \in Texts \cup {NoModel} /\ c.sandbox \in Texts
      /\ c.small_model \in Texts \cup {NoModel} /\ c.permission \in Perms
  BY <1>1 DEF FromConfig, Opts, ConfOK
<1>4. /\ c.max_iters \in Counts /\ c.ctx \in Counts /\ c.depth \in Int
      /\ c.pinned \in SUBSET {"ctx", "max_iters"}
  BY <1>1 DEF FromConfig, Opts, ConfOK
<1>5. /\ c.verify \in BOOLEAN /\ c.plan \in BOOLEAN /\ c.grammar \in BOOLEAN /\ c.yolo \in BOOLEAN
      /\ c.lean \in BOOLEAN /\ c.print \in BOOLEAN /\ c.cont \in BOOLEAN /\ c.words \in Seq(Texts)
  BY <1>1 DEF FromConfig, Opts, ConfOK
<1> HIDE DEF c
<1>6. QED BY <1>1, <1>2, <1>3, <1>4, <1>5 DEF Opts, c

(* What a command line makes of the options it starts from.                *)
Given(argv, a, n) == \E i \in 1 .. n - 1 : argv[i] = a

Follows(o0, o, argv, n) ==
  /\ o.permission = o0.permission /\ o.small_model = o0.small_model
  /\ o.model = o0.model \/ o.model # NoModel
  /\ o0.pinned \subseteq o.pinned
  /\ "ctx" \notin o.pinned => o.ctx = o0.ctx
  /\ "max_iters" \notin o.pinned => o.max_iters = o0.max_iters
  /\ Given(argv, "--ctx", n) \/ (o.ctx = o0.ctx /\ ("ctx" \in o.pinned => "ctx" \in o0.pinned))
  /\ o.depth \in Nat /\ o.depth + 1 \in Counts

LEMMA OptionFollows ==
  ASSUME NEW o0 \in Opts, NEW o \in Opts, NEW argv, ArgvOK(argv), NEW n \in 2 .. Len(argv),
         argv[n - 1] \in Valued, Follows(o0, o, argv, n - 1)
  PROVE  Follows(o0, Option(o, argv[n - 1], argv[n]), argv, n)
<1> DEFINE v == argv[n]
           x == Option(o, argv[n - 1], v)
<1>0. n \in Nat /\ n - 1 \in 1 .. n - 1 /\ v \in Texts /\ v # NoModel
  <2>1. argv \in Seq(Texts) /\ n \in 1 .. Len(argv)
    BY DEF ArgvOK
  <2>2. v \in Texts
    BY <2>1
  <2>3. QED BY <2>2, LaunchAssumption
<1>1. Given(argv, "--ctx", n - 1) => Given(argv, "--ctx", n)
  BY <1>0 DEF Given
<1>2. CASE argv[n - 1] = "--model"
  <2>1. x = [o EXCEPT !.model = v]
    BY <1>2 DEF Option
  <2>2. QED BY <1>0, <1>1, <2>1 DEF Follows, Opts
<1>3. CASE argv[n - 1] = "--sandbox"
  <2>1. x = [o EXCEPT !.sandbox = v]
    BY <1>3 DEF Option
  <2>2. QED BY <1>0, <1>1, <2>1 DEF Follows, Opts
<1>4. CASE argv[n - 1] = "--ctx"
  <2>1. x = [o EXCEPT !.ctx = Atoi(v), !.pinned = @ \cup {"ctx"}]
    BY <1>4 DEF Option
  <2>2. Given(argv, "--ctx", n)
    BY <1>0, <1>4 DEF Given
  <2>3. QED BY <2>1, <2>2 DEF Follows, Opts
<1>5. CASE argv[n - 1] = "--max-iters"
  <2>1. x = [o EXCEPT !.max_iters = Atoi(v), !.pinned = @ \cup {"max_iters"}]
    BY <1>5 DEF Option
  <2>2. QED BY <1>0, <1>1, <2>1 DEF Follows, Opts
<1>6. CASE argv[n - 1] = "--depth"
  <2>1. x = [o EXCEPT !.depth = Atoi(v)]
    BY <1>6 DEF Option
  <2>2. Atoi(v) \in Nat /\ Atoi(v) + 1 \in Counts
    BY <1>6 DEF ArgvOK
  <2>3. QED BY <1>0, <1>1, <2>1, <2>2 DEF Follows, Opts
<1>7. QED BY <1>2, <1>3, <1>4, <1>5, <1>6 DEF Valued

LEMMA SwitchFollows ==
  ASSUME NEW o0 \in Opts, NEW o \in Opts, NEW argv, NEW n \in Nat, NEW a \in Switches,
         Follows(o0, o, argv, n - 1)
  PROVE  Follows(o0, Switch(o, a), argv, n)
<1> DEFINE x == Switch(o, a)
<1>0. Given(argv, "--ctx", n - 1) => Given(argv, "--ctx", n)
  BY DEF Given
<1>1. /\ x.permission = o.permission /\ x.small_model = o.small_model /\ x.model = o.model
      /\ x.pinned = o.pinned /\ x.ctx = o.ctx /\ x.max_iters = o.max_iters /\ x.depth = o.depth
  <2>1. CASE a = "--here"
    BY <2>1 DEF Switch, Opts
  <2>2. CASE a = "--no-grammar"
    BY <2>2 DEF Switch, Opts
  <2>3. CASE a \in {"--verify", "--no-verify"}
    BY <2>3 DEF Switch, Opts
  <2>4. CASE a \in {"--plan", "--no-plan"}
    BY <2>4 DEF Switch, Opts
  <2>5. CASE a = "--yolo"
    BY <2>5 DEF Switch, Opts
  <2>6. CASE a = "-p"
    BY <2>6 DEF Switch, Opts
  <2>7. CASE a = "-c"
    BY <2>7 DEF Switch, Opts
  <2>8. CASE a = "--lean"
    BY <2>8 DEF Switch, Opts
  <2>9. QED BY <2>1, <2>2, <2>3, <2>4, <2>5, <2>6, <2>7, <2>8 DEF Switches
<1> HIDE DEF x
<1>2. Follows(o0, x, argv, n)
  BY <1>0, <1>1 DEF Follows
<1>3. QED BY <1>2 DEF x

LEMMA TaskFollows ==
  ASSUME NEW o0 \in Opts, NEW o \in Opts, NEW argv, NEW n \in Nat, NEW m \in Nat, m <= n, NEW a,
         Follows(o0, o, argv, m)
  PROVE  Follows(o0, o, argv, n) /\ Follows(o0, AsTask(o, a), argv, n)
<1>0. Given(argv, "--ctx", m) => Given(argv, "--ctx", n)
  BY DEF Given
<1>1. Follows(o0, o, argv, n)
  BY <1>0 DEF Follows
<1>2. QED BY <1>1 DEF Follows, AsTask, Opts

(* ... and so far: an option may still wait for its value.                 *)
ReadSoFar(o0, r, argv, n) ==
  /\ r.wait # "" => n \in 1 .. Len(argv) /\ argv[n] = r.wait /\ r.o \in Opts
  /\ r.o = Exit(0) \/ Follows(o0, r.o, argv, n)

LEMMA PairIs ==
  ASSUME NEW y, NEW x, NEW a, y = [o |-> x, wait |-> a]
  PROVE  y.o = x /\ y.wait = a
OBVIOUS

LEMMA ReadFarther ==
  ASSUME NEW o0 \in Opts, NEW argv, ArgvOK(argv), NEW n \in 1 .. Len(argv), NEW was \in Readings,
         ReadSoFar(o0, was, argv, n - 1), NEW is, is = ReadArg(was, argv[n])
  PROVE  ReadSoFar(o0, is, argv, n)
<1> DEFINE a == argv[n]
<1>1. argv \in Seq(Texts) /\ Len(argv) \in Nat /\ a \in Texts
  BY DEF ArgvOK
<1>2. n \in Nat /\ n - 1 \in 0 .. Len(argv) /\ n - 1 \in Nat /\ n - 1 <= n /\ n \in 0 .. Len(argv)
  BY <1>1
<1>3. was.o \in Opts \cup {Exit(0)} /\ was.wait \in Valued \cup {""}
  BY DEF Readings
<1>4. CASE ~Runs(was.o)
  <2>1. is = was /\ was.o = Exit(0)
    BY <1>3, <1>4, OptsRun DEF ReadArg
  <2>2. was.wait = ""
    BY <2>1, <1>4, OptsRun DEF ReadSoFar
  <2>3. QED BY <2>1, <2>2 DEF ReadSoFar
<1>5. CASE Runs(was.o)
  <2>1. was.o \in Opts /\ Follows(o0, was.o, argv, n - 1)
    BY <1>3, <1>5, OptsRun DEF ReadSoFar
  <2>2. CASE was.wait # ""
    <3>1. n - 1 \in 1 .. Len(argv) /\ argv[n - 1] = was.wait /\ argv[n - 1] \in Valued
      BY <1>3, <2>2 DEF ReadSoFar
    <3>2. n \in 2 .. Len(argv)
      BY <1>1, <3>1
    <3>3. Follows(o0, Option(was.o, was.wait, a), argv, n)
      BY <2>1, <3>1, <3>2, OptionFollows
    <3>4. is = [o |-> Option(was.o, was.wait, a), wait |-> ""]
      BY <1>5, <2>2 DEF ReadArg
    <3>5. is.o = Option(was.o, was.wait, a) /\ is.wait = ""
      <4>1. PICK x : x = Option(was.o, was.wait, a)
        OBVIOUS
      <4>2. is = [o |-> x, wait |-> ""]
        BY <3>4, <4>1, Zenon
      <4>3. is.o = x /\ is.wait = ""
        BY <4>2, PairIs, Zenon
      <4>4. QED BY <4>1, <4>3, Zenon
    <3>6. QED BY <3>3, <3>5 DEF ReadSoFar
  <2>3. CASE was.wait = "" /\ a \in Valued
    <3>1. is = [o |-> was.o, wait |-> a]
      BY <1>5, <2>3 DEF ReadArg
    <3>2. is.o = was.o /\ is.wait = a
      BY <3>1, PairIs
    <3>3. Follows(o0, was.o, argv, n)
      BY <1>2, <2>1, TaskFollows
    <3>4. QED BY <2>1, <3>2, <3>3 DEF ReadSoFar
  <2>4. CASE was.wait = "" /\ a \in Switches
    <3>1. a \notin Valued
      BY <2>4 DEF Valued, Switches
    <3>2. is = [o |-> Switch(was.o, a), wait |-> ""]
      BY <1>5, <2>4, <3>1 DEF ReadArg
    <3>3. is.o = Switch(was.o, a) /\ is.wait = ""
      <4>1. PICK x : x = Switch(was.o, a)
        OBVIOUS
      <4>2. is = [o |-> x, wait |-> ""]
        BY <3>2, <4>1, Zenon
      <4>3. is.o = x /\ is.wait = ""
        BY <4>2, PairIs, Zenon
      <4>4. QED BY <4>1, <4>3, Zenon
    <3>4. Follows(o0, Switch(was.o, a), argv, n)
      BY <1>2, <2>1, <2>4, SwitchFollows
    <3>5. QED BY <3>3, <3>4 DEF ReadSoFar
  <2>5. CASE was.wait = "" /\ a \notin Switches \cup Valued
    <3>1. is \in {[o |-> Exit(0), wait |-> ""], [o |-> AsTask(was.o, a), wait |-> ""]}
      BY <1>5, <2>5 DEF ReadArg
    <3>2. is.wait = "" /\ is.o \in {Exit(0), AsTask(was.o, a)}
      BY <3>1, PairIs
    <3>3. Follows(o0, AsTask(was.o, a), argv, n)
      BY <1>2, <2>1, TaskFollows
    <3>4. QED BY <3>2, <3>3 DEF ReadSoFar
  <2>6. QED BY <2>2, <2>3, <2>4, <2>5
<1>6. QED BY <1>4, <1>5

LEMMA FromArgsFollows ==
  ASSUME NEW o0 \in Opts, o0.depth = 0, NEW argv, ArgvOK(argv)
  PROVE  \/ FromArgs(o0, argv) = Exit(0)
         \/ FromArgs(o0, argv) \in Opts /\ Follows(o0, FromArgs(o0, argv), argv, Len(argv))
<1>1. argv \in Seq(Texts) /\ Len(argv) \in Nat
  BY DEF ArgvOK
<1>2. PICK f \in [0 .. Len(argv) -> Readings] :
               /\ f[0] = [o |-> o0, wait |-> ""]
               /\ \A n \in 1 .. Len(argv) : f[n] = ReadArg(f[n - 1], argv[n])
               /\ FromArgs(o0, argv) = IF f[Len(argv)].wait = "" THEN f[Len(argv)].o
                                       ELSE AsTask(f[Len(argv)].o, f[Len(argv)].wait)
  BY <1>1, FromArgsIs
<1> DEFINE P == {n \in 0 .. Len(argv) : ReadSoFar(o0, f[n], argv, n)}
<1>3. Follows(o0, o0, argv, 0)
  BY <1>1, LaunchAssumption DEF Follows
<1>4. 0 \in P
  <2>1. f[0].o = o0 /\ f[0].wait = ""
    <3>1. f[0] = [o |-> o0, wait |-> ""]
      BY <1>2
    <3>2. QED BY <3>1, PairIs, Zenon
  <2>2. ReadSoFar(o0, f[0], argv, 0)
    BY <1>3, <2>1, Zenon DEF ReadSoFar
  <2>3. 0 \in 0 .. Len(argv)
    BY <1>1
  <2>4. QED BY <2>2, <2>3, Zenon
<1>5. ASSUME NEW n \in 1 .. Len(argv), n - 1 \in P PROVE n \in P
  <2>1. n \in 0 .. Len(argv) /\ n - 1 \in 0 .. Len(argv)
    BY <1>1
  <2>2. ReadSoFar(o0, f[n - 1], argv, n - 1)
    BY <1>5, Zenon
  <2>3. f[n - 1] \in Readings /\ f[n] = ReadArg(f[n - 1], argv[n])
    BY <1>2, <2>1
  <2>4. ReadSoFar(o0, f[n], argv, n)
    BY <2>2, <2>3, ReadFarther
  <2>5. QED BY <2>1, <2>4, Zenon
<1>6. 0 .. Len(argv) \subseteq P
  <2> HIDE DEF P
  <2>1. QED BY <1>1, <1>4, <1>5, UpTo
<1>7. Len(argv) \in 0 .. Len(argv)
  BY <1>1
<1>8. f[Len(argv)] \in Readings
  BY <1>2, <1>7
<1>9. ReadSoFar(o0, f[Len(argv)], argv, Len(argv))
  <2>1. Len(argv) \in P
    <3> HIDE DEF P
    <3>1. QED BY <1>6, <1>7, Zenon
  <2>2. QED BY <2>1, Zenon
<1>10. ASSUME NEW e \in Readings, e = f[Len(argv)],
              ReadSoFar(o0, e, argv, Len(argv)),
              FromArgs(o0, argv) = IF e.wait = "" THEN e.o ELSE AsTask(e.o, e.wait)
       PROVE  \/ FromArgs(o0, argv) = Exit(0)
              \/ FromArgs(o0, argv) \in Opts /\ Follows(o0, FromArgs(o0, argv), argv, Len(argv))
  <2>1. e.o \in Opts \cup {Exit(0)} /\ e.wait \in Valued \cup {""}
    BY DEF Readings
  <2>2. CASE e.wait = ""
    BY <1>10, <2>1, <2>2 DEF ReadSoFar
  <2>3. CASE e.wait # ""
    <3>0. e.o \in Opts
      BY <1>10, <2>3, Zenon DEF ReadSoFar
    <3>1. e.o \in Opts /\ e.wait \in Texts
      <4>1. Valued \subseteq Texts
        BY LaunchAssumption
      <4>2. e.wait \in Valued
        BY <2>1, <2>3
      <4>3. QED BY <3>0, <4>1, <4>2
    <3>2. Follows(o0, e.o, argv, Len(argv))
      BY <1>10, <3>1, OptsRun DEF ReadSoFar
    <3>3. AsTask(e.o, e.wait) \in Opts
      BY <3>1, AsTaskIs
    <3>4. Follows(o0, AsTask(e.o, e.wait), argv, Len(argv))
      BY <1>1, <3>1, <3>2, TaskFollows
    <3>5. QED BY <1>10, <2>3, <3>3, <3>4
  <2>4. QED BY <2>2, <2>3
<1>11. QED BY <1>2, <1>8, <1>9, <1>10, Zenon

Conf(w) == LoadConfig(w.files, Truthy(w.env.hermetic))
Origin(w) == FromConfig([Defaults EXCEPT !.yolo = Truthy(w.env.yolo), !.lean = Truthy(w.env.lean)],
                        Conf(w))

LEMMA ConfIs == ASSUME NEW w, WorldOK(w) PROVE ConfOK(Conf(w))
<1> DEFINE files == w.files
           objects == {i \in DOMAIN files : files[i].is = "object"}
<1>1. ConfOK(<<>>)
  <2>1. DOMAIN <<>> = {}
    OBVIOUS
  <2>2. QED BY <2>1 DEF ConfOK
<1>2. /\ \A i \in objects : ConfOK(files[i].conf)
      /\ objects \subseteq Nat
  <2>1. DOMAIN files = 1 .. Len(files) /\ Len(files) \in Nat
    BY DEF WorldOK
  <2>2. \A i \in DOMAIN files : files[i].is = "object" => ConfOK(files[i].conf)
    BY DEF WorldOK
  <2>3. QED BY <2>1, <2>2
<1>3. Conf(w) = IF Truthy(w.env.hermetic) \/ objects = {} THEN <<>>
                ELSE files[CHOOSE i \in objects : \A k \in objects : i <= k].conf
  BY DEF Conf, LoadConfig
<1> HIDE DEF objects, files
<1>4. CASE objects = {}
  BY <1>1, <1>3, <1>4
<1>5. CASE objects # {}
  <2>1. \E i \in objects : \A k \in objects : i <= k
    BY <1>2, <1>5, LeastNat
  <2>2. (CHOOSE i \in objects : \A k \in objects : i <= k) \in objects
    BY <2>1
  <2>3. QED BY <1>1, <1>2, <1>3, <2>2
<1>6. QED BY <1>4, <1>5

LEMMA OriginIs ==
  ASSUME NEW w, WorldOK(w)
  PROVE  /\ Origin(w) \in Opts /\ Origin(w).depth = 0 /\ Origin(w).words = <<>>
         /\ Origin(w).cont = FALSE /\ Origin(w).print = FALSE
<1> DEFINE start == [Defaults EXCEPT !.yolo = Truthy(w.env.yolo), !.lean = Truthy(w.env.lean)]
<1>1. Truthy(w.env.yolo) \in BOOLEAN /\ Truthy(w.env.lean) \in BOOLEAN
  BY DEF Truthy
<1>2. start \in Opts
  BY <1>1, DefaultsIs DEF Opts
<1>3. start.depth = 0 /\ start.words = <<>> /\ start.cont = FALSE /\ start.print = FALSE
  BY DEF Defaults
<1> HIDE DEF start
<1>4. Origin(w) = FromConfig(start, Conf(w))
  BY DEF Origin, start
<1>5. FromConfig(start, Conf(w)) \in Opts
  BY <1>2, ConfIs, FromConfigIs
<1>6. \A k \in {"print", "cont", "depth", "words"} : FromConfig(start, Conf(w))[k] = start[k]
  BY <1>2, FromConfigFields
<1>7. QED BY <1>3, <1>4, <1>5, <1>6

LEMMA WithTaskIs ==
  ASSUME NEW o0 \in Opts, NEW o \in Opts, NEW argv, NEW n \in Nat, Follows(o0, o, argv, n),
         NEW stdin, stdin.piped \in Seq(Texts), Runs(WithTask(o, stdin))
  PROVE  WithTask(o, stdin) \in Opts /\ Follows(o0, WithTask(o, stdin), argv, n)
<1>1. o.words \o stdin.piped \in Seq(Texts)
  BY DEF Opts
<1> DEFINE x == [o EXCEPT !.words = @ \o stdin.piped]
<1>2. x \in Opts
  BY <1>1 DEF Opts
<1>3. Follows(o0, x, argv, n)
  BY DEF Follows, Opts
<1>4. WithTask(o, stdin) \in {o, x, Exit(2)}
  BY DEF WithTask
<1>5. WithTask(o, stdin) \in {o, x}
  BY <1>4, OptsRun
<1>6. QED BY <1>2, <1>3, <1>5

LEMMA SetupIs ==
  ASSUME NEW o0 \in Opts, NEW o \in Opts, NEW argv, NEW n \in Nat, Follows(o0, o, argv, n),
         NEW stdin, NEW answers,
         answers = <<>> \/ answers \in [model : Texts, sandbox : Texts, lean : BOOLEAN]
  PROVE  Setup(o, stdin, answers) \in Opts /\ Follows(o0, Setup(o, stdin, answers), argv, n)
<1>1. CASE o.model # NoModel \/ o.words # <<>> \/ ~stdin.tty \/ answers = <<>>
  BY <1>1 DEF Setup
<1>2. CASE ~(o.model # NoModel \/ o.words # <<>> \/ ~stdin.tty \/ answers = <<>>)
  <2> DEFINE x == [o EXCEPT !.model = answers.model, !.sandbox = answers.sandbox,
                            !.lean = answers.lean]
  <2>1. answers.model \in Texts /\ answers.sandbox \in Texts /\ answers.lean \in BOOLEAN
    BY <1>2
  <2>2. NoModel \notin Texts
    BY LaunchAssumption
  <2>3. x \in Opts
    BY <2>1 DEF Opts
  <2>4. Follows(o0, x, argv, n)
    BY <2>1, <2>2 DEF Follows, Opts
  <2>5. Setup(o, stdin, answers) = x
    BY <1>2 DEF Setup
  <2>6. QED BY <2>3, <2>4, <2>5
<1>3. QED BY <1>1, <1>2

(* ... and when the budgets have been set.                                 *)
Settled(o0, o, argv, n) ==
  /\ o.permission = o0.permission /\ o.small_model = o0.small_model
  /\ o.model = o0.model \/ o.model # NoModel
  /\ o0.pinned \subseteq o.pinned
  /\ "ctx" \notin o.pinned => o.ctx = IF Networked(o.model) THEN 131072 ELSE o0.ctx
  /\ "max_iters" \notin o.pinned => o.max_iters = IF Networked(o.model) THEN 32 ELSE o0.max_iters
  /\ Given(argv, "--ctx", n) \/ "ctx" \notin o.pinned \/ ("ctx" \in o0.pinned /\ o.ctx = o0.ctx)
  /\ o.depth \in Nat /\ o.depth + 1 \in Counts

LEMMA BudgetsIs ==
  ASSUME NEW o0 \in Opts, NEW o \in Opts, NEW argv, NEW n \in Nat, Follows(o0, o, argv, n)
  PROVE  Budgets(o) \in Opts /\ Settled(o0, Budgets(o), argv, n)
<1>1. 32 \in Counts /\ 131072 \in Counts
  BY LaunchAssumption
<1> DEFINE x == Budgets(o)
           cx == IF Networked(o.model) /\ "ctx" \notin o.pinned THEN 131072 ELSE o.ctx
           im == IF Networked(o.model) /\ "max_iters" \notin o.pinned THEN 32 ELSE o.max_iters
<1>2. x = [o EXCEPT !.ctx = cx, !.max_iters = im]
  BY DEF Budgets, Opts
<1>3. cx \in Counts /\ im \in Counts
  BY <1>1 DEF Opts
<1>4. x \in Opts
  <2> HIDE DEF cx, im, x
  <2>1. QED BY <1>2, <1>3 DEF Opts
<1>5. /\ x.permission = o.permission /\ x.small_model = o.small_model /\ x.model = o.model
      /\ x.pinned = o.pinned /\ x.ctx = cx /\ x.max_iters = im /\ x.depth = o.depth
  <2> HIDE DEF cx, im, x
  <2>1. QED BY <1>2 DEF Opts
<1>6. Settled(o0, x, argv, n)
  <2> HIDE DEF x
  <2>1. QED BY <1>5 DEF Follows, Settled
<1>7. QED BY <1>4, <1>6

LEMMA SameSettled ==
  ASSUME NEW o0, NEW o, NEW x, NEW argv, NEW n, Settled(o0, o, argv, n),
         x.permission = o.permission, x.small_model = o.small_model, x.model = o.model,
         x.pinned = o.pinned, x.ctx = o.ctx, x.max_iters = o.max_iters, x.depth = o.depth
  PROVE  Settled(o0, x, argv, n)
<1>1. "ctx" \notin x.pinned => x.ctx = IF Networked(x.model) THEN 131072 ELSE o0.ctx
  BY SMT DEF Settled
<1>2. "max_iters" \notin x.pinned => x.max_iters = IF Networked(x.model) THEN 32 ELSE o0.max_iters
  BY SMT DEF Settled
<1>3. \/ Given(argv, "--ctx", n) \/ "ctx" \notin x.pinned
      \/ "ctx" \in o0.pinned /\ x.ctx = o0.ctx
  BY SMT DEF Settled
<1>4. /\ x.permission = o0.permission /\ x.small_model = o0.small_model
      /\ x.model = o0.model \/ x.model # NoModel
      /\ o0.pinned \subseteq x.pinned /\ x.depth \in Nat /\ x.depth + 1 \in Counts
  BY SMT DEF Settled
<1>5. QED BY <1>1, <1>2, <1>3, <1>4, SMT DEF Settled

LEMMA FolderIs ==
  ASSUME NEW o0 \in Opts, NEW o \in Opts, NEW argv, NEW n \in Nat, Settled(o0, o, argv, n),
         NEW fresh, NEW newest, fresh \in Texts \ {"auto"}, newest \in (Texts \ {"auto"}) \cup {""}
  PROVE  /\ Folder(o, fresh, newest) \in Opts /\ Settled(o0, Folder(o, fresh, newest), argv, n)
         /\ Folder(o, fresh, newest).sandbox \in Texts \ {"auto"}
<1> DEFINE s == IF o.sandbox # "auto" THEN o.sandbox
                ELSE IF o.cont /\ newest # "" THEN newest ELSE fresh
           x == Folder(o, fresh, newest)
<1>1. x = [o EXCEPT !.sandbox = s]
  BY DEF Folder, Opts
<1>2. s \in Texts /\ s # "auto"
  BY DEF Opts
<1>3. x \in Opts /\ x.sandbox \in Texts \ {"auto"}
  <2> HIDE DEF s, x
  <2>1. QED BY <1>1, <1>2 DEF Opts
<1>4. /\ x.permission = o.permission /\ x.small_model = o.small_model /\ x.model = o.model
      /\ x.pinned = o.pinned /\ x.ctx = o.ctx /\ x.max_iters = o.max_iters /\ x.depth = o.depth
  <2> HIDE DEF s, x
  <2>1. QED BY <1>1 DEF Opts
<1>5. Settled(o0, x, argv, n)
  <2> HIDE DEF s, x
  <2>1. QED BY <1>4, SameSettled
<1>6. QED BY <1>3, <1>4, <1>5

LEMMA MainIs ==
  ASSUME NEW w, WorldOK(w), Runs(Main(w))
  PROVE  \E o \in Opts :
           /\ Settled(Origin(w), o, w.argv, Len(w.argv)) /\ o.sandbox \in Texts \ {"auto"}
           /\ Main(w) = Process(o, w.stdin, Credentials(Conf(w), w.env),
                                LoadProjectContext(w, o.sandbox, Conf(w)))
<1> DEFINE o0 == Origin(w)
           n == Len(w.argv)
           parsed == FromArgs(o0, w.argv)
           tasked == IF Runs(parsed) THEN WithTask(parsed, w.stdin) ELSE parsed
           setup == Setup(tasked, w.stdin, w.answers)
           asked == IF Runs(tasked) THEN Budgets(setup) ELSE tasked
           o == Folder(asked, w.fresh, w.newest)
<1>1. Main(w) = IF ~Runs(asked) THEN asked
                ELSE IF asked.model \notin w.loadable THEN Exit(1)
                ELSE Process(o, w.stdin, Credentials(Conf(w), w.env),
                             LoadProjectContext(w, o.sandbox, Conf(w)))
  BY DEF Main, Conf, Origin
<1>2. /\ w.stdin.piped \in Seq(Texts)
      /\ w.answers = <<>> \/ w.answers \in [model : Texts, sandbox : Texts, lean : BOOLEAN]
      /\ w.fresh \in Texts \ {"auto"} /\ w.newest \in (Texts \ {"auto"}) \cup {""}
      /\ ArgvOK(w.argv) /\ n \in Nat
  <2>1. ArgvOK(w.argv)
    BY Zenon DEF WorldOK
  <2>2. n \in Nat
    BY <2>1 DEF ArgvOK
  <2>3. w.fresh \in Texts \ {"auto"} /\ w.newest \in (Texts \ {"auto"}) \cup {""}
    BY Zenon DEF WorldOK
  <2>4. /\ w.stdin.piped \in Seq(Texts)
        /\ w.answers = <<>> \/ w.answers \in [model : Texts, sandbox : Texts, lean : BOOLEAN]
    BY Zenon DEF WorldOK
  <2>5. QED BY <2>1, <2>2, <2>3, <2>4
<1>3. o0 \in Opts /\ o0.depth = 0
  BY OriginIs
<1> HIDE DEF o0, n
<1>4. Runs(asked)
  <2> HIDE DEF asked
  <2>1. QED BY <1>1
<1>5. Runs(tasked)
  <2> HIDE DEF tasked
  <2>1. QED BY <1>4
<1>6. Runs(parsed)
  <2> HIDE DEF parsed
  <2>1. QED BY <1>5
<1>7. parsed \in Opts /\ Follows(o0, parsed, w.argv, n)
  BY <1>2, <1>3, <1>6, FromArgsFollows, OptsRun DEF n
<1>8. tasked \in Opts /\ Follows(o0, tasked, w.argv, n)
  <2>1. tasked = WithTask(parsed, w.stdin)
    BY <1>6
  <2> HIDE DEF tasked, parsed
  <2>2. QED BY <1>2, <1>3, <1>5, <1>7, <2>1, WithTaskIs
<1>9. setup \in Opts /\ Follows(o0, setup, w.argv, n)
  <2> HIDE DEF tasked
  <2>1. QED BY <1>2, <1>3, <1>8, SetupIs
<1>10. asked \in Opts /\ Settled(o0, asked, w.argv, n)
  <2>1. asked = Budgets(setup)
    BY <1>5
  <2> HIDE DEF asked, setup
  <2>2. QED BY <1>2, <1>3, <1>9, <2>1, BudgetsIs
<1>11. o \in Opts /\ Settled(o0, o, w.argv, n) /\ o.sandbox \in Texts \ {"auto"}
  <2> HIDE DEF asked
  <2>1. w.fresh \in Texts \ {"auto"} /\ w.newest \in (Texts \ {"auto"}) \cup {""} /\ n \in Nat
    BY <1>2
  <2> DEFINE x == Folder(asked, w.fresh, w.newest)
  <2> HIDE DEF o
  <2>2. Settled(o0, asked, w.argv, n) /\ asked \in Opts
    BY <1>10
  <2>3. x \in Opts
    BY <1>3, <2>1, <2>2, FolderIs, Zenon
  <2>4. Settled(o0, x, w.argv, n)
    BY <1>3, <2>1, <2>2, FolderIs, Zenon
  <2>5. x.sandbox \in Texts \ {"auto"}
    BY <1>3, <2>1, <2>2, FolderIs, Zenon
  <2>6. o = x
    BY DEF o
  <2> HIDE DEF x
  <2>7. QED BY <2>3, <2>4, <2>5, <2>6, Zenon
<1>12. Main(w) = Process(o, w.stdin, Credentials(Conf(w), w.env),
                         LoadProjectContext(w, o.sandbox, Conf(w)))
  <2> HIDE DEF asked, o
  <2>1. QED BY <1>1, <1>4, OptsRun
<1> HIDE DEF o
<1>13. QED BY <1>11, <1>12 DEF o0, n

ChildModel(p) == IF p.opt.small_model # NoModel THEN p.opt.small_model ELSE p.model

(* A process that may start children.                                      *)
ParentOK(p) ==
  /\ p.opt \in Opts /\ p.opt.depth + 1 \in Counts /\ p.ctx \in Counts
  /\ p.sandbox \in Texts /\ p.model \in Texts \cup {NoModel}

LEMMA ChildWords ==
  ASSUME NEW p, ParentOK(p)
  PROVE  /\ ChildArgv(p) \in Seq(Texts)
         /\ Len(ChildArgv(p)) = IF ChildModel(p) = NoModel THEN 7 ELSE 9
         /\ ChildArgv(p)[1] = "-p"
         /\ ChildArgv(p)[2] = "--depth" /\ ChildArgv(p)[3] = Word(p.opt.depth + 1)
         /\ ChildArgv(p)[4] = "--sandbox" /\ ChildArgv(p)[5] = p.sandbox
         /\ ChildArgv(p)[6] = "--ctx" /\ ChildArgv(p)[7] = Word(p.ctx)
         /\ ChildModel(p) # NoModel => ChildArgv(p)[8] = "--model" /\ ChildArgv(p)[9] = ChildModel(p)
<1>1. ChildModel(p) \in Texts \cup {NoModel}
  BY DEF ParentOK, Opts, ChildModel
<1>2. PICK d : d = Word(p.opt.depth + 1)
  OBVIOUS
<1>3. PICK c : c = Word(p.ctx)
  OBVIOUS
<1>4. PICK m : m = ChildModel(p)
  OBVIOUS
<1>5. PICK s : s = p.sandbox
  OBVIOUS
<1>6. /\ d \in Texts /\ c \in Texts /\ s \in Texts /\ m \in Texts \cup {NoModel}
  <2>1. p.opt.depth + 1 \in Counts /\ p.ctx \in Counts
    BY DEF ParentOK
  <2>2. \A n \in Counts : Word(n) \in Texts
    BY LaunchAssumption
  <2>3. d \in Texts /\ c \in Texts
    BY <1>2, <1>3, <2>1, <2>2, Zenon
  <2>4. QED BY <1>1, <1>4, <1>5, <2>3 DEF ParentOK
<1>7. {"-p", "--depth", "--sandbox", "--ctx", "--model"} \subseteq Texts
  BY LaunchAssumption DEF Valued, Switches
<1> DEFINE front == <<"-p", "--depth", d, "--sandbox", s, "--ctx", c>>
           back == IF m = NoModel THEN <<>> ELSE <<"--model", m>>
<1>8. ChildArgv(p) = front \o back
  BY <1>2, <1>3, <1>4, <1>5, Zenon DEF ChildArgv, ChildModel
<1>9. front \in Seq(Texts) /\ Len(front) = 7
  BY <1>6, <1>7
<1>10. back \in Seq(Texts) /\ Len(back) = IF m = NoModel THEN 0 ELSE 2
  BY <1>6, <1>7
<1>14. /\ front[1] = "-p" /\ front[2] = "--depth" /\ front[3] = d /\ front[4] = "--sandbox"
       /\ front[5] = s /\ front[6] = "--ctx" /\ front[7] = c
  OBVIOUS
<1>15. m # NoModel => back[1] = "--model" /\ back[2] = m
  OBVIOUS
<1> HIDE DEF front, back
<1>11. PICK whole : whole = front \o back
  OBVIOUS
<1>12. /\ whole \in Seq(Texts)
       /\ Len(whole) = IF m = NoModel THEN 7 ELSE 9
       /\ \A i \in 1 .. Len(whole) : whole[i] = IF i <= 7 THEN front[i] ELSE back[i - 7]
  <2>1. /\ front \o back \in Seq(Texts)
        /\ Len(front \o back) = Len(front) + Len(back)
        /\ \A i \in 1 .. Len(front) + Len(back) :
             (front \o back)[i] = IF i <= Len(front) THEN front[i] ELSE back[i - Len(front)]
    BY <1>9, <1>10, ConcatProperties
  <2>2. whole \in Seq(Texts) /\ Len(whole) = 7 + Len(back)
    BY <1>9, <1>11, <2>1
  <2>3. \A i \in 1 .. Len(whole) : whole[i] = IF i <= 7 THEN front[i] ELSE back[i - 7]
    BY <1>9, <1>11, <2>1, <2>2
  <2>4. CASE m = NoModel
    BY <1>10, <2>2, <2>3, <2>4
  <2>5. CASE m # NoModel
    BY <1>10, <2>2, <2>3, <2>5
  <2>6. QED BY <2>4, <2>5, Zenon
<1>13. /\ \A i \in 1 .. 7 : whole[i] = front[i]
       /\ m # NoModel => whole[8] = back[1] /\ whole[9] = back[2]
  BY <1>12
<1>16. /\ whole[1] = "-p" /\ whole[2] = "--depth" /\ whole[3] = d /\ whole[4] = "--sandbox"
       /\ whole[5] = s /\ whole[6] = "--ctx" /\ whole[7] = c
       /\ m # NoModel => whole[8] = "--model" /\ whole[9] = m
  BY <1>13, <1>14, <1>15
<1>17. ChildArgv(p) = whole
  BY <1>8, <1>11
<1>18. QED BY <1>2, <1>3, <1>4, <1>5, <1>12, <1>16, <1>17, Zenon

LEMMA ReadSwitch ==
  ASSUME NEW x \in Opts, NEW a \in Switches, NEW r0, r0 = [o |-> x, wait |-> ""],
         NEW r1, r1 = ReadArg(r0, a)
  PROVE  r1 = [o |-> Switch(x, a), wait |-> ""]
<1>1. r0.o = x /\ r0.wait = "" /\ a \notin Valued /\ Runs(r0.o)
  BY OptsRun DEF Valued, Switches
<1>2. QED BY <1>1 DEF ReadArg

LEMMA ReadValue ==
  ASSUME NEW x \in Opts, NEW a \in Valued, NEW v, NEW r0, r0 = [o |-> x, wait |-> ""],
         NEW r1, r1 = ReadArg(r0, a), NEW r2, r2 = ReadArg(r1, v)
  PROVE  r2 = [o |-> Option(x, a, v), wait |-> ""]
<1>1. r0.o = x /\ r0.wait = "" /\ Runs(r0.o) /\ Runs(x)
  BY OptsRun
<1>2. r1 = [o |-> x, wait |-> a]
  BY <1>1 DEF ReadArg
<1>3. r1.o = x /\ r1.wait = a /\ a # ""
  <2>1. r1.o = x /\ r1.wait = a
    BY <1>2, PairIs, Zenon
  <2>2. QED BY <2>1 DEF Valued
<1>4. Runs(r1.o)
  BY <1>1, <1>3
<1>5. r2 = [o |-> Option(r1.o, r1.wait, v), wait |-> ""]
  BY <1>3, <1>4 DEF ReadArg
<1>6. QED BY <1>3, <1>5, Zenon

LEMMA ReadBoth ==
  ASSUME NEW x \in Opts, NEW a \in Valued, NEW v
  PROVE  ReadArg(ReadArg([o |-> x, wait |-> ""], a), v) = [o |-> Option(x, a, v), wait |-> ""]
<1>1. PICK r0 : r0 = [o |-> x, wait |-> ""]
  OBVIOUS
<1>2. PICK r1 : r1 = ReadArg(r0, a)
  OBVIOUS
<1>3. PICK r2 : r2 = ReadArg(r1, v)
  OBVIOUS
<1>4. r2 = [o |-> Option(x, a, v), wait |-> ""]
  BY <1>1, <1>2, <1>3, ReadValue
<1>5. QED BY <1>1, <1>2, <1>3, <1>4, Zenon

(* What the child makes of its command line.                               *)
Told(o0, x, p) ==
  /\ x.print /\ x.depth = p.opt.depth + 1 /\ x.sandbox = p.sandbox
  /\ x.ctx = p.ctx /\ "ctx" \in x.pinned
  /\ x.model = IF ChildModel(p) = NoModel THEN o0.model ELSE ChildModel(p)
  /\ x.permission = o0.permission /\ x.words = o0.words

LEMMA ChildReads ==
  ASSUME NEW p, ParentOK(p), NEW o0 \in Opts
  PROVE  FromArgs(o0, ChildArgv(p)) \in Opts /\ Told(o0, FromArgs(o0, ChildArgv(p)), p)
<1> DEFINE argv == ChildArgv(p)
<1>1. PICK argv1 : argv1 = argv
  OBVIOUS
<1>2. /\ argv1 \in Seq(Texts) /\ Len(argv1) = IF ChildModel(p) = NoModel THEN 7 ELSE 9
  BY <1>1, ChildWords
<1>3. PICK f \in [0 .. Len(argv1) -> Readings] :
               /\ f[0] = [o |-> o0, wait |-> ""]
               /\ \A n \in 1 .. Len(argv1) : f[n] = ReadArg(f[n - 1], argv1[n])
               /\ FromArgs(o0, argv1) = IF f[Len(argv1)].wait = "" THEN f[Len(argv1)].o
                                        ELSE AsTask(f[Len(argv1)].o, f[Len(argv1)].wait)
  BY <1>2, FromArgsIs
<1> DEFINE d == Word(p.opt.depth + 1)
           c == Word(p.ctx)
           m == ChildModel(p)
           x1 == Switch(o0, "-p")
           x2 == Option(x1, "--depth", d)
           x3 == Option(x2, "--sandbox", p.sandbox)
           x4 == Option(x3, "--ctx", c)
           x5 == Option(x4, "--model", m)
<1>4. d \in Texts /\ c \in Texts /\ p.sandbox \in Texts /\ m \in Texts \cup {NoModel}
      /\ Atoi(d) = p.opt.depth + 1 /\ Atoi(c) = p.ctx
  <2>1. p.opt.depth + 1 \in Counts /\ p.ctx \in Counts /\ p.sandbox \in Texts
    BY DEF ParentOK
  <2>2. \A n \in Counts : Word(n) \in Texts /\ Atoi(Word(n)) = n
    BY LaunchAssumption
  <2>3. m \in Texts \cup {NoModel}
    BY DEF ParentOK, Opts, ChildModel
  <2>4. QED BY <2>1, <2>2, <2>3
<1>5. /\ argv1[1] = "-p" /\ argv1[2] = "--depth" /\ argv1[3] = d /\ argv1[4] = "--sandbox"
      /\ argv1[5] = p.sandbox /\ argv1[6] = "--ctx" /\ argv1[7] = c
      /\ m # NoModel => argv1[8] = "--model" /\ argv1[9] = m
  BY <1>1, ChildWords, Zenon
<1> HIDE DEF d, c, m, argv
<1>6. /\ f[1] = ReadArg(f[0], "-p")
      /\ f[2] = ReadArg(f[1], "--depth") /\ f[3] = ReadArg(f[2], d)
      /\ f[4] = ReadArg(f[3], "--sandbox") /\ f[5] = ReadArg(f[4], p.sandbox)
      /\ f[6] = ReadArg(f[5], "--ctx") /\ f[7] = ReadArg(f[6], c)
  <2>0. \A n \in 1 .. 7 : n \in 1 .. Len(argv1)
    BY <1>2
  <2>1. \A n \in 1 .. 7 : f[n] = ReadArg(f[n - 1], argv1[n])
    BY <1>3, <2>0, Zenon
  <2>2. /\ f[1] = ReadArg(f[0], argv1[1])
        /\ f[2] = ReadArg(f[1], argv1[2]) /\ f[3] = ReadArg(f[2], argv1[3])
        /\ f[4] = ReadArg(f[3], argv1[4]) /\ f[5] = ReadArg(f[4], argv1[5])
        /\ f[6] = ReadArg(f[5], argv1[6]) /\ f[7] = ReadArg(f[6], argv1[7])
    BY <2>1
  <2>3. QED BY <1>5, <2>2, Zenon
<1>7. m # NoModel => f[8] = ReadArg(f[7], "--model") /\ f[9] = ReadArg(f[8], m)
  <2> SUFFICES ASSUME m # NoModel PROVE f[8] = ReadArg(f[7], "--model") /\ f[9] = ReadArg(f[8], m)
    OBVIOUS
  <2>1. \A n \in 1 .. 9 : f[n] = ReadArg(f[n - 1], argv1[n])
    BY <1>2, <1>3 DEF m
  <2>2. f[8] = ReadArg(f[7], argv1[8]) /\ f[9] = ReadArg(f[8], argv1[9])
    BY <2>1
  <2>3. QED BY <1>5, <2>2, Zenon
<1>8. {"--depth", "--sandbox", "--ctx", "--model"} \subseteq Valued /\ "-p" \in Switches
  BY DEF Valued, Switches
<1>9. x1 \in Opts /\ x2 \in Opts /\ x3 \in Opts /\ x4 \in Opts
  <2>1. x1 \in Opts
    BY <1>8, SwitchIs
  <2>2. x2 \in Opts
    BY <1>4, <1>8, <2>1, OptionIs
  <2>3. x3 \in Opts
    BY <1>4, <1>8, <2>2, OptionIs
  <2>4. x4 \in Opts
    BY <1>4, <1>8, <2>3, OptionIs
  <2>5. QED BY <2>1, <2>2, <2>3, <2>4
<1>10. m # NoModel => x5 \in Opts
  <2> HIDE DEF x4
  <2>1. m # NoModel => m \in Texts
    BY <1>4
  <2>2. QED BY <1>8, <1>9, <2>1, OptionIs
<1>11. /\ x1.print /\ x1.permission = o0.permission /\ x1.words = o0.words /\ x1.model = o0.model
  BY DEF Switch, Opts
<1>12. /\ x2.depth = p.opt.depth + 1
       /\ x2.print = x1.print /\ x2.permission = x1.permission /\ x2.words = x1.words
       /\ x2.model = x1.model
  <2> HIDE DEF x1
  <2>1. QED BY <1>4, <1>9 DEF Option, Opts
<1>13. /\ x3.sandbox = p.sandbox
       /\ x3.depth = x2.depth /\ x3.print = x2.print /\ x3.permission = x2.permission
       /\ x3.words = x2.words /\ x3.model = x2.model
  <2> HIDE DEF x2
  <2>1. QED BY <1>9 DEF Option, Opts
<1>14. /\ x4.ctx = p.ctx /\ "ctx" \in x4.pinned
       /\ x4.sandbox = x3.sandbox
       /\ x4.depth = x3.depth /\ x4.print = x3.print /\ x4.permission = x3.permission
       /\ x4.words = x3.words /\ x4.model = x3.model
  <2> HIDE DEF x3
  <2>1. QED BY <1>4, <1>9 DEF Option, Opts
<1>15. /\ x5.model = m
       /\ x5.ctx = x4.ctx /\ x5.pinned = x4.pinned /\ x5.sandbox = x4.sandbox
       /\ x5.depth = x4.depth /\ x5.print = x4.print /\ x5.permission = x4.permission
       /\ x5.words = x4.words
  <2> HIDE DEF x4
  <2>1. QED BY <1>9 DEF Option, Opts
<1> HIDE DEF x1, x2, x3, x4, x5
<1>16. f[7] = [o |-> x4, wait |-> ""]
  <2>1. f[1] = [o |-> x1, wait |-> ""]
    BY <1>3, <1>6, <1>8, ReadSwitch, Zenon DEF x1
  <2>2. f[3] = [o |-> x2, wait |-> ""]
    <3>1. "--depth" \in Valued /\ x1 \in Opts
      BY <1>8, <1>9
    <3>2. f[2] = ReadArg(f[1], "--depth") /\ f[3] = ReadArg(f[2], d)
      BY <1>6
    <3>3. ReadArg(ReadArg([o |-> x1, wait |-> ""], "--depth"), d)
            = [o |-> Option(x1, "--depth", d), wait |-> ""]
      BY <3>1, ReadBoth
    <3>4. QED BY <2>1, <3>2, <3>3, Zenon DEF x2
  <2>3. f[5] = [o |-> x3, wait |-> ""]
    <3>1. "--sandbox" \in Valued /\ x2 \in Opts
      BY <1>8, <1>9
    <3>2. f[4] = ReadArg(f[3], "--sandbox") /\ f[5] = ReadArg(f[4], p.sandbox)
      BY <1>6
    <3>3. ReadArg(ReadArg([o |-> x2, wait |-> ""], "--sandbox"), p.sandbox)
            = [o |-> Option(x2, "--sandbox", p.sandbox), wait |-> ""]
      BY <3>1, ReadBoth
    <3>4. QED BY <2>2, <3>2, <3>3, Zenon DEF x3
  <2>4. QED
    <3>1. "--ctx" \in Valued /\ x3 \in Opts
      BY <1>8, <1>9
    <3>2. f[6] = ReadArg(f[5], "--ctx") /\ f[7] = ReadArg(f[6], c)
      BY <1>6
    <3>3. ReadArg(ReadArg([o |-> x3, wait |-> ""], "--ctx"), c)
            = [o |-> Option(x3, "--ctx", c), wait |-> ""]
      BY <3>1, ReadBoth
    <3>4. QED BY <2>3, <3>2, <3>3, Zenon DEF x4
<1>17. m # NoModel => f[9] = [o |-> x5, wait |-> ""]
  <2> SUFFICES ASSUME m # NoModel PROVE f[9] = [o |-> x5, wait |-> ""]
    OBVIOUS
  <2>1. QED
    <3>1. "--model" \in Valued /\ x4 \in Opts
      BY <1>8, <1>9
    <3>2. f[8] = ReadArg(f[7], "--model") /\ f[9] = ReadArg(f[8], m)
      BY <1>7
    <3>3. ReadArg(ReadArg([o |-> x4, wait |-> ""], "--model"), m)
            = [o |-> Option(x4, "--model", m), wait |-> ""]
      BY <3>1, ReadBoth
    <3>4. QED BY <1>16, <3>2, <3>3, Zenon DEF x5
<1>18. FromArgs(o0, argv1) = IF m = NoModel THEN x4 ELSE x5
  <2>1. CASE m = NoModel
    <3>1. Len(argv1) = 7
      BY <1>2, <2>1 DEF m
    <3>2. f[7].o = x4 /\ f[7].wait = ""
      <4>1. PICK e : e = f[7]
        OBVIOUS
      <4>2. e = [o |-> x4, wait |-> ""]
        BY <4>1, <1>16, <1>17, <2>1, Zenon
      <4>3. e.o = x4 /\ e.wait = ""
        BY <4>2
      <4>4. QED BY <4>1, <4>3, Zenon
    <3>3. FromArgs(o0, argv1) = f[7].o
      BY <1>3, <3>1, <3>2, Zenon
    <3>4. QED BY <2>1, <3>2, <3>3, Zenon
  <2>2. CASE m # NoModel
    <3>1. Len(argv1) = 9
      BY <1>2, <2>2 DEF m
    <3>2. f[9].o = x5 /\ f[9].wait = ""
      <4>1. PICK e : e = f[9]
        OBVIOUS
      <4>2. e = [o |-> x5, wait |-> ""]
        BY <4>1, <1>16, <1>17, <2>2, Zenon
      <4>3. e.o = x5 /\ e.wait = ""
        BY <4>2
      <4>4. QED BY <4>1, <4>3, Zenon
    <3>3. FromArgs(o0, argv1) = f[9].o
      BY <1>3, <3>1, <3>2, Zenon
    <3>4. QED BY <2>2, <3>2, <3>3, Zenon
  <2>3. QED BY <2>1, <2>2
<1>19. CASE m = NoModel
  <2>1. FromArgs(o0, argv) = x4
    BY <1>1, <1>18, <1>19
  <2>2. Told(o0, x4, p)
    BY <1>11, <1>12, <1>13, <1>14, <1>19 DEF Told, m
  <2>3. QED BY <1>9, <2>1, <2>2, Zenon DEF argv
<1>20. CASE m # NoModel
  <2>1. FromArgs(o0, argv) = x5
    BY <1>1, <1>18, <1>20
  <2>2. Told(o0, x5, p)
    BY <1>11, <1>12, <1>13, <1>14, <1>15, <1>20 DEF Told, m
  <2>3. QED BY <1>10, <1>20, <2>1, <2>2, Zenon DEF argv
<1>21. QED BY <1>19, <1>20

(* The world agent_run_parallel makes for a child.                         *)
ChildWorld(w, p, task) ==
  [w EXCEPT !.argv = ChildArgv(p), !.stdin = [tty |-> FALSE, piped |-> <<task>>],
            !.env = [@ EXCEPT !.api_key = p.cred.api_key, !.api_url = p.cred.api_url,
                              !.remote_key = p.cred.remote_key]]

IsChildWorld(v, w, p, task) ==
  /\ v.argv = ChildArgv(p) /\ v.stdin = [tty |-> FALSE, piped |-> <<task>>]
  /\ v.files = w.files /\ v.answers = w.answers /\ v.loadable = w.loadable
  /\ v.fresh = w.fresh /\ v.newest = w.newest /\ v.rules = w.rules
  /\ v.global = w.global /\ v.readable = w.readable
  /\ v.env.hermetic = w.env.hermetic /\ v.env.yolo = w.env.yolo /\ v.env.lean = w.env.lean
  /\ v.env.api_key = p.cred.api_key /\ v.env.api_url = p.cred.api_url
  /\ v.env.remote_key = p.cred.remote_key

LEMMA ChildWorldIs ==
  ASSUME NEW w, WorldOK(w), NEW p, NEW task
  PROVE  IsChildWorld(ChildWorld(w, p, task), w, p, task)
<1> DEFINE env == [w.env EXCEPT !.api_key = p.cred.api_key, !.api_url = p.cred.api_url,
                                !.remote_key = p.cred.remote_key]
           stdin == [tty |-> FALSE, piped |-> <<task>>]
           v == ChildWorld(w, p, task)
<1>1. /\ DOMAIN w = {"files", "env", "argv", "stdin", "answers", "loadable", "fresh", "newest",
                     "rules", "global", "readable"}
      /\ DOMAIN w.env = {"hermetic", "yolo", "lean", "api_key", "api_url", "remote_key"}
  BY DEF WorldOK
<1>2. v = [w EXCEPT !.argv = ChildArgv(p), !.stdin = stdin, !.env = env]
  BY <1>1 DEF ChildWorld
<1>3. /\ env.hermetic = w.env.hermetic /\ env.yolo = w.env.yolo /\ env.lean = w.env.lean
      /\ env.api_key = p.cred.api_key /\ env.api_url = p.cred.api_url
      /\ env.remote_key = p.cred.remote_key
  BY <1>1
<1> HIDE DEF env, stdin, v
<1>4. /\ v.argv = ChildArgv(p) /\ v.stdin = stdin /\ v.env = env
      /\ v.files = w.files /\ v.answers = w.answers /\ v.loadable = w.loadable
      /\ v.fresh = w.fresh /\ v.newest = w.newest /\ v.rules = w.rules
      /\ v.global = w.global /\ v.readable = w.readable
  BY <1>1, <1>2
<1>5. IsChildWorld(v, w, p, task)
  BY <1>3, <1>4, Zenon DEF stdin, IsChildWorld
<1>6. QED BY <1>5 DEF v

LEMMA SameConf ==
  ASSUME NEW w, NEW v, NEW p, NEW task, IsChildWorld(v, w, p, task)
  PROVE  Conf(v) = Conf(w) /\ Origin(v) = Origin(w)
<1>1. v.files = w.files /\ v.env.hermetic = w.env.hermetic /\ v.env.yolo = w.env.yolo
      /\ v.env.lean = w.env.lean
  BY DEF IsChildWorld
<1>2. Conf(v) = Conf(w)
  BY <1>1, Zenon DEF Conf
<1>3. QED BY <1>1, <1>2, Zenon DEF Origin

LEMMA SameRules ==
  ASSUME NEW w, NEW v, NEW p, NEW task, IsChildWorld(v, w, p, task), NEW sandbox, NEW conf
  PROVE  LoadProjectContext(v, sandbox, conf) = LoadProjectContext(w, sandbox, conf)
<1>1. /\ v.rules = w.rules /\ v.global = w.global /\ v.readable = w.readable
      /\ v.env.hermetic = w.env.hermetic
  BY DEF IsChildWorld
<1>2. QED BY <1>1, Zenon DEF LoadProjectContext

LEMMA SameCredentials ==
  ASSUME NEW w, NEW v, NEW p, NEW task, IsChildWorld(v, w, p, task),
         p.cred = Credentials(Conf(w), w.env)
  PROVE  Credentials(Conf(w), v.env) = p.cred
<1> DEFINE Keys == {"api_key", "api_url", "remote_key"}
<1>1. PICK env : env = w.env
  OBVIOUS
<1>2. PICK env2 : env2 = v.env
  OBVIOUS
<1>3. PICK conf : conf = Conf(w)
  OBVIOUS
<1>4. PICK cred : cred = p.cred
  OBVIOUS
<1>5. cred = [k \in Keys |-> IF env[k] # "" THEN env[k] ELSE IF k \in DOMAIN conf THEN conf[k] ELSE ""]
  BY <1>1, <1>3, <1>4 DEF Credentials
<1>6. env2["api_key"] = cred["api_key"] /\ env2["api_url"] = cred["api_url"]
      /\ env2["remote_key"] = cred["remote_key"]
  BY <1>2, <1>4 DEF IsChildWorld
<1>7. Credentials(conf, env2)
        = [k \in Keys |-> IF env2[k] # "" THEN env2[k] ELSE IF k \in DOMAIN conf THEN conf[k] ELSE ""]
  BY DEF Credentials
<1>8. \A k \in Keys : (IF env2[k] # "" THEN env2[k] ELSE IF k \in DOMAIN conf THEN conf[k] ELSE "")
                        = cred[k]
  BY <1>5, <1>6
<1>9. Credentials(conf, env2) = cred
  BY <1>5, <1>7, <1>8
<1>10. QED BY <1>2, <1>3, <1>4, <1>9, Zenon

(* ... and what main makes of a child's options after that.                *)
Inherits(o0, z, p, task) ==
  /\ z.words = <<task>> /\ z.print /\ z.depth = p.opt.depth + 1
  /\ z.sandbox = p.sandbox /\ z.ctx = p.ctx
  /\ z.model = IF ChildModel(p) = NoModel THEN o0.model ELSE ChildModel(p)
  /\ z.permission = o0.permission

LEMMA ChildSettles ==
  ASSUME NEW p, ParentOK(p), p.sandbox # "auto", NEW o0 \in Opts, o0.words = <<>>,
         NEW x \in Opts, Told(o0, x, p), NEW task, NEW answers, NEW fresh, NEW newest,
         NEW stdin, stdin = [tty |-> FALSE, piped |-> <<task>>]
  PROVE  /\ Runs(WithTask(x, stdin))
         /\ Runs(Budgets(Setup(WithTask(x, stdin), stdin, answers)))
         /\ Inherits(o0, Folder(Budgets(Setup(WithTask(x, stdin), stdin, answers)), fresh, newest),
                     p, task)
<1>1. stdin.tty = FALSE /\ stdin.piped = <<task>>
  OBVIOUS
<1>2. x.words \o stdin.piped = <<task>> /\ <<task>> # <<>>
  BY <1>1 DEF Told
<1> DEFINE y == [x EXCEPT !.words = <<task>>]
           z1 == Budgets(y)
           z == Folder(z1, fresh, newest)
<1>3. WithTask(x, stdin) = y
  BY <1>1, <1>2 DEF WithTask, Told
<1>4. /\ DOMAIN y = DOMAIN x
      /\ y.words = <<task>> /\ y.print /\ y.depth = p.opt.depth + 1
      /\ y.sandbox = p.sandbox /\ y.ctx = p.ctx /\ "ctx" \in y.pinned
      /\ y.model = (IF ChildModel(p) = NoModel THEN o0.model ELSE ChildModel(p))
      /\ y.permission = o0.permission
  BY DEF Told, Opts
<1>5. Setup(y, stdin, answers) = y
  <2> HIDE DEF y
  <2>1. QED BY <1>2, <1>4 DEF Setup
<1>6. DOMAIN x = {"model", "sandbox", "small_model", "max_iters", "ctx", "pinned", "verify", "plan",
                  "grammar", "yolo", "lean", "print", "cont", "depth", "permission", "words"}
  BY DEF Opts
<1> HIDE DEF y
<1>7. /\ DOMAIN z1 = DOMAIN x
      /\ z1.words = y.words /\ z1.print = y.print /\ z1.depth = y.depth /\ z1.sandbox = y.sandbox
      /\ z1.model = y.model /\ z1.permission = y.permission /\ z1.ctx = y.ctx
  <2> DEFINE cx == IF Networked(y.model) /\ "ctx" \notin y.pinned THEN 131072 ELSE y.ctx
             im == IF Networked(y.model) /\ "max_iters" \notin y.pinned THEN 32 ELSE y.max_iters
  <2>1. z1 = [y EXCEPT !.ctx = cx, !.max_iters = im]
    BY <1>4, <1>6 DEF Budgets
  <2>2. cx = y.ctx
    BY <1>4
  <2> HIDE DEF cx, im, z1
  <2>3. QED BY <1>4, <1>6, <2>1, <2>2
<1> HIDE DEF z1
<1>8. /\ DOMAIN z = DOMAIN x
      /\ z.words = z1.words /\ z.print = z1.print /\ z.depth = z1.depth
      /\ z.sandbox = z1.sandbox
      /\ z.model = z1.model /\ z.permission = z1.permission /\ z.ctx = z1.ctx
  BY <1>4, <1>6, <1>7 DEF Folder
<1>9. Runs(y) /\ Runs(z1)
  BY <1>4, <1>6, <1>7 DEF Runs
<1> HIDE DEF z
<1>10. Inherits(o0, z, p, task)
  BY <1>4, <1>7, <1>8, Zenon DEF Inherits
<1>11. QED BY <1>3, <1>5, <1>9, <1>10, Zenon DEF z1, z

LEMMA PermsOf ==
  ASSUME NEW o, NEW x, o.permission = x.permission
  PROVE  ToolPerm(o) = ToolPerm(x)
BY Zenon DEF ToolPerm

IsProcess(c, o, stdin, cred, rules) ==
  /\ c.opt = o /\ c.rules = rules /\ c.perm = ToolPerm(o) /\ c.cred = cred
  /\ c.model = o.model /\ c.ctx = o.ctx /\ c.max_iters = o.max_iters
  /\ c.sandbox = o.sandbox /\ c.asks = ~o.print /\ c.autosaves = (o.depth = 0)
  /\ c.confirms = (o.words = <<>> /\ stdin.tty /\ ~o.yolo)

LEMMA ProcessIs ==
  ASSUME NEW o, NEW stdin, NEW cred, NEW rules
  PROVE  IsProcess(Process(o, stdin, cred, rules), o, stdin, cred, rules)
BY DEF Process, IsProcess

LEMMA ChildIs ==
  ASSUME NEW w, WorldOK(w), NEW p, ParentOK(p), p.sandbox # "auto", p.opt.depth \in Nat,
         p.model = NoModel => Origin(w).model = NoModel,
         p.opt.permission = Origin(w).permission, p.perm = ToolPerm(p.opt),
         p.cred = Credentials(Conf(w), w.env),
         p.rules = LoadProjectContext(w, p.sandbox, Conf(w))
  PROVE  ChildOf(w, p)
<1> DEFINE v == ChildWorld(w, p, "task")
           o0 == Origin(w)
           x == FromArgs(o0, ChildArgv(p))
           c == Child(w, p, "task")
<1>1. IsChildWorld(v, w, p, "task")
  BY ChildWorldIs
<1>2. Conf(v) = Conf(w) /\ Origin(v) = o0
  BY <1>1, SameConf
<1>3. o0 \in Opts /\ o0.words = <<>>
  BY OriginIs
<1>4. x \in Opts /\ Told(o0, x, p) /\ Runs(x)
  <2> HIDE DEF o0
  <2>1. QED BY <1>3, ChildReads, OptsRun
<1>5. v.argv = ChildArgv(p) /\ v.stdin = [tty |-> FALSE, piped |-> <<"task">>]
  BY <1>1 DEF IsChildWorld
<1> DEFINE y == WithTask(x, v.stdin)
           z1 == Budgets(Setup(y, v.stdin, v.answers))
           z == Folder(z1, v.fresh, v.newest)
<1>6. Runs(y) /\ Runs(z1) /\ Inherits(o0, z, p, "task")
  <2> HIDE DEF x, v, o0
  <2>1. QED BY <1>3, <1>4, <1>5, ChildSettles
<1>7. c = Main(v)
  BY Zenon DEF Child, ChildWorld
<1>8. c = IF z1.model \notin v.loadable THEN Exit(1)
          ELSE Process(z, v.stdin, Credentials(Conf(w), v.env),
                       LoadProjectContext(v, z.sandbox, Conf(w)))
  <2> DEFINE parsed == FromArgs(Origin(v), v.argv)
             tasked == IF Runs(parsed) THEN WithTask(parsed, v.stdin) ELSE parsed
             asked == IF Runs(tasked) THEN Budgets(Setup(tasked, v.stdin, v.answers)) ELSE tasked
             o == Folder(asked, v.fresh, v.newest)
  <2> HIDE DEF v
  <2>1. Main(v) = IF ~Runs(asked) THEN asked
                  ELSE IF asked.model \notin v.loadable THEN Exit(1)
                  ELSE Process(o, v.stdin, Credentials(Conf(v), v.env),
                               LoadProjectContext(v, o.sandbox, Conf(v)))
    BY DEF Main, Conf, Origin
  <2>2. parsed = x
    BY <1>2, <1>5, Zenon
  <2> HIDE DEF x, parsed, c
  <2>3. tasked = y
    BY <1>4, <2>2, Zenon
  <2> HIDE DEF y, tasked
  <2>4. asked = z1
    BY <1>6, <2>3, Zenon
  <2> HIDE DEF z1, asked
  <2>5. QED BY <1>2, <1>6, <1>7, <2>1, <2>4, Zenon
<1> HIDE DEF v, o0, x, y, z1, z
<1>9. SUFFICES ASSUME Runs(c)
      PROVE  /\ c.sandbox = p.sandbox /\ c.opt.depth = p.opt.depth + 1
             /\ c.perm = p.perm /\ c.cred = p.cred /\ c.rules = p.rules
             /\ c.ctx = p.ctx
             /\ ~c.confirms /\ ~c.asks /\ ~c.autosaves
             /\ c.model = ChildModel(p)
             /\ c.opt.words = <<"task">>
  BY Zenon DEF ChildOf, IsChildOf, ChildModel
<1> HIDE DEF c
<1>10. c = Process(z, v.stdin, Credentials(Conf(w), v.env), LoadProjectContext(v, z.sandbox, Conf(w)))
  BY <1>8, <1>9, OptsRun
<1>11. /\ c.opt = z /\ c.rules = LoadProjectContext(v, z.sandbox, Conf(w)) /\ c.perm = ToolPerm(z)
       /\ c.cred = Credentials(Conf(w), v.env)
       /\ c.model = z.model /\ c.ctx = z.ctx /\ c.sandbox = z.sandbox /\ c.asks = ~z.print
       /\ c.autosaves = (z.depth = 0)
       /\ c.confirms = (z.words = <<>> /\ v.stdin.tty /\ ~z.yolo)
  <2>1. IsProcess(c, z, v.stdin, Credentials(Conf(w), v.env), LoadProjectContext(v, z.sandbox, Conf(w)))
    BY <1>10, ProcessIs, Zenon
  <2>2. QED BY <2>1, Zenon DEF IsProcess
<1>12. /\ z.words = <<"task">> /\ z.print /\ z.depth = p.opt.depth + 1
       /\ z.sandbox = p.sandbox /\ z.ctx = p.ctx
       /\ z.model = (IF ChildModel(p) = NoModel THEN o0.model ELSE ChildModel(p))
       /\ z.permission = o0.permission
  BY <1>6 DEF Inherits
<1>13. c.perm = p.perm
  <2>1. z.permission = p.opt.permission
    BY <1>12 DEF o0
  <2>2. QED BY <1>11, <2>1, PermsOf, Zenon
<1>14. c.cred = p.cred
  BY <1>1, <1>11, SameCredentials, Zenon
<1>15. c.rules = p.rules
  <2>1. LoadProjectContext(v, p.sandbox, Conf(w)) = LoadProjectContext(w, p.sandbox, Conf(w))
    BY <1>1, SameRules
  <2>2. c.rules = LoadProjectContext(v, p.sandbox, Conf(w))
    BY <1>11, <1>12, Zenon
  <2>3. QED BY <2>1, <2>2, Zenon
<1>16. ~c.confirms /\ ~c.asks /\ ~c.autosaves
  <2>1. <<"task">> # <<>>
    OBVIOUS
  <2>2. p.opt.depth + 1 # 0
    OBVIOUS
  <2>3. QED BY <1>11, <1>12, <2>1, <2>2
<1>17. c.model = ChildModel(p)
  <2>1. ChildModel(p) = NoModel => p.model = NoModel
    BY DEF ChildModel
  <2>2. QED BY <1>11, <1>12, <2>1 DEF o0
<1>18. c.sandbox = p.sandbox /\ c.opt.depth = p.opt.depth + 1 /\ c.ctx = p.ctx
       /\ c.opt.words = <<"task">>
  BY <1>11, <1>12, Zenon
<1>19. QED BY <1>13, <1>14, <1>15, <1>16, <1>17, <1>18

LEMMA UserWinsIs ==
  ASSUME NEW w, WorldOK(w), NEW o \in Opts, Settled(Origin(w), o, w.argv, Len(w.argv)),
         NEW p, p.opt = o, p.ctx = o.ctx, p.max_iters = o.max_iters, p.model = o.model,
         p.perm = ToolPerm(o)
  PROVE  UserWins(w, p)
<1> DEFINE conf == Conf(w)
           o0 == Origin(w)
           start == [Defaults EXCEPT !.yolo = Truthy(w.env.yolo), !.lean = Truthy(w.env.lean)]
<1>1. o0 = FromConfig(start, conf)
  BY DEF Origin
<1>2. start \in Opts /\ start.ctx = 4096 /\ start.max_iters = 8
  <2>1. Truthy(w.env.yolo) \in BOOLEAN /\ Truthy(w.env.lean) \in BOOLEAN
    BY DEF Truthy
  <2>2. start \in Opts
    BY <2>1, DefaultsIs DEF Opts
  <2>3. QED BY <2>2 DEF Defaults
<1> HIDE DEF start, conf, o0
<1>3. /\ o0.pinned = DOMAIN conf \cap {"ctx", "max_iters"}
      /\ o0.ctx = IF "ctx" \in DOMAIN conf /\ conf["ctx"] # NotANumber THEN conf["ctx"] ELSE 4096
      /\ o0.max_iters = IF "max_iters" \in DOMAIN conf /\ conf["max_iters"] # NotANumber
                         THEN conf["max_iters"] ELSE 8
      /\ o0.permission = IF "permission" \in DOMAIN conf THEN conf["permission"] ELSE start.permission
  BY <1>1, <1>2, FromConfigFields
<1>4. Settled(o0, o, w.argv, Len(w.argv))
  BY DEF o0
<1> DEFINE given(a) == \E i \in 1 .. Len(w.argv) - 1 : w.argv[i] = a
<1>5. "ctx" \in DOMAIN conf /\ ~given("--ctx") /\ conf["ctx"] # NotANumber => p.ctx = conf["ctx"]
  <2>1. SUFFICES ASSUME "ctx" \in DOMAIN conf, ~given("--ctx"), conf["ctx"] # NotANumber
                 PROVE  p.ctx = conf["ctx"]
    OBVIOUS
  <2>2. ~Given(w.argv, "--ctx", Len(w.argv))
    BY <2>1, Zenon DEF Given
  <2>3. "ctx" \in o0.pinned /\ o0.ctx = conf["ctx"]
    BY <1>3, <2>1
  <2>4. "ctx" \in o.pinned
    BY <1>4, <2>3, SMT DEF Settled
  <2>5. o.ctx = o0.ctx
    BY <1>4, <2>2, <2>4, SMT DEF Settled
  <2>6. QED BY <2>3, <2>5
<1>6. {"ctx", "max_iters"} \cap p.opt.pinned = {} /\ p.model = p.opt.model =>
        (p.ctx = 131072) = Networked(p.model) /\ (p.max_iters = 32) = Networked(p.model)
  <2>1. SUFFICES ASSUME {"ctx", "max_iters"} \cap o.pinned = {}
                 PROVE  (o.ctx = 131072) = Networked(o.model) /\ (o.max_iters = 32) = Networked(o.model)
    OBVIOUS
  <2>2. "ctx" \notin o.pinned /\ "max_iters" \notin o.pinned
    BY <2>1
  <2>3. o0.pinned \subseteq o.pinned
    BY <1>4, SMT DEF Settled
  <2>4. "ctx" \notin DOMAIN conf /\ "max_iters" \notin DOMAIN conf
    BY <1>3, <2>2, <2>3
  <2>5. o0.ctx = 4096 /\ o0.max_iters = 8
    BY <1>3, <2>4
  <2>6. o.ctx = IF Networked(o.model) THEN 131072 ELSE 4096
    BY <1>4, <2>2, <2>5, SMT DEF Settled
  <2>7. o.max_iters = IF Networked(o.model) THEN 32 ELSE 8
    BY <1>4, <2>2, <2>5, SMT DEF Settled
  <2>8. Networked(o.model) \in BOOLEAN
    BY DEF Networked
  <2>9. QED BY <2>6, <2>7, <2>8
<1>7. "permission" \in DOMAIN conf => \A k \in DOMAIN conf["permission"] :
        p.perm[k] = conf["permission"][k]
  <2>1. SUFFICES ASSUME "permission" \in DOMAIN conf, NEW k \in DOMAIN conf["permission"]
                 PROVE  p.perm[k] = conf["permission"][k]
    OBVIOUS
  <2>2. o.permission = conf["permission"]
    BY <1>3, <1>4, <2>1, SMT DEF Settled
  <2>3. k \in Kinds
    <3>1. conf["permission"] \in Perms
      BY <2>1, ConfIs DEF ConfOK, conf
    <3>2. QED BY <2>1, <3>1 DEF Perms
  <2>4. ToolPerm(o)[k] = o.permission[k]
    BY <2>1, <2>2, <2>3 DEF ToolPerm
  <2>5. QED BY <2>2, <2>4
<1>8. QED BY <1>5, <1>6, <1>7 DEF UserWins, conf, Conf

IsSwitched(q, o, cred, rules, spec) ==
  /\ q.opt = o /\ q.rules = rules /\ q.perm = ToolPerm(o) /\ q.cred = cred
  /\ q.sandbox = o.sandbox /\ q.model \in {o.model, spec} /\ q.ctx \in Counts
  /\ "ctx" \in o.pinned => q.ctx = o.ctx

LEMMA SwitchModelIs ==
  ASSUME NEW o \in Opts, NEW stdin, NEW cred, NEW rules, NEW p, p = Process(o, stdin, cred, rules),
         NEW spec, NEW loadable, NEW q, q = SwitchModel(p, spec, loadable)
  PROVE  IsSwitched(q, o, cred, rules, spec)
<1>1. /\ p.opt = o /\ p.rules = rules /\ p.perm = ToolPerm(o) /\ p.cred = cred
      /\ p.model = o.model /\ p.ctx = o.ctx /\ p.sandbox = o.sandbox
  <2>1. IsProcess(p, o, stdin, cred, rules)
    BY ProcessIs, Zenon
  <2>2. QED BY <2>1, Zenon DEF IsProcess
<1>2. o.ctx \in Counts /\ 131072 \in Counts
  BY LaunchAssumption DEF Opts
<1>3. CASE spec \notin loadable
  <2>1. q = p
    BY <1>3 DEF SwitchModel
  <2>2. QED BY <1>1, <1>2, <2>1 DEF IsSwitched
<1>4. CASE spec \in loadable
  <2> DEFINE cx == IF Networked(spec) /\ "ctx" \notin p.opt.pinned /\ p.opt.ctx < 131072
                   THEN 131072 ELSE p.opt.ctx
             im == IF Networked(spec) /\ "max_iters" \notin p.opt.pinned /\ p.opt.max_iters < 32
                   THEN 32 ELSE p.opt.max_iters
             vi == Vision(spec)
  <2>1. q = [p EXCEPT !.model = spec, !.vision = vi, !.ctx = cx, !.max_iters = im]
    BY <1>4 DEF SwitchModel
  <2>2. cx \in Counts /\ ("ctx" \in o.pinned => cx = o.ctx)
    BY <1>1, <1>2
  <2>3. DOMAIN p = {"opt", "rules", "perm", "cred", "vision", "model", "ctx", "max_iters", "sandbox",
                    "confirms", "asks", "autosaves"}
    BY DEF Process
  <2> HIDE DEF cx, im, vi
  <2>4. /\ q.opt = p.opt /\ q.rules = p.rules /\ q.perm = p.perm /\ q.cred = p.cred
        /\ q.sandbox = p.sandbox /\ q.model = spec /\ q.ctx = cx
    BY <2>1, <2>3
  <2>5. QED BY <1>1, <2>2, <2>4 DEF IsSwitched
<1>5. QED BY <1>3, <1>4

(* Whatever config, environment, command line and answers a process is     *)
(* started with, what the user says wins and what it starts is its child.  *)
THEOREM EveryProcessAgrees == ASSUME NEW w, WorldOK(w) PROVE Agrees(w)
<1>1. PICK p : p = Main(w)
  OBVIOUS
<1>2. SUFFICES ASSUME Runs(p)
      PROVE  /\ UserWins(w, p)
             /\ \A spec \in (w.loadable \ {NoModel}) \cup {p.model} :
                  /\ ChildOf(w, SwitchModel(p, spec, w.loadable))
                  /\ "ctx" \in p.opt.pinned => SwitchModel(p, spec, w.loadable).ctx = p.ctx
  BY <1>1, Zenon DEF Agrees
<1>3. PICK o \in Opts :
        /\ Settled(Origin(w), o, w.argv, Len(w.argv)) /\ o.sandbox \in Texts \ {"auto"}
        /\ p = Process(o, w.stdin, Credentials(Conf(w), w.env),
                       LoadProjectContext(w, o.sandbox, Conf(w)))
  BY <1>1, <1>2, MainIs, Zenon
<1>4. /\ p.opt = o /\ p.perm = ToolPerm(o) /\ p.model = o.model /\ p.ctx = o.ctx
      /\ p.max_iters = o.max_iters
  <2>1. IsProcess(p, o, w.stdin, Credentials(Conf(w), w.env),
                  LoadProjectContext(w, o.sandbox, Conf(w)))
    BY <1>3, ProcessIs, Zenon
  <2>2. QED BY <2>1, Zenon DEF IsProcess
<1>5. UserWins(w, p)
  BY <1>3, <1>4, UserWinsIs, Zenon
<1>6. ASSUME NEW spec \in (w.loadable \ {NoModel}) \cup {p.model},
             NEW q, q = SwitchModel(p, spec, w.loadable)
      PROVE  ChildOf(w, q) /\ ("ctx" \in p.opt.pinned => q.ctx = p.ctx)
  <2>1. /\ q.opt = o /\ q.rules = LoadProjectContext(w, o.sandbox, Conf(w))
        /\ q.perm = ToolPerm(o) /\ q.cred = Credentials(Conf(w), w.env)
        /\ q.sandbox = o.sandbox /\ q.model \in {o.model, spec} /\ q.ctx \in Counts
        /\ "ctx" \in o.pinned => q.ctx = o.ctx
    <3>1. IsSwitched(q, o, Credentials(Conf(w), w.env), LoadProjectContext(w, o.sandbox, Conf(w)), spec)
      BY <1>3, <1>6, SwitchModelIs, Zenon
    <3>2. QED BY <3>1, Zenon DEF IsSwitched
  <2>2. /\ o.permission = Origin(w).permission
        /\ o.model = Origin(w).model \/ o.model # NoModel
        /\ o.depth \in Nat /\ o.depth + 1 \in Counts
    BY <1>3, SMT DEF Settled
  <2>3. q.model \in Texts \cup {NoModel}
    <3>1. w.loadable \subseteq Texts \cup {NoModel}
      BY Zenon DEF WorldOK
    <3>2. o.model \in Texts \cup {NoModel}
      BY DEF Opts
    <3>3. QED BY <1>4, <2>1, <3>1, <3>2
  <2>4. ParentOK(q)
    BY <1>3, <2>1, <2>2, <2>3 DEF ParentOK
  <2>5. q.model = NoModel => Origin(w).model = NoModel
    BY <1>4, <2>1, <2>2
  <2>6. ChildOf(w, q)
    <3>1. q.sandbox # "auto"
      BY <1>3, <2>1
    <3>2. q.opt.depth \in Nat /\ q.opt.permission = Origin(w).permission /\ q.perm = ToolPerm(q.opt)
      BY <2>1, <2>2
    <3>3. q.rules = LoadProjectContext(w, q.sandbox, Conf(w))
      BY <2>1, Zenon
    <3>4. QED BY <2>1, <2>4, <2>5, <3>1, <3>2, <3>3, ChildIs, Zenon
  <2>7. QED BY <1>4, <2>1, <2>6
<1>7. QED BY <1>5, <1>6, Zenon

(***************************************************************************)
(* StreamView.                                                             *)
(***************************************************************************)
(* The loops over a text, unrolled.                                        *)
PicksBy(f, s, S, X) ==
  /\ f \in [0 .. Len(s) -> Seq(X)]
  /\ f[0] = <<>>
  /\ \A n \in 1 .. Len(s) : f[n] = IF n \in S THEN Append(f[n - 1], s[n]) ELSE f[n - 1]
  /\ Picked(s, S) = f[Len(s)]

LEMMA PickedIs ==
  ASSUME NEW X, NEW s \in Seq(X), NEW S
  PROVE  \E f : PicksBy(f, s, S, X)
<1> DEFINE N == Len(s)
           next(n, r) == IF n \in S THEN Append(r, s[n]) ELSE r
           body(f) == [n \in 0 .. N |-> IF n = 0 THEN <<>>
                         ELSE IF n \in S THEN Append(f[n - 1], s[n]) ELSE f[n - 1]]
           upTo == CHOOSE f : f = body(f)
           d == [p \in Nat \X Seq(X) |-> IF p[1] \in 1 .. N THEN next(p[1], p[2]) ELSE <<>>]
<1>1. N \in Nat /\ <<>> \in Seq(X) /\ \A n \in 1 .. N : s[n] \in X
  OBVIOUS
<1>2. d \in [Nat \X Seq(X) -> Seq(X)]
  BY <1>1
<1>3. PICK g \in [0 .. N -> Seq(X)] : g[0] = <<>> /\ \A n \in 1 .. N : g[n] = d[<<n, g[n - 1]>>]
  <2> HIDE DEF d, N
  <2>1. \E g \in [0 .. N -> Seq(X)] : IsRun(g, <<>>, d, N)
    BY <1>1, <1>2, FiniteRecursion
  <2>2. QED BY <2>1 DEF IsRun
<1>4. \A n \in 1 .. N : g[n] = next(n, g[n - 1])
  <2>1. ASSUME NEW n \in 1 .. N PROVE g[n] = next(n, g[n - 1])
    <3>1. n - 1 \in 0 .. N /\ n \in Nat
      BY <1>1
    <3>2. g[n - 1] \in Seq(X)
      BY <1>3, <3>1
    <3>3. d[<<n, g[n - 1]>>] = next(n, g[n - 1])
      BY <3>1, <3>2
    <3>4. QED BY <1>3, <3>3
  <2>2. QED BY <2>1
<1> HIDE DEF d
<1>5. g = body(g)
  <2>1. ASSUME NEW n \in 0 .. N PROVE g[n] = body(g)[n]
    <3>1. CASE n = 0
      BY <1>1, <1>3, <3>1
    <3>2. CASE n # 0
      <4>1. n \in 1 .. N
        BY <1>1, <3>2
      <4>2. QED BY <1>4, <3>2, <4>1
    <3>3. QED BY <3>1, <3>2
  <2>2. QED BY <1>3, <2>1
<1>6. upTo = body(upTo)
  <2> HIDE DEF body
  <2>1. QED BY <1>5
<1>7. Picked(s, S) = upTo[N]
  BY DEF Picked
<1>8. \A n \in 0 .. N : upTo[n] = IF n = 0 THEN <<>> ELSE next(n, upTo[n - 1])
  <2> HIDE DEF upTo
  <2>1. ASSUME NEW n \in 0 .. N PROVE upTo[n] = body(upTo)[n]
    BY <1>6
  <2>2. QED BY <2>1
<1> HIDE DEF upTo, body
<1>9. upTo[0] = <<>> /\ \A n \in 1 .. N : upTo[n] = next(n, upTo[n - 1])
  <2>1. 0 \in 0 .. N /\ \A n \in 1 .. N : n \in 0 .. N /\ n # 0
    BY <1>1
  <2>2. QED BY <1>8, <2>1
<1>10. \A n \in 0 .. N : upTo[n] \in Seq(X)
  <2> DEFINE P == {n \in 0 .. N : upTo[n] \in Seq(X)}
  <2>1. 0 \in P
    <3>1. 0 \in 0 .. N
      BY <1>1
    <3>2. upTo[0] \in Seq(X)
      BY <1>1, <1>9
    <3>3. QED BY <3>1, <3>2
  <2>2. ASSUME NEW n \in 1 .. N, n - 1 \in P PROVE n \in P
    <3>1. upTo[n - 1] \in Seq(X) /\ n \in 0 .. N
      BY <1>1, <2>2
    <3>2. next(n, upTo[n - 1]) \in Seq(X)
      BY <1>1, <3>1
    <3>3. QED BY <1>9, <3>1, <3>2
  <2>3. 0 .. N \subseteq P
    <3> HIDE DEF P
    <3>1. QED BY <1>1, <2>1, <2>2, UpTo
  <2>4. QED BY <2>3
<1>11. upTo \in [0 .. N -> Seq(X)]
  <2>1. upTo = [n \in 0 .. N |-> upTo[n]]
    BY <1>6 DEF body
  <2>2. QED BY <1>10, <2>1
<1>12. QED BY <1>7, <1>9, <1>11 DEF PicksBy

LEMMA AppendIs ==
  ASSUME NEW X, NEW s \in Seq(X), NEW c \in X
  PROVE  /\ Append(s, c) \in Seq(X) /\ Len(Append(s, c)) = Len(s) + 1 /\ Len(s) \in Nat
         /\ DOMAIN s = 1 .. Len(s) /\ DOMAIN Append(s, c) = 1 .. Len(s) + 1
         /\ \A i \in 1 .. Len(s) : Append(s, c)[i] = s[i]
         /\ Append(s, c)[Len(s) + 1] = c
OBVIOUS

LEMMA PickedGrows ==
  ASSUME NEW X, NEW s \in Seq(X), NEW c \in X, NEW S, NEW T,
         \A i \in 1 .. Len(s) : i \in S <=> i \in T
  PROVE  Picked(Append(s, c), T) = IF Len(s) + 1 \in T THEN Append(Picked(s, S), c) ELSE Picked(s, S)
<1> DEFINE N == Len(s)
           t == Append(s, c)
<1>1. t \in Seq(X) /\ Len(t) = N + 1 /\ N \in Nat /\ t[N + 1] = c /\ \A i \in 1 .. N : t[i] = s[i]
  BY AppendIs
<1>2. PICK f : PicksBy(f, s, S, X)
  BY PickedIs
<1> HIDE DEF t
<1>3. PICK g : PicksBy(g, t, T, X)
  BY <1>1, PickedIs
<1>4. f[N] = g[N]
  <2> DEFINE P == {n \in 0 .. N : f[n] = g[n]}
  <2>1. 0 \in P
    BY <1>1, <1>2, <1>3 DEF PicksBy
  <2>2. ASSUME NEW n \in 1 .. N, n - 1 \in P PROVE n \in P
    <3>1. n \in 1 .. Len(t) /\ n \in 0 .. N /\ t[n] = s[n] /\ (n \in S <=> n \in T) /\ f[n - 1] = g[n - 1]
      BY <1>1, <2>2
    <3>2. f[n] = IF n \in S THEN Append(f[n - 1], s[n]) ELSE f[n - 1]
      BY <1>2 DEF PicksBy
    <3>3. g[n] = IF n \in T THEN Append(g[n - 1], t[n]) ELSE g[n - 1]
      BY <1>3, <3>1 DEF PicksBy
    <3>4. QED BY <3>1, <3>2, <3>3
  <2>3. 0 .. N \subseteq P
    <3> HIDE DEF P
    <3>1. QED BY <1>1, <2>1, <2>2, UpTo
  <2>4. QED BY <1>1, <2>3
<1>5. g[N + 1] = IF N + 1 \in T THEN Append(g[N], c) ELSE g[N]
  BY <1>1, <1>3 DEF PicksBy
<1>6. Picked(t, T) = g[N + 1]
  BY <1>1, <1>3 DEF PicksBy
<1>7. Picked(s, S) = f[N]
  BY <1>2 DEF PicksBy
<1>8. QED BY <1>4, <1>5, <1>6, <1>7 DEF t

(* What of a text is a word, picked out.                                   *)
WordsOf(s) == Picked(s, WordsAt(s))
Worded(w, c) == IF c \in Markup THEN w ELSE Append(w, c)

LEMMA WordsGrow ==
  ASSUME NEW X, NEW s \in Seq(X), NEW c \in X
  PROVE  WordsOf(Append(s, c)) = Worded(WordsOf(s), c)
<1> DEFINE t == Append(s, c)
<1>1. /\ DOMAIN s = 1 .. Len(s) /\ DOMAIN t = 1 .. Len(s) + 1 /\ Len(s) \in Nat
      /\ t[Len(s) + 1] = c /\ \A i \in 1 .. Len(s) : t[i] = s[i]
  BY AppendIs
<1>2. \A i \in 1 .. Len(s) : i \in WordsAt(s) <=> i \in WordsAt(t)
  <2> HIDE DEF t
  <2>1. QED BY <1>1 DEF WordsAt
<1>3. Len(s) + 1 \in WordsAt(t) <=> c \notin Markup
  <2> HIDE DEF t
  <2>1. QED BY <1>1 DEF WordsAt
<1>4. Picked(t, WordsAt(t)) = IF Len(s) + 1 \in WordsAt(t) THEN Append(Picked(s, WordsAt(s)), c) ELSE Picked(s, WordsAt(s))
  BY <1>2, PickedGrows
<1>5. QED BY <1>3, <1>4 DEF WordsOf, Worded

(* The fields of the renderer, and what one symbol of prose does to them:  *)
(* it is rendered, counted as a backtick, or a whole marker of a fence, or *)
(* it stays away until the end of the line of such a marker.               *)
Renderer ==
  [sr : {"decide", "plain", "tool", "valwait", "content", "after"}, acc : Seq(Chars),
   tag : Nat, esc : BOOLEAN, bol : BOOLEAN, out : Seq(Chars \cup Markup), ticks : Nat,
   code : BOOLEAN, fence : BOOLEAN, skip : BOOLEAN, head : BOOLEAN, dash : BOOLEAN,
   star : BOOLEAN, starBol : BOOLEAN]

Says(u) == WordsOf(u.out)
Beside(u, v) ==
  /\ v \in Renderer /\ v.sr = u.sr /\ v.acc = u.acc /\ v.tag = u.tag
Renders(u, v, c) ==
  /\ Beside(u, v) /\ v.skip = u.skip /\ v.ticks = u.ticks
  /\ Says(v) = Worded(Says(u), c)
Unshown(u, v) ==
  /\ Beside(u, v) /\ v.skip = u.skip /\ v.ticks = u.ticks /\ v.out = u.out

LEMMA UnshownRenders ==
  ASSUME NEW u, NEW v, NEW w, NEW c, Unshown(u, v), Renders(v, w, c)
  PROVE  Renders(u, w, c)
BY DEF Unshown, Renders, Beside, Says

LEMMA UnshownMarkup ==
  ASSUME NEW u, NEW v, NEW c \in Markup, Unshown(u, v)
  PROVE  Renders(u, v, c)
BY DEF Unshown, Renders, Beside, Says, Worded

LEMMA MarkupRenders ==
  ASSUME NEW u, NEW v, NEW w, NEW m \in Markup, NEW c, Renders(u, v, m), Renders(v, w, c)
  PROVE  Renders(u, w, c)
BY DEF Renders, Beside, Worded

LEMMA EmitIs ==
  ASSUME NEW u \in Renderer, NEW c \in Chars \cup Markup
  PROVE  Renders(u, Emit(u, c), c) /\ Emit(u, c).fence = u.fence
<1>1. u.out \in Seq(Chars \cup Markup)
  BY DEF Renderer
<1>2. Append(u.out, c) \in Seq(Chars \cup Markup)
  BY <1>1
<1> DEFINE v == Emit(u, c)
<1>3. v \in Renderer
  BY <1>2 DEF Renderer, Emit
<1>4. /\ v.sr = u.sr /\ v.acc = u.acc /\ v.tag = u.tag /\ v.skip = u.skip /\ v.ticks = u.ticks
      /\ v.out = Append(u.out, c) /\ v.fence = u.fence
  BY DEF Renderer, Emit
<1>5. WordsOf(Append(u.out, c)) = Worded(WordsOf(u.out), c)
  BY <1>1, WordsGrow
<1> HIDE DEF v
<1>6. Says(v) = Worded(Says(u), c)
  BY <1>4, <1>5 DEF Says
<1>7. QED BY <1>3, <1>4, <1>6 DEF Renders, Beside, v

(* Backticks held back are no words.                                       *)
LEMMA TicksAreNoWords ==
  ASSUME NEW X, NEW s \in Seq(X), "tick" \in X, NEW k \in Nat
  PROVE  /\ s \o [i \in 1 .. k |-> "tick"] \in Seq(X)
         /\ WordsOf(s \o [i \in 1 .. k |-> "tick"]) = WordsOf(s)
<1> DEFINE with(n) == s \o [i \in 1 .. n |-> "tick"]
           P == {n \in 0 .. k : with(n) \in Seq(X) /\ WordsOf(with(n)) = WordsOf(s)}
<1>1. 0 \in P
  <2>1. [i \in 1 .. 0 |-> "tick"] = <<>>
    OBVIOUS
  <2>2. with(0) = s
    BY <2>1
  <2> HIDE DEF with
  <2>3. QED BY <2>2
<1>2. ASSUME NEW n \in 1 .. k, n - 1 \in P PROVE n \in P
  <2>1. with(n) = Append(with(n - 1), "tick")
    <3> DEFINE x == [i \in 1 .. n - 1 |-> "tick"]
               y == [i \in 1 .. n |-> "tick"]
    <3>1. y = Append(x, "tick") /\ x \in Seq(X) /\ y \in Seq(X)
      OBVIOUS
    <3> HIDE DEF x, y
    <3>2. s \o Append(x, "tick") = Append(s \o x, "tick")
      BY <3>1
    <3>3. QED BY <3>1, <3>2 DEF x, y
  <2>2. with(n - 1) \in Seq(X) /\ WordsOf(with(n - 1)) = WordsOf(s)
    BY <1>2
  <2> HIDE DEF with
  <2>3. WordsOf(with(n)) = Worded(WordsOf(with(n - 1)), "tick")
    BY <2>1, <2>2, WordsGrow
  <2>4. Worded(WordsOf(with(n - 1)), "tick") = WordsOf(s)
    BY <2>2 DEF Worded, Markup
  <2>5. with(n) \in Seq(X)
    BY <2>1, <2>2
  <2>6. QED BY <2>3, <2>4, <2>5
<1>3. 0 .. k \subseteq P
  <2> HIDE DEF P
  <2>1. QED BY <1>1, <1>2, UpTo
<1>4. QED BY <1>3

LEMMA EmitTicksIs ==
  ASSUME NEW u \in Renderer
  PROVE  /\ Beside(u, EmitTicks(u)) /\ EmitTicks(u).ticks = 0 /\ EmitTicks(u).skip = u.skip
         /\ Says(EmitTicks(u)) = Says(u)
<1> DEFINE o == u.out \o [i \in 1 .. u.ticks |-> "tick"]
           v == EmitTicks(u)
<1>1. u.out \in Seq(Chars \cup Markup) /\ u.ticks \in Nat /\ "tick" \in Chars \cup Markup
  BY DEF Renderer, Markup
<1>2. o \in Seq(Chars \cup Markup) /\ WordsOf(o) = WordsOf(u.out)
  BY <1>1, TicksAreNoWords
<1>3. v = [u EXCEPT !.out = o, !.bol = @ /\ u.ticks = 0, !.ticks = 0]
  BY DEF EmitTicks
<1> HIDE DEF o, v
<1>4. /\ v.sr = u.sr /\ v.acc = u.acc /\ v.tag = u.tag /\ v.skip = u.skip /\ v.ticks = 0
      /\ v.out = o
  BY <1>3 DEF Renderer
<1>5. v \in Renderer
  BY <1>2, <1>3 DEF Renderer
<1>6. QED BY <1>2, <1>4, <1>5 DEF Beside, Says, v

LEMMA OrdinaryIs ==
  ASSUME NEW u \in Renderer, NEW c \in Chars \cup Markup
  PROVE  Renders(u, Ordinary(u, c), c)
<1>1. CASE c = "*" /\ ~u.code
  <2> DEFINE v == [u EXCEPT !.star = TRUE, !.starBol = u.bol]
  <2>1. Unshown(u, v) /\ c \in Markup
    BY <1>1 DEF Unshown, Beside, Renderer, Markup
  <2> HIDE DEF v
  <2>2. Renders(u, v, c)
    BY <2>1, UnshownMarkup
  <2>3. Ordinary(u, c) = v
    BY <1>1 DEF Ordinary, v
  <2>4. QED BY <2>2, <2>3
<1>2. CASE u.bol /\ c = "#"
  <2> DEFINE v == [u EXCEPT !.head = TRUE]
  <2>1. Unshown(u, v) /\ c \in Markup
    BY <1>2 DEF Unshown, Beside, Renderer, Markup
  <2> HIDE DEF v
  <2>2. Renders(u, v, c)
    BY <2>1, UnshownMarkup
  <2>3. Ordinary(u, c) = v
    BY <1>2 DEF Ordinary, v
  <2>4. QED BY <2>2, <2>3
<1>3. CASE u.bol /\ u.head /\ c = " "
  <2>1. Unshown(u, u) /\ c \in Markup
    BY <1>3 DEF Unshown, Beside, Renderer, Markup
  <2>2. Renders(u, u, c)
    BY <2>1, UnshownMarkup
  <2>3. Ordinary(u, c) = u
    BY <1>3 DEF Ordinary
  <2>4. QED BY <2>2, <2>3
<1>4. CASE u.bol /\ c = "-" /\ ~u.code
  <2> DEFINE v == [u EXCEPT !.dash = TRUE]
  <2>1. Unshown(u, v) /\ c \in Markup
    BY <1>4 DEF Unshown, Beside, Renderer, Markup
  <2> HIDE DEF v
  <2>2. Renders(u, v, c)
    BY <2>1, UnshownMarkup
  <2>3. Ordinary(u, c) = v
    BY <1>4 DEF Ordinary, v
  <2>4. QED BY <2>2, <2>3
<1>5. CASE /\ ~(c = "*" /\ ~u.code) /\ ~(u.bol /\ c = "#")
           /\ ~(u.bol /\ u.head /\ c = " ") /\ ~(u.bol /\ c = "-" /\ ~u.code)
  <2> DEFINE v == [u EXCEPT !.head = @ /\ c # Newline]
  <2>1. Unshown(u, v)
    BY DEF Unshown, Beside, Renderer
  <2> HIDE DEF v
  <2>2. Renders(v, Emit(v, c), c)
    BY <2>1, EmitIs DEF Unshown, Beside
  <2>3. Renders(u, Emit(v, c), c)
    BY <2>1, <2>2, UnshownRenders
  <2>4. Ordinary(u, c) = Emit(v, c)
    BY <1>5 DEF Ordinary, v
  <2>5. QED BY <2>3, <2>4
<1>6. QED BY <1>1, <1>2, <1>3, <1>4, <1>5

LEMMA BulletIs ==
  ASSUME NEW u \in Renderer, NEW v, Unshown(u, v)
  PROVE  Renders(u, Emit(Emit(v, "bullet"), " "), " ")
<1>1. "bullet" \in Markup /\ " " \in Markup /\ v \in Renderer
  BY DEF Markup, Unshown, Beside
<1>2. Renders(v, Emit(v, "bullet"), "bullet")
  BY <1>1, EmitIs
<1>3. Emit(v, "bullet") \in Renderer
  BY <1>2 DEF Renders, Beside
<1>4. Renders(Emit(v, "bullet"), Emit(Emit(v, "bullet"), " "), " ")
  BY <1>1, <1>3, EmitIs
<1>5. Renders(v, Emit(Emit(v, "bullet"), " "), " ")
  BY <1>1, <1>2, <1>4, MarkupRenders
<1>6. QED BY <1>5, UnshownRenders

LEMMA StarredIs ==
  ASSUME NEW u \in Renderer, NEW c \in Chars \cup Markup
  PROVE  Renders(u, Starred(u, c), c)
<1> DEFINE v == [u EXCEPT !.star = FALSE, !.starBol = FALSE]
<1>1. Unshown(u, v) /\ v \in Renderer
  BY DEF Unshown, Beside, Renderer
<1>2. Starred(u, c) = CASE c = "*" -> v
                        [] c = " " /\ u.starBol -> Emit(Emit(v, "bullet"), " ")
                        [] OTHER -> Ordinary(Emit(v, "*"), c)
  BY DEF Starred
<1> HIDE DEF v
<1>3. CASE c = "*"
  <2>1. Renders(u, v, c)
    BY <1>1, <1>3, UnshownMarkup DEF Markup
  <2>2. QED BY <1>2, <1>3, <2>1
<1>4. CASE c = " " /\ u.starBol
  <2>1. Renders(u, Emit(Emit(v, "bullet"), " "), c)
    BY <1>1, <1>4, BulletIs
  <2>2. QED BY <1>2, <1>4, <2>1
<1>5. CASE c # "*" /\ ~(c = " " /\ u.starBol)
  <2>1. "*" \in Markup
    BY DEF Markup
  <2>2. Renders(v, Emit(v, "*"), "*")
    BY <1>1, <2>1, EmitIs
  <2>3. Emit(v, "*") \in Renderer
    BY <2>2 DEF Renders, Beside
  <2>4. Renders(Emit(v, "*"), Ordinary(Emit(v, "*"), c), c)
    BY <2>3, OrdinaryIs
  <2>5. Renders(v, Ordinary(Emit(v, "*"), c), c)
    BY <2>1, <2>2, <2>4, MarkupRenders
  <2>6. Renders(u, Ordinary(Emit(v, "*"), c), c)
    BY <1>1, <2>5, UnshownRenders
  <2>7. QED BY <1>2, <1>5, <2>6
<1>6. QED BY <1>3, <1>4, <1>5

LEMMA DashedIs ==
  ASSUME NEW u \in Renderer, NEW c \in Chars \cup Markup
  PROVE  Renders(u, Dashed(u, c), c)
<1> DEFINE v == [u EXCEPT !.dash = FALSE]
<1>1. Unshown(u, v) /\ v \in Renderer
  BY DEF Unshown, Beside, Renderer
<1>2. Dashed(u, c) = IF c = " " THEN Emit(Emit(v, "bullet"), " ")
                     ELSE IF v.star THEN Starred(Emit(v, "-"), c)
                     ELSE Ordinary(Emit(v, "-"), c)
  BY DEF Dashed
<1> HIDE DEF v
<1>3. CASE c = " "
  <2>1. Renders(u, Emit(Emit(v, "bullet"), " "), c)
    BY <1>1, <1>3, BulletIs
  <2>2. QED BY <1>2, <1>3, <2>1
<1>4. CASE c # " "
  <2>1. "-" \in Markup
    BY DEF Markup
  <2>2. Renders(v, Emit(v, "-"), "-")
    BY <1>1, <2>1, EmitIs
  <2>3. Emit(v, "-") \in Renderer
    BY <2>2 DEF Renders, Beside
  <2>4. /\ Renders(Emit(v, "-"), Starred(Emit(v, "-"), c), c)
        /\ Renders(Emit(v, "-"), Ordinary(Emit(v, "-"), c), c)
    BY <2>3, OrdinaryIs, StarredIs
  <2>5. Renders(v, Starred(Emit(v, "-"), c), c) /\ Renders(v, Ordinary(Emit(v, "-"), c), c)
    BY <2>1, <2>2, <2>4, MarkupRenders
  <2>6. Renders(u, Starred(Emit(v, "-"), c), c) /\ Renders(u, Ordinary(Emit(v, "-"), c), c)
    BY <1>1, <2>5, UnshownRenders
  <2>7. QED BY <1>2, <1>4, <2>6
<1>5. QED BY <1>3, <1>4

(* What Markdown does with a symbol.                                       *)
MarkdownGoes(u, v, c) ==
  /\ Beside(u, v)
  /\ \/ u.skip /\ c # Newline /\ v.skip /\ v.ticks = u.ticks /\ Says(v) = Says(u)
     \/ u.skip /\ c = Newline /\ ~v.skip /\ v.ticks = u.ticks /\ Says(v) = Says(u)
     \/ ~u.skip /\ c = "tick" /\ ~v.skip /\ v.ticks = u.ticks + 1 /\ Says(v) = Says(u)
     \/ ~u.skip /\ c = "tick" /\ v.skip /\ u.ticks = 2 /\ v.ticks = 0 /\ Says(v) = Says(u)
     \/ ~u.skip /\ ~v.skip /\ v.ticks = 0 /\ Says(v) = Worded(Says(u), c)

LEMMA MarkdownIs ==
  ASSUME NEW u \in Renderer, NEW c \in Chars \cup Markup
  PROVE  MarkdownGoes(u, Markdown(u, c), c)
<1>1. CASE u.skip /\ c # Newline
  <2>1. Markdown(u, c) = u
    BY <1>1 DEF Markdown
  <2>2. QED BY <1>1, <2>1 DEF MarkdownGoes, Beside
<1>2. CASE u.skip /\ c = Newline
  <2> DEFINE v == [u EXCEPT !.skip = FALSE]
             w == Emit(v, c)
  <2>1. v \in Renderer /\ ~v.skip /\ v.ticks = u.ticks /\ v.out = u.out /\ Beside(u, v)
    BY DEF Renderer, Beside
  <2>2. Markdown(u, c) = w
    BY <1>2 DEF Markdown
  <2> HIDE DEF v
  <2>3. Renders(v, w, c) /\ c \in Markup
    BY <1>2, <2>1, EmitIs DEF Markup
  <2> HIDE DEF w
  <2>4. Beside(u, w) /\ ~w.skip /\ w.ticks = u.ticks /\ Says(w) = Says(u)
    BY <2>1, <2>3 DEF Renders, Beside, Worded, Says
  <2>5. MarkdownGoes(u, w, c)
    BY <1>2, <2>4 DEF MarkdownGoes
  <2>6. QED BY <2>2, <2>5
<1>3. CASE ~u.skip /\ u.fence /\ ~(u.bol /\ c = "tick")
  <2> DEFINE v == EmitTicks(u)
             w == Emit(v, c)
  <2>1. Beside(u, v) /\ v.ticks = 0 /\ v.skip = u.skip /\ Says(v) = Says(u)
    BY EmitTicksIs
  <2>2. Markdown(u, c) = w
    BY <1>3 DEF Markdown, InFence
  <2> HIDE DEF v
  <2>3. Renders(v, w, c)
    BY <2>1, EmitIs DEF Beside
  <2> HIDE DEF w
  <2>4. Beside(u, w) /\ ~w.skip /\ w.ticks = 0 /\ Says(w) = Worded(Says(u), c)
    BY <1>3, <2>1, <2>3 DEF Renders, Beside
  <2>5. MarkdownGoes(u, w, c)
    BY <1>3, <2>4 DEF MarkdownGoes
  <2>6. QED BY <2>2, <2>5
<1>4. CASE ~u.skip /\ c = "tick" /\ (u.fence => u.bol)
  <2> DEFINE more == [u EXCEPT !.ticks = @ + 1]
  <2>1. Markdown(u, c) = more \/ (u.ticks = 2 /\ \E fence \in BOOLEAN :
          Markdown(u, c) = [u EXCEPT !.ticks = 0, !.fence = fence, !.skip = TRUE])
    BY <1>4 DEF Markdown, InFence, Backtick
  <2>2. CASE Markdown(u, c) = more
    <3>1. Beside(u, more) /\ ~more.skip /\ more.ticks = u.ticks + 1 /\ more.out = u.out
      BY <1>4 DEF Beside, Renderer
    <3> HIDE DEF more
    <3>2. MarkdownGoes(u, more, c)
      BY <1>4, <3>1 DEF MarkdownGoes, Says
    <3>3. QED BY <2>2, <3>2
  <2>3. ASSUME u.ticks = 2, NEW fence \in BOOLEAN,
               Markdown(u, c) = [u EXCEPT !.ticks = 0, !.fence = fence, !.skip = TRUE]
        PROVE  MarkdownGoes(u, Markdown(u, c), c)
    <3> DEFINE v == [u EXCEPT !.ticks = 0, !.fence = fence, !.skip = TRUE]
    <3>1. Beside(u, v) /\ v.skip /\ v.ticks = 0 /\ v.out = u.out
      BY DEF Beside, Renderer
    <3> HIDE DEF v
    <3>2. MarkdownGoes(u, v, c)
      BY <1>4, <2>3, <3>1 DEF MarkdownGoes, Says
    <3>3. QED BY <2>3, <3>2 DEF v
  <2>4. QED BY <2>1, <2>2, <2>3
<1>5. CASE ~u.skip /\ ~u.fence /\ c # "tick"
  <2> DEFINE v == [u EXCEPT !.code = IF u.ticks > 0 THEN ~@ ELSE @, !.ticks = 0]
             w == IF v.dash THEN Dashed(v, c) ELSE IF v.star THEN Starred(v, c) ELSE Ordinary(v, c)
  <2>1. Beside(u, v) /\ v.skip = u.skip /\ v.ticks = 0 /\ v.out = u.out
    BY DEF Beside, Renderer
  <2>2. Markdown(u, c) = w
    BY <1>5 DEF Markdown
  <2> HIDE DEF v
  <2>3. Renders(v, Dashed(v, c), c) /\ Renders(v, Starred(v, c), c) /\ Renders(v, Ordinary(v, c), c)
    BY <2>1, DashedIs, StarredIs, OrdinaryIs DEF Beside
  <2>4. Renders(v, w, c)
    BY <2>3
  <2> HIDE DEF w
  <2>5. Beside(u, w) /\ ~w.skip /\ w.ticks = 0 /\ Says(w) = Worded(Says(u), c)
    BY <1>5, <2>1, <2>4 DEF Renders, Beside, Says
  <2>6. MarkdownGoes(u, w, c)
    BY <1>5, <2>5 DEF MarkdownGoes
  <2>7. QED BY <2>2, <2>6
<1>6. u.skip \in BOOLEAN /\ u.fence \in BOOLEAN /\ u.bol \in BOOLEAN
  BY DEF Renderer
<1>7. QED BY <1>1, <1>2, <1>3, <1>4, <1>5, <1>6

(* What has been rendered of a prose f: its words, in order, but for some  *)
(* on the line of a fence; the backticks that are held back are its last   *)
(* symbols, and what is skipped follows three of them on their line.       *)
Selects(w, f, kept) ==
  /\ kept \subseteq WordsAt(f) /\ WordsAt(f) \cap Fenceless(f) \subseteq kept
  /\ w = Picked(f, kept)

FenceOpen(f) == \E k \in 1 .. Len(f) : Fence(f, k) /\ \A j \in k .. Len(f) : f[j] # Newline

Rendered(u, f) ==
  /\ u \in Renderer /\ f \in Seq(Chars)
  /\ \E kept : Selects(Says(u), f, kept)
  /\ u.ticks <= Len(f) /\ \A i \in Len(f) - u.ticks + 1 .. Len(f) : f[i] = "tick"
  /\ u.skip => u.ticks = 0 /\ FenceOpen(f)

LEMMA FencesStay ==
  ASSUME NEW f \in Seq(Chars), NEW c \in Chars, NEW i \in 1 .. Len(f), i \in Fenceless(Append(f, c))
  PROVE  i \in Fenceless(f)
<1> DEFINE t == Append(f, c)
<1>1. /\ DOMAIN f = 1 .. Len(f) /\ DOMAIN t = 1 .. Len(f) + 1 /\ Len(t) = Len(f) + 1
      /\ Len(f) \in Nat /\ \A n \in 1 .. Len(f) : t[n] = f[n]
  BY AppendIs
<1> HIDE DEF t
<1>2. ASSUME NEW k \in DOMAIN f, SameLine(f, i, k), Fence(f, k) PROVE FALSE
  <2>1. k \in DOMAIN t /\ k \in 1 .. Len(f)
    BY <1>1
  <2>2. SameLine(t, i, k)
    <3>1. \A j \in (i .. k) \cup (k .. i) : j \in 1 .. Len(f)
      BY <1>1, <2>1
    <3>2. QED BY <1>1, <1>2, <3>1 DEF SameLine
  <2>3. Fence(t, k)
    BY <1>1, <1>2, <2>1 DEF Fence
  <2>4. i \in Fenceless(t)
    BY DEF t
  <2>5. QED BY <2>1, <2>2, <2>3, <2>4 DEF Fenceless
<1>3. QED BY <1>1, <1>2 DEF Fenceless

LEMMA SelectsOn ==
  ASSUME NEW w, NEW f \in Seq(Chars), NEW kept, Selects(w, f, kept), NEW c \in Chars
  PROVE  /\ \E more : Selects(Worded(w, c), Append(f, c), more)
         /\ c \in Markup \/ Len(f) + 1 \notin Fenceless(Append(f, c)) => Selects(w, Append(f, c), kept)
<1> DEFINE t == Append(f, c)
           N == Len(f)
<1>1. /\ DOMAIN f = 1 .. N /\ DOMAIN t = 1 .. N + 1 /\ Len(t) = N + 1 /\ t[N + 1] = c
      /\ N \in Nat /\ \A n \in 1 .. N : t[n] = f[n]
  BY AppendIs
<1>2. \A i \in 1 .. N : i \in Fenceless(t) => i \in Fenceless(f)
  BY FencesStay
<1>3. Picked(t, kept) = w
  <2>1. N + 1 \notin kept
    BY <1>1 DEF Selects, WordsAt
  <2>2. Picked(t, kept) = Picked(f, kept)
    BY <2>1, PickedGrows
  <2>3. QED BY <2>2 DEF Selects
<1>4. Picked(t, kept \cup {N + 1}) = Append(w, c)
  <2>1. \A i \in 1 .. N : i \in kept <=> i \in kept \cup {N + 1}
    BY <1>1
  <2>2. Picked(t, kept \cup {N + 1}) = Append(Picked(f, kept), c)
    BY <2>1, PickedGrows
  <2>3. QED BY <2>2 DEF Selects
<1> HIDE DEF t, N
<1>5. WordsAt(t) = WordsAt(f) \cup (IF c \in Markup THEN {} ELSE {N + 1})
  BY <1>1 DEF WordsAt
<1>6. WordsAt(f) \subseteq 1 .. N
  BY <1>1 DEF WordsAt
<1>7. c \in Markup \/ N + 1 \notin Fenceless(t) => Selects(w, t, kept)
  BY <1>2, <1>3, <1>5, <1>6 DEF Selects
<1>8. c \notin Markup => Selects(Append(w, c), t, kept \cup {N + 1})
  BY <1>2, <1>4, <1>5, <1>6 DEF Selects
<1>9. QED BY <1>7, <1>8 DEF Worded, t, N

LEMMA FenceCovers ==
  ASSUME NEW f \in Seq(Chars), NEW c \in Chars, FenceOpen(f), c # Newline
  PROVE  FenceOpen(Append(f, c)) /\ Len(f) + 1 \notin Fenceless(Append(f, c))
<1> DEFINE t == Append(f, c)
           N == Len(f)
<1>1. /\ DOMAIN f = 1 .. N /\ DOMAIN t = 1 .. N + 1 /\ Len(t) = N + 1 /\ t[N + 1] = c
      /\ N \in Nat /\ \A n \in 1 .. N : t[n] = f[n]
  BY AppendIs
<1>2. PICK k \in 1 .. N : Fence(f, k) /\ \A j \in k .. N : f[j] # Newline
  BY DEF FenceOpen
<1> HIDE DEF t, N
<1>3. Fence(t, k) /\ k \in 1 .. Len(t) /\ \A j \in k .. N + 1 : t[j] # Newline
  <2>1. \A j \in k .. N + 1 : t[j] # Newline
    <3>1. ASSUME NEW j \in k .. N + 1 PROVE t[j] # Newline
      <4>1. CASE j = N + 1
        BY <1>1, <4>1
      <4>2. CASE j # N + 1
        BY <1>1, <1>2, <4>2
      <4>3. QED BY <4>1, <4>2
    <3>2. QED BY <3>1
  <2>2. Fence(t, k)
    BY <1>1, <1>2 DEF Fence, N
  <2>3. QED BY <1>1, <2>1, <2>2
<1>4. FenceOpen(t)
  BY <1>1, <1>3 DEF FenceOpen
<1>5. SameLine(t, N + 1, k)
  BY <1>1, <1>3 DEF SameLine
<1>6. N + 1 \notin Fenceless(t)
  BY <1>1, <1>3, <1>5 DEF Fenceless
<1>7. QED BY <1>4, <1>6 DEF t, N

LEMMA RenderedStep ==
  ASSUME NEW u, NEW f, Rendered(u, f), NEW c \in Chars, NEW v, MarkdownGoes(u, v, c)
  PROVE  Rendered(v, Append(f, c))
<1> DEFINE t == Append(f, c)
           N == Len(f)
<1>1. f \in Seq(Chars) /\ u.ticks \in Nat /\ v \in Renderer
  BY DEF Rendered, Renderer, MarkdownGoes, Beside
<1>2. /\ DOMAIN f = 1 .. N /\ DOMAIN t = 1 .. N + 1 /\ Len(t) = N + 1 /\ t[N + 1] = c
      /\ N \in Nat /\ (\A n \in 1 .. N : t[n] = f[n]) /\ t \in Seq(Chars)
  BY <1>1, AppendIs
<1>3. PICK kept : Selects(Says(u), f, kept)
  BY DEF Rendered
<1>4. \E more : Selects(Worded(Says(u), c), t, more)
  BY <1>1, <1>3, SelectsOn
<1>5. c \in Markup \/ N + 1 \notin Fenceless(t) => \E more : Selects(Says(u), t, more)
  BY <1>1, <1>3, SelectsOn
<1>6. u.skip /\ c # Newline => FenceOpen(t) /\ N + 1 \notin Fenceless(t)
  BY <1>1, FenceCovers DEF Rendered
<1>7. /\ u.ticks <= N /\ \A i \in N - u.ticks + 1 .. N : f[i] = "tick"
      /\ u.skip => u.ticks = 0
  BY DEF Rendered
<1> HIDE DEF t, N
<1>8. CASE u.skip /\ c # Newline /\ v.skip /\ v.ticks = u.ticks /\ Says(v) = Says(u)
  <2>1. \E more : Selects(Says(v), t, more)
    BY <1>5, <1>6, <1>8
  <2>2. v.ticks = 0 /\ FenceOpen(t)
    BY <1>6, <1>7, <1>8
  <2>3. QED BY <1>1, <1>2, <2>1, <2>2 DEF Rendered, t
<1>9. CASE u.skip /\ c = Newline /\ ~v.skip /\ v.ticks = u.ticks /\ Says(v) = Says(u)
  <2>1. \E more : Selects(Says(v), t, more)
    BY <1>5, <1>9 DEF Markup
  <2>2. v.ticks = 0 /\ ~v.skip
    BY <1>7, <1>9
  <2>3. QED BY <1>1, <1>2, <2>1, <2>2 DEF Rendered, t
<1>10. CASE ~u.skip /\ c = "tick" /\ ~v.skip /\ v.ticks = u.ticks + 1 /\ Says(v) = Says(u)
  <2>1. \E more : Selects(Says(v), t, more)
    BY <1>5, <1>10 DEF Markup
  <2>2. v.ticks <= Len(t) /\ \A i \in Len(t) - v.ticks + 1 .. Len(t) : t[i] = "tick"
    BY <1>1, <1>2, <1>7, <1>10
  <2>3. QED BY <1>1, <1>2, <1>10, <2>1, <2>2 DEF Rendered, t
<1>11. CASE ~u.skip /\ c = "tick" /\ v.skip /\ u.ticks = 2 /\ v.ticks = 0 /\ Says(v) = Says(u)
  <2>1. \E more : Selects(Says(v), t, more)
    BY <1>5, <1>11 DEF Markup
  <2>2. N - 1 \in 1 .. Len(t) /\ \A j \in N - 1 .. N + 1 : t[j] = "tick"
    BY <1>1, <1>2, <1>7, <1>11
  <2>3. Fence(t, N - 1) /\ \A j \in N - 1 .. Len(t) : t[j] # Newline
    BY <1>2, <2>2 DEF Fence, Newline
  <2>4. FenceOpen(t)
    BY <2>2, <2>3 DEF FenceOpen
  <2>5. QED BY <1>1, <1>2, <1>11, <2>1, <2>4 DEF Rendered, t
<1>12. CASE ~u.skip /\ ~v.skip /\ v.ticks = 0 /\ Says(v) = Worded(Says(u), c)
  BY <1>1, <1>2, <1>4, <1>12 DEF Rendered, t
<1>13. QED BY <1>8, <1>9, <1>10, <1>11, <1>12 DEF MarkdownGoes

(* A whole text, rendered.                                                 *)
RendersBy(g, u, s) ==
  /\ g \in [0 .. Len(s) -> Renderer] /\ g[0] = u
  /\ \A n \in 1 .. Len(s) : g[n] = Markdown(g[n - 1], s[n])
  /\ MarkdownAll(u, s) = g[Len(s)]

LEMMA MarkdownStays ==
  ASSUME NEW u \in Renderer, NEW c \in Chars \cup Markup
  PROVE  Markdown(u, c) \in Renderer
BY MarkdownIs DEF MarkdownGoes, Beside

LEMMA MarkdownAllIs ==
  ASSUME NEW u \in Renderer, NEW s \in Seq(Chars \cup Markup)
  PROVE  \E g : RendersBy(g, u, s)
<1> DEFINE N == Len(s)
           body(f) == [n \in 0 .. N |-> IF n = 0 THEN u ELSE Markdown(f[n - 1], s[n])]
           upTo == CHOOSE f : f = body(f)
           d == [p \in Nat \X Renderer |-> IF p[1] \in 1 .. N THEN Markdown(p[2], s[p[1]]) ELSE u]
<1>1. N \in Nat /\ \A n \in 1 .. N : s[n] \in Chars \cup Markup
  OBVIOUS
<1>2. d \in [Nat \X Renderer -> Renderer]
  <2>1. \A p \in Nat \X Renderer : p[1] \in 1 .. N => Markdown(p[2], s[p[1]]) \in Renderer
    BY <1>1, MarkdownStays
  <2>2. QED BY <2>1
<1>3. PICK g \in [0 .. N -> Renderer] : g[0] = u /\ \A n \in 1 .. N : g[n] = d[<<n, g[n - 1]>>]
  <2> HIDE DEF d, N
  <2>1. \E g \in [0 .. N -> Renderer] : IsRun(g, u, d, N)
    BY <1>1, <1>2, FiniteRecursion
  <2>2. QED BY <2>1 DEF IsRun
<1>4. \A n \in 1 .. N : g[n] = Markdown(g[n - 1], s[n])
  <2>1. ASSUME NEW n \in 1 .. N PROVE g[n] = Markdown(g[n - 1], s[n])
    <3>1. n - 1 \in 0 .. N /\ n \in Nat
      BY <1>1
    <3>2. g[n - 1] \in Renderer
      BY <1>3, <3>1
    <3>3. d[<<n, g[n - 1]>>] = Markdown(g[n - 1], s[n])
      BY <3>1, <3>2
    <3>4. QED BY <1>3, <3>3
  <2>2. QED BY <2>1
<1> HIDE DEF d
<1>5. g = body(g)
  <2>1. ASSUME NEW n \in 0 .. N PROVE g[n] = body(g)[n]
    <3>1. CASE n = 0
      BY <1>1, <1>3, <3>1
    <3>2. CASE n # 0
      <4>1. n \in 1 .. N
        BY <1>1, <3>2
      <4>2. QED BY <1>4, <3>2, <4>1
    <3>3. QED BY <3>1, <3>2
  <2>2. QED BY <1>3, <2>1
<1>6. upTo = body(upTo)
  <2> HIDE DEF body
  <2>1. QED BY <1>5
<1>7. MarkdownAll(u, s) = upTo[N]
  BY DEF MarkdownAll
<1>8. \A n \in 0 .. N : upTo[n] = IF n = 0 THEN u ELSE Markdown(upTo[n - 1], s[n])
  <2> HIDE DEF upTo
  <2>1. ASSUME NEW n \in 0 .. N PROVE upTo[n] = body(upTo)[n]
    BY <1>6
  <2>2. QED BY <2>1
<1> HIDE DEF upTo, body
<1>9. upTo[0] = u /\ \A n \in 1 .. N : upTo[n] = Markdown(upTo[n - 1], s[n])
  <2>1. 0 \in 0 .. N /\ \A n \in 1 .. N : n \in 0 .. N /\ n # 0
    BY <1>1
  <2>2. QED BY <1>8, <2>1
<1>10. \A n \in 0 .. N : upTo[n] \in Renderer
  <2> DEFINE A == {n \in 0 .. N : upTo[n] \in Renderer}
  <2>1. 0 \in A
    <3>1. 0 \in 0 .. N
      BY <1>1
    <3>2. QED BY <1>9, <3>1
  <2>2. ASSUME NEW n \in 1 .. N, n - 1 \in A PROVE n \in A
    <3>1. upTo[n - 1] \in Renderer /\ n \in 0 .. N
      BY <1>1, <2>2
    <3>2. Markdown(upTo[n - 1], s[n]) \in Renderer
      BY <1>1, <3>1, MarkdownStays
    <3>3. QED BY <1>9, <3>1, <3>2
  <2>3. 0 .. N \subseteq A
    <3> HIDE DEF A
    <3>1. QED BY <1>1, <2>1, <2>2, UpTo
  <2>4. QED BY <2>3
<1>11. upTo \in [0 .. N -> Renderer]
  <2>1. upTo = [n \in 0 .. N |-> upTo[n]]
    BY <1>6 DEF body
  <2>2. QED BY <1>10, <2>1
<1>12. QED BY <1>7, <1>9, <1>11 DEF RendersBy

LEMMA RenderedAll ==
  ASSUME NEW u, NEW f, Rendered(u, f), NEW s \in Seq(Chars)
  PROVE  /\ Rendered(MarkdownAll(u, s), f \o s)
         /\ Beside(u, MarkdownAll(u, s))
<1> DEFINE N == Len(s)
           sofar(n) == f \o SubSeq(s, 1, n)
<1>1. u \in Renderer /\ f \in Seq(Chars)
  BY DEF Rendered
<1>2. s \in Seq(Chars \cup Markup) /\ N \in Nat /\ \A n \in 1 .. N : s[n] \in Chars
  OBVIOUS
<1>3. PICK g : RendersBy(g, u, s)
  BY <1>1, <1>2, MarkdownAllIs
<1>4. /\ g \in [0 .. N -> Renderer] /\ g[0] = u
      /\ \A n \in 1 .. N : g[n] = Markdown(g[n - 1], s[n])
      /\ MarkdownAll(u, s) = g[N]
  BY <1>3 DEF RendersBy
<1>5. sofar(0) = f /\ sofar(N) = f \o s
  <2>1. SubSeq(s, 1, 0) = <<>> /\ SubSeq(s, 1, N) = s
    OBVIOUS
  <2>2. f \o <<>> = f
    BY <1>1
  <2>3. QED BY <2>1, <2>2
<1>6. \A n \in 1 .. N : sofar(n) = Append(sofar(n - 1), s[n])
  <2>1. ASSUME NEW n \in 1 .. N PROVE sofar(n) = Append(sofar(n - 1), s[n])
    <3> DEFINE x == SubSeq(s, 1, n - 1)
               y == SubSeq(s, 1, n)
    <3>1. y = Append(x, s[n]) /\ x \in Seq(Chars) /\ s[n] \in Chars
      OBVIOUS
    <3> HIDE DEF x, y
    <3>2. f \o Append(x, s[n]) = Append(f \o x, s[n])
      BY <1>1, <3>1
    <3>3. QED BY <3>1, <3>2 DEF x, y
  <2>2. QED BY <2>1
<1> HIDE DEF sofar
<1> DEFINE A == {n \in 0 .. N : Rendered(g[n], sofar(n)) /\ Beside(u, g[n])}
<1>7. 0 \in A
  <2>1. 0 \in 0 .. N
    BY <1>2
  <2>2. QED BY <1>1, <1>4, <1>5, <2>1 DEF Beside
<1>8. ASSUME NEW n \in 1 .. N, n - 1 \in A PROVE n \in A
  <2>1. /\ Rendered(g[n - 1], sofar(n - 1)) /\ Beside(u, g[n - 1])
        /\ n - 1 \in 0 .. N /\ n \in 0 .. N /\ s[n] \in Chars
    BY <1>2, <1>8
  <2>2. g[n - 1] \in Renderer
    BY <1>4, <2>1
  <2>3. MarkdownGoes(g[n - 1], Markdown(g[n - 1], s[n]), s[n])
    BY <2>1, <2>2, MarkdownIs
  <2>4. Rendered(Markdown(g[n - 1], s[n]), Append(sofar(n - 1), s[n]))
    BY <2>1, <2>3, RenderedStep
  <2>5. Rendered(g[n], sofar(n))
    BY <1>4, <1>6, <2>4
  <2>6. Beside(u, g[n])
    BY <1>4, <2>1, <2>3 DEF MarkdownGoes, Beside
  <2>7. QED BY <2>1, <2>5, <2>6
<1>9. 0 .. N \subseteq A
  <2> HIDE DEF A
  <2>1. QED BY <1>2, <1>7, <1>8, UpTo
<1>10. N \in A
  BY <1>2, <1>9
<1>11. QED BY <1>4, <1>5, <1>10

(* Only the fields the renderer works on matter for what is rendered.      *)
LEMMA RenderedElse ==
  ASSUME NEW u, NEW f, Rendered(u, f), NEW v \in Renderer,
         v.out = u.out, v.ticks = u.ticks, v.skip = u.skip
  PROVE  Rendered(v, f)
BY DEF Rendered, Says

(* Where a word occurs, symbol by symbol.                                  *)
LEMMA OccursAt ==
  ASSUME NEW X, NEW Y, NEW s \in Seq(X), NEW w \in Seq(Y), NEW i \in 0 .. Len(s) - Len(w)
  PROVE  SubSeq(s, i + 1, i + Len(w)) = w <=> \A j \in 1 .. Len(w) : s[i + j] = w[j]
<1> DEFINE p == SubSeq(s, i + 1, i + Len(w))
<1>1. Len(w) \in Nat /\ Len(s) \in Nat /\ i \in Nat /\ i + Len(w) <= Len(s)
  OBVIOUS
<1>2. p \in Seq(X) /\ Len(p) = Len(w) /\ \A j \in 1 .. Len(w) : p[j] = s[i + j]
  BY <1>1
<1> HIDE DEF p
<1>3. p = w <=> \A j \in 1 .. Len(w) : p[j] = w[j]
  BY <1>1, <1>2
<1>4. QED BY <1>2, <1>3 DEF p

LEMMA OccursStays ==
  ASSUME NEW X, NEW Y, NEW s \in Seq(X), NEW t \in Seq(X), NEW w \in Seq(Y), Len(s) <= Len(t),
         \A i \in 1 .. Len(s) : t[i] = s[i], Occurs(s, w)
  PROVE  Occurs(t, w)
<1>1. PICK i \in 0 .. Len(s) - Len(w) : SubSeq(s, i + 1, i + Len(w)) = w
  BY DEF Occurs
<1>2. \A j \in 1 .. Len(w) : s[i + j] = w[j]
  BY <1>1, OccursAt
<1>3. i \in 0 .. Len(t) - Len(w) /\ \A j \in 1 .. Len(w) : i + j \in 1 .. Len(s)
  OBVIOUS
<1>4. SubSeq(t, i + 1, i + Len(w)) = w
  <2>1. \A j \in 1 .. Len(w) : t[i + j] = w[j]
    BY <1>2, <1>3
  <2>2. i \in 0 .. Len(t) - Len(w)
    BY <1>3
  <2>3. SubSeq(t, i + 1, i + Len(w)) = w <=> \A j \in 1 .. Len(w) : t[i + j] = w[j]
    BY <2>2, OccursAt
  <2>4. QED BY <2>1, <2>3, Zenon
<1>5. QED BY <1>3, <1>4 DEF Occurs

LEMMA TagIs ==
  /\ Tag \in Seq(Chars) /\ Len(Tag) \in Nat /\ Len(Tag) >= 1 /\ Tag[1] \in Chars
  /\ \A i \in 2 .. Len(Tag) : Tag[i] # Tag[1]
  /\ Hold \in Nat /\ Hold >= 1
  /\ <<NameKey>> \in Seq({NameKey})
<1>1. Tag \in Seq(Chars) /\ Tag # <<>> /\ Hold \in Nat \ {0} /\ \A i \in 2 .. Len(Tag) : Tag[i] # Tag[1]
  BY StreamAssumption
<1>2. Len(Tag) \in Nat /\ Len(Tag) >= 1
  BY <1>1
<1>3. QED BY <1>1, <1>2

LEMMA CallStays ==
  ASSUME NEW t \in Seq(Chars), NEW c \in Chars, IsCall(t)
  PROVE  IsCall(Append(t, c))
<1> DEFINE head(s) == SubSeq(s, 1, IF Len(s) < Hold THEN Len(s) ELSE Hold)
           n == Append(t, c)
<1>1. /\ n \in Seq(Chars) /\ Len(n) = Len(t) + 1 /\ Len(t) \in Nat
      /\ \A i \in 1 .. Len(t) : n[i] = t[i]
  BY AppendIs
<1> HIDE DEF n
<1>2. /\ head(t) \in Seq(Chars) /\ head(n) \in Seq(Chars) /\ Len(head(t)) <= Len(head(n))
      /\ \A i \in 1 .. Len(head(t)) : head(n)[i] = head(t)[i]
  BY <1>1, TagIs
<1>3. Occurs(head(t), Tag) \/ Occurs(head(t), <<NameKey>>)
  BY DEF IsCall
<1> HIDE DEF head
<1>4. Occurs(head(n), Tag) \/ Occurs(head(n), <<NameKey>>)
  BY <1>2, <1>3, TagIs, OccursStays
<1>5. QED BY <1>4 DEF IsCall, head, n

LEMMA TagLen ==
  /\ Len(Tag) \in Nat /\ Len(Tag) >= 1 /\ Hold \in Nat /\ Hold >= 1
BY TagIs

(* Tags stay where they are.                                               *)
TagAt(s, i) == i \in 0 .. Len(s) - Len(Tag) /\ \A j \in 1 .. Len(Tag) : s[i + j] = Tag[j]

LEMMA TagsInIs ==
  ASSUME NEW s \in Seq(Chars), NEW i
  PROVE  i \in TagsIn(s) <=> TagAt(s, i)
<1>1. CASE i \in 0 .. Len(s) - Len(Tag)
  <2>1. SubSeq(s, i + 1, i + Len(Tag)) = Tag <=> \A j \in 1 .. Len(Tag) : s[i + j] = Tag[j]
    BY <1>1, TagIs, OccursAt
  <2>2. QED BY <1>1, <2>1 DEF TagsIn, TagAt
<1>2. CASE i \notin 0 .. Len(s) - Len(Tag)
  BY <1>2 DEF TagsIn, TagAt
<1>3. QED BY <1>1, <1>2

LEMMA TagStays ==
  ASSUME NEW t \in Seq(Chars), NEW c \in Chars, NEW i
  PROVE  TagAt(Append(t, c), i) <=> \/ TagAt(t, i)
                                    \/ TagAt(Append(t, c), i) /\ i = Len(t) + 1 - Len(Tag)
<1>1. /\ Append(t, c) \in Seq(Chars) /\ Len(Append(t, c)) = Len(t) + 1 /\ Len(t) \in Nat
      /\ \A n \in 1 .. Len(t) : Append(t, c)[n] = t[n]
  BY AppendIs
<1> DEFINE s == Append(t, c)
<1> HIDE DEF s
<1>2. ASSUME i \in 0 .. Len(t) - Len(Tag)
      PROVE  i \in 0 .. Len(s) - Len(Tag) /\ \A j \in 1 .. Len(Tag) : s[i + j] = t[i + j]
  BY <1>1, <1>2, TagIs DEF s
<1>3. ASSUME i \in 0 .. Len(s) - Len(Tag), i # Len(t) + 1 - Len(Tag)
      PROVE  i \in 0 .. Len(t) - Len(Tag)
  BY <1>1, <1>3, TagIs DEF s
<1>4. QED BY <1>2, <1>3 DEF TagAt, s

LEMMA StraddleStays ==
  ASSUME NEW t \in Seq(Chars), NEW c \in Chars, Straddles(t)
  PROVE  Straddles(Append(t, c))
<1>1. PICK i \in TagsIn(t) : i < Hold /\ i + Len(Tag) > Hold
  BY DEF Straddles
<1>2. TagAt(Append(t, c), i)
  BY <1>1, TagsInIs, TagStays
<1>3. Append(t, c) \in Seq(Chars)
  BY AppendIs
<1>4. i \in TagsIn(Append(t, c))
  BY <1>2, <1>3, TagsInIs
<1>5. QED BY <1>1, <1>4 DEF Straddles

(* The renderer and the reply so far, when this is no call and no tag      *)
(* crosses the end of what is held back: nothing is decided yet; or the    *)
(* prose f is rendered and a part of a tag held back, with no other tag    *)
(* that could still become whole; or a tag has ended the prose.            *)
Deciding(t, u) ==
  /\ u.sr = "decide" /\ u.acc = t /\ u.tag = 0 /\ Len(t) < Hold
  /\ (\A i \in 0 .. Len(t) : ~TagAt(t, i)) /\ Rendered(u, <<>>)

Dead(t, p) == \E m \in 0 .. Len(Tag) - 1 : p + m <= Len(t) /\ t[p + m] # Tag[m + 1]

Holding(t, u, f) ==
  /\ u.sr = "plain" /\ u.tag \in 0 .. Len(Tag) - 1 /\ Rendered(u, f)
  /\ Len(f) >= Hold /\ t = f \o SubSeq(Tag, 1, u.tag)
  /\ \A p \in Hold + 1 .. Len(t) : p = Len(f) + 1 \/ Dead(t, p)

Ended(t, u) ==
  /\ u.sr = "after"
  /\ \E i \in 0 .. Len(t) :
       /\ TagAt(t, i) /\ \A k \in 0 .. Len(t) : TagAt(t, k) => i <= k
       /\ Rendered(u, SubSeq(t, 1, i))

Strange(t) == IsCall(t) \/ Straddles(t)

Streamed(t, u) ==
  /\ t \in Seq(Chars)
  /\ \/ Strange(t)
     \/ Deciding(t, u)
     \/ \E f : Holding(t, u, f)
     \/ Ended(t, u)

LEMMA StrangeStays ==
  ASSUME NEW t \in Seq(Chars), NEW c \in Chars, Strange(t)
  PROVE  Strange(Append(t, c))
BY CallStays, StraddleStays DEF Strange

LEMMA FreshIs == Rendered(Fresh, <<>>) /\ Deciding(<<>>, Fresh)
<1>1. Fresh \in Renderer /\ Fresh.ticks = 0 /\ Fresh.skip = FALSE /\ Fresh.out = <<>>
  BY DEF Fresh, Renderer
<1>2. WordsAt(<<>>) = {}
  BY DEF WordsAt
<1>3. Selects(Says(Fresh), <<>>, {})
  BY <1>1, <1>2 DEF Selects, Says, WordsOf
<1>4. Rendered(Fresh, <<>>)
  BY <1>1, <1>3 DEF Rendered
<1>5. \A i \in 0 .. Len(<<>>) : ~TagAt(<<>>, i)
  BY TagIs DEF TagAt
<1>6. Fresh.sr = "decide" /\ Fresh.acc = <<>> /\ Fresh.tag = 0
  BY DEF Fresh
<1>7. QED BY <1>4, <1>5, <1>6, TagIs DEF Deciding

(* A tag of a text that is not strange begins where nothing is held back.  *)
LEMMA TagIsLate ==
  ASSUME NEW t \in Seq(Chars), ~Strange(t), NEW i, TagAt(t, i)
  PROVE  i \in Nat /\ i >= Hold
<1>1. i \in Nat /\ i + Len(Tag) <= Len(t) /\ i \in TagsIn(t)
  <2>1. i \in TagsIn(t)
    BY TagsInIs
  <2>2. QED BY <2>1, TagIs DEF TagAt
<1>2. SUFFICES ASSUME i < Hold PROVE FALSE
  BY <1>1, TagIs
<1>3. i + Len(Tag) <= Hold
  BY <1>1, <1>2, TagIs DEF Strange, Straddles
<1> DEFINE h == SubSeq(t, 1, IF Len(t) < Hold THEN Len(t) ELSE Hold)
<1>4. h \in Seq(Chars) /\ i + Len(Tag) <= Len(h) /\ \A j \in 1 .. Len(h) : h[j] = t[j]
  BY <1>1, <1>3, TagIs
<1>5. ~Occurs(h, Tag)
  BY DEF Strange, IsCall
<1> HIDE DEF h
<1>6. i \in 0 .. Len(h) - Len(Tag) /\ \A j \in 1 .. Len(Tag) : h[i + j] = Tag[j]
  <2>1. Len(h) \in Nat /\ i \in 0 .. Len(h) - Len(Tag)
    BY <1>1, <1>4, TagLen
  <2>2. ASSUME NEW j \in 1 .. Len(Tag) PROVE h[i + j] = Tag[j]
    <3>1. t[i + j] = Tag[j]
      BY DEF TagAt
    <3>2. i + j \in 1 .. Len(h)
      BY <1>1, <2>1, TagLen
    <3>3. QED BY <1>4, <3>1, <3>2
  <2>3. QED BY <2>1, <2>2
<1>7. SubSeq(h, i + 1, i + Len(Tag)) = Tag
  BY <1>4, <1>6, TagIs, OccursAt
<1>8. QED BY <1>5, <1>6, <1>7 DEF Occurs

LEMMA DeadIsNoTag ==
  ASSUME NEW t, NEW i \in Nat, Dead(t, i + 1)
  PROVE  ~TagAt(t, i)
<1>1. PICK m \in 0 .. Len(Tag) - 1 : i + 1 + m <= Len(t) /\ t[i + 1 + m] # Tag[m + 1]
  BY DEF Dead
<1>2. m + 1 \in 1 .. Len(Tag) /\ i + (m + 1) = i + 1 + m
  BY TagIs
<1>3. QED BY <1>1, <1>2 DEF TagAt

LEMMA DeadStays ==
  ASSUME NEW t \in Seq(Chars), NEW c \in Chars, NEW p \in Nat \ {0}, Dead(t, p)
  PROVE  Dead(Append(t, c), p)
<1>1. PICK m \in 0 .. Len(Tag) - 1 : p + m <= Len(t) /\ t[p + m] # Tag[m + 1]
  BY DEF Dead
<1>2. p + m \in 1 .. Len(t) /\ Len(Append(t, c)) = Len(t) + 1 /\ Len(t) \in Nat
  BY <1>1, AppendIs, TagIs
<1>3. Append(t, c)[p + m] = t[p + m]
  BY <1>2, AppendIs
<1>4. QED BY <1>1, <1>2, <1>3 DEF Dead

LEMMA ProseIs ==
  ASSUME NEW t \in Seq(Chars)
  PROVE  /\ (\A i : ~TagAt(t, i)) => Prose(t) = t
         /\ \A i : TagAt(t, i) /\ (\A k : TagAt(t, k) => i <= k) => Prose(t) = SubSeq(t, 1, i)
<1>1. \A i : i \in TagsIn(t) <=> TagAt(t, i)
  BY TagsInIs
<1>2. ASSUME \A i : ~TagAt(t, i) PROVE Prose(t) = t
  <2>1. TagsIn(t) = {}
    BY <1>1, <1>2
  <2>2. QED BY <2>1 DEF Prose
<1>3. ASSUME NEW i, TagAt(t, i), \A k : TagAt(t, k) => i <= k PROVE Prose(t) = SubSeq(t, 1, i)
  <2> DEFINE least == CHOOSE m \in TagsIn(t) : \A k \in TagsIn(t) : m <= k
  <2>1. i \in TagsIn(t) /\ \A k \in TagsIn(t) : i <= k
    BY <1>1, <1>3
  <2>2. least \in TagsIn(t) /\ \A k \in TagsIn(t) : least <= k
    BY <2>1
  <2>3. least = i
    <3>1. least <= i /\ i <= least
      BY <2>1, <2>2
    <3>2. least \in Nat /\ i \in Nat
      BY <1>1, <2>1, <2>2, TagIs DEF TagAt
    <3> HIDE DEF least
    <3>3. QED BY <3>1, <3>2
  <2>4. TagsIn(t) # {}
    BY <2>1
  <2>5. Prose(t) = SubSeq(t, 1, least)
    BY <2>4 DEF Prose
  <2>6. QED BY <2>3, <2>5
<1>4. QED BY <1>2, <1>3

LEMMA DecideStreams ==
  ASSUME NEW t \in Seq(Chars), NEW c \in Chars, NEW u, Deciding(t, u), ~Strange(Append(t, c))
  PROVE  Streamed(Append(t, c), Token(u, c))
<1> DEFINE n == Append(t, c)
           v == [u EXCEPT !.acc = Append(@, c)]
           p == [v EXCEPT !.sr = "plain"]
<1>1. n \in Seq(Chars) /\ Len(n) = Len(t) + 1 /\ Len(t) \in Nat
  BY AppendIs
<1>2. u \in Renderer /\ Rendered(u, <<>>) /\ u.sr = "decide" /\ u.acc = t /\ u.tag = 0 /\ Len(t) < Hold
  BY DEF Deciding, Rendered
<1>3. v \in Renderer /\ v.sr = "decide" /\ v.acc = n /\ v.tag = 0 /\ Rendered(v, <<>>)
  <2>1. v \in Renderer /\ v.sr = "decide" /\ v.acc = n /\ v.tag = 0
        /\ v.out = u.out /\ v.ticks = u.ticks /\ v.skip = u.skip
    BY <1>1, <1>2 DEF Renderer
  <2> HIDE DEF v
  <2>2. QED BY <1>2, <2>1, RenderedElse
<1>4. ~Occurs(n, Tag) /\ ~Occurs(n, <<NameKey>>)
  <2> DEFINE h == SubSeq(n, 1, IF Len(n) < Hold THEN Len(n) ELSE Hold)
  <2>1. h = n
    BY <1>1, <1>2, TagIs
  <2>2. ~Occurs(h, Tag) /\ ~Occurs(h, <<NameKey>>)
    BY DEF Strange, IsCall
  <2> HIDE DEF h
  <2>3. QED BY <2>1, <2>2
<1>5. \A i \in 0 .. Len(n) : ~TagAt(n, i)
  <2>1. ASSUME NEW i, TagAt(n, i) PROVE FALSE
    <3>1. i \in TagsIn(n)
      BY <1>1, <2>1, TagsInIs
    <3>2. QED BY <1>4, <3>1 DEF TagsIn, Occurs
  <2>2. QED BY <2>1
<1>6. Token(u, c) = IF Len(n) = Hold THEN MarkdownAll(p, n) ELSE v
  <2>1. Decide(u, c) =
          IF Occurs(v.acc, Tag) \/ Occurs(v.acc, <<NameKey>>) THEN [v EXCEPT !.sr = "tool"]
          ELSE IF Len(v.acc) = Hold THEN MarkdownAll(p, v.acc) ELSE v
    BY Zenon DEF Decide
  <2>2. v.acc = n
    BY <1>3
  <2> HIDE DEF n, v, p
  <2>3. Decide(u, c) = IF Len(n) = Hold THEN MarkdownAll(p, n) ELSE v
    BY <1>4, <2>1, <2>2, Zenon
  <2>4. QED BY <1>2, <2>3 DEF Token
<1>7. CASE Len(n) = Hold
  <2> DEFINE w == MarkdownAll(p, n)
  <2>1. Rendered(p, <<>>) /\ p.sr = "plain" /\ p.tag = 0
    <3>1. p \in Renderer /\ p.sr = "plain" /\ p.tag = 0 /\ p.out = v.out /\ p.ticks = v.ticks /\ p.skip = v.skip
      BY <1>3 DEF Renderer
    <3> HIDE DEF p, v
    <3>2. QED BY <1>3, <3>1, RenderedElse
  <2> HIDE DEF n, v, p
  <2>2. Rendered(w, <<>> \o n) /\ Beside(p, w)
    BY <1>1, <2>1, RenderedAll
  <2>3. <<>> \o n = n
    BY <1>1
  <2> HIDE DEF w
  <2>4. w.sr = "plain" /\ w.tag = 0 /\ Rendered(w, n)
    BY <2>1, <2>2, <2>3 DEF Beside
  <2>5. n = n \o SubSeq(Tag, 1, w.tag)
    BY <1>1, <2>4, TagIs
  <2>6. Holding(n, w, n)
    BY <1>7, <2>4, <2>5, TagIs DEF Holding
  <2>7. QED BY <1>1, <1>6, <1>7, <2>6 DEF Streamed, n, w
<1>8. CASE Len(n) # Hold
  <2>1. Len(n) < Hold
    BY <1>1, <1>2, <1>8, TagIs
  <2> HIDE DEF v, n
  <2>2. Deciding(n, v)
    BY <1>3, <1>5, <2>1 DEF Deciding
  <2>3. QED BY <1>1, <1>6, <1>8, <2>2 DEF Streamed, n
<1>9. QED BY <1>7, <1>8

LEMMA UnmatchedIs ==
  ASSUME NEW t \in Seq(Chars), NEW u, NEW f, Holding(t, u, f)
  PROVE  /\ Rendered(Unmatched(u), t) /\ Unmatched(u).sr = "plain" /\ Unmatched(u).tag = 0
         /\ Unmatched(u) \in Renderer
<1> DEFINE v == [u EXCEPT !.tag = 0]
           s == SubSeq(Tag, 1, u.tag)
<1>1. Rendered(u, f) /\ u \in Renderer /\ u.sr = "plain" /\ t = f \o s /\ u.tag \in 0 .. Len(Tag) - 1
  BY DEF Holding, Rendered
<1>2. Rendered(v, f) /\ v.sr = "plain" /\ v.tag = 0
  <2>1. v \in Renderer /\ v.sr = "plain" /\ v.tag = 0 /\ v.out = u.out /\ v.ticks = u.ticks /\ v.skip = u.skip
    BY <1>1 DEF Renderer
  <2> HIDE DEF v
  <2>2. QED BY <1>1, <2>1, RenderedElse
<1>3. s \in Seq(Chars)
  BY <1>1, TagIs
<1>4. Unmatched(u) = MarkdownAll(v, s)
  BY DEF Unmatched
<1> HIDE DEF v, s
<1>5. Rendered(MarkdownAll(v, s), f \o s) /\ Beside(v, MarkdownAll(v, s))
  BY <1>2, <1>3, RenderedAll
<1>6. QED BY <1>1, <1>2, <1>4, <1>5 DEF Beside

LEMMA HoldingIs ==
  ASSUME NEW t \in Seq(Chars), NEW u, NEW f, Holding(t, u, f)
  PROVE  /\ u \in Renderer /\ u.tag \in 0 .. Len(Tag) - 1 /\ f \in Seq(Chars)
         /\ Len(f) \in Nat /\ Len(f) >= Hold /\ Len(t) = Len(f) + u.tag
         /\ (\A i \in 1 .. Len(f) : t[i] = f[i])
         /\ \A i \in 1 .. u.tag : t[Len(f) + i] = Tag[i]
<1>1. /\ u \in Renderer /\ u.tag \in 0 .. Len(Tag) - 1 /\ f \in Seq(Chars) /\ Len(f) >= Hold
      /\ t = f \o SubSeq(Tag, 1, u.tag)
  BY DEF Holding, Rendered
<1> DEFINE s == SubSeq(Tag, 1, u.tag)
<1>2. s \in Seq(Chars) /\ Len(s) = u.tag /\ \A i \in 1 .. u.tag : s[i] = Tag[i]
  BY <1>1, TagIs
<1> HIDE DEF s
<1>3. t = f \o s
  BY <1>1 DEF s
<1>4. QED BY <1>1, <1>2, <1>3, ConcatIs

(* A held part grows, ends the prose, or turns out to be none.             *)
LEMMA HeldGrows ==
  ASSUME NEW t \in Seq(Chars), NEW c \in Chars, NEW u, NEW f, Holding(t, u, f),
         c = Tag[u.tag + 1], u.tag + 1 # Len(Tag)
  PROVE  Holding(Append(t, c), [u EXCEPT !.tag = @ + 1], f)
<1> DEFINE n == Append(t, c)
           w == [u EXCEPT !.tag = @ + 1]
<1>1. /\ u \in Renderer /\ u.tag \in 0 .. Len(Tag) - 1 /\ f \in Seq(Chars)
      /\ Len(f) \in Nat /\ Len(f) >= Hold /\ Len(t) = Len(f) + u.tag
  BY HoldingIs
<1>2. u.sr = "plain" /\ Rendered(u, f) /\ t = f \o SubSeq(Tag, 1, u.tag)
      /\ \A p \in Hold + 1 .. Len(t) : p = Len(f) + 1 \/ Dead(t, p)
  BY DEF Holding
<1>3. n \in Seq(Chars) /\ Len(n) = Len(t) + 1 /\ n[Len(t) + 1] = c
  BY AppendIs
<1>4. w \in Renderer /\ w.sr = "plain" /\ w.tag = u.tag + 1 /\ Rendered(w, f)
  <2>1. w \in Renderer /\ w.sr = "plain" /\ w.tag = u.tag + 1 /\ w.out = u.out /\ w.ticks = u.ticks /\ w.skip = u.skip
    <3>1. u \in Renderer /\ u.sr = "plain" /\ u.tag \in Nat /\ u.tag + 1 \in Nat
      BY <1>1, <1>2 DEF Renderer
    <3>2. QED BY <3>1 DEF Renderer
  <2> HIDE DEF w
  <2>2. QED BY <1>2, <2>1, RenderedElse
<1>5. n = f \o SubSeq(Tag, 1, u.tag + 1)
  <2> DEFINE x == SubSeq(Tag, 1, u.tag)
             y == SubSeq(Tag, 1, u.tag + 1)
  <2>1. y = Append(x, c) /\ x \in Seq(Chars)
    <3>1. Tag \in Seq(Chars) /\ u.tag \in Nat /\ u.tag + 1 <= Len(Tag)
      BY <1>1, TagIs
    <3>2. x \in Seq(Chars) /\ Len(x) = u.tag /\ \A i \in 1 .. u.tag : x[i] = Tag[i]
      BY <3>1
    <3>3. y \in Seq(Chars) /\ Len(y) = u.tag + 1 /\ \A i \in 1 .. u.tag + 1 : y[i] = Tag[i]
      BY <3>1
    <3> HIDE DEF x, y
    <3>4. /\ Append(x, c) \in Seq(Chars) /\ Len(Append(x, c)) = u.tag + 1
          /\ (\A i \in 1 .. u.tag : Append(x, c)[i] = x[i]) /\ Append(x, c)[u.tag + 1] = c
      BY <3>2, AppendIs
    <3>5. ASSUME NEW i \in 1 .. u.tag + 1 PROVE Append(x, c)[i] = y[i]
      <4>1. CASE i = u.tag + 1
        BY <3>1, <3>3, <3>4, <4>1
      <4>2. CASE i # u.tag + 1
        <5>1. i \in 1 .. u.tag
          BY <3>1, <4>2
        <5>2. QED BY <3>2, <3>3, <3>4, <5>1
      <4>3. QED BY <4>1, <4>2
    <3>6. QED BY <3>2, <3>3, <3>4, <3>5, SeqEqual
  <2> HIDE DEF x, y
  <2>2. f \o Append(x, c) = Append(f \o x, c)
    <3>1. f \in Seq(Chars) /\ x \in Seq(Chars) /\ c \in Chars
      BY <1>1, <2>1
    <3>2. QED BY <3>1
  <2>3. QED BY <1>2, <2>1, <2>2 DEF x, y
<1>6. ASSUME NEW p \in Hold + 1 .. Len(n) PROVE p = Len(f) + 1 \/ Dead(n, p)
  <2>1. CASE p \in Hold + 1 .. Len(t)
    <3>1. p = Len(f) + 1 \/ Dead(t, p)
      BY <1>2, <2>1
    <3>2. p \in Nat \ {0}
      BY TagLen
    <3>3. QED BY <3>1, <3>2, DeadStays
  <2>2. CASE p = Len(t) + 1 /\ u.tag = 0
    BY <1>1, <2>2
  <2>3. CASE p = Len(t) + 1 /\ u.tag # 0
    <3>1. u.tag + 1 \in 2 .. Len(Tag)
      <4>1. u.tag \in 0 .. Len(Tag) - 1 /\ u.tag # 0 /\ Len(Tag) \in Nat
        BY <1>1, <2>3, TagLen
      <4> HIDE DEF n, w
      <4>2. QED BY <4>1
    <3>2. n[p + 0] # Tag[0 + 1] /\ 0 \in 0 .. Len(Tag) - 1 /\ p + 0 <= Len(n)
      <4>1. c # Tag[1]
        BY <3>1, TagIs
      <4> HIDE DEF n
      <4>2. QED BY <1>1, <1>3, <2>3, <4>1, TagIs
    <3>3. QED BY <3>2 DEF Dead
  <2>4. QED BY <1>1, <1>3, <2>1, <2>2, <2>3, TagIs
<1>7. u.tag + 1 \in 0 .. Len(Tag) - 1
  BY <1>1, TagIs
<1> HIDE DEF n, w
<1>8. QED BY <1>1, <1>4, <1>5, <1>6, <1>7 DEF Holding, n, w

LEMMA HeldEnds ==
  ASSUME NEW t \in Seq(Chars), NEW c \in Chars, NEW u, NEW f, Holding(t, u, f),
         c = Tag[u.tag + 1], u.tag + 1 = Len(Tag), ~Strange(Append(t, c))
  PROVE  Ended(Append(t, c), [u EXCEPT !.tag = 0, !.sr = "after"])
<1> DEFINE n == Append(t, c)
           w == [u EXCEPT !.tag = 0, !.sr = "after"]
<1>1. /\ u \in Renderer /\ u.tag \in 0 .. Len(Tag) - 1 /\ f \in Seq(Chars)
      /\ Len(f) \in Nat /\ Len(f) >= Hold /\ Len(t) = Len(f) + u.tag
      /\ (\A i \in 1 .. Len(f) : t[i] = f[i])
      /\ \A i \in 1 .. u.tag : t[Len(f) + i] = Tag[i]
  BY HoldingIs
<1>2. Rendered(u, f) /\ \A p \in Hold + 1 .. Len(t) : p = Len(f) + 1 \/ Dead(t, p)
  BY DEF Holding
<1>3. n \in Seq(Chars) /\ Len(n) = Len(t) + 1 /\ n[Len(t) + 1] = c /\ \A i \in 1 .. Len(t) : n[i] = t[i]
  BY AppendIs
<1>4. w \in Renderer /\ w.sr = "after" /\ Rendered(w, f)
  <2>1. w \in Renderer /\ w.sr = "after" /\ w.out = u.out /\ w.ticks = u.ticks /\ w.skip = u.skip
    BY <1>1 DEF Renderer
  <2> HIDE DEF w
  <2>2. QED BY <1>2, <2>1, RenderedElse
<1> HIDE DEF n, w
<1>5. TagAt(n, Len(f))
  <2>1. ASSUME NEW j \in 1 .. Len(Tag) PROVE n[Len(f) + j] = Tag[j]
    <3>1. CASE j = u.tag + 1
      BY <1>1, <1>3, <3>1
    <3>2. CASE j # u.tag + 1
      <4>1. j \in 1 .. u.tag /\ Len(f) + j \in 1 .. Len(t)
        BY <1>1, <3>2, TagIs
      <4>2. QED BY <1>1, <1>3, <4>1
    <3>3. QED BY <3>1, <3>2
  <2>2. Len(f) \in 0 .. Len(n) - Len(Tag)
    <3>1. Len(n) = Len(f) + u.tag + 1 /\ u.tag \in Nat
      BY <1>1, <1>3, TagLen
    <3>2. Len(n) = Len(f) + Len(Tag)
      <4>1. Len(f) + (u.tag + 1) = Len(f) + Len(Tag)
        OBVIOUS
      <4>2. Len(f) + u.tag + 1 = Len(f) + (u.tag + 1)
        BY <1>1, <3>1
      <4>3. QED BY <3>1, <4>1, <4>2
    <3>3. QED BY <1>1, <3>2, TagLen
  <2>3. QED BY <2>1, <2>2 DEF TagAt
<1>6. SubSeq(n, 1, Len(f)) = f
  <2>1. \A i \in 1 .. Len(f) : n[i] = f[i]
    BY <1>1, <1>3
  <2>2. QED BY <1>1, <1>3, <2>1
<1>7. ASSUME NEW k \in 0 .. Len(n), TagAt(n, k), k < Len(f) PROVE FALSE
  <2>1. k \in Nat /\ k >= Hold
    BY <1>3, <1>7, TagIsLate DEF n
  <2>2. Dead(t, k + 1)
    <3>1. k + 1 \in Hold + 1 .. Len(t) /\ k + 1 # Len(f) + 1
      BY <1>1, <1>7, <2>1, TagLen
    <3>2. QED BY <1>2, <3>1
  <2>3. Dead(n, k + 1)
    BY <2>1, <2>2, DeadStays DEF n
  <2>4. QED BY <1>7, <2>1, <2>3, DeadIsNoTag
<1>8. Len(f) \in 0 .. Len(n) /\ \A k \in 0 .. Len(n) : TagAt(n, k) => Len(f) <= k
  <2>1. Len(f) \in 0 .. Len(n)
    BY <1>1, <1>3, TagLen
  <2>2. ASSUME NEW k \in 0 .. Len(n), TagAt(n, k) PROVE Len(f) <= k
    <3>1. ~(k < Len(f))
      BY <1>7, <2>2
    <3>2. QED BY <1>1, <3>1
  <2>3. QED BY <2>1, <2>2
<1>9. QED BY <1>4, <1>5, <1>6, <1>8 DEF Ended, n, w

LEMMA HeldAgain ==
  ASSUME NEW t \in Seq(Chars), NEW c \in Chars, NEW u, NEW f, Holding(t, u, f),
         c # Tag[u.tag + 1], c = Tag[1]
  PROVE  Holding(Append(t, c), [Unmatched(u) EXCEPT !.tag = 1], t)
<1> DEFINE n == Append(t, c)
           v == Unmatched(u)
           w == [v EXCEPT !.tag = 1]
<1>1. /\ u.tag \in 0 .. Len(Tag) - 1 /\ Len(f) \in Nat /\ Len(f) >= Hold /\ Len(t) = Len(f) + u.tag
  BY HoldingIs
<1>2. \A p \in Hold + 1 .. Len(t) : p = Len(f) + 1 \/ Dead(t, p)
  BY DEF Holding
<1>3. n \in Seq(Chars) /\ Len(n) = Len(t) + 1 /\ n[Len(t) + 1] = c
  BY AppendIs
<1>4. u.tag # 0
  OBVIOUS
<1>5. v \in Renderer /\ Rendered(v, t) /\ v.sr = "plain"
  BY UnmatchedIs
<1> HIDE DEF v
<1>6. w \in Renderer /\ w.sr = "plain" /\ w.tag = 1 /\ Rendered(w, t)
  <2>1. w \in Renderer /\ w.sr = "plain" /\ w.tag = 1 /\ w.out = v.out /\ w.ticks = v.ticks /\ w.skip = v.skip
    BY <1>5 DEF Renderer
  <2> HIDE DEF w
  <2>2. QED BY <1>5, <2>1, RenderedElse
<1>7. n = t \o SubSeq(Tag, 1, 1)
  <2>1. SubSeq(Tag, 1, 1) = <<c>>
    <3>1. Tag \in Seq(Chars) /\ Len(Tag) >= 1 /\ Tag[1] = c
      BY TagIs
    <3> DEFINE s == SubSeq(Tag, 1, 1)
    <3>2. Len(s) = 1 /\ s[1] = c /\ s \in Seq(Chars)
      BY <3>1
    <3> HIDE DEF s
    <3>3. s = <<c>>
      BY <3>2
    <3>4. QED BY <3>3 DEF s
  <2>2. t \o <<c>> = Append(t, c)
    OBVIOUS
  <2>3. QED BY <2>1, <2>2
<1> HIDE DEF n
<1>8. ASSUME NEW p \in Hold + 1 .. Len(n) PROVE p = Len(t) + 1 \/ Dead(n, p)
  <2>1. CASE p \in Hold + 1 .. Len(t) /\ p # Len(f) + 1
    BY <1>2, <2>1, DeadStays, TagIs DEF n
  <2>2. CASE p = Len(f) + 1 /\ p # Len(t) + 1
    <3>1. p + u.tag <= Len(n) /\ n[p + u.tag] # Tag[u.tag + 1]
      BY <1>1, <1>3, <2>2
    <3>2. QED BY <1>1, <3>1 DEF Dead
  <2>3. QED BY <1>1, <1>3, <2>1, <2>2, TagIs
<1>9. 1 \in 0 .. Len(Tag) - 1 /\ Len(t) >= Hold
  BY <1>1, <1>4, TagIs
<1> HIDE DEF w
<1>10. QED BY <1>6, <1>7, <1>8, <1>9 DEF Holding, n, v, w

LEMMA HeldFlushed ==
  ASSUME NEW t \in Seq(Chars), NEW c \in Chars, NEW u, NEW f, Holding(t, u, f),
         c # Tag[u.tag + 1], c # Tag[1]
  PROVE  Holding(Append(t, c), Markdown(Unmatched(u), c), Append(t, c))
<1> DEFINE n == Append(t, c)
           v == Unmatched(u)
           w == Markdown(v, c)
<1>1. /\ u.tag \in 0 .. Len(Tag) - 1 /\ Len(f) \in Nat /\ Len(f) >= Hold /\ Len(t) = Len(f) + u.tag
  BY HoldingIs
<1>2. \A p \in Hold + 1 .. Len(t) : p = Len(f) + 1 \/ Dead(t, p)
  BY DEF Holding
<1>3. n \in Seq(Chars) /\ Len(n) = Len(t) + 1 /\ n[Len(t) + 1] = c
  BY AppendIs
<1>4. v \in Renderer /\ Rendered(v, t) /\ v.sr = "plain" /\ v.tag = 0
  BY UnmatchedIs
<1> HIDE DEF v
<1>5. MarkdownGoes(v, w, c)
  BY <1>4, MarkdownIs
<1> HIDE DEF w
<1>6. Rendered(w, n)
  BY <1>4, <1>5, RenderedStep
<1>7. w.sr = "plain" /\ w.tag = 0
  BY <1>4, <1>5 DEF MarkdownGoes, Beside
<1> HIDE DEF n
<1>8. n = n \o SubSeq(Tag, 1, 0)
  BY <1>3, TagIs
<1>9. ASSUME NEW p \in Hold + 1 .. Len(n) PROVE Dead(n, p)
  <2>1. CASE p \in Hold + 1 .. Len(t) /\ p # Len(f) + 1
    BY <1>2, <2>1, DeadStays, TagIs DEF n
  <2>2. CASE p = Len(f) + 1
    <3>1. p + u.tag <= Len(n) /\ n[p + u.tag] # Tag[u.tag + 1]
      BY <1>1, <1>3, <2>2
    <3>2. QED BY <1>1, <3>1 DEF Dead
  <2>3. CASE p = Len(t) + 1
    <3>1. p + 0 <= Len(n) /\ n[p + 0] # Tag[0 + 1] /\ 0 \in 0 .. Len(Tag) - 1
      BY <1>1, <1>3, <2>3, TagIs
    <3>2. QED BY <3>1 DEF Dead
  <2>4. QED BY <1>1, <1>3, <2>1, <2>2, <2>3, TagIs
<1>10. 0 \in 0 .. Len(Tag) - 1 /\ Len(n) >= Hold
  BY <1>1, <1>3, TagIs
<1>11. QED BY <1>6, <1>7, <1>8, <1>9, <1>10 DEF Holding, n, v, w

LEMMA PlainStreams ==
  ASSUME NEW t \in Seq(Chars), NEW c \in Chars, NEW u, NEW f, Holding(t, u, f), ~Strange(Append(t, c))
  PROVE  Streamed(Append(t, c), Token(u, c))
<1>1. Append(t, c) \in Seq(Chars)
  BY AppendIs
<1>2. u.sr = "plain"
  BY DEF Holding
<1>3. Token(u, c) = Plain(u, c)
  BY <1>2 DEF Token
<1>4. CASE c = Tag[u.tag + 1] /\ u.tag + 1 = Len(Tag)
  <2>1. Plain(u, c) = [u EXCEPT !.tag = 0, !.sr = "after"]
    BY <1>4 DEF Plain
  <2>2. Ended(Append(t, c), [u EXCEPT !.tag = 0, !.sr = "after"])
    BY <1>4, HeldEnds
  <2>3. QED BY <1>1, <1>3, <2>1, <2>2 DEF Streamed
<1>5. CASE c = Tag[u.tag + 1] /\ u.tag + 1 # Len(Tag)
  <2>1. Plain(u, c) = [u EXCEPT !.tag = @ + 1]
    BY <1>5 DEF Plain
  <2>2. QED BY <1>1, <1>3, <1>5, <2>1, HeldGrows DEF Streamed
<1>6. CASE c # Tag[u.tag + 1] /\ c = Tag[1]
  <2>1. Plain(u, c) = [Unmatched(u) EXCEPT !.tag = 1]
    BY <1>6 DEF Plain
  <2>2. QED BY <1>1, <1>3, <1>6, <2>1, HeldAgain DEF Streamed
<1>7. CASE c # Tag[u.tag + 1] /\ c # Tag[1]
  <2>1. Plain(u, c) = Markdown(Unmatched(u), c)
    BY <1>7 DEF Plain
  <2>2. QED BY <1>1, <1>3, <1>7, <2>1, HeldFlushed DEF Streamed
<1>8. QED BY <1>4, <1>5, <1>6, <1>7

LEMMA AfterStreams ==
  ASSUME NEW t \in Seq(Chars), NEW c \in Chars, NEW u, Ended(t, u)
  PROVE  Streamed(Append(t, c), Token(u, c))
<1> DEFINE n == Append(t, c)
<1>1. n \in Seq(Chars) /\ Len(n) = Len(t) + 1 /\ Len(t) \in Nat /\ \A i \in 1 .. Len(t) : n[i] = t[i]
  BY AppendIs
<1>2. PICK i \in 0 .. Len(t) :
        /\ TagAt(t, i) /\ \A k \in 0 .. Len(t) : TagAt(t, k) => i <= k
        /\ Rendered(u, SubSeq(t, 1, i))
  BY DEF Ended
<1>3. TagAt(n, i)
  BY <1>2, TagStays
<1>4. ASSUME NEW k \in 0 .. Len(n), TagAt(n, k) PROVE i <= k
  <2>1. TagAt(t, k) \/ k = Len(t) + 1 - Len(Tag)
    BY <1>4, TagStays
  <2>2. TagAt(t, k) => k \in 0 .. Len(t)
    BY <1>1, TagIs DEF TagAt
  <2>3. i <= Len(t) - Len(Tag)
    BY <1>1, <1>2, TagIs DEF TagAt
  <2>4. QED BY <1>1, <1>2, <2>1, <2>2, <2>3, TagIs
<1> HIDE DEF n
<1>5. SubSeq(n, 1, i) = SubSeq(t, 1, i)
  BY <1>1, <1>2
<1>6. u.sr = "after"
  BY DEF Ended
<1>7. Ended(n, u)
  <2>1. i \in 0 .. Len(n)
    BY <1>1
  <2>2. Rendered(u, SubSeq(n, 1, i))
    BY <1>2, <1>5
  <2>3. QED BY <1>3, <1>4, <1>6, <2>1, <2>2 DEF Ended
<1>8. Token(u, c) = u
  BY <1>6 DEF Token
<1>9. QED BY <1>1, <1>7, <1>8 DEF Streamed, n

LEMMA TokenStreams ==
  ASSUME NEW t, NEW u, Streamed(t, u), NEW c \in Chars
  PROVE  Streamed(Append(t, c), Token(u, c))
<1>1. t \in Seq(Chars) /\ Append(t, c) \in Seq(Chars)
  BY AppendIs DEF Streamed
<1>2. CASE Strange(Append(t, c))
  BY <1>1, <1>2 DEF Streamed
<1>3. CASE ~Strange(Append(t, c))
  <2>1. ~Strange(t)
    BY <1>1, <1>3, StrangeStays
  <2>2. CASE Deciding(t, u)
    BY <1>1, <1>3, <2>2, DecideStreams
  <2>3. ASSUME NEW f, Holding(t, u, f) PROVE Streamed(Append(t, c), Token(u, c))
    BY <1>1, <1>3, <2>3, PlainStreams
  <2>4. CASE Ended(t, u)
    BY <1>1, <2>4, AfterStreams
  <2>5. QED BY <2>1, <2>2, <2>3, <2>4 DEF Streamed
<1>4. QED BY <1>2, <1>3

(* At the end of the reply what is held back is flushed.                   *)
LEMMA FlushIs ==
  ASSUME NEW v \in Renderer, NEW u,
         v = CASE u.sr = "decide" -> MarkdownAll(u, u.acc)
               [] u.sr = "plain"  -> Unmatched(u)
               [] OTHER           -> u
  PROVE  Says(Message(u)) = Says(v)
<1> DEFINE star == IF v.star THEN Emit(v, "*") ELSE v
<1>1. "*" \in Markup /\ "-" \in Markup
  BY DEF Markup
<1>2. star \in Renderer /\ Says(star) = Says(v)
  <2>1. Renders(v, Emit(v, "*"), "*")
    BY <1>1, EmitIs
  <2>2. Emit(v, "*") \in Renderer /\ Says(Emit(v, "*")) = Says(v)
    BY <1>1, <2>1 DEF Renders, Beside, Worded
  <2>3. QED BY <2>2
<1>3. Message(u) = IF star.dash THEN Emit(star, "-") ELSE star
  BY Zenon DEF Message
<1> HIDE DEF star
<1>4. Says(Emit(star, "-")) = Says(star)
  <2>1. Renders(star, Emit(star, "-"), "-")
    BY <1>1, <1>2, EmitIs
  <2>2. QED BY <1>1, <2>1 DEF Renders, Worded
<1>5. QED BY <1>2, <1>3, <1>4

LEMMA StreamedIsShown ==
  ASSUME NEW t, NEW u, Streamed(t, u)
  PROVE  ReplyShown(t, u)
<1>1. SUFFICES ASSUME ~Strange(t)
               PROVE  \E v : Rendered(v, Prose(t)) /\ Says(Message(u)) = Says(v)
  <2>1. SUFFICES ASSUME NEW v, Rendered(v, Prose(t)), Says(Message(u)) = Says(v)
                 PROVE  ReplyShown(t, u)
    BY DEF ReplyShown, Strange
  <2>2. PICK kept : Selects(Says(v), Prose(t), kept)
    BY <2>1 DEF Rendered
  <2> DEFINE p == Prose(t)
             o == Message(u).out
  <2>3. /\ kept \in SUBSET WordsAt(p) /\ WordsAt(p) \cap Fenceless(p) \subseteq kept
        /\ Picked(o, WordsAt(o)) = Picked(p, kept)
    BY <2>1, <2>2 DEF Selects, Says, WordsOf
  <2> HIDE DEF p, o
  <2>4. \E k \in SUBSET WordsAt(p) : /\ WordsAt(p) \cap Fenceless(p) \subseteq k
                                    /\ Picked(o, WordsAt(o)) = Picked(p, k)
    BY <2>3
  <2>5. QED BY <2>4, Zenon DEF ReplyShown, p, o
<1>2. t \in Seq(Chars)
  BY DEF Streamed
<1>3. CASE Deciding(t, u)
  <2>1. u.sr = "decide" /\ u.acc = t /\ Rendered(u, <<>>)
    BY <1>3 DEF Deciding
  <2>2. Prose(t) = t
    <3>1. \A i : ~TagAt(t, i)
      <4>1. ASSUME NEW i, TagAt(t, i) PROVE FALSE
        <5>1. i \in 0 .. Len(t)
          BY <1>2, <4>1, TagIs DEF TagAt
        <5>2. QED BY <1>3, <4>1, <5>1 DEF Deciding
      <4>2. QED BY <4>1
    <3>2. QED BY <1>2, <3>1, ProseIs
  <2> DEFINE v == MarkdownAll(u, t)
  <2>3. Rendered(v, <<>> \o t)
    BY <1>2, <2>1, RenderedAll
  <2>4. <<>> \o t = t
    BY <1>2
  <2> HIDE DEF v
  <2>5. v \in Renderer /\ Rendered(v, t)
    BY <2>3, <2>4 DEF Rendered
  <2>6. v = CASE u.sr = "decide" -> MarkdownAll(u, u.acc)
              [] u.sr = "plain"  -> Unmatched(u)
              [] OTHER           -> u
    BY <2>1 DEF v
  <2>7. Says(Message(u)) = Says(v)
    BY <2>5, <2>6, FlushIs
  <2>8. QED BY <2>2, <2>5, <2>7
<1>4. ASSUME NEW f, Holding(t, u, f) PROVE \E v : Rendered(v, Prose(t)) /\ Says(Message(u)) = Says(v)
  <2>1. Rendered(Unmatched(u), t) /\ Unmatched(u) \in Renderer /\ u.sr = "plain"
    BY <1>2, <1>4, UnmatchedIs DEF Holding
  <2>2. /\ u.tag \in 0 .. Len(Tag) - 1 /\ Len(f) \in Nat /\ Len(f) >= Hold /\ Len(t) = Len(f) + u.tag
        /\ \A p \in Hold + 1 .. Len(t) : p = Len(f) + 1 \/ Dead(t, p)
    BY <1>2, <1>4, HoldingIs DEF Holding
  <2>3. ASSUME NEW i, TagAt(t, i) PROVE FALSE
    <3>1. i \in Nat /\ i >= Hold
      BY <1>1, <1>2, <2>3, TagIsLate
    <3>2. i + Len(Tag) <= Len(t)
      BY <1>2, <2>3, TagIs DEF TagAt
    <3>3. i + 1 \in Hold + 1 .. Len(t) /\ i + 1 # Len(f) + 1
      BY <2>2, <3>1, <3>2, TagIs
    <3>4. Dead(t, i + 1)
      BY <2>2, <3>3
    <3>5. QED BY <2>3, <3>1, <3>4, DeadIsNoTag
  <2>4. Prose(t) = t
    BY <1>2, <2>3, ProseIs
  <2>5. Unmatched(u) = CASE u.sr = "decide" -> MarkdownAll(u, u.acc)
                         [] u.sr = "plain"  -> Unmatched(u)
                         [] OTHER           -> u
    BY <2>1
  <2>6. Says(Message(u)) = Says(Unmatched(u))
    BY <2>1, <2>5, FlushIs
  <2>7. QED BY <2>1, <2>4, <2>6
<1>5. CASE Ended(t, u)
  <2>1. PICK i \in 0 .. Len(t) :
          /\ TagAt(t, i) /\ \A k \in 0 .. Len(t) : TagAt(t, k) => i <= k
          /\ Rendered(u, SubSeq(t, 1, i))
    BY <1>5 DEF Ended
  <2>2. \A k : TagAt(t, k) => i <= k
    <3>1. ASSUME NEW k, TagAt(t, k) PROVE i <= k
      <4>1. k \in 0 .. Len(t)
        BY <1>2, <3>1, TagIs DEF TagAt
      <4>2. QED BY <2>1, <3>1, <4>1
    <3>2. QED BY <3>1
  <2>3. Prose(t) = SubSeq(t, 1, i)
    BY <1>2, <2>1, <2>2, ProseIs
  <2>4. u \in Renderer /\ u.sr = "after"
    BY <1>5, <2>1 DEF Rendered, Ended
  <2>5. u = CASE u.sr = "decide" -> MarkdownAll(u, u.acc)
              [] u.sr = "plain"  -> Unmatched(u)
              [] OTHER           -> u
    BY <2>4
  <2>6. Says(Message(u)) = Says(u)
    BY <2>4, <2>5, FlushIs
  <2>7. QED BY <2>1, <2>3, <2>6
<1>6. QED BY <1>1, <1>3, <1>4, <1>5 DEF Streamed

(***************************************************************************)
(* Commands.                                                               *)
(***************************************************************************)
(* Texts one after another.                                                *)
JoinsBy(f, parts, X) ==
  /\ f \in [0 .. Len(parts) -> Seq(X)]
  /\ f[0] = <<>>
  /\ \A n \in 1 .. Len(parts) : f[n] = f[n - 1] \o parts[n]
  /\ Joined(parts) = f[Len(parts)]

LEMMA JoinedIs ==
  ASSUME NEW X, NEW parts \in Seq(Seq(X))
  PROVE  \E f : JoinsBy(f, parts, X)
<1> DEFINE N == Len(parts)
           T == Seq(X)
           next(n, r) == r \o parts[n]
           body(f) == [n \in 0 .. N |-> IF n = 0 THEN <<>> ELSE f[n - 1] \o parts[n]]
           upTo == CHOOSE f : f = body(f)
           d == [p \in Nat \X T |-> IF p[1] \in 1 .. N THEN next(p[1], p[2]) ELSE <<>>]
<1>1. N \in Nat /\ <<>> \in T /\ \A n \in 1 .. N : parts[n] \in T
  OBVIOUS
<1>2. \A n \in 1 .. N, r \in T : next(n, r) \in T
  BY <1>1
<1>3. PICK g \in [0 .. N -> T] : IsRun(g, <<>>, d, N)
  <2>1. d \in [Nat \X T -> T]
    BY <1>1, <1>2
  <2> HIDE DEF d, N, T
  <2>2. QED BY <1>1, <2>1, FiniteRecursion
<1>4. ASSUME NEW n \in 1 .. N PROVE g[n] = next(n, g[n - 1])
  <2>1. n - 1 \in 0 .. N /\ n \in Nat
    BY <1>1
  <2>2. g[n - 1] \in T
    BY <1>3, <2>1
  <2>3. d[<<n, g[n - 1]>>] = next(n, g[n - 1])
    <3> HIDE DEF next, T
    <3>1. QED BY <2>1, <2>2
  <2>4. QED BY <1>3, <2>3 DEF IsRun
<1>5. g = body(g)
  <2>1. ASSUME NEW n \in 0 .. N PROVE g[n] = body(g)[n]
    <3>1. n = 0 \/ n \in 1 .. N
      BY <1>1
    <3>2. QED BY <1>3, <1>4, <3>1 DEF IsRun
  <2>2. QED BY <1>3, <2>1
<1>6. upTo = body(upTo)
  <2> HIDE DEF body
  <2>1. QED BY <1>5
<1>7. Joined(parts) = upTo[N]
  BY DEF Joined
<1> HIDE DEF upTo
<1>8. upTo[0] = <<>> /\ \A n \in 1 .. N : upTo[n] = next(n, upTo[n - 1])
  <2>1. \A n \in 0 .. N : upTo[n] = body(upTo)[n]
    BY <1>6
  <2>2. 0 \in 0 .. N /\ \A n \in 1 .. N : n \in 0 .. N /\ n # 0
    BY <1>1
  <2>3. QED BY <2>1, <2>2
<1>9. \A n \in 0 .. N : upTo[n] = g[n]
  <2> DEFINE P == {n \in 0 .. N : upTo[n] = g[n]}
  <2> HIDE DEF next
  <2>1. 0 \in P
    BY <1>1, <1>3, <1>8 DEF IsRun
  <2>2. ASSUME NEW n \in 1 .. N, n - 1 \in P PROVE n \in P
    <3>1. n \in 0 .. N /\ upTo[n - 1] = g[n - 1]
      BY <1>1, <2>2
    <3>2. upTo[n] = next(n, upTo[n - 1])
      BY <1>8
    <3>3. g[n] = next(n, g[n - 1])
      BY <1>4
    <3>4. upTo[n] = g[n]
      BY <3>1, <3>2, <3>3, Zenon
    <3>5. QED BY <3>1, <3>4
  <2>3. 0 .. N \subseteq P
    <3> HIDE DEF P
    <3>1. QED BY <1>1, <2>1, <2>2, UpTo
  <2>4. QED BY <2>3
<1>10. g[0] = <<>> /\ Joined(parts) = g[N]
  BY <1>1, <1>3, <1>7, <1>9 DEF IsRun
<1>11. QED BY <1>3, <1>4, <1>10 DEF JoinsBy

(* Lines, and what was read of them.                                       *)
Reading(X) == [task : Seq(X), used : Nat]

LEMMA SubIs ==
  ASSUME NEW X, NEW s \in Seq(X), NEW m \in Nat \ {0}, NEW n \in 0 .. Len(s), m <= n + 1
  PROVE  /\ SubSeq(s, m, n) \in Seq(X) /\ Len(SubSeq(s, m, n)) = n - m + 1
         /\ \A i \in 1 .. n - m + 1 : SubSeq(s, m, n)[i] = s[m + i - 1]
BY SubSeqProperties

LEMMA BrokenIs ==
  ASSUME NEW X, Newline \in X, NEW s \in Seq(X), Open(s)
  PROVE  /\ Broken(s) \in Seq(X) /\ Len(Broken(s)) = Len(s) /\ Len(s) \in Nat \ {0}
         /\ Broken(s)[Len(s)] = Newline /\ \A i \in 1 .. Len(s) - 1 : Broken(s)[i] = s[i]
<1> DEFINE m == Len(s) - 1
           t == SubSeq(s, 1, m)
<1>1. Len(s) \in Nat \ {0} /\ m \in Nat
  BY DEF Open
<1>2. t \in Seq(X) /\ Len(t) = m /\ \A i \in 1 .. m : t[i] = s[i]
  <2>1. 1 \in Nat \ {0} /\ m \in 0 .. Len(s) /\ 1 <= m + 1 /\ m - 1 + 1 = m
    BY <1>1
  <2> HIDE DEF m
  <2>2. t \in Seq(X) /\ Len(t) = m - 1 + 1 /\ \A i \in 1 .. m - 1 + 1 : t[i] = s[1 + i - 1]
    BY <2>1, SubIs
  <2>3. \A i \in 1 .. m : 1 + i - 1 = i
    BY <1>1
  <2>4. QED BY <2>1, <2>2, <2>3
<1>3. Broken(s) = Append(t, Newline)
  BY DEF Broken
<1> HIDE DEF t
<1>4. QED BY <1>1, <1>2, <1>3

(* Lines read one by one.                                                  *)
ReadsBy(f, lines, X) ==
  /\ f \in [0 .. Len(lines) - 1 -> Reading(X)]
  /\ f[0] = [task |-> lines[1], used |-> 1]
  /\ \A n \in 1 .. Len(lines) - 1 : f[n] = ReadOn(f[n - 1], lines[n + 1])
  /\ Gather(lines) = AtTheEnd(f[Len(lines) - 1])

LEMMA GatherIs ==
  ASSUME NEW X, Newline \in X, NEW lines \in Seq(Seq(X)), lines # <<>>
  PROVE  \E f : ReadsBy(f, lines, X)
<1> DEFINE N == Len(lines) - 1
           T == Reading(X)
           next(n, r) == ReadOn(r, lines[n + 1])
           body(f) == [n \in 0 .. N |-> IF n = 0 THEN [task |-> lines[1], used |-> 1] ELSE ReadOn(f[n - 1], lines[n + 1])]
           upTo == CHOOSE f : f = body(f)
           d == [p \in Nat \X T |-> IF p[1] \in 1 .. N THEN next(p[1], p[2]) ELSE [task |-> lines[1], used |-> 1]]
<1>1. N \in Nat /\ [task |-> lines[1], used |-> 1] \in T /\ \A n \in 1 .. N : lines[n + 1] \in Seq(X) /\ n + 1 \in Nat
  BY DEF Reading
<1>2. ASSUME NEW n \in 1 .. N, NEW r \in T PROVE next(n, r) \in T
  <2>1. r.task \in Seq(X) /\ r.used \in Nat /\ r.used + 1 \in Nat
    BY DEF Reading
  <2>2. CASE Open(r.task)
    <3>1. Broken(r.task) \in Seq(X) /\ lines[n + 1] \in Seq(X) /\ n + 1 \in Nat
      BY <1>1, <2>1, <2>2, BrokenIs
    <3>2. Broken(r.task) \o lines[n + 1] \in Seq(X)
      BY <3>1
    <3>3. QED BY <2>2, <3>1, <3>2 DEF ReadOn, Reading
  <2>3. CASE ~Open(r.task)
    BY <2>3 DEF ReadOn
  <2>4. QED BY <2>2, <2>3
<1>3. PICK g \in [0 .. N -> T] : IsRun(g, [task |-> lines[1], used |-> 1], d, N)
  <2>1. d \in [Nat \X T -> T]
    BY <1>1, <1>2
  <2> HIDE DEF d, N, T
  <2>2. QED BY <1>1, <2>1, FiniteRecursion
<1>4. ASSUME NEW n \in 1 .. N PROVE g[n] = next(n, g[n - 1])
  <2>1. n - 1 \in 0 .. N /\ n \in Nat
    BY <1>1
  <2>2. g[n - 1] \in T
    BY <1>3, <2>1
  <2>3. d[<<n, g[n - 1]>>] = next(n, g[n - 1])
    <3> HIDE DEF next, T
    <3>1. QED BY <2>1, <2>2
  <2>4. QED BY <1>3, <2>3 DEF IsRun
<1>5. g = body(g)
  <2>1. ASSUME NEW n \in 0 .. N PROVE g[n] = body(g)[n]
    <3>1. n = 0 \/ n \in 1 .. N
      BY <1>1
    <3>2. QED BY <1>3, <1>4, <3>1 DEF IsRun
  <2>2. QED BY <1>3, <2>1
<1>6. upTo = body(upTo)
  <2> HIDE DEF body
  <2>1. QED BY <1>5
<1>7. Gather(lines) = AtTheEnd(upTo[N])
  BY DEF Gather
<1> HIDE DEF upTo
<1>8. upTo[0] = [task |-> lines[1], used |-> 1] /\ \A n \in 1 .. N : upTo[n] = next(n, upTo[n - 1])
  <2>1. \A n \in 0 .. N : upTo[n] = body(upTo)[n]
    BY <1>6
  <2>2. 0 \in 0 .. N /\ \A n \in 1 .. N : n \in 0 .. N /\ n # 0
    BY <1>1
  <2>3. QED BY <2>1, <2>2
<1>9. \A n \in 0 .. N : upTo[n] = g[n]
  <2> DEFINE P == {n \in 0 .. N : upTo[n] = g[n]}
  <2> HIDE DEF next
  <2>1. 0 \in P
    BY <1>1, <1>3, <1>8 DEF IsRun
  <2>2. ASSUME NEW n \in 1 .. N, n - 1 \in P PROVE n \in P
    <3>1. n \in 0 .. N /\ upTo[n - 1] = g[n - 1]
      BY <1>1, <2>2
    <3>2. upTo[n] = next(n, upTo[n - 1])
      BY <1>8
    <3>3. g[n] = next(n, g[n - 1])
      BY <1>4
    <3>4. upTo[n] = g[n]
      BY <3>1, <3>2, <3>3, Zenon
    <3>5. QED BY <3>1, <3>4
  <2>3. 0 .. N \subseteq P
    <3> HIDE DEF P
    <3>1. QED BY <1>1, <2>1, <2>2, UpTo
  <2>4. QED BY <2>3
<1>10. g[0] = [task |-> lines[1], used |-> 1] /\ Gather(lines) = AtTheEnd(g[N])
  BY <1>1, <1>3, <1>7, <1>9 DEF IsRun
<1>11. QED BY <1>3, <1>4, <1>10 DEF ReadsBy

LEMMA LeastIs ==
  ASSUME NEW S, S \subseteq Nat, S # {}
  PROVE  Least(S) \in S /\ \A i \in S : Least(S) <= i
<1>1. \E i \in S : \A k \in S : i <= k
  BY LeastNat
<1>2. QED BY <1>1 DEF Least

LEMMA OpenJoin ==
  ASSUME NEW X, Newline \in X, NEW s \in Seq(X), NEW t \in Seq(X)
  PROVE  /\ Open(t) => Open(s \o t) /\ Broken(s \o t) = s \o Broken(t)
         /\ ~Open(s) /\ ~Open(t) => ~Open(s \o t)
<1> DEFINE u == s \o t
<1>1. /\ u \in Seq(X) /\ Len(u) = Len(s) + Len(t) /\ Len(s) \in Nat /\ Len(t) \in Nat
      /\ \A i \in 1 .. Len(s) + Len(t) : u[i] = IF i <= Len(s) THEN s[i] ELSE t[i - Len(s)]
  BY ConcatProperties
<1> HIDE DEF u
<1>2. ASSUME Len(t) # 0 PROVE u # <<>> /\ t # <<>> /\ u[Len(u)] = t[Len(t)]
  <2>1. Len(u) \in 1 .. Len(s) + Len(t) /\ ~(Len(u) <= Len(s)) /\ Len(u) - Len(s) = Len(t)
    BY <1>1, <1>2
  <2>2. QED BY <1>1, <1>2, <2>1
<1>3. ASSUME Open(t) PROVE Open(u) /\ Broken(u) = s \o Broken(t)
  <2>1. Len(t) # 0 /\ Open(u)
    BY <1>1, <1>2, <1>3 DEF Open
  <2>2. /\ Broken(u) \in Seq(X) /\ Len(Broken(u)) = Len(u)
        /\ Broken(u)[Len(u)] = Newline /\ \A i \in 1 .. Len(u) - 1 : Broken(u)[i] = u[i]
    BY <1>1, <2>1, BrokenIs
  <2> DEFINE b == Broken(t)
             v == s \o b
  <2>3. /\ b \in Seq(X) /\ Len(b) = Len(t) /\ Len(t) \in Nat \ {0}
        /\ b[Len(t)] = Newline /\ \A i \in 1 .. Len(t) - 1 : b[i] = t[i]
    BY <1>3, BrokenIs
  <2>4. /\ v \in Seq(X) /\ Len(v) = Len(s) + Len(t)
        /\ \A i \in 1 .. Len(s) + Len(t) : v[i] = IF i <= Len(s) THEN s[i] ELSE b[i - Len(s)]
    <3> HIDE DEF b
    <3>1. /\ v \in Seq(X) /\ Len(v) = Len(s) + Len(b)
          /\ \A i \in 1 .. Len(s) + Len(b) : v[i] = IF i <= Len(s) THEN s[i] ELSE b[i - Len(s)]
      BY <2>3, ConcatProperties
    <3> HIDE DEF v
    <3>2. QED BY <2>3, <3>1
  <2> HIDE DEF b, v
  <2>5. ASSUME NEW i \in 1 .. Len(u) PROVE Broken(u)[i] = v[i]
    <3>1. CASE i <= Len(s)
      <4>1. i \in 1 .. Len(u) - 1 /\ i \in 1 .. Len(s) + Len(t)
        BY <1>1, <2>3, <3>1
      <4>2. QED BY <1>1, <2>2, <2>4, <3>1, <4>1
    <3>2. CASE i > Len(s) /\ i # Len(u)
      <4>1. i \in 1 .. Len(u) - 1 /\ i \in 1 .. Len(s) + Len(t) /\ i - Len(s) \in 1 .. Len(t) - 1 /\ ~(i <= Len(s))
        BY <1>1, <2>3, <3>2
      <4>2. Broken(u)[i] = t[i - Len(s)]
        BY <1>1, <2>2, <4>1
      <4>3. v[i] = t[i - Len(s)]
        BY <2>3, <2>4, <4>1
      <4>4. QED BY <4>2, <4>3
    <3>3. CASE i = Len(u)
      <4>1. i \in 1 .. Len(s) + Len(t) /\ ~(i <= Len(s)) /\ i - Len(s) = Len(t)
        BY <1>1, <2>3, <3>3
      <4>2. v[i] = Newline
        BY <2>3, <2>4, <4>1
      <4>3. QED BY <2>2, <3>3, <4>2
    <3>4. QED BY <1>1, <3>1, <3>2, <3>3
  <2>6. Broken(u) = v
    BY <1>1, <2>2, <2>4, <2>5, SeqEqual
  <2>7. QED BY <2>1, <2>6 DEF v, b
<1>4. ASSUME ~Open(s), ~Open(t) PROVE ~Open(u)
  <2>1. CASE Len(t) = 0
    <3>1. t = <<>>
      BY <2>1
    <3>2. u = s
      BY <3>1, ConcatEmptySeq DEF u
    <3>3. QED BY <1>4, <3>2
  <2>2. CASE Len(t) # 0
    BY <1>2, <1>4, <2>2 DEF Open
  <2>3. QED BY <2>1, <2>2
<1>5. QED BY <1>3, <1>4 DEF u

LEMMA LinesJoin ==
  ASSUME NEW C, NEW lines \in Seq(Seq(C))
  PROVE  LinesAreJoined(lines)
<1> SUFFICES ASSUME lines # <<>> PROVE LinesAreJoined(lines)
  BY DEF LinesAreJoined
<1> DEFINE X == C \cup {Newline}
           N == Len(lines)
           ends == {n \in DOMAIN lines : ~Open(lines[n])} \cup {N}
           k == Least(ends)
           piece(n) == IF Open(lines[n]) THEN Broken(lines[n]) ELSE lines[n]
           parts == [n \in 1 .. k |-> piece(n)]
<1>1. N \in Nat \ {0} /\ DOMAIN lines = 1 .. N /\ \A n \in 1 .. N : lines[n] \in Seq(X)
  <2>1. N \in Nat \ {0} /\ DOMAIN lines = 1 .. N /\ \A n \in 1 .. N : lines[n] \in Seq(C)
    OBVIOUS
  <2>2. QED BY <2>1, SeqMonotonic
<1>2. k \in 1 .. N /\ \A n \in 1 .. N : n < k => Open(lines[n])
  <2>1. ends \subseteq Nat /\ ends # {} /\ ends \subseteq 1 .. N
    BY <1>1
  <2>2. k \in ends /\ \A i \in ends : k <= i
    <3> HIDE DEF ends
    <3>1. QED BY <2>1, LeastIs
  <2>3. ASSUME NEW n \in 1 .. N, n < k PROVE Open(lines[n])
    <3>1. n \notin ends
      <4> HIDE DEF ends, k
      <4>1. QED BY <1>1, <2>1, <2>2, <2>3
    <3>2. QED BY <1>1, <3>1
  <2>4. QED BY <2>1, <2>2, <2>3
<1>3. k = N \/ ~Open(lines[k])
  <2>1. ends \subseteq Nat /\ ends # {}
    BY <1>1
  <2>2. k \in ends
    <3> HIDE DEF ends
    <3>1. QED BY <2>1, LeastIs
  <2>3. QED BY <2>2
<1>4. Newline \in X /\ lines \in Seq(Seq(X))
  BY <1>1
<1>5. PICK f : ReadsBy(f, lines, X)
  <2> HIDE DEF X
  <2>1. QED BY <1>4, GatherIs
<1>6. \A n \in 1 .. N : piece(n) \in Seq(X) /\ ~(Open(piece(n)))
  <2>1. ASSUME NEW n \in 1 .. N PROVE piece(n) \in Seq(X) /\ ~(Open(piece(n)))
    <3>1. CASE Open(lines[n])
      <4>1. /\ Broken(lines[n]) \in Seq(X) /\ Len(Broken(lines[n])) = Len(lines[n])
            /\ Broken(lines[n])[Len(lines[n])] = Newline
        <5> HIDE DEF X
        <5>1. QED BY <1>1, <1>4, <3>1, BrokenIs
      <4>2. ~Open(Broken(lines[n]))
        BY <4>1 DEF Open, Newline, Slash
      <4>3. QED BY <3>1, <4>1, <4>2
    <3>2. CASE ~Open(lines[n])
      BY <1>1, <3>2
    <3>3. QED BY <3>1, <3>2
  <2>2. QED BY <2>1
<1>7. parts \in Seq(Seq(X)) /\ Len(parts) = k /\ k \in Nat /\ \A n \in 1 .. k : parts[n] = piece(n) /\ n \in 1 .. N
  <2> HIDE DEF X, piece, k
  <2>1. k \in Nat /\ \A n \in 1 .. k : n \in 1 .. N
    BY <1>1, <1>2
  <2>2. QED BY <1>6, <2>1
<1> HIDE DEF X, k, parts, piece
<1>8. PICK h : JoinsBy(h, parts, X)
  BY <1>7, JoinedIs
<1>9. /\ h \in [0 .. k -> Seq(X)] /\ h[0] = <<>> /\ Joined(parts) = h[k]
      /\ \A n \in 1 .. k : h[n] = h[n - 1] \o piece(n)
  BY <1>7, <1>8 DEF JoinsBy
<1>10. /\ f[0] = [task |-> lines[1], used |-> 1] /\ Gather(lines) = AtTheEnd(f[N - 1])
       /\ \A n \in 1 .. N - 1 : f[n] = ReadOn(f[n - 1], lines[n + 1])
  BY <1>5 DEF ReadsBy
<1> DEFINE P == {n \in 0 .. k - 1 : ~Open(h[n]) /\ f[n] = [task |-> h[n] \o lines[n + 1], used |-> n + 1]}
<1>11. 0 .. k - 1 \subseteq P
  <2>1. 0 \in P
    <3>1. 0 \in 0 .. k - 1 /\ 0 + 1 = 1 /\ lines[1] \in Seq(X)
      BY <1>1, <1>2
    <3>2. <<>> \o lines[1] = lines[1]
      BY <3>1, ConcatEmptySeq
    <3>3. ~Open(h[0])
      BY <1>9 DEF Open
    <3>4. QED BY <1>9, <1>10, <3>1, <3>2, <3>3
  <2>2. ASSUME NEW n \in 1 .. k - 1, n - 1 \in P PROVE n \in P
    <3>1. /\ n \in 0 .. k - 1 /\ n \in 1 .. k /\ n - 1 \in 0 .. k /\ n \in 1 .. N /\ n \in 1 .. N - 1 /\ n < k
          /\ n - 1 + 1 = n
      BY <1>1, <1>2
    <3>2. ~Open(h[n - 1]) /\ f[n - 1] = [task |-> h[n - 1] \o lines[n], used |-> n]
      BY <2>2, <3>1
    <3>3. h[n - 1] \in Seq(X) /\ lines[n] \in Seq(X) /\ Open(lines[n])
      BY <1>1, <1>2, <1>9, <3>1
    <3>4. piece(n) = Broken(lines[n]) /\ piece(n) \in Seq(X) /\ ~Open(piece(n))
      BY <1>6, <3>1, <3>3 DEF piece
    <3>5. h[n] = h[n - 1] \o piece(n)
      BY <1>9, <3>1
    <3>6. ~Open(h[n - 1] \o piece(n))
      BY <1>4, <3>2, <3>3, <3>4, OpenJoin
    <3>10. Open(h[n - 1] \o lines[n]) /\ Broken(h[n - 1] \o lines[n]) = h[n - 1] \o Broken(lines[n])
      BY <1>4, <3>3, OpenJoin
    <3>11. PICK e : e = f[n - 1]
      OBVIOUS
    <3>12. e.task = h[n - 1] \o lines[n] /\ e.used = n
      <4>1. e = [task |-> h[n - 1] \o lines[n], used |-> n]
        BY <3>2, <3>11, Zenon
      <4>2. QED BY <4>1
    <3>7. f[n] = ReadOn(f[n - 1], lines[n + 1])
      BY <1>10, <3>1
    <3>13. f[n] = ReadOn(e, lines[n + 1])
      BY <3>7, <3>11, Zenon
    <3>8. f[n] = [task |-> h[n] \o lines[n + 1], used |-> n + 1]
      BY <3>4, <3>5, <3>10, <3>12, <3>13 DEF ReadOn
    <3>9. QED BY <3>1, <3>5, <3>6, <3>8
  <2>3. QED
    <3>1. k - 1 \in Nat
      BY <1>2, <1>7
    <3> HIDE DEF P
    <3>2. QED BY <2>1, <2>2, <3>1, UpTo
<1>12. ~Open(h[k - 1]) /\ f[k - 1] = [task |-> h[k - 1] \o lines[k], used |-> k] /\ h[k] = h[k - 1] \o piece(k)
       /\ h[k - 1] \in Seq(X) /\ lines[k] \in Seq(X)
  <2>1. k - 1 \in 0 .. k - 1 /\ k - 1 + 1 = k /\ k \in 1 .. k /\ k - 1 \in 0 .. k
    BY <1>2, <1>7
  <2>2. QED BY <1>1, <1>2, <1>9, <1>11, <2>1
<1>13. f[N - 1] = f[k - 1]
  <2>1. CASE k = N
    BY <2>1
  <2>2. CASE k # N
    <3>1. ~Open(f[k - 1].task)
      <4>1. ~Open(h[k - 1] \o lines[k])
        BY <1>3, <1>4, <1>12, <2>2, OpenJoin
      <4>2. QED BY <1>12, <4>1
    <3> DEFINE Q == {n \in 0 .. N - 1 : n >= k - 1 => f[n] = f[k - 1]}
    <3>2. 0 \in Q
      <4>1. 0 \in 0 .. N - 1 /\ (0 >= k - 1 => k - 1 = 0)
        BY <1>1, <1>2
      <4>2. QED BY <4>1
    <3>3. ASSUME NEW n \in 1 .. N - 1, n - 1 \in Q PROVE n \in Q
      <4>1. n \in 0 .. N - 1 /\ (n >= k - 1 => n = k - 1 \/ n - 1 >= k - 1)
        BY <1>1, <1>2
      <4>2. ASSUME n - 1 >= k - 1 PROVE f[n] = f[k - 1]
        <5>1. f[n - 1] = f[k - 1]
          BY <3>3, <4>2
        <5>2. f[n] = ReadOn(f[n - 1], lines[n + 1])
          BY <1>10
        <5>3. QED BY <3>1, <5>1, <5>2 DEF ReadOn
      <4>3. QED BY <4>1, <4>2
    <3>4. 0 .. N - 1 \subseteq Q
      <4>1. N - 1 \in Nat
        BY <1>1
      <4> HIDE DEF Q
      <4>2. QED BY <3>2, <3>3, <4>1, UpTo
    <3>5. N - 1 \in 0 .. N - 1 /\ N - 1 >= k - 1
      BY <1>1, <1>2
    <3>6. QED BY <3>4, <3>5
  <2>3. QED BY <2>1, <2>2
<1>14. Gather(lines) = [task |-> h[k], used |-> k]
  <2>1. CASE Open(lines[k])
    <3>1. Open(h[k - 1] \o lines[k]) /\ Broken(h[k - 1] \o lines[k]) = h[k - 1] \o Broken(lines[k])
      <4>1. h[k - 1] \in Seq(X) /\ lines[k] \in Seq(X)
        BY <1>12
      <4>2. QED BY <1>4, <2>1, <4>1, OpenJoin
    <3>2. piece(k) = Broken(lines[k])
      BY <2>1 DEF piece
    <3>3. PICK e : e = f[k - 1]
      OBVIOUS
    <3>4. e.task = h[k - 1] \o lines[k] /\ e.used = k
      <4>1. e = [task |-> h[k - 1] \o lines[k], used |-> k]
        BY <1>12, <3>3, Zenon
      <4>2. QED BY <4>1
    <3>5. Gather(lines) = AtTheEnd(e)
      BY <1>10, <1>13, <3>3, Zenon
    <3>6. QED BY <1>12, <3>1, <3>2, <3>4, <3>5 DEF AtTheEnd
  <2>2. CASE ~Open(lines[k])
    <3>1. ~Open(h[k - 1] \o lines[k]) /\ h[k - 1] \o lines[k] = h[k]
      BY <1>4, <1>12, <2>2, OpenJoin DEF piece
    <3>2. QED BY <1>10, <1>12, <1>13, <3>1 DEF AtTheEnd
  <2>3. QED BY <2>1, <2>2
<1>15. QED BY <1>9, <1>14 DEF LinesAreJoined, k, parts, piece

(* What is left of a text whose first m characters are skipped.            *)
SkippedBy(m, t, s, chars, X) ==
  /\ m \in 0 .. Len(s) /\ t \in Seq(X) /\ Len(t) = Len(s) - m
  /\ \A i \in 1 .. m : s[i] \in chars
  /\ \A i \in 1 .. Len(s) - m : t[i] = s[m + i]
  /\ t # <<>> => t[1] \notin chars

LEMMA SkipIs ==
  ASSUME NEW X, NEW s \in Seq(X), NEW chars
  PROVE  \E m : SkippedBy(m, Skip(s, chars), s, chars, X)
<1> DEFINE ink == {i \in DOMAIN s : s[i] \notin chars}
           t == Skip(s, chars)
<1>1. Len(s) \in Nat /\ DOMAIN s = 1 .. Len(s)
  OBVIOUS
<1>2. t = IF ink = {} THEN <<>> ELSE SubSeq(s, Least(ink), Len(s))
  BY DEF Skip
<1>3. CASE ink = {}
  <2>1. Len(s) \in 0 .. Len(s) /\ t = <<>> /\ <<>> \in Seq(X) /\ Len(<<>>) = Len(s) - Len(s)
    BY <1>1, <1>2, <1>3
  <2>2. (\A i \in 1 .. Len(s) : s[i] \in chars) /\ \A i \in 1 .. Len(s) - Len(s) : FALSE
    BY <1>1, <1>3
  <2> HIDE DEF t, ink
  <2>3. SkippedBy(Len(s), t, s, chars, X)
    BY <2>1, <2>2 DEF SkippedBy
  <2>4. QED BY <2>3 DEF t
<1>4. CASE ink # {}
  <2> DEFINE k == Least(ink)
  <2>1. k \in ink /\ \A i \in ink : k <= i
    <3>1. ink \subseteq Nat
      BY <1>1
    <3> HIDE DEF ink
    <3>2. QED BY <1>4, <3>1, LeastIs
  <2>2. k \in 1 .. Len(s) /\ s[k] \notin chars
    BY <1>1, <2>1
  <2>3. \A i \in 1 .. k - 1 : s[i] \in chars
    <3> HIDE DEF k
    <3>1. ASSUME NEW i \in 1 .. k - 1 PROVE s[i] \in chars
      <4>1. i \in 1 .. Len(s) /\ ~(k <= i)
        BY <1>1, <2>2
      <4>2. i \notin ink
        BY <2>1, <4>1
      <4>3. QED BY <1>1, <4>1, <4>2
    <3>2. QED BY <3>1
  <2>4. t = SubSeq(s, k, Len(s))
    BY <1>2, <1>4
  <2> HIDE DEF k, t, ink
  <2>5. t \in Seq(X) /\ Len(t) = Len(s) - k + 1 /\ \A i \in 1 .. Len(s) - k + 1 : t[i] = s[k + i - 1]
    BY <1>1, <2>2, <2>4, SubIs
  <2>6. k - 1 \in 0 .. Len(s) /\ Len(s) - (k - 1) = Len(s) - k + 1 /\ 1 \in 1 .. Len(s) - k + 1 /\ k + 1 - 1 = k
    BY <1>1, <2>2
  <2>7. t[1] \notin chars
    BY <2>2, <2>5, <2>6
  <2>8. \A i \in 1 .. Len(s) - k + 1 : k - 1 + i = k + i - 1
    BY <2>2
  <2>9. SkippedBy(k - 1, t, s, chars, X)
    BY <2>3, <2>5, <2>6, <2>7, <2>8 DEF SkippedBy
  <2>10. QED BY <2>9 DEF t
<1>5. QED BY <1>3, <1>4


(* The place in front of which a text is cut.                              *)
LEMMA CutBefore ==
  ASSUME NEW X, NEW s \in Seq(X), NEW k \in Nat, k >= 1, k <= Len(s) + 1
  PROVE  /\ SubSeq(s, 1, k - 1) \in Seq(X) /\ Len(SubSeq(s, 1, k - 1)) = k - 1
         /\ \A i \in 1 .. k - 1 : SubSeq(s, 1, k - 1)[i] = s[i]
<1> DEFINE w == SubSeq(s, 1, k - 1)
<1>1. Len(s) \in Nat
  OBVIOUS
<1>2. k - 1 \in 0 .. Len(s) /\ 1 \in Nat \ {0} /\ 1 <= k - 1 + 1 /\ k - 1 - 1 + 1 = k - 1
  BY <1>1
<1>3. /\ w \in Seq(X) /\ Len(w) = k - 1 - 1 + 1 /\ \A i \in 1 .. k - 1 - 1 + 1 : w[i] = s[1 + i - 1]
  BY <1>2, SubIs
<1> HIDE DEF w
<1>4. \A i \in 1 .. k - 1 : 1 + i - 1 = i
  OBVIOUS
<1>5. QED BY <1>2, <1>3, <1>4 DEF w

(* The place of the first character of a kind, or the end.                 *)
LEMMA FirstOrEnd ==
  ASSUME NEW X, NEW s \in Seq(X), NEW T, T \subseteq 1 .. Len(s)
  PROVE  LET k == Least(T \cup {Len(s) + 1})
         IN /\ k \in Nat /\ k >= 1 /\ k <= Len(s) + 1 /\ (k # Len(s) + 1 => k \in T)
            /\ \A i \in 1 .. k - 1 : i \in 1 .. Len(s) /\ i \notin T
<1> DEFINE S == T \cup {Len(s) + 1}
           k == Least(S)
<1>1. Len(s) \in Nat
  OBVIOUS
<1>2. S \subseteq 1 .. Len(s) + 1
  <2>1. ASSUME NEW x \in T PROVE x \in 1 .. Len(s) + 1
    <3>1. x \in 1 .. Len(s)
      OBVIOUS
    <3>2. QED BY <1>1, <3>1
  <2>2. Len(s) + 1 \in 1 .. Len(s) + 1
    BY <1>1
  <2>3. QED BY <2>1, <2>2
<1>3. k \in S /\ \A i \in S : k <= i
  <2>1. S \subseteq Nat /\ S # {}
    BY <1>1, <1>2
  <2> HIDE DEF S
  <2>2. QED BY <2>1, LeastIs
<1>4. k \in Nat /\ k >= 1 /\ k <= Len(s) + 1 /\ (k # Len(s) + 1 => k \in T)
  <2> HIDE DEF k
  <2>1. k \in 1 .. Len(s) + 1
    BY <1>2, <1>3
  <2>2. QED BY <1>1, <1>3, <2>1
<1>5. ASSUME NEW i \in 1 .. k - 1 PROVE i \in 1 .. Len(s) /\ i \notin T
  <2> HIDE DEF k
  <2>1. i \in Nat /\ i >= 1 /\ i < k
    BY <1>4
  <2>2. i \in 1 .. Len(s)
    BY <1>1, <1>4, <2>1
  <2>3. i \notin S
    <3> HIDE DEF S
    <3>1. ~(k <= i)
      BY <1>4, <2>1
    <3>2. QED BY <1>3, <3>1
  <2>4. QED BY <2>2, <2>3
<1>6. QED BY <1>4, <1>5

WordOf(w, s, X) ==
  /\ w \in Seq(X) /\ Len(w) \in 0 .. Len(s)
  /\ \A i \in 1 .. Len(w) : w[i] = s[i] /\ w[i] # " "
  /\ Len(w) < Len(s) => s[Len(w) + 1] = " "

LEMMA FirstWordIs ==
  ASSUME NEW X, NEW s \in Seq(X)
  PROVE  WordOf(FirstWord(s), s, X)
<1> DEFINE T == {i \in DOMAIN s : s[i] = " "}
           w == FirstWord(s)
<1>1. Len(s) \in Nat /\ DOMAIN s = 1 .. Len(s)
  OBVIOUS
<1>10. T \subseteq 1 .. Len(s)
  BY <1>1
<1>2. PICK k : k = Least(T \cup {Len(s) + 1})
  OBVIOUS
<1>3. /\ k \in Nat /\ k >= 1 /\ k <= Len(s) + 1 /\ (k # Len(s) + 1 => k \in T)
      /\ \A i \in 1 .. k - 1 : i \in 1 .. Len(s) /\ i \notin T
  <2> HIDE DEF T
  <2>1. QED BY <1>2, <1>10, FirstOrEnd
<1>4. w = SubSeq(s, 1, k - 1)
  BY <1>2 DEF FirstWord
<1> HIDE DEF w
<1>5. w \in Seq(X) /\ Len(w) = k - 1 /\ \A i \in 1 .. k - 1 : w[i] = s[i]
  BY <1>3, <1>4, CutBefore
<1>11. Len(w) = k - 1 /\ k \in Nat /\ k >= 1 /\ k <= Len(s) + 1 /\ Len(s) \in Nat
  BY <1>1, <1>3, <1>5
<1>6. Len(w) \in 0 .. Len(s) /\ Len(w) + 1 = k
  <2> HIDE DEF T
  <2>1. QED BY <1>11
<1>7. ASSUME Len(w) < Len(s) PROVE s[Len(w) + 1] = " "
  <2>1. k # Len(s) + 1
    <3> HIDE DEF T
    <3>1. QED BY <1>7, <1>11
  <2>2. k \in T
    BY <1>3, <2>1
  <2>3. QED BY <1>6, <2>2
<1>8. ASSUME NEW i \in 1 .. Len(w) PROVE w[i] = s[i] /\ w[i] # " "
  <2>1. i \in 1 .. k - 1
    BY <1>5
  <2>2. i \in DOMAIN s /\ i \notin T /\ w[i] = s[i]
    BY <1>1, <1>3, <1>5, <2>1
  <2>3. QED BY <2>2
<1>9. QED BY <1>5, <1>6, <1>7, <1>8 DEF w, WordOf

(* A verb, blanks and an argument are the line.                            *)
SplitsAs(s, w, gap, a) ==
  /\ gap \in Nat /\ s = w \o [i \in 1 .. gap |-> " "] \o a
  /\ a # <<>> => gap > 0 /\ a[1] # " "

LEMMA TwoParts ==
  ASSUME NEW Y, NEW w \in Seq(Y), NEW g \in Seq(Y)
  PROVE  /\ w \o g \in Seq(Y) /\ Len(w \o g) = Len(w) + Len(g)
         /\ \A i \in 1 .. Len(w) : (w \o g)[i] = w[i]
         /\ \A i \in 1 .. Len(g) : (w \o g)[Len(w) + i] = g[i]
<1> DEFINE u == w \o g
<1>1. /\ u \in Seq(Y) /\ Len(u) = Len(w) + Len(g) /\ Len(w) \in Nat /\ Len(g) \in Nat
      /\ \A i \in 1 .. Len(w) + Len(g) : u[i] = IF i <= Len(w) THEN w[i] ELSE g[i - Len(w)]
  BY ConcatProperties
<1> HIDE DEF u
<1>2. ASSUME NEW i \in 1 .. Len(w) PROVE u[i] = w[i]
  <2>1. i \in 1 .. Len(w) + Len(g) /\ i <= Len(w)
    BY <1>1
  <2>2. QED BY <1>1, <2>1
<1>3. ASSUME NEW i \in 1 .. Len(g) PROVE u[Len(w) + i] = g[i]
  <2>1. Len(w) + i \in 1 .. Len(w) + Len(g) /\ ~(Len(w) + i <= Len(w)) /\ Len(w) + i - Len(w) = i
    BY <1>1
  <2>2. QED BY <1>1, <2>1
<1>4. QED BY <1>1, <1>2, <1>3 DEF u

LEMMA ThreeParts ==
  ASSUME NEW Y, NEW s \in Seq(Y), NEW w \in Seq(Y), NEW g \in Seq(Y), NEW a \in Seq(Y),
         Len(s) = Len(w) + Len(g) + Len(a),
         \A i \in 1 .. Len(w) : s[i] = w[i], \A i \in 1 .. Len(g) : s[Len(w) + i] = g[i],
         \A i \in 1 .. Len(a) : s[Len(w) + Len(g) + i] = a[i]
  PROVE  s = w \o g \o a
<1>1. PICK u : u = w \o g
  OBVIOUS
<1>2. PICK v : v = u \o a
  OBVIOUS
<1>3. /\ u \in Seq(Y) /\ Len(u) = Len(w) + Len(g)
      /\ (\A i \in 1 .. Len(w) : u[i] = w[i]) /\ \A i \in 1 .. Len(g) : u[Len(w) + i] = g[i]
  BY <1>1, TwoParts
<1>4. /\ v \in Seq(Y) /\ Len(v) = Len(u) + Len(a)
      /\ (\A i \in 1 .. Len(u) : v[i] = u[i]) /\ \A i \in 1 .. Len(a) : v[Len(u) + i] = a[i]
  <2>1. u \in Seq(Y)
    BY <1>3
  <2>2. QED BY <1>2, <2>1, TwoParts
<1>5. Len(w) \in Nat /\ Len(g) \in Nat /\ Len(a) \in Nat
  OBVIOUS
<1>6. ASSUME NEW i \in 1 .. Len(s) PROVE s[i] = v[i]
  <2>1. CASE i \in 1 .. Len(w)
    <3>1. i \in 1 .. Len(u)
      BY <1>3, <1>5, <2>1
    <3>2. QED BY <1>3, <1>4, <2>1, <3>1
  <2>2. CASE i \in Len(w) + 1 .. Len(w) + Len(g)
    <3>1. i - Len(w) \in 1 .. Len(g) /\ i = Len(w) + (i - Len(w)) /\ i \in 1 .. Len(u)
      BY <1>3, <1>5, <2>2
    <3>2. u[i] = g[i - Len(w)] /\ s[i] = g[i - Len(w)] /\ v[i] = u[i]
      BY <1>3, <1>4, <3>1
    <3>3. QED BY <3>2
  <2>3. CASE i \in Len(w) + Len(g) + 1 .. Len(s)
    <3>1. i - Len(u) \in 1 .. Len(a) /\ i = Len(w) + Len(g) + (i - Len(u)) /\ i = Len(u) + (i - Len(u))
      BY <1>3, <1>5, <2>3
    <3>2. s[i] = a[i - Len(u)] /\ v[i] = a[i - Len(u)]
      BY <1>4, <3>1
    <3>3. QED BY <3>2
  <2>4. QED BY <1>5, <2>1, <2>2, <2>3
<1>7. Len(s) = Len(v)
  BY <1>3, <1>4
<1>8. s = v
  BY <1>4, <1>6, <1>7, SeqEqual
<1>9. QED BY <1>1, <1>2, <1>8

LEMMA RestIs ==
  ASSUME NEW X, NEW s \in Seq(X), NEW n \in Nat, n <= Len(s)
  PROVE  /\ SubSeq(s, n + 1, Len(s)) \in Seq(X) /\ Len(SubSeq(s, n + 1, Len(s))) = Len(s) - n
         /\ Len(s) - n \in Nat
         /\ \A i \in 1 .. Len(s) - n : SubSeq(s, n + 1, Len(s))[i] = s[n + i]
<1> DEFINE r == SubSeq(s, n + 1, Len(s))
<1>1. Len(s) \in Nat
  OBVIOUS
<1>2. n + 1 \in Nat \ {0} /\ Len(s) \in 0 .. Len(s) /\ n + 1 <= Len(s) + 1 /\ Len(s) - (n + 1) + 1 = Len(s) - n
      /\ Len(s) - n \in Nat
  BY <1>1
<1>3. /\ r \in Seq(X) /\ Len(r) = Len(s) - (n + 1) + 1
      /\ \A i \in 1 .. Len(s) - (n + 1) + 1 : r[i] = s[n + 1 + i - 1]
  BY <1>2, SubIs
<1> HIDE DEF r
<1>4. \A i \in 1 .. Len(s) - n : n + 1 + i - 1 = n + i
  BY <1>1
<1>5. QED BY <1>2, <1>3, <1>4 DEF r

LEMMA LineSplits ==
  ASSUME NEW X, NEW s \in Seq(X)
  PROVE  SplitsAs(s, FirstWord(s), Len(s) - Len(FirstWord(s)) - Len(Arg(s)), Arg(s))
<1>1. PICK w : w = FirstWord(s)
  OBVIOUS
<1>2. PICK n : n = Len(w)
  OBVIOUS
<1>3. PICK l : l = Len(s)
  OBVIOUS
<1>4. PICK a : a = Arg(s)
  OBVIOUS
<1>5. PICK rest : rest = SubSeq(s, n + 1, l)
  OBVIOUS
<1>6. w \in Seq(X) /\ n \in 0 .. l /\ (\A i \in 1 .. n : w[i] = s[i]) /\ (n < l => s[n + 1] = " ")
  BY <1>1, <1>2, <1>3, FirstWordIs DEF WordOf
<1>7. n \in Nat /\ l \in Nat /\ n <= l
  <2>1. n \in 0 .. l
    BY <1>6
  <2>2. l \in Nat
    BY <1>3
  <2>3. QED BY <2>1, <2>2
<1>8. rest \in Seq(X) /\ Len(rest) = l - n /\ \A i \in 1 .. l - n : rest[i] = s[n + i]
  BY <1>3, <1>5, <1>7, RestIs
<1>9. a = Skip(rest, {" "})
  BY <1>1, <1>2, <1>3, <1>4, <1>5 DEF Arg
<1>10. PICK m : SkippedBy(m, a, rest, {" "}, X)
  BY <1>8, <1>9, SkipIs
<1>11. m \in 0 .. l - n /\ a \in Seq(X) /\ Len(a) = l - n - m /\ (a # <<>> => a[1] # " ")
  BY <1>8, <1>10 DEF SkippedBy
<1>12. (\A i \in 1 .. m : rest[i] = " ") /\ \A i \in 1 .. l - n - m : a[i] = rest[m + i]
  BY <1>8, <1>10 DEF SkippedBy
<1>13. m \in Nat /\ m <= l - n
  <2>1. m \in 0 .. l - n
    BY <1>11
  <2>2. QED BY <1>7, <2>1
<1>14. l - n - Len(a) = m /\ l - n - m \in Nat /\ l = n + m + (l - n - m)
  <2>1. Len(a) = l - n - m
    BY <1>11
  <2>2. QED BY <1>7, <1>13, <2>1
<1>15. ASSUME a # <<>> PROVE m > 0
  <2>1. SUFFICES ASSUME m = 0 PROVE FALSE
    BY <1>13
  <2>2. Len(a) # 0 /\ Len(a) \in Nat
    <3>1. a \in Seq(X)
      BY <1>11
    <3>2. QED BY <1>15, <3>1
  <2>3. n < l
    <3>1. Len(a) = l - n
      BY <1>7, <1>14, <2>1, <2>2
    <3>2. QED BY <1>7, <2>2, <3>1
  <2>4. 1 \in 1 .. l - n /\ 1 \in 1 .. l - n - m /\ m + 1 = 1
    BY <1>7, <2>1, <2>3
  <2>5. a[1] = rest[1]
    <3>1. a[1] = rest[m + 1]
      BY <1>12, <2>4
    <3>2. QED BY <2>4, <3>1
  <2>6. rest[1] = s[n + 1]
    BY <1>8, <2>4
  <2>7. QED BY <1>6, <1>11, <1>15, <2>3, <2>5, <2>6
<1> DEFINE g == [i \in 1 .. m |-> " "]
           Y == X \cup {" "}
<1>16. g \in Seq(Y) /\ Len(g) = m /\ \A i \in 1 .. m : g[i] = " "
  BY <1>13
<1>17. w \in Seq(Y) /\ a \in Seq(Y) /\ s \in Seq(Y)
  <2>1. X \subseteq Y
    OBVIOUS
  <2> HIDE DEF Y
  <2>2. QED BY <1>6, <1>11, <2>1, SeqMonotonic
<1> HIDE DEF g, Y
<1>18. \A i \in 1 .. Len(g) : s[Len(w) + i] = g[i]
  <2>1. \A i \in 1 .. m : i \in 1 .. l - n
    BY <1>7, <1>13
  <2>2. \A i \in 1 .. m : s[n + i] = g[i]
    BY <1>8, <1>12, <1>16, <2>1
  <2>3. QED BY <1>2, <1>16, <2>2
<1>19. \A i \in 1 .. Len(a) : s[Len(w) + Len(g) + i] = a[i]
  <2>1. ASSUME NEW i \in 1 .. l - n - m PROVE s[n + m + i] = a[i]
    <3>1. m + i \in 1 .. l - n /\ n + (m + i) = n + m + i
      BY <1>7, <1>13
    <3>2. a[i] = rest[m + i] /\ rest[m + i] = s[n + (m + i)]
      BY <1>8, <1>12, <3>1
    <3>3. QED BY <3>1, <3>2
  <2>2. Len(a) = l - n - m /\ Len(w) = n /\ Len(g) = m
    BY <1>2, <1>11, <1>16
  <2>3. QED BY <2>1, <2>2, Zenon
<1>20. s = w \o g \o a
  <2>1. Len(s) = Len(w) + Len(g) + Len(a)
    <3>1. Len(a) = l - n - m /\ Len(w) = n /\ Len(g) = m
      BY <1>2, <1>11, <1>16
    <3>2. QED BY <1>3, <1>14, <3>1
  <2>2. \A i \in 1 .. Len(w) : s[i] = w[i]
    BY <1>2, <1>6
  <2>3. g \in Seq(Y)
    BY <1>16
  <2>4. QED BY <1>17, <1>18, <1>19, <2>1, <2>2, <2>3, ThreeParts
<1>21. SplitsAs(s, w, l - n - Len(a), a)
  <2>1. l - n - Len(a) = m
    BY <1>14
  <2>2. SplitsAs(s, w, m, a)
    BY <1>11, <1>13, <1>15, <1>20 DEF SplitsAs, g
  <2>3. QED BY <2>1, <2>2
<1>22. QED BY <1>1, <1>2, <1>3, <1>4, <1>21

LEMMA OffAndOn ==
  ASSUME NEW X, NEW w \in Seq(X), w # <<>>, NEW c, w[1] = c
  PROVE  <<c>> \o Tail(w) = w
<1> DEFINE Y == X \cup {c}
<1>1. /\ Tail(w) \in Seq(X) /\ Len(Tail(w)) = Len(w) - 1 /\ Len(w) \in Nat \ {0}
      /\ \A i \in 1 .. Len(w) - 1 : Tail(w)[i] = w[i + 1]
  BY HeadTailProperties
<1>2. w \in Seq(Y) /\ Tail(w) \in Seq(Y)
  <2>1. X \subseteq Y
    OBVIOUS
  <2> HIDE DEF Y
  <2>2. QED BY <1>1, <2>1, SeqMonotonic
<1>3. <<c>> \in Seq(Y) /\ Len(<<c>>) = 1 /\ <<c>>[1] = c
  OBVIOUS
<1> HIDE DEF Y
<1>4. PICK o : o = <<c>>
  OBVIOUS
<1>5. PICK t : t = Tail(w)
  OBVIOUS
<1>6. PICK v : v = o \o t
  OBVIOUS
<1>7. v \in Seq(Y) /\ Len(v) = Len(w) /\ v[1] = c /\ \A i \in 1 .. Len(w) - 1 : v[1 + i] = w[i + 1]
  <2>1. o \in Seq(Y) /\ t \in Seq(Y) /\ Len(o) = 1 /\ Len(t) = Len(w) - 1 /\ o[1] = c
    BY <1>1, <1>2, <1>3, <1>4, <1>5
  <2>2. /\ v \in Seq(Y) /\ Len(v) = Len(o) + Len(t)
        /\ (\A i \in 1 .. Len(o) : v[i] = o[i]) /\ \A i \in 1 .. Len(t) : v[Len(o) + i] = t[i]
    <3>1. o \in Seq(Y) /\ t \in Seq(Y)
      BY <2>1
    <3>2. QED BY <1>6, <3>1, TwoParts
  <2>3. 1 \in 1 .. 1 /\ 1 + (Len(w) - 1) = Len(w)
    BY <1>1
  <2>4. \A i \in 1 .. Len(w) - 1 : t[i] = w[i + 1]
    BY <1>1, <1>5
  <2>5. QED BY <2>1, <2>2, <2>3, <2>4
<1>8. ASSUME NEW i \in 1 .. Len(w) PROVE v[i] = w[i]
  <2>1. CASE i = 1
    BY <1>7, <2>1
  <2>2. CASE i # 1
    <3>1. i - 1 \in 1 .. Len(w) - 1 /\ 1 + (i - 1) = i /\ i - 1 + 1 = i
      BY <1>1, <2>2
    <3>2. v[1 + (i - 1)] = w[i - 1 + 1]
      BY <1>7, <3>1
    <3>3. QED BY <3>1, <3>2
  <2>3. QED BY <2>1, <2>2
<1>9. v = w
  BY <1>2, <1>7, <1>8, SeqEqual
<1>10. QED BY <1>4, <1>5, <1>6, <1>9

Routed(r, body, custom) ==
  /\ r.to = "custom" => r.text \in custom
  /\ r.to = "builtin" => r.text \in Builtin
  /\ r.to \in {"builtin", "custom"} /\ Len(FirstWord(body)) <= VerbMax =>
       (IF r.to = "custom" THEN <<"/">> \o r.text ELSE r.text) = FirstWord(body) /\ r.arg = Arg(body)

LEMMA CommandIs ==
  ASSUME NEW X, NEW body \in Seq(X), NEW custom, At(body, 1) = "/"
  PROVE  LET r == Command(body, custom)
         IN Routed(r, body, custom) /\ r.to \in {"builtin", "custom", "nobody"}
<1> DEFINE r == Command(body, custom)
<1>1. PICK verb : verb = Verb(body)
  OBVIOUS
<1>2. PICK w : w = FirstWord(body)
  OBVIOUS
<1>3. PICK n : n = Len(w)
  OBVIOUS
<1>4. PICK l : l = Len(body)
  OBVIOUS
<1>5. w \in Seq(X) /\ n \in 0 .. l /\ (\A i \in 1 .. n : w[i] = body[i]) /\ (n < l => body[n + 1] = " ")
  BY <1>2, <1>3, <1>4, FirstWordIs DEF WordOf
<1>6. n \in Nat /\ l \in Nat /\ n <= l
  <2>1. n \in 0 .. l
    BY <1>5
  <2>2. l \in Nat
    BY <1>4
  <2>3. QED BY <2>1, <2>2
<1>7. ASSUME n <= VerbMax PROVE verb = w /\ <<"/">> \o Tail(w) = w
  <2>1. VerbMax \in Nat
    BY CommandsAssumption
  <2>2. ~(n > VerbMax)
    BY <1>6, <1>7, <2>1
  <2>3. verb = SubSeq(w, 1, n)
    BY <1>1, <1>2, <1>3, <2>2 DEF Verb
  <2>4. verb = w
    BY <1>3, <1>5, <2>3, SubSeqFull
  <2>5. 1 \in DOMAIN body /\ body[1] = "/"
    BY DEF At
  <2>6. 1 <= l
    <3>1. 1 \in 1 .. l
      BY <1>4, <2>5
    <3>2. QED BY <1>6, <3>1
  <2>7. n # 0
    <3>1. SUFFICES ASSUME n = 0 PROVE FALSE
      OBVIOUS
    <3>2. n < l /\ n + 1 = 1
      BY <1>6, <2>6, <3>1
    <3>3. body[1] = " "
      BY <1>5, <3>2
    <3>4. QED BY <2>5, <3>3
  <2>8. 1 \in 1 .. n
    BY <1>6, <2>7
  <2>9. w # <<>> /\ w[1] = "/"
    <3>1. w[1] = body[1]
      BY <1>5, <2>8
    <3>2. w # <<>>
      BY <1>3, <2>7
    <3>3. QED BY <2>5, <3>1, <3>2
  <2>10. QED BY <1>5, <2>4, <2>9, OffAndOn
<1>8. CASE verb \in Builtin
  <2>1. r = [to |-> "builtin", text |-> verb, arg |-> Arg(body)]
    BY <1>1, <1>8 DEF Command
  <2>2. QED BY <1>2, <1>3, <1>7, <1>8, <2>1 DEF Routed
<1>9. CASE verb \notin Builtin /\ Sane(CustomName(verb)) /\ CustomName(verb) \in custom
  <2>1. r = [to |-> "custom", text |-> CustomName(verb), arg |-> Arg(body)]
    BY <1>1, <1>9 DEF Command
  <2>2. CustomName(verb) = Tail(verb)
    BY DEF CustomName
  <2>3. QED BY <1>2, <1>3, <1>7, <1>9, <2>1, <2>2 DEF Routed
<1>10. CASE verb \notin Builtin /\ ~(Sane(CustomName(verb)) /\ CustomName(verb) \in custom)
  <2>1. r = Nobody
    BY <1>1, <1>10 DEF Command
  <2>2. QED BY <2>1 DEF Routed, Nobody
<1>11. QED BY <1>8, <1>9, <1>10

LEMMA SkipNothing ==
  ASSUME NEW X, NEW s \in Seq(X), NEW chars, s = <<>> \/ s[1] \notin chars
  PROVE  At(Skip(s, chars), 1) = At(s, 1)
<1>1. PICK t : t = Skip(s, chars)
  OBVIOUS
<1>2. PICK m : SkippedBy(m, t, s, chars, X)
  BY <1>1, SkipIs
<1>3. /\ m \in 0 .. Len(s) /\ t \in Seq(X) /\ Len(t) = Len(s) - m /\ Len(s) \in Nat
      /\ (\A i \in 1 .. m : s[i] \in chars) /\ \A i \in 1 .. Len(s) - m : t[i] = s[m + i]
  BY <1>2 DEF SkippedBy
<1>4. m = 0
  <2>1. SUFFICES ASSUME m # 0 PROVE FALSE
    OBVIOUS
  <2>2. 1 \in 1 .. m /\ Len(s) # 0
    BY <1>3, <2>1
  <2>3. s[1] \in chars
    BY <1>3, <2>2
  <2>4. s # <<>>
    BY <2>2
  <2>5. QED BY <2>3, <2>4
<1>5. Len(t) = Len(s) /\ \A i \in 1 .. Len(s) : t[i] = s[i]
  <2>1. Len(s) - 0 = Len(s) /\ \A i \in 1 .. Len(s) : 0 + i = i
    BY <1>3
  <2>2. QED BY <1>3, <1>4, <2>1
<1>6. t = s
  BY <1>3, <1>5, SeqEqual
<1>7. QED BY <1>1, <1>6

LEMMA TaskIsRouted ==
  ASSUME NEW X, NEW task \in Seq(X), NEW custom
  PROVE  RightReader(task, custom)
<1>1. PICK r : r = Reader(task, custom)
  OBVIOUS
<1>2. PICK body : body = Skip(task, Blanks)
  OBVIOUS
<1>3. body \in Seq(X)
  <2>1. \E m : SkippedBy(m, Skip(task, Blanks), task, Blanks, X)
    BY SkipIs
  <2>2. QED BY <1>2, <2>1 DEF SkippedBy
<1>4. PICK first : first = At(task, 1)
  OBVIOUS
<1>5. PICK next : next = At(body, 1)
  OBVIOUS
<1>6. r = CASE task = <<>> -> Nobody
            [] first = "!" -> [to |-> "shell", text |-> Skip(Tail(task), Blanks), arg |-> <<>>]
            [] next = "/" -> Command(body, custom)
            [] OTHER -> [to |-> "model", text |-> task, arg |-> <<>>]
  BY <1>1, <1>2, <1>4, <1>5 DEF Reader
<1>7. /\ r.to = "model" => r.text = task /\ next # "/"
      /\ r.to = "shell" <=> first = "!"
      /\ Routed(r, body, custom)
  <2>1. task = <<>> => first = "end"
    BY <1>4 DEF At
  <2>7. task = <<>> \/ first = "!" => next = first
    <3>1. first = "!" => task[1] \notin Blanks
      BY <1>4 DEF At, Blanks
    <3>2. QED BY <1>2, <1>4, <1>5, <3>1, SkipNothing
  <2>2. CASE task = <<>>
    <3>1. r = Nobody
      BY <1>6, <2>1, <2>2, <2>7
    <3>3. QED BY <3>1, <2>1, <2>2 DEF Nobody, Routed
  <2>3. CASE first = "!"
    <3>1. r = [to |-> "shell", text |-> Skip(Tail(task), Blanks), arg |-> <<>>]
      BY <1>6, <2>1, <2>3, <2>7
    <3>2. QED BY <2>3, <3>1 DEF Routed
  <2>4. CASE task # <<>> /\ first # "!" /\ next = "/"
    <3>1. r = Command(body, custom)
      BY <1>6, <2>4
    <3>2. Routed(r, body, custom) /\ r.to \in {"builtin", "custom", "nobody"}
      BY <1>3, <1>5, <2>4, <3>1, CommandIs
    <3>3. QED BY <2>4, <3>2
  <2>5. CASE task # <<>> /\ first # "!" /\ next # "/"
    <3>1. r = [to |-> "model", text |-> task, arg |-> <<>>]
      BY <1>6, <2>5
    <3>2. QED BY <2>5, <3>1 DEF Routed
  <2>6. QED BY <2>2, <2>3, <2>4, <2>5
<1>8. ASSUME r.to \in {"builtin", "custom"}, Len(FirstWord(body)) <= VerbMax,
             NEW verb, verb = IF r.to = "custom" THEN <<"/">> \o r.text ELSE r.text,
             NEW gap, gap = Len(body) - Len(verb) - Len(r.arg)
      PROVE  /\ gap >= 0 /\ body = verb \o [i \in 1 .. gap |-> " "] \o r.arg
             /\ r.arg # <<>> => gap > 0 /\ r.arg[1] # " "
  <2>1. verb = FirstWord(body) /\ r.arg = Arg(body)
    BY <1>7, <1>8 DEF Routed
  <2>2. SplitsAs(body, verb, gap, r.arg)
    BY <1>3, <1>8, <2>1, LineSplits
  <2>3. gap >= 0
    <3>1. gap \in Nat
      BY <2>2 DEF SplitsAs
    <3>2. QED BY <3>1
  <2>4. QED BY <2>2, <2>3 DEF SplitsAs
<1>9. QED
  <2> DEFINE verb == IF r.to = "custom" THEN <<"/">> \o r.text ELSE r.text
             gap == Len(body) - Len(verb) - Len(r.arg)
  <2>1. r.to \in {"builtin", "custom"} /\ Len(FirstWord(body)) <= VerbMax =>
          /\ gap >= 0 /\ body = verb \o [i \in 1 .. gap |-> " "] \o r.arg
          /\ r.arg # <<>> => gap > 0 /\ r.arg[1] # " "
    <3> HIDE DEF gap, verb
    <3>1. verb = (IF r.to = "custom" THEN <<"/">> \o r.text ELSE r.text) /\ gap = Len(body) - Len(verb) - Len(r.arg)
      BY DEF verb, gap
    <3>2. QED BY <1>8, <3>1
  <2> HIDE DEF gap, verb
  <2>2. QED BY <1>1, <1>2, <1>4, <1>5, <1>7, <2>1 DEF RightReader, Routed, gap, verb

(* A custom command's template, step by step: each step adds a text and    *)
(* what is run, and goes on further to the right.                          *)
Expansion(X) == [at : Nat \ {0}, text : Seq(X), ran : Seq(Seq(X))]

ExpandStep(k, j, w, r, t, C) ==
  /\ j \in Nat /\ j > k /\ w \in Seq(C \cup {"out"}) /\ r \in Seq(Seq(C))
  /\ \A e, arg : \A X : e \in Expansion(X) /\ e.at = k =>
       ExpandAt(e, t, arg) = [at |-> j, text |-> e.text \o (IF t[k] = "$ARGUMENTS" THEN arg ELSE w),
                              ran |-> e.ran \o r]

LEMMA ConcatOne ==
  ASSUME NEW X, NEW s \in Seq(X), NEW c
  PROVE  s \o <<c>> = Append(s, c) /\ s \o <<>> = s
OBVIOUS

LEMMA ExpandStepIs ==
  ASSUME NEW C, NEW t \in Seq(C), NEW k \in Nat \ {0}, k <= Len(t)
  PROVE  \E j, w, r : ExpandStep(k, j, w, r, t, C)
<1> DEFINE ends == {i \in k + 2 .. Len(t) : t[i] = "tick"}
<1>1. Len(t) \in Nat /\ k + 1 \in Nat /\ k + 1 > k /\ ~(k > Len(t))
  OBVIOUS
<1>2. <<>> \in Seq(C \cup {"out"}) /\ <<>> \in Seq(Seq(C))
  OBVIOUS
<1>3. CASE t[k] = "$ARGUMENTS"
  <2>1. ASSUME NEW e, NEW arg, NEW X, e \in Expansion(X), e.at = k
        PROVE  ExpandAt(e, t, arg) = [at |-> k + 1, text |-> e.text \o arg, ran |-> e.ran \o <<>>]
    <3>1. ExpandAt(e, t, arg) = [at |-> k + 1, text |-> e.text \o arg, ran |-> e.ran]
      BY <1>1, <1>3, <2>1 DEF ExpandAt
    <3>2. e.ran \in Seq(Seq(X))
      BY <2>1 DEF Expansion
    <3>3. e.ran \o <<>> = e.ran
      BY <3>2, ConcatOne
    <3>4. QED BY <3>1, <3>3
  <2>2. ExpandStep(k, k + 1, <<>>, <<>>, t, C)
    BY <1>1, <1>2, <1>3, <2>1 DEF ExpandStep
  <2>3. QED BY <2>2
<1>4. CASE t[k] # "$ARGUMENTS" /\ t[k] = "!" /\ At(t, k + 1) = "tick" /\ ends # {}
  <2> DEFINE j == Least(ends)
             cmd == SubSeq(t, k + 2, j - 1)
  <2>1. j \in ends
    <3>1. ends \subseteq Nat
      BY <1>1
    <3> HIDE DEF ends
    <3>2. QED BY <1>4, <3>1, LeastIs
  <2>2. j \in Nat /\ j >= k + 2 /\ j <= Len(t)
    <3>1. j \in k + 2 .. Len(t)
      BY <2>1
    <3> HIDE DEF j
    <3>2. QED BY <1>1, <3>1
  <2>3. ASSUME NEW e, NEW arg, NEW X, e \in Expansion(X), e.at = k
        PROVE  ExpandAt(e, t, arg) = [at |-> j + 1, text |-> e.text \o Output(cmd), ran |-> e.ran \o <<cmd>>]
    <3>1. ExpandAt(e, t, arg) = [at |-> j + 1, text |-> e.text \o Output(cmd), ran |-> Append(e.ran, cmd)]
      BY <1>1, <1>4, <2>3 DEF ExpandAt
    <3> HIDE DEF cmd
    <3>2. e.ran \in Seq(Seq(X))
      BY <2>3 DEF Expansion
    <3>3. e.ran \o <<cmd>> = Append(e.ran, cmd)
      BY <3>2, ConcatOne
    <3>4. QED BY <3>1, <3>3
  <2> HIDE DEF ends, j
  <2>4. cmd \in Seq(C)
    <3>1. k + 2 \in Nat \ {0} /\ j - 1 \in 0 .. Len(t) /\ k + 2 <= j - 1 + 1
      BY <1>1, <2>2
    <3>2. QED BY <3>1, SubIs
  <2> HIDE DEF cmd
  <2>5. Output(cmd) \in Seq(C \cup {"out"}) /\ <<cmd>> \in Seq(Seq(C))
    <3>1. C \subseteq C \cup {"out"} /\ <<"out">> \in Seq(C \cup {"out"})
      OBVIOUS
    <3>2. cmd \in Seq(C \cup {"out"})
      BY <2>4, <3>1, SeqMonotonic
    <3>3. Output(cmd) \in Seq(C \cup {"out"})
      BY <3>1, <3>2, ConcatIs DEF Output
    <3>4. QED BY <2>4, <3>3
  <2>6. j + 1 \in Nat /\ j + 1 > k
    BY <2>2
  <2>7. ExpandStep(k, j + 1, Output(cmd), <<cmd>>, t, C)
    BY <1>4, <2>3, <2>5, <2>6 DEF ExpandStep
  <2>8. QED BY <2>7
<1>5. CASE t[k] # "$ARGUMENTS" /\ ~(t[k] = "!" /\ At(t, k + 1) = "tick" /\ ends # {})
  <2>1. ASSUME NEW e, NEW arg, NEW X, e \in Expansion(X), e.at = k
        PROVE  ExpandAt(e, t, arg) = [at |-> k + 1, text |-> e.text \o <<t[k]>>, ran |-> e.ran \o <<>>]
    <3>1. ExpandAt(e, t, arg) = [at |-> k + 1, text |-> Append(e.text, t[k]), ran |-> e.ran]
      BY <1>1, <1>5, <2>1 DEF ExpandAt
    <3>2. e.ran \in Seq(Seq(X)) /\ e.text \in Seq(X)
      BY <2>1 DEF Expansion
    <3>3. e.ran \o <<>> = e.ran /\ e.text \o <<t[k]>> = Append(e.text, t[k])
      BY <3>2, ConcatOne
    <3>4. QED BY <3>1, <3>3
  <2>2. <<t[k]>> \in Seq(C \cup {"out"})
    <3>1. t[k] \in C
      BY <1>1
    <3>2. QED BY <3>1
  <2>3. ExpandStep(k, k + 1, <<t[k]>>, <<>>, t, C)
    BY <1>1, <1>2, <1>5, <2>1, <2>2 DEF ExpandStep
  <2>4. QED BY <2>3
<1>6. QED BY <1>3, <1>4, <1>5

LEMMA ExpandAtIn ==
  ASSUME NEW C, NEW t \in Seq(C), NEW X, C \cup {"out"} \subseteq X, NEW arg \in Seq(X), NEW e \in Expansion(X)
  PROVE  ExpandAt(e, t, arg) \in Expansion(X)
<1>1. e.at \in Nat \ {0} /\ e.text \in Seq(X) /\ e.ran \in Seq(Seq(X)) /\ Len(t) \in Nat
  BY DEF Expansion
<1>2. CASE e.at > Len(t)
  BY <1>2 DEF ExpandAt
<1>3. CASE e.at <= Len(t)
  <2>1. PICK j, w, r : ExpandStep(e.at, j, w, r, t, C)
    BY <1>1, <1>3, ExpandStepIs
  <2>2. j \in Nat /\ j > e.at /\ w \in Seq(C \cup {"out"}) /\ r \in Seq(Seq(C))
    BY <2>1 DEF ExpandStep
  <2>3. ExpandAt(e, t, arg) = [at |-> j, text |-> e.text \o (IF t[e.at] = "$ARGUMENTS" THEN arg ELSE w),
                               ran |-> e.ran \o r]
    BY <2>1 DEF ExpandStep
  <2>4. PICK more : more = IF t[e.at] = "$ARGUMENTS" THEN arg ELSE w
    OBVIOUS
  <2>5. w \in Seq(X)
    BY <2>2, SeqMonotonic
  <2>6. more \in Seq(X)
    BY <2>4, <2>5
  <2>7. r \in Seq(Seq(X))
    <3>1. C \subseteq X
      OBVIOUS
    <3>2. Seq(C) \subseteq Seq(X)
      BY <3>1, SeqMonotonic
    <3>3. QED BY <2>2, <3>2, SeqMonotonic
  <2>8. e.text \o more \in Seq(X) /\ e.ran \o r \in Seq(Seq(X))
    BY <1>1, <2>6, <2>7, ConcatIs
  <2>9. j \in Nat \ {0}
    BY <1>1, <2>2
  <2>10. QED BY <2>3, <2>4, <2>8, <2>9 DEF Expansion
<1>4. QED BY <1>1, <1>2, <1>3

(* The template from its beginning.                                        *)
ExpandsBy(f, t, arg, X) ==
  /\ f \in [0 .. Len(t) -> Expansion(X)]
  /\ f[0] = [at |-> 1, text |-> <<>>, ran |-> <<>>]
  /\ \A n \in 1 .. Len(t) : f[n] = ExpandAt(f[n - 1], t, arg)
  /\ Expand(t, arg) = f[Len(t)]

LEMMA ExpandIs ==
  ASSUME NEW C, NEW t \in Seq(C), NEW X, C \cup {"out"} \subseteq X, NEW arg \in Seq(X)
  PROVE  \E f : ExpandsBy(f, t, arg, X)
<1> DEFINE N == Len(t)
           T == Expansion(X)
           next(n, r) == ExpandAt(r, t, arg)
           body(f) == [n \in 0 .. N |-> IF n = 0 THEN [at |-> 1, text |-> <<>>, ran |-> <<>>] ELSE ExpandAt(f[n - 1], t, arg)]
           upTo == CHOOSE f : f = body(f)
           d == [p \in Nat \X T |-> IF p[1] \in 1 .. N THEN next(p[1], p[2]) ELSE [at |-> 1, text |-> <<>>, ran |-> <<>>]]
<1>1. N \in Nat /\ [at |-> 1, text |-> <<>>, ran |-> <<>>] \in T
  BY DEF Expansion
<1>2. \A n \in 1 .. N, r \in T : next(n, r) \in T
  BY ExpandAtIn
<1>3. PICK g \in [0 .. N -> T] : IsRun(g, [at |-> 1, text |-> <<>>, ran |-> <<>>], d, N)
  <2>1. d \in [Nat \X T -> T]
    BY <1>1, <1>2
  <2> HIDE DEF d, N, T
  <2>2. QED BY <1>1, <2>1, FiniteRecursion
<1>4. ASSUME NEW n \in 1 .. N PROVE g[n] = next(n, g[n - 1])
  <2>1. n - 1 \in 0 .. N /\ n \in Nat
    BY <1>1
  <2>2. g[n - 1] \in T
    BY <1>3, <2>1
  <2>3. d[<<n, g[n - 1]>>] = next(n, g[n - 1])
    <3> HIDE DEF next, T
    <3>1. QED BY <2>1, <2>2
  <2>4. QED BY <1>3, <2>3 DEF IsRun
<1>5. g = body(g)
  <2>1. ASSUME NEW n \in 0 .. N PROVE g[n] = body(g)[n]
    <3>1. n = 0 \/ n \in 1 .. N
      BY <1>1
    <3>2. QED BY <1>3, <1>4, <3>1 DEF IsRun
  <2>2. QED BY <1>3, <2>1
<1>6. upTo = body(upTo)
  <2> HIDE DEF body
  <2>1. QED BY <1>5
<1>7. Expand(t, arg) = upTo[N]
  BY DEF Expand
<1> HIDE DEF upTo
<1>8. upTo[0] = [at |-> 1, text |-> <<>>, ran |-> <<>>] /\ \A n \in 1 .. N : upTo[n] = next(n, upTo[n - 1])
  <2>1. \A n \in 0 .. N : upTo[n] = body(upTo)[n]
    BY <1>6
  <2>2. 0 \in 0 .. N /\ \A n \in 1 .. N : n \in 0 .. N /\ n # 0
    BY <1>1
  <2>3. QED BY <2>1, <2>2
<1>9. \A n \in 0 .. N : upTo[n] = g[n]
  <2> DEFINE P == {n \in 0 .. N : upTo[n] = g[n]}
  <2> HIDE DEF next
  <2>1. 0 \in P
    BY <1>1, <1>3, <1>8 DEF IsRun
  <2>2. ASSUME NEW n \in 1 .. N, n - 1 \in P PROVE n \in P
    <3>1. n \in 0 .. N /\ upTo[n - 1] = g[n - 1]
      BY <1>1, <2>2
    <3>2. upTo[n] = next(n, upTo[n - 1])
      BY <1>8
    <3>3. g[n] = next(n, g[n - 1])
      BY <1>4
    <3>4. upTo[n] = g[n]
      BY <3>1, <3>2, <3>3, Zenon
    <3>5. QED BY <3>1, <3>4
  <2>3. 0 .. N \subseteq P
    <3> HIDE DEF P
    <3>1. QED BY <1>1, <2>1, <2>2, UpTo
  <2>4. QED BY <2>3
<1>10. g[0] = [at |-> 1, text |-> <<>>, ran |-> <<>>] /\ Expand(t, arg) = g[N]
  BY <1>1, <1>3, <1>7, <1>9 DEF IsRun
<1>11. QED BY <1>3, <1>4, <1>10 DEF ExpandsBy

LEMMA JoinedGrows ==
  ASSUME NEW X, NEW parts \in Seq(Seq(X)), NEW p \in Seq(X)
  PROVE  Joined(Append(parts, p)) = Joined(parts) \o p /\ Joined(parts) \in Seq(X)
<1>1. PICK all : all = Append(parts, p)
  OBVIOUS
<1>2. PICK l : l = Len(parts)
  OBVIOUS
<1>3. /\ all \in Seq(Seq(X)) /\ Len(all) = l + 1 /\ l \in Nat /\ all[l + 1] = p
      /\ \A i \in 1 .. l : all[i] = parts[i]
  BY <1>1, <1>2, AppendIs
<1>4. PICK f : JoinsBy(f, parts, X)
  BY JoinedIs
<1>5. PICK g : JoinsBy(g, all, X)
  BY <1>3, JoinedIs
<1>6. f[0] = <<>> /\ (\A n \in 1 .. l : f[n] = f[n - 1] \o parts[n]) /\ Joined(parts) = f[l]
      /\ f \in [0 .. l -> Seq(X)]
  BY <1>2, <1>4 DEF JoinsBy
<1>7. g[0] = <<>> /\ (\A n \in 1 .. l + 1 : g[n] = g[n - 1] \o all[n]) /\ Joined(all) = g[l + 1]
  BY <1>3, <1>5 DEF JoinsBy
<1>8. 0 .. l \subseteq {n \in 0 .. l : g[n] = f[n]}
  <2> DEFINE P == {n \in 0 .. l : g[n] = f[n]}
  <2>1. 0 \in P
    <3>1. 0 \in 0 .. l
      BY <1>3
    <3>2. g[0] = f[0]
      BY <1>6, <1>7
    <3>3. QED BY <3>1, <3>2
  <2>2. ASSUME NEW n \in 1 .. l, n - 1 \in P PROVE n \in P
    <3>1. n \in 0 .. l /\ n \in 1 .. l + 1 /\ g[n - 1] = f[n - 1]
      BY <1>3, <2>2
    <3>2. g[n] = g[n - 1] \o all[n] /\ f[n] = f[n - 1] \o parts[n] /\ all[n] = parts[n]
      BY <1>3, <1>6, <1>7, <3>1
    <3>3. g[n] = f[n]
      BY <3>1, <3>2, Zenon
    <3>4. QED BY <3>1, <3>3
  <2> HIDE DEF P
  <2>3. 0 .. l \subseteq P
    BY <1>3, <2>1, <2>2, UpTo
  <2>4. QED BY <2>3 DEF P
<1>9. l \in 0 .. l /\ l + 1 \in 1 .. l + 1 /\ l + 1 - 1 = l
  BY <1>3
<1>10. g[l] = f[l] /\ g[l + 1] = g[l] \o p /\ f[l] \in Seq(X)
  <2>1. g[l] = f[l]
    BY <1>8, <1>9
  <2>2. g[l + 1] = g[l] \o all[l + 1]
    <3>1. PICK k : k = l + 1
      OBVIOUS
    <3>2. g[k] = g[k - 1] \o all[k]
      BY <1>7, <1>9, <3>1
    <3>3. k - 1 = l
      BY <1>9, <3>1
    <3>4. QED BY <3>1, <3>2, <3>3, Zenon
  <2>3. f[l] \in Seq(X)
    BY <1>6, <1>9
  <2>4. QED BY <1>3, <1>9, <2>1, <2>2, <2>3
<1>11. QED BY <1>1, <1>6, <1>7, <1>10

(* What a text is with the argument at its marks.                          *)
Subst(s, arg) == Joined([i \in DOMAIN s |-> IF s[i] = "ARG" THEN arg ELSE <<s[i]>>])

LEMMA SubstGrows ==
  ASSUME NEW X, NEW s \in Seq(X), NEW c \in X, NEW arg \in Seq(X)
  PROVE  /\ Subst(Append(s, c), arg) = Subst(s, arg) \o (IF c = "ARG" THEN arg ELSE <<c>>)
         /\ Subst(s, arg) \in Seq(X)
<1> DEFINE piece(x) == IF x = "ARG" THEN arg ELSE <<x>>
           parts == [i \in DOMAIN s |-> piece(s[i])]
           u == Append(s, c)
           more == [i \in DOMAIN u |-> piece(u[i])]
<1>1. \A x \in X : piece(x) \in Seq(X)
  OBVIOUS
<1>2. u \in Seq(X) /\ Len(u) = Len(s) + 1 /\ Len(s) \in Nat /\ DOMAIN s = 1 .. Len(s)
      /\ DOMAIN u = 1 .. Len(s) + 1 /\ (\A i \in 1 .. Len(s) : u[i] = s[i]) /\ u[Len(s) + 1] = c
  BY AppendIs
<1>3. parts \in Seq(Seq(X)) /\ Len(parts) = Len(s) /\ \A i \in 1 .. Len(s) : parts[i] = piece(s[i])
  <2> HIDE DEF piece
  <2>1. QED BY <1>1, <1>2
<1>4. Append(parts, piece(c)) = more
  <2>1. PICK p : p = piece(c)
    OBVIOUS
  <2>2. p \in Seq(X)
    BY <1>1, <2>1
  <2>3. PICK v : v = Append(parts, p)
    OBVIOUS
  <2>4. v \in Seq(Seq(X)) /\ Len(v) = Len(s) + 1 /\ (\A i \in 1 .. Len(s) : v[i] = parts[i]) /\ v[Len(s) + 1] = p
    <3> HIDE DEF parts
    <3>1. QED BY <1>3, <2>2, <2>3, AppendIs
  <2> HIDE DEF piece, u
  <2>5. more \in Seq(Seq(X)) /\ Len(more) = Len(s) + 1 /\ \A i \in 1 .. Len(s) + 1 : more[i] = piece(u[i])
    BY <1>1, <1>2
  <2> HIDE DEF more, parts
  <2>6. ASSUME NEW i \in 1 .. Len(s) + 1 PROVE v[i] = more[i]
    <3>1. CASE i = Len(s) + 1
      BY <1>2, <2>1, <2>4, <2>5, <3>1
    <3>2. CASE i \in 1 .. Len(s)
      <4>1. v[i] = piece(s[i]) /\ u[i] = s[i] /\ more[i] = piece(u[i])
        BY <1>2, <1>3, <2>4, <2>5, <3>2
      <4>2. QED BY <4>1
    <3>3. QED BY <1>2, <3>1, <3>2
  <2>7. v = more
    BY <2>4, <2>5, <2>6, SeqEqual
  <2>8. QED BY <2>1, <2>3, <2>7
<1>5. Joined(Append(parts, piece(c))) = Joined(parts) \o piece(c) /\ Joined(parts) \in Seq(X)
  <2>1. piece(c) \in Seq(X)
    BY <1>1
  <2> HIDE DEF piece, parts
  <2>2. QED BY <1>3, <2>1, JoinedGrows
<1>6. Subst(s, arg) = Joined(parts) /\ Subst(u, arg) = Joined(more)
  BY DEF Subst
<1> HIDE DEF parts, more
<1>7. QED BY <1>4, <1>5, <1>6

LEMMA ConcatGrows ==
  ASSUME NEW X, NEW s \in Seq(X), NEW u \in Seq(X), NEW c \in X
  PROVE  s \o Append(u, c) = Append(s \o u, c)
<1>1. PICK a : a = s \o u
  OBVIOUS
<1>2. PICK b : b = Append(u, c)
  OBVIOUS
<1>3. PICK v : v = s \o b
  OBVIOUS
<1>4. PICK z : z = Append(a, c)
  OBVIOUS
<1>5. PICK n : n = Len(s)
  OBVIOUS
<1>6. PICK k : k = Len(u)
  OBVIOUS
<1>7. /\ a \in Seq(X) /\ Len(a) = n + k /\ n \in Nat /\ k \in Nat
      /\ (\A i \in 1 .. n : a[i] = s[i]) /\ \A i \in 1 .. k : a[n + i] = u[i]
  BY <1>1, <1>5, <1>6, TwoParts
<1>8. b \in Seq(X) /\ Len(b) = k + 1 /\ (\A i \in 1 .. k : b[i] = u[i]) /\ b[k + 1] = c
  BY <1>2, <1>6, AppendIs
<1>9. /\ v \in Seq(X) /\ Len(v) = n + (k + 1)
      /\ (\A i \in 1 .. n : v[i] = s[i]) /\ \A i \in 1 .. k + 1 : v[n + i] = b[i]
  <2>1. b \in Seq(X) /\ Len(b) = k + 1
    BY <1>8
  <2>2. /\ v \in Seq(X) /\ Len(v) = n + Len(b)
        /\ (\A i \in 1 .. n : v[i] = s[i]) /\ \A i \in 1 .. Len(b) : v[n + i] = b[i]
    BY <1>3, <1>5, <2>1, TwoParts
  <2>3. QED BY <2>1, <2>2
<1>10. z \in Seq(X) /\ Len(z) = n + k + 1 /\ (\A i \in 1 .. n + k : z[i] = a[i]) /\ z[n + k + 1] = c
  BY <1>4, <1>7, AppendIs
<1>11. ASSUME NEW i \in 1 .. n + k + 1 PROVE v[i] = z[i]
  <2>1. CASE i \in 1 .. n
    <3>1. i \in 1 .. n + k
      BY <1>7, <2>1
    <3>2. QED BY <1>7, <1>9, <1>10, <2>1, <3>1
  <2>2. CASE i \in n + 1 .. n + k
    <3>1. i - n \in 1 .. k /\ i - n \in 1 .. k + 1 /\ i = n + (i - n) /\ i \in 1 .. n + k
      BY <1>7, <2>2
    <3>2. v[i] = b[i - n] /\ b[i - n] = u[i - n] /\ a[i] = u[i - n] /\ z[i] = a[i]
      BY <1>7, <1>8, <1>9, <1>10, <3>1
    <3>3. QED BY <3>2
  <2>3. CASE i = n + k + 1
    <3>1. k + 1 \in 1 .. k + 1 /\ n + (k + 1) = n + k + 1
      BY <1>7
    <3>2. v[n + (k + 1)] = c
      BY <1>8, <1>9, <3>1
    <3>3. QED BY <1>10, <2>3, <3>1, <3>2
  <2>4. QED BY <1>7, <2>1, <2>2, <2>3
<1>12. Len(v) = Len(z) /\ Len(v) = n + k + 1
  BY <1>7, <1>9, <1>10
<1>13. v = z
  BY <1>9, <1>10, <1>11, <1>12, SeqEqual
<1>14. QED BY <1>1, <1>2, <1>3, <1>4, <1>13

LEMMA PrefixGrows ==
  ASSUME NEW X, NEW w \in Seq(X), NEW n \in 1 .. Len(w)
  PROVE  /\ SubSeq(w, 1, n) = Append(SubSeq(w, 1, n - 1), w[n])
         /\ SubSeq(w, 1, n - 1) \in Seq(X) /\ w[n] \in X
OBVIOUS

LEMMA SubstPlain ==
  ASSUME NEW X, NEW D, D \subseteq X, "ARG" \notin D, NEW s \in Seq(X), NEW w \in Seq(D), NEW arg \in Seq(X)
  PROVE  Subst(s \o w, arg) = Subst(s, arg) \o w
<1> DEFINE P == {n \in 0 .. Len(w) : Subst(s \o SubSeq(w, 1, n), arg) = Subst(s, arg) \o SubSeq(w, 1, n)}
<1>7. Len(w) \in Nat /\ 0 \in 0 .. Len(w)
  OBVIOUS
<1>1. Subst(s, arg) \in Seq(X)
  <2>1. CASE X = {}
    <3>1. s = <<>>
      BY <2>1
    <3>2. DOMAIN s = {} /\ [i \in DOMAIN s |-> IF s[i] = "ARG" THEN arg ELSE <<s[i]>>] = <<>>
      BY <3>1
    <3>3. <<>> \in Seq(Seq(X)) /\ Len(<<>>) = 0
      OBVIOUS
    <3>4. PICK f : JoinsBy(f, <<>>, X)
      BY <3>3, JoinedIs
    <3>5. Joined(<<>>) = <<>>
      BY <3>3, <3>4 DEF JoinsBy
    <3>6. <<>> \in Seq(X)
      OBVIOUS
    <3>7. QED BY <3>2, <3>5, <3>6 DEF Subst
  <2>2. CASE X # {}
    <3>1. PICK c \in X : TRUE
      BY <2>2
    <3>2. QED BY SubstGrows
  <2>3. QED BY <2>1, <2>2
<1>2. 0 \in P
  <2>1. SubSeq(w, 1, 0) = <<>>
    OBVIOUS
  <2>2. s \o <<>> = s /\ Subst(s, arg) \o <<>> = Subst(s, arg)
    BY <1>1, ConcatOne
  <2>3. QED BY <1>7, <2>1, <2>2
<1>3. ASSUME NEW n \in 1 .. Len(w), n - 1 \in P PROVE n \in P
  <2>1. PICK u : u = SubSeq(w, 1, n - 1)
    OBVIOUS
  <2>2. PICK c : c = w[n]
    OBVIOUS
  <2>3. SubSeq(w, 1, n) = Append(u, c) /\ u \in Seq(D) /\ c \in D /\ c # "ARG"
    BY <2>1, <2>2, PrefixGrows
  <2>4. u \in Seq(X) /\ c \in X
    BY <2>3, SeqMonotonic
  <2>5. PICK a : a = Subst(s, arg)
    OBVIOUS
  <2>6. Subst(s \o u, arg) = a \o u
    BY <1>3, <2>1, <2>5
  <2>7. s \o Append(u, c) = Append(s \o u, c) /\ s \o u \in Seq(X)
    BY <2>4, ConcatGrows, ConcatIs
  <2>8. Subst(Append(s \o u, c), arg) = Subst(s \o u, arg) \o <<c>>
    <3>1. PICK y : y = s \o u
      OBVIOUS
    <3>2. Subst(Append(y, c), arg) = Subst(y, arg) \o (IF c = "ARG" THEN arg ELSE <<c>>)
      <4>1. y \in Seq(X)
        BY <2>7, <3>1
      <4> HIDE DEF P
      <4>2. QED BY <2>4, <4>1, SubstGrows
    <3>3. QED BY <2>3, <3>1, <3>2
  <2>9. a \in Seq(X)
    BY <1>1, <2>5
  <2> HIDE DEF P
  <2>10. (a \o u) \o <<c>> = Append(a \o u, c) /\ Append(a \o u, c) = a \o Append(u, c)
    <3>1. a \o u \in Seq(X)
      BY <2>4, <2>9, ConcatIs
    <3>2. (a \o u) \o <<c>> = Append(a \o u, c)
      BY <3>1, ConcatOne
    <3>3. Append(a \o u, c) = a \o Append(u, c)
      <4>1. a \in Seq(X) /\ u \in Seq(X) /\ c \in X
        BY <2>4, <2>9
      <4>2. a \o Append(u, c) = Append(a \o u, c)
        BY ONLY <4>1, ConcatGrows
      <4>3. QED BY <4>2
    <3>4. QED BY <3>2, <3>3, Zenon
  <2>11. Subst(s \o SubSeq(w, 1, n), arg) = Subst(s, arg) \o SubSeq(w, 1, n)
    BY <2>3, <2>5, <2>6, <2>7, <2>8, <2>10
  <2>12. n \in 0 .. Len(w)
    BY <1>7
  <2>13. QED BY <2>11, <2>12 DEF P
<1>4. Len(w) \in P
  <2>1. Len(w) \in 0 .. Len(w)
    BY <1>7
  <2> HIDE DEF P
  <2>2. 0 .. Len(w) \subseteq P
    BY <1>2, <1>3, <1>7, UpTo
  <2>3. QED BY <2>1, <2>2
<1>5. SubSeq(w, 1, Len(w)) = w
  BY SubSeqFull
<1>6. QED BY <1>4, <1>5

(* Both readings of a template go together.                                *)
SameSteps(e, m, n, arg) ==
  e.at = m.at /\ e.at > n /\ e.ran = m.ran /\ e.text = Subst(m.text, arg)

LEMMA StepsTogether ==
  ASSUME NEW C, "ARG" \notin C, NEW t \in Seq(C), NEW arg \in Seq(C), NEW X, X = C \cup {"out", "ARG"},
         NEW n \in 1 .. Len(t), NEW e \in Expansion(X), NEW m \in Expansion(X), SameSteps(e, m, n - 1, arg)
  PROVE  SameSteps(ExpandAt(e, t, arg), ExpandAt(m, t, <<"ARG">>), n, arg)
<1>1. Len(t) \in Nat /\ n \in Nat /\ n <= Len(t)
  OBVIOUS
<1>2. PICK k : k = e.at
  OBVIOUS
<1>3. k \in Nat \ {0} /\ k > n - 1 /\ m.at = k /\ e.ran = m.ran /\ e.text = Subst(m.text, arg)
      /\ m.text \in Seq(X)
  BY <1>2 DEF SameSteps, Expansion
<1>4. CASE k > Len(t)
  <2>1. ExpandAt(e, t, arg) = e /\ ExpandAt(m, t, <<"ARG">>) = m
    BY <1>2, <1>3, <1>4 DEF ExpandAt
  <2>2. k > n
    BY <1>1, <1>3, <1>4
  <2>3. QED BY <1>2, <1>3, <2>1, <2>2 DEF SameSteps
<1>5. CASE k <= Len(t)
  <2>1. PICK j, w, r : ExpandStep(k, j, w, r, t, C)
    BY <1>3, <1>5, ExpandStepIs
  <2>2. j \in Nat /\ j > k /\ w \in Seq(C \cup {"out"})
    BY <2>1 DEF ExpandStep
  <2>3. ExpandAt(e, t, arg) = [at |-> j, text |-> e.text \o (IF t[k] = "$ARGUMENTS" THEN arg ELSE w),
                               ran |-> e.ran \o r]
    BY <1>2, <2>1 DEF ExpandStep
  <2>4. ExpandAt(m, t, <<"ARG">>) =
          [at |-> j, text |-> m.text \o (IF t[k] = "$ARGUMENTS" THEN <<"ARG">> ELSE w), ran |-> m.ran \o r]
    BY <1>3, <2>1 DEF ExpandStep
  <2>5. j > n
    BY <1>1, <1>3, <2>2
  <2>6. arg \in Seq(X)
    <3>1. C \subseteq X
      OBVIOUS
    <3>2. QED BY <3>1, SeqMonotonic
  <2>7. CASE t[k] = "$ARGUMENTS"
    <3>1. Subst(m.text \o <<"ARG">>, arg) = Subst(m.text, arg) \o arg
      <4>1. PICK s : s = m.text
        OBVIOUS
      <4>2. s \in Seq(X) /\ "ARG" \in X
        BY <1>3, <4>1
      <4>3. Subst(Append(s, "ARG"), arg) = Subst(s, arg) \o (IF "ARG" = "ARG" THEN arg ELSE <<"ARG">>)
        BY <2>6, <4>2, SubstGrows, Zenon
      <4>4. s \o <<"ARG">> = Append(s, "ARG")
        BY <4>2, ConcatOne
      <4>6. Subst(s, arg) \o (IF "ARG" = "ARG" THEN arg ELSE <<"ARG">>) = Subst(s, arg) \o arg
        OBVIOUS
      <4>5. QED BY <4>1, <4>3, <4>4, <4>6, Zenon
    <3>2. QED
      <4> DEFINE E == ExpandAt(e, t, arg)
                 M == ExpandAt(m, t, <<"ARG">>)
      <4>1. E.at = j /\ E.text = e.text \o arg /\ E.ran = e.ran \o r
        BY <2>3, <2>7
      <4>2. M.at = j /\ M.text = m.text \o <<"ARG">> /\ M.ran = m.ran \o r
        BY <2>4, <2>7
      <4> HIDE DEF E, M
      <4>3. SameSteps(E, M, n, arg)
        BY <1>3, <2>5, <3>1, <4>1, <4>2 DEF SameSteps
      <4>4. QED BY <4>3 DEF E, M
  <2>8. CASE t[k] # "$ARGUMENTS"
    <3>1. Subst(m.text \o w, arg) = Subst(m.text, arg) \o w
      <4>1. C \cup {"out"} \subseteq X /\ "ARG" \notin C \cup {"out"}
        OBVIOUS
      <4>2. PICK D : D = C \cup {"out"}
        OBVIOUS
      <4>3. D \subseteq X /\ "ARG" \notin D /\ w \in Seq(D)
        BY <2>2, <4>1, <4>2
      <4>5. PICK s : s = m.text
        OBVIOUS
      <4>4. s \in Seq(X)
        BY <1>3, <4>5
      <4>6. Subst(s \o w, arg) = Subst(s, arg) \o w
        BY ONLY <2>6, <4>3, <4>4, SubstPlain, Zenon
      <4>7. QED BY <4>5, <4>6
    <3>2. QED
      <4> DEFINE E == ExpandAt(e, t, arg)
                 M == ExpandAt(m, t, <<"ARG">>)
      <4>1. E.at = j /\ E.text = e.text \o w /\ E.ran = e.ran \o r
        BY <2>3, <2>8
      <4>2. M.at = j /\ M.text = m.text \o w /\ M.ran = m.ran \o r
        BY <2>4, <2>8
      <4> HIDE DEF E, M
      <4>3. SameSteps(E, M, n, arg)
        BY <1>3, <2>5, <3>1, <4>1, <4>2 DEF SameSteps
      <4>4. QED BY <4>3 DEF E, M
  <2>9. QED BY <2>7, <2>8
<1>6. QED BY <1>1, <1>3, <1>4, <1>5

(* The argument of a custom command is data.                               *)
LEMMA ArgumentStays ==
  ASSUME NEW C, "ARG" \notin C, NEW t \in Seq(C), NEW arg \in Seq(C)
  PROVE  ArgumentIsData(t, arg)
<1>1. PICK X : X = C \cup {"out", "ARG"}
  OBVIOUS
<1>2. PICK N : N = Len(t)
  OBVIOUS
<1>3. C \cup {"out"} \subseteq X /\ arg \in Seq(X) /\ <<"ARG">> \in Seq(X)
  <2>1. C \cup {"out"} \subseteq X /\ <<"ARG">> \in Seq(X) /\ C \subseteq X
    BY <1>1
  <2>2. QED BY <2>1, SeqMonotonic
<1>4. N \in Nat /\ N \in 0 .. N /\ 0 \in 0 .. N
  BY <1>2
<1>5. PICK e : ExpandsBy(e, t, arg, X)
  BY <1>3, ExpandIs
<1>6. PICK m : ExpandsBy(m, t, <<"ARG">>, X)
  BY <1>3, ExpandIs
<1> DEFINE start == [at |-> 1, text |-> <<>>, ran |-> <<>>]
           P == {n \in 0 .. N : SameSteps(e[n], m[n], n, arg)}
<1>7. /\ e \in [0 .. N -> Expansion(X)] /\ e[0] = start /\ Expand(t, arg) = e[N]
      /\ \A n \in 1 .. N : e[n] = ExpandAt(e[n - 1], t, arg)
  BY <1>2, <1>5 DEF ExpandsBy
<1>8. /\ m \in [0 .. N -> Expansion(X)] /\ m[0] = start /\ Expand(t, <<"ARG">>) = m[N]
      /\ \A n \in 1 .. N : m[n] = ExpandAt(m[n - 1], t, <<"ARG">>)
  BY <1>2, <1>6 DEF ExpandsBy
<1>9. 0 \in P
  <2>1. Subst(<<>>, arg) = <<>>
    <3>1. DOMAIN <<>> = {} /\ [i \in DOMAIN <<>> |-> IF <<>>[i] = "ARG" THEN arg ELSE <<(<<>>)[i]>>] = <<>>
      OBVIOUS
    <3>2. <<>> \in Seq(Seq(X)) /\ Len(<<>>) = 0
      OBVIOUS
    <3>3. PICK f : JoinsBy(f, <<>>, X)
      BY <3>2, JoinedIs
    <3>4. Joined(<<>>) = <<>>
      BY <3>2, <3>3 DEF JoinsBy
    <3>5. QED BY <3>1, <3>4 DEF Subst
  <2>2. 1 > 0
    OBVIOUS
  <2>3. SameSteps(start, start, 0, arg)
    BY <2>1, <2>2 DEF SameSteps
  <2>4. QED BY <1>4, <1>7, <1>8, <2>3
<1>10. ASSUME NEW n \in 1 .. N, n - 1 \in P PROVE n \in P
  <2>1. n - 1 \in 0 .. N /\ n \in 0 .. N /\ n \in 1 .. Len(t)
    BY <1>2, <1>4
  <2>2. e[n - 1] \in Expansion(X) /\ m[n - 1] \in Expansion(X)
    BY <1>7, <1>8, <2>1
  <2>3. SameSteps(e[n - 1], m[n - 1], n - 1, arg)
    BY <1>10
  <2>4. SameSteps(ExpandAt(e[n - 1], t, arg), ExpandAt(m[n - 1], t, <<"ARG">>), n, arg)
    BY <1>1, <2>1, <2>2, <2>3, StepsTogether
  <2>5. SameSteps(e[n], m[n], n, arg)
    BY <1>7, <1>8, <2>4
  <2>6. QED BY <2>1, <2>5
<1>11. SameSteps(e[N], m[N], N, arg)
  <2> HIDE DEF P
  <2>1. 0 .. N \subseteq P
    BY <1>4, <1>9, <1>10, UpTo
  <2>2. N \in P
    BY <1>4, <2>1
  <2>3. QED BY <2>2 DEF P
<1>12. QED BY <1>2, <1>7, <1>8, <1>11 DEF ArgumentIsData, SameSteps, Subst

(* Picking the same from two texts that agree where it is picked.          *)
LEMMA PickedSame ==
  ASSUME NEW X, NEW f \in Seq(X), NEW g \in Seq(X), Len(f) = Len(g), NEW S,
         \A i \in 1 .. Len(f) : i \in S => f[i] = g[i]
  PROVE  Picked(f, S) = Picked(g, S)
<1>1. PICK a : PicksBy(a, f, S, X)
  BY PickedIs
<1>2. PICK b : PicksBy(b, g, S, X)
  BY PickedIs
<1>3. PICK N : N = Len(f)
  OBVIOUS
<1>4. N \in Nat /\ N \in 0 .. N /\ 0 \in 0 .. N
  BY <1>3
<1>5. /\ a[0] = <<>> /\ Picked(f, S) = a[N]
      /\ \A n \in 1 .. N : a[n] = IF n \in S THEN Append(a[n - 1], f[n]) ELSE a[n - 1]
  BY <1>1, <1>3 DEF PicksBy
<1>6. /\ b[0] = <<>> /\ Picked(g, S) = b[N]
      /\ \A n \in 1 .. N : b[n] = IF n \in S THEN Append(b[n - 1], g[n]) ELSE b[n - 1]
  <2>1. Len(g) = N
    BY <1>3
  <2>2. QED BY <1>2, <2>1 DEF PicksBy
<1> DEFINE P == {n \in 0 .. N : a[n] = b[n]}
<1>7. 0 \in P
  BY <1>4, <1>5, <1>6
<1>8. ASSUME NEW n \in 1 .. N, n - 1 \in P PROVE n \in P
  <2>1. n \in 0 .. N /\ a[n - 1] = b[n - 1]
    BY <1>4, <1>8
  <2>2. n \in S => f[n] = g[n]
    BY <1>3
  <2>3. a[n] = (IF n \in S THEN Append(a[n - 1], f[n]) ELSE a[n - 1])
        /\ b[n] = (IF n \in S THEN Append(b[n - 1], g[n]) ELSE b[n - 1])
    BY <1>5, <1>6
  <2>4. a[n] = b[n]
    <3>1. CASE n \in S
      BY <2>1, <2>2, <2>3, <3>1, Zenon
    <3>2. CASE n \notin S
      BY <2>1, <2>3, <3>2, Zenon
    <3>3. QED BY <3>1, <3>2
  <2>5. QED BY <2>1, <2>4
<1> HIDE DEF P
<1>9. 0 .. N \subseteq P
  BY <1>4, <1>7, <1>8, UpTo
<1>10. a[N] = b[N]
  <2>1. N \in P
    BY <1>4, <1>9
  <2>2. QED BY <2>1 DEF P
<1>11. QED BY <1>5, <1>6, <1>10

(* Where the word that begins at i ends.                                   *)
EndsAt(k, s, i) ==
  /\ k \in i .. Len(s) + 1 /\ WordAt(s, i) = SubSeq(s, i, k - 1)
  /\ \A j \in i .. k - 1 : s[j] \notin Breaks
  /\ k # Len(s) + 1 => s[k] \in Breaks

LEMMA WordEnds ==
  ASSUME NEW X, NEW s \in Seq(X), NEW i \in 1 .. Len(s) + 1
  PROVE  \E k : EndsAt(k, s, i)
<1> DEFINE T == {k \in i .. Len(s) : s[k] \in Breaks}
<1>1. Len(s) \in Nat /\ i \in Nat /\ i >= 1 /\ i <= Len(s) + 1
  OBVIOUS
<1>2. T \subseteq 1 .. Len(s)
  BY <1>1
<1>3. PICK k : k = Least(T \cup {Len(s) + 1})
  OBVIOUS
<1>4. /\ k \in Nat /\ k >= 1 /\ k <= Len(s) + 1 /\ (k # Len(s) + 1 => k \in T)
      /\ \A j \in 1 .. k - 1 : j \in 1 .. Len(s) /\ j \notin T
  <2> HIDE DEF T
  <2>1. QED BY <1>2, <1>3, FirstOrEnd
<1>5. k \in i .. Len(s) + 1
  <2>1. k # Len(s) + 1 => k \in i .. Len(s)
    BY <1>4
  <2> HIDE DEF T
  <2>2. k = Len(s) + 1 => k \in i .. Len(s) + 1
    BY <1>1
  <2>3. QED BY <1>1, <2>1, <2>2
<1>6. WordAt(s, i) = SubSeq(s, i, k - 1)
  BY <1>3 DEF WordAt
<1>7. ASSUME NEW j \in i .. k - 1 PROVE s[j] \notin Breaks
  <2>1. j \in 1 .. k - 1
    <3> HIDE DEF T
    <3>1. QED BY <1>1, <1>4
  <2>2. j \in 1 .. Len(s) /\ j \notin T
    BY <1>4, <2>1
  <2>3. j \in i .. Len(s)
    <3> HIDE DEF T
    <3>1. QED BY <1>1, <2>2
  <2>4. QED BY <2>2, <2>3
<1>8. k # Len(s) + 1 => s[k] \in Breaks
  BY <1>4
<1>9. QED BY <1>5, <1>6, <1>7, <1>8 DEF EndsAt

(* A word and the word without its first character.                        *)
LEMMA WordSplits ==
  ASSUME NEW X, NEW s \in Seq(X), NEW i \in 1 .. Len(s), s[i] \notin Breaks
  PROVE  /\ WordAt(s, i)[1] = s[i]
         /\ SubSeq(WordAt(s, i), 2, Len(WordAt(s, i))) = WordAt(s, i + 1)
         /\ (i = Len(s) \/ s[i + 1] \in Breaks) => WordAt(s, i + 1) = <<>>
<1>1. PICK l : l = Len(s)
  OBVIOUS
<1>2. l \in Nat /\ i \in Nat /\ i >= 1 /\ i <= l
  BY <1>1
<1>3. i \in 1 .. Len(s) + 1 /\ i + 1 \in 1 .. Len(s) + 1
  BY <1>1, <1>2
<1>4. PICK k : EndsAt(k, s, i)
  BY <1>3, WordEnds
<1>5. PICK m : EndsAt(m, s, i + 1)
  BY <1>3, WordEnds
<1>6. /\ k \in i .. l + 1 /\ WordAt(s, i) = SubSeq(s, i, k - 1)
      /\ (\A j \in i .. k - 1 : s[j] \notin Breaks) /\ (k # l + 1 => s[k] \in Breaks)
  BY <1>1, <1>4 DEF EndsAt
<1>7. /\ m \in i + 1 .. l + 1 /\ WordAt(s, i + 1) = SubSeq(s, i + 1, m - 1)
      /\ (\A j \in i + 1 .. m - 1 : s[j] \notin Breaks) /\ (m # l + 1 => s[m] \in Breaks)
  BY <1>1, <1>5 DEF EndsAt
<1>8. k \in Nat /\ k >= i /\ k <= l + 1 /\ m \in Nat /\ m >= i + 1 /\ m <= l + 1
  <2>1. k \in i .. l + 1 /\ m \in i + 1 .. l + 1
    BY <1>6, <1>7
  <2>2. QED BY <1>2, <2>1
<1>9. k # i
  <2>1. k = i => k # l + 1
    BY <1>2
  <2>2. QED BY <1>6, <2>1
<1>10. k = m
  <2>1. ~(k < m)
    <3>1. SUFFICES ASSUME k < m PROVE FALSE
      OBVIOUS
    <3>2. k # l + 1 /\ k \in i + 1 .. m - 1
      BY <1>2, <1>8, <1>9, <3>1
    <3>3. QED BY <1>6, <1>7, <3>2
  <2>2. ~(m < k)
    <3>1. SUFFICES ASSUME m < k PROVE FALSE
      OBVIOUS
    <3>2. m # l + 1 /\ m \in i .. k - 1
      BY <1>2, <1>8, <3>1
    <3>3. QED BY <1>6, <1>7, <3>2
  <2>3. QED BY <1>8, <2>1, <2>2
<1>11. PICK w : w = WordAt(s, i)
  OBVIOUS
<1>12. PICK r : r = WordAt(s, i + 1)
  OBVIOUS
<1>13. w \in Seq(X) /\ Len(w) = k - i /\ \A j \in 1 .. k - i : w[j] = s[i + j - 1]
  <2>1. i \in Nat \ {0} /\ k - 1 \in 0 .. Len(s) /\ i <= k - 1 + 1 /\ k - 1 - i + 1 = k - i
    BY <1>1, <1>2, <1>8
  <2>2. /\ SubSeq(s, i, k - 1) \in Seq(X) /\ Len(SubSeq(s, i, k - 1)) = k - 1 - i + 1
        /\ \A j \in 1 .. k - 1 - i + 1 : SubSeq(s, i, k - 1)[j] = s[i + j - 1]
    BY <2>1, SubIs
  <2>3. w = SubSeq(s, i, k - 1)
    BY <1>6, <1>11
  <2>4. QED BY <2>1, <2>2, <2>3
<1>14. r \in Seq(X) /\ Len(r) = k - (i + 1) /\ \A j \in 1 .. k - (i + 1) : r[j] = s[i + 1 + j - 1]
  <2>1. i + 1 \in Nat \ {0} /\ k - 1 \in 0 .. Len(s) /\ i + 1 <= k - 1 + 1 /\ k - 1 - (i + 1) + 1 = k - (i + 1)
    BY <1>1, <1>2, <1>8, <1>10
  <2>2. /\ SubSeq(s, i + 1, k - 1) \in Seq(X) /\ Len(SubSeq(s, i + 1, k - 1)) = k - 1 - (i + 1) + 1
        /\ \A j \in 1 .. k - 1 - (i + 1) + 1 : SubSeq(s, i + 1, k - 1)[j] = s[i + 1 + j - 1]
    BY <2>1, SubIs
  <2>3. r = SubSeq(s, i + 1, k - 1)
    BY <1>7, <1>10, <1>12
  <2>4. QED BY <2>1, <2>2, <2>3
<1>15. w[1] = s[i]
  <2>1. 1 \in 1 .. k - i /\ i + 1 - 1 = i
    BY <1>2, <1>8, <1>9
  <2>2. w[1] = s[i + 1 - 1]
    BY <1>13, <2>1
  <2>3. QED BY <2>1, <2>2
<1>16. SubSeq(w, 2, Len(w)) = r
  <2>1. PICK t : t = SubSeq(w, 1 + 1, Len(w))
    OBVIOUS
  <2>2. 1 <= Len(w)
    BY <1>2, <1>8, <1>9, <1>13
  <2>3. t \in Seq(X) /\ Len(t) = Len(w) - 1 /\ \A j \in 1 .. Len(w) - 1 : t[j] = w[1 + j]
    BY <1>13, <2>1, <2>2, RestIs
  <2>4. Len(w) - 1 = k - (i + 1)
    BY <1>2, <1>8, <1>13
  <2>5. ASSUME NEW j \in 1 .. k - (i + 1) PROVE t[j] = r[j]
    <3>1. j \in 1 .. Len(w) - 1 /\ 1 + j \in 1 .. k - i /\ i + (1 + j) - 1 = i + 1 + j - 1
      BY <1>2, <1>8, <2>4
    <3>2. t[j] = w[1 + j] /\ w[1 + j] = s[i + (1 + j) - 1] /\ r[j] = s[i + 1 + j - 1]
      BY <1>13, <1>14, <2>3, <3>1
    <3>3. QED BY <3>1, <3>2
  <2>6. t = r
    BY <1>14, <2>3, <2>4, <2>5, SeqEqual
  <2>7. 1 + 1 = 2
    OBVIOUS
  <2>8. QED BY <2>1, <2>6, <2>7
<1>17. ASSUME i = l \/ s[i + 1] \in Breaks PROVE r = <<>>
  <2>1. k = i + 1
    <3>1. SUFFICES ASSUME k # i + 1 PROVE FALSE
      OBVIOUS
    <3>2. i # l /\ i + 1 \in i .. k - 1
      BY <1>2, <1>8, <1>9, <3>1
    <3>3. QED BY <1>6, <1>17, <3>2
  <2>2. Len(r) = 0
    BY <1>2, <1>14, <2>1
  <2>3. QED BY <1>14, <2>2
<1>18. QED BY <1>1, <1>11, <1>12, <1>15, <1>16, <1>17

(* Mentions attach what the words of the line name.                        *)
LEMMA MentionsAreWords ==
  ASSUME NEW X, "end" \notin X, NEW s \in Seq(X), NEW files, <<>> \notin files
  PROVE  MentionsAttach(s, files)
<1> DEFINE blank(i) == At(s, i) \in Breaks \cup {"end"}
           words == {i \in DOMAIN s : ~blank(i) /\ blank(i - 1)}
           rest(w) == SubSeq(w, 2, Len(w))
           named == {i \in words : WordAt(s, i)[1] = "@" /\ rest(WordAt(s, i)) \in files}
           marked == {i \in MentionsAt(s) : WordAt(s, i + 1) \in files}
           f == [i \in DOMAIN s |-> WordAt(s, i + 1)]
           g == [i \in DOMAIN s |-> rest(WordAt(s, i))]
<1>1. Len(s) \in Nat /\ DOMAIN s = 1 .. Len(s)
  OBVIOUS
<1>2. "@" \notin Breaks \cup {"end"}
  BY DEF Breaks, Blanks, Newline
<1>3. ASSUME NEW i \in DOMAIN s, s[i] \notin Breaks
      PROVE  /\ WordAt(s, i)[1] = s[i] /\ rest(WordAt(s, i)) = WordAt(s, i + 1)
             /\ (i = Len(s) \/ s[i + 1] \in Breaks) => WordAt(s, i + 1) = <<>>
  BY <1>1, <1>3, WordSplits
<1>4. ASSUME NEW i \in DOMAIN s PROVE At(s, i) = s[i] /\ s[i] \in X /\ s[i] # "end"
  BY DEF At
<1>5. ASSUME NEW i \in DOMAIN s PROVE blank(i - 1) <=> i = 1 \/ s[i - 1] \in Breaks
  <2>1. CASE i = 1
    <3>1. i - 1 \notin DOMAIN s
      BY <1>1, <2>1
    <3>2. At(s, i - 1) = "end"
      BY <3>1 DEF At
    <3>3. QED BY <2>1, <3>2
  <2>2. CASE i # 1
    <3>1. i - 1 \in DOMAIN s
      BY <1>1, <2>2
    <3>2. QED BY <1>4, <2>2, <3>1
  <2>3. QED BY <2>1, <2>2
<1>6. ASSUME NEW i \in DOMAIN s PROVE At(s, i + 1) \in Breaks \cup {"end"} <=> i = Len(s) \/ s[i + 1] \in Breaks
  <2>1. CASE i = Len(s)
    <3>1. i + 1 \notin DOMAIN s
      BY <1>1, <2>1
    <3>2. At(s, i + 1) = "end"
      BY <3>1 DEF At
    <3>3. QED BY <2>1, <3>2
  <2>2. CASE i # Len(s)
    <3>1. i + 1 \in DOMAIN s
      BY <1>1, <2>2
    <3>2. QED BY <1>4, <2>2, <3>1
  <2>3. QED BY <2>1, <2>2
<1>7. marked = named
  <2>1. ASSUME NEW i \in marked PROVE i \in named
    <3>1. i \in DOMAIN s /\ s[i] = "@" /\ (i = 1 \/ s[i - 1] \in Breaks) /\ WordAt(s, i + 1) \in files
      BY DEF MentionsAt
    <3>2. blank(i - 1)
      BY <1>5, <3>1
    <3>3. ~blank(i)
      BY <1>2, <1>4, <3>1
    <3>4. WordAt(s, i)[1] = "@" /\ rest(WordAt(s, i)) = WordAt(s, i + 1)
      BY <1>2, <1>3, <3>1
    <3> HIDE DEF blank, rest
    <3>5. QED BY <3>1, <3>2, <3>3, <3>4
  <2>2. ASSUME NEW i \in named PROVE i \in marked
    <3>1. i \in DOMAIN s /\ ~blank(i) /\ blank(i - 1) /\ WordAt(s, i)[1] = "@" /\ rest(WordAt(s, i)) \in files
      OBVIOUS
    <3>2. s[i] \notin Breaks
      BY <1>4, <3>1
    <3>3. s[i] = "@" /\ WordAt(s, i + 1) \in files
      BY <1>3, <3>1, <3>2
    <3>4. ~(i = Len(s) \/ s[i + 1] \in Breaks)
      BY <1>3, <3>1, <3>2, <3>3
    <3>5. At(s, i + 1) \notin Breaks \cup {"end"}
      BY <1>6, <3>1, <3>4
    <3>6. At(s, i + 1) \notin Blanks \cup {"end"}
      BY <3>5 DEF Breaks
    <3>7. i = 1 \/ s[i - 1] \in Breaks
      BY <1>5, <3>1
    <3>8. QED BY <3>1, <3>3, <3>6, <3>7 DEF MentionsAt
  <2> HIDE DEF marked, named
  <2>3. QED BY <2>1, <2>2
<1>8. PICK Y : Y = {f[i] : i \in DOMAIN s} \cup {g[i] : i \in DOMAIN s}
  OBVIOUS
<1>9. \A i \in 1 .. Len(s) : f[i] = WordAt(s, i + 1) /\ g[i] = rest(WordAt(s, i)) /\ f[i] \in Y /\ g[i] \in Y
  BY <1>1, <1>8
<1>10. DOMAIN f = 1 .. Len(s) /\ DOMAIN g = 1 .. Len(s) /\ f = [i \in 1 .. Len(s) |-> f[i]]
       /\ g = [i \in 1 .. Len(s) |-> g[i]]
  BY <1>1
<1>11. \A i \in 1 .. Len(s) : i \in named => f[i] = g[i]
  <2>1. ASSUME NEW i \in named PROVE i \in DOMAIN s /\ s[i] \notin Breaks
    <3>1. i \in DOMAIN s /\ ~blank(i)
      OBVIOUS
    <3>2. QED BY <1>4, <3>1
  <2>2. ASSUME NEW i \in 1 .. Len(s), i \in named PROVE f[i] = g[i]
    <3>1. rest(WordAt(s, i)) = WordAt(s, i + 1)
      BY <1>3, <2>1, <2>2
    <3> HIDE DEF rest
    <3>2. QED BY <1>9, <3>1
  <2> HIDE DEF named, f, g
  <2>3. QED BY <2>2
<1>12. f \in Seq(Y) /\ g \in Seq(Y) /\ Len(f) = Len(s) /\ Len(g) = Len(s)
  <2> HIDE DEF f, g, rest
  <2>1. f \in [1 .. Len(s) -> Y] /\ g \in [1 .. Len(s) -> Y]
    BY <1>9, <1>10
  <2>2. QED BY <1>1, <2>1, <1>10
<1>13. Picked(f, marked) = Picked(g, named)
  <2> HIDE DEF f, g, named, marked
  <2>1. QED BY <1>7, <1>11, <1>12, PickedSame
<1>14. ExpandMentions(s, files) = Picked(f, marked)
  BY DEF ExpandMentions
<1>15. MentionsAttach(s, files) <=> ExpandMentions(s, files) = Picked(g, named)
  BY DEF MentionsAttach
<1>16. QED BY <1>13, <1>14, <1>15

Parts(u, w, g, Y) ==
  /\ u \in Seq(Y) /\ Len(u) = Len(w) + Len(g)
  /\ \A i \in 1 .. Len(w) : u[i] = w[i]
  /\ \A i \in 1 .. Len(g) : u[Len(w) + i] = g[i]

LEMMA PartsIn ==
  ASSUME NEW Y, NEW w \in Seq(Y), NEW g \in Seq(Y)
  PROVE  Parts(w \o g, w, g, Y)
BY TwoParts DEF Parts

LEMMA Between ==            \* the middle of equal texts with equal ends
  ASSUME NEW X, NEW p \in Seq(X), NEW a \in Seq(X), NEW b \in Seq(X), NEW q \in Seq(X), p \o a \o q = p \o b \o q
  PROVE  a = b
<1>1. PICK u : u = p \o a
  OBVIOUS
<1>2. PICK v : v = p \o b
  OBVIOUS
<1>3. PICK n : n = Len(p)
  OBVIOUS
<1>20. Parts(u, p, a, X) /\ Parts(v, p, b, X)
  BY <1>1, <1>2, PartsIn
<1>4. u \in Seq(X) /\ Len(u) = n + Len(a) /\ (\A i \in 1 .. Len(a) : u[n + i] = a[i])
  BY <1>3, <1>20 DEF Parts
<1>5. v \in Seq(X) /\ Len(v) = n + Len(b) /\ (\A i \in 1 .. Len(b) : v[n + i] = b[i])
  BY <1>3, <1>20 DEF Parts
<1>6. PICK y : y = u \o q
  OBVIOUS
<1>7. y = v \o q
  BY <1>1, <1>2, <1>6
<1>21. Parts(y, u, q, X) /\ Parts(y, v, q, X)
  BY <1>4, <1>5, <1>6, <1>7, PartsIn
<1>8. Len(y) = Len(u) + Len(q) /\ \A i \in 1 .. Len(u) : y[i] = u[i]
  BY <1>21 DEF Parts
<1>9. Len(y) = Len(v) + Len(q) /\ \A i \in 1 .. Len(v) : y[i] = v[i]
  BY <1>21 DEF Parts
<1>10. Len(a) \in Nat /\ Len(b) \in Nat /\ Len(q) \in Nat /\ n \in Nat
  BY <1>3
<1>11. Len(a) = Len(b) /\ Len(u) = Len(v)
  BY <1>4, <1>5, <1>8, <1>9, <1>10
<1>12. ASSUME NEW i \in 1 .. Len(a) PROVE a[i] = b[i]
  <2>1. n + i \in 1 .. Len(u) /\ n + i \in 1 .. Len(v) /\ i \in 1 .. Len(b)
    BY <1>4, <1>10, <1>11
  <2>2. u[n + i] = v[n + i]
    BY <1>8, <1>9, <2>1
  <2>3. QED BY <1>4, <1>5, <2>1, <2>2
<1>13. QED BY <1>11, <1>12, SeqEqual

(* Names of sessions.                                                      *)
LEMMA NamesAreSafe ==
  ASSUME NEW X, NEW a \in Seq(X), NEW b \in Seq(X)
  PROVE  SessionNamesAreSafe(a, b)
<1>1. ASSUME SessionPath(a).ok, SessionPath(b).ok, SessionPath(a).path = SessionPath(b).path PROVE a = b
  <2>1. \A name : SessionPath(name).ok => SessionPath(name).path = <<".anachron-sessions">> \o name \o <<".json">>
    BY DEF SessionPath, NoSession
  <2>2. <<".anachron-sessions">> \o a \o <<".json">> = <<".anachron-sessions">> \o b \o <<".json">>
    BY <1>1, <2>1
  <2>3. PICK Y : Y = X \cup {".anachron-sessions", ".json"}
    OBVIOUS
  <2>4. X \subseteq Y /\ <<".anachron-sessions">> \in Seq(Y) /\ <<".json">> \in Seq(Y)
    BY <2>3
  <2>5. a \in Seq(Y) /\ b \in Seq(Y)
    BY <2>4, SeqMonotonic
  <2>6. QED BY <2>2, <2>4, <2>5, Between
<1>2. ASSUME SessionPath(a).ok
      PROVE  (\A i \in DOMAIN a : a[i] \notin {"/", Slash}) /\ Lowered(a) \notin Devices
  <2>1. (\A i \in DOMAIN a : a[i] \in Safe) /\ ~IsReservedDosName(BeforeDot(a))
    BY <1>2 DEF SessionPath, NoSession
  <2>2. \A i \in DOMAIN a : a[i] \notin {"/", Slash}
    BY <2>1, CommandsAssumption
  <2>3. ASSUME Lowered(a) \in Devices PROVE FALSE
    <3>1. \A i \in DOMAIN a : Lowered(a)[i] = Lower[a[i]] /\ DOMAIN Lowered(a) = DOMAIN a
      BY DEF Lowered
    <3>2. \A i \in DOMAIN a : Lower[a[i]] # "."
      BY <2>3, <3>1, CommandsAssumption
    <3>3. {i \in DOMAIN a : a[i] = "."} = {}
      BY <3>2, CommandsAssumption
    <3>4. Least({} \cup {Len(a) + 1}) = Len(a) + 1
      <4>1. {} \cup {Len(a) + 1} = {Len(a) + 1} /\ {Len(a) + 1} \subseteq Nat /\ {Len(a) + 1} # {}
        OBVIOUS
      <4>2. Least({Len(a) + 1}) \in {Len(a) + 1}
        BY <4>1, LeastIs
      <4>3. QED BY <4>1, <4>2
    <3>9. Least({i \in DOMAIN a : a[i] = "."} \cup {Len(a) + 1}) = Len(a) + 1
      BY <3>3, <3>4
    <3>5. BeforeDot(a) = SubSeq(a, 1, Len(a) + 1 - 1)
      <4>1. PICK k : k = Least({i \in DOMAIN a : a[i] = "."} \cup {Len(a) + 1})
        OBVIOUS
      <4>2. BeforeDot(a) = SubSeq(a, 1, k - 1)
        BY <4>1 DEF BeforeDot
      <4>3. k = Len(a) + 1
        BY <3>9, <4>1
      <4>4. QED BY <4>2, <4>3
    <3>6. Len(a) + 1 - 1 = Len(a) /\ SubSeq(a, 1, Len(a)) = a
      BY SubSeqFull
    <3>7. BeforeDot(a) = a
      BY <3>5, <3>6
    <3>8. QED BY <2>1, <2>3, <3>7 DEF IsReservedDosName
  <2>4. QED BY <2>2, <2>3
<1>3. QED BY <1>1, <1>2 DEF SessionNamesAreSafe

(* The numbers of the models.                                              *)
LEMMA ModelsAreNumbered ==
  ASSUME NEW M, NEW near \in Seq(M), NEW beside \in Seq(M), NEW catalog \in Seq(M)
  PROVE  NumbersMatch(near, beside, catalog)
<1>1. PICK c : c = Listed(catalog)
  OBVIOUS
<1>2. c \in Seq(M)
  <2>1. PICK k : k = IF Len(catalog) > ListMax THEN ListMax ELSE Len(catalog)
    OBVIOUS
  <2>2. k \in 0 .. Len(catalog) /\ Len(catalog) \in Nat /\ k \in Nat
    BY <2>1, CommandsAssumption
  <2>3. 1 \in Nat \ {0} /\ 1 <= k + 1
    BY <2>2
  <2>4. SubSeq(catalog, 1, k) \in Seq(M)
    BY <2>2, <2>3, SubIs
  <2>5. QED BY <1>1, <2>1, <2>3, <2>4 DEF Listed
<1>3. PICK n : n = Len(near)
  OBVIOUS
<1>4. PICK m : m = Len(beside)
  OBVIOUS
<1>5. PICK l : l = Len(c)
  OBVIOUS
<1>6. n \in Nat /\ m \in Nat /\ l \in Nat
  BY <1>2, <1>3, <1>4, <1>5
<1> DEFINE E == [number : Nat, model : M]
           A == [i \in DOMAIN near |-> [number |-> i, model |-> near[i]]]
           B == [i \in DOMAIN beside |-> [number |-> Len(near) + i, model |-> beside[i]]]
           C == [i \in DOMAIN c |-> [number |-> Len(near) + Len(beside) + i, model |-> c[i]]]
<1>7. A \in Seq(E) /\ Len(A) = n /\ \A i \in 1 .. n : A[i].number = i /\ A[i].model = near[i]
  <2>1. DOMAIN near = 1 .. n /\ \A i \in 1 .. n : near[i] \in M /\ i \in Nat
    BY <1>3
  <2>2. \A i \in 1 .. n : [number |-> i, model |-> near[i]] \in E
    BY <2>1
  <2> HIDE DEF E
  <2>3. QED BY <1>6, <2>1, <2>2
<1>8. B \in Seq(E) /\ Len(B) = m /\ \A i \in 1 .. m : B[i].number = n + i /\ B[i].model = beside[i]
  BY <1>3, <1>4, <1>6
<1>9. C \in Seq(E) /\ Len(C) = l /\ \A i \in 1 .. l : C[i].number = n + m + i /\ C[i].model = c[i]
  BY <1>2, <1>3, <1>4, <1>5, <1>6
<1>10. PICK shown : shown = ShownModels(near, beside, catalog)
  OBVIOUS
<1>11. shown = A \o B \o C
  BY <1>1, <1>10 DEF ShownModels
<1> HIDE DEF A, B, C, E
<1>12. PICK u : u = A \o B
  OBVIOUS
<1>13. /\ u \in Seq(E) /\ Len(u) = Len(A) + Len(B)
       /\ (\A i \in 1 .. Len(A) : u[i] = A[i]) /\ \A i \in 1 .. Len(B) : u[Len(A) + i] = B[i]
  <2>1. A \in Seq(E) /\ B \in Seq(E)
    BY <1>7, <1>8
  <2>2. Parts(u, A, B, E)
    BY <1>12, <2>1, PartsIn
  <2>3. QED BY <2>2 DEF Parts
<1>14. /\ shown \in Seq(E) /\ Len(shown) = Len(u) + Len(C)
       /\ (\A i \in 1 .. Len(u) : shown[i] = u[i]) /\ \A i \in 1 .. Len(C) : shown[Len(u) + i] = C[i]
    <2>1. shown = u \o C
    BY <1>11, <1>12
  <2>2. u \in Seq(E) /\ C \in Seq(E)
    BY <1>9, <1>13
  <2>3. Parts(shown, u, C, E)
    BY <2>1, <2>2, PartsIn
  <2>4. QED BY <2>3 DEF Parts
<1>15. Len(u) = n + m /\ Len(shown) = n + m + l
  BY <1>7, <1>8, <1>9, <1>13, <1>14
<1>16. \A k : PickModel(near, beside, catalog, k) =
         CASE k \in 1 .. n -> near[k]
           [] k \in n + 1 .. n + m -> beside[k - n]
           [] k \in n + m + 1 .. n + m + l -> c[k - n - m]
           [] OTHER -> ""
  BY <1>1, <1>3, <1>4, <1>5 DEF PickModel
<1>17. ASSUME NEW i \in 1 .. n + m + l
       PROVE  PickModel(near, beside, catalog, shown[i].number) = shown[i].model
  <2>1. CASE i \in 1 .. n
    <3>1. i \in 1 .. n + m /\ i \notin n + 1 .. n + m /\ i \notin n + m + 1 .. n + m + l
      BY <1>6, <2>1
    <3>2. shown[i] = A[i]
      BY <1>7, <1>13, <1>14, <1>15, <2>1, <3>1
    <3>3. shown[i].number = i /\ shown[i].model = near[i]
      BY <1>7, <2>1, <3>2
    <3>4. PickModel(near, beside, catalog, i) = near[i]
      BY <1>16, <2>1, <3>1
    <3>5. QED BY <3>3, <3>4
  <2>2. CASE i \in n + 1 .. n + m
    <3>1. i \in 1 .. n + m /\ i \notin 1 .. n /\ i \notin n + m + 1 .. n + m + l /\ i - n \in 1 .. m /\ i = n + (i - n)
      BY <1>6, <2>2
    <3>2. shown[i] = u[i] /\ u[n + (i - n)] = B[i - n]
      BY <1>7, <1>8, <1>13, <1>14, <1>15, <3>1
    <3>3. shown[i].number = i /\ shown[i].model = beside[i - n]
      BY <1>8, <3>1, <3>2
    <3>4. PickModel(near, beside, catalog, i) = beside[i - n]
      BY <1>16, <2>2, <3>1
    <3>5. QED BY <3>3, <3>4
  <2>3. CASE i \in n + m + 1 .. n + m + l
    <3>1. i \notin 1 .. n + m /\ i \notin 1 .. n /\ i \notin n + 1 .. n + m /\ i - n - m \in 1 .. l
          /\ i = n + m + (i - n - m)
      BY <1>6, <2>3
    <3>2. shown[n + m + (i - n - m)] = C[i - n - m]
      BY <1>9, <1>14, <1>15, <3>1
    <3>3. shown[i].number = i /\ shown[i].model = c[i - n - m]
      BY <1>9, <3>1, <3>2
    <3>4. PickModel(near, beside, catalog, i) = c[i - n - m]
      BY <1>16, <2>3, <3>1
    <3>5. QED BY <3>3, <3>4
  <2>4. QED BY <1>6, <2>1, <2>2, <2>3
<1>18. PickModel(near, beside, catalog, n + m + l + 1) = ""
  <2>1. PICK k : k = n + m + l + 1
    OBVIOUS
  <2>2. k \notin 1 .. n /\ k \notin n + 1 .. n + m /\ k \notin n + m + 1 .. n + m + l
    BY <1>6, <2>1
  <2>3. QED BY <1>16, <2>1, <2>2
<1>19. DOMAIN shown = 1 .. n + m + l
  BY <1>14, <1>15
<1>20. QED BY <1>10, <1>15, <1>17, <1>18, <1>19 DEF NumbersMatch

(* The tables of a process.                                                *)
Changes(D) == \A c \in D : IsChange(c)
Totals == [adds : Nat, dels : Nat, writes : Nat]
Entry(D) == [path : {c.path : c \in D}, adds : Nat, dels : Nat, writes : Nat, created : BOOLEAN]

LEMMA CountedIn ==
  ASSUME NEW c, IsChange(c), NEW r \in Totals, NEW path
  PROVE  Counted(r, c, path) \in Totals
<1>1. r.adds + c.adds \in Nat /\ r.dels + c.dels \in Nat /\ r.writes + 1 \in Nat
  BY DEF IsChange, Totals
<1>2. QED BY <1>1 DEF Counted, Totals

(* The changes of one file.                                                *)
CountsBy(f, changes, path) ==
  /\ f \in [0 .. Len(changes) -> Totals]
  /\ f[0] = [adds |-> 0, dels |-> 0, writes |-> 0]
  /\ \A n \in 1 .. Len(changes) : f[n] = Counted(f[n - 1], changes[n], path)
  /\ AllOf(changes, path) = f[Len(changes)]

LEMMA AllOfIs ==
  ASSUME NEW D, Changes(D), NEW changes \in Seq(D), NEW path
  PROVE  \E f : CountsBy(f, changes, path)
<1> DEFINE N == Len(changes)
           T == Totals
           next(n, r) == Counted(r, changes[n], path)
           body(f) == [n \in 0 .. N |-> IF n = 0 THEN [adds |-> 0, dels |-> 0, writes |-> 0] ELSE Counted(f[n - 1], changes[n], path)]
           upTo == CHOOSE f : f = body(f)
           d == [p \in Nat \X T |-> IF p[1] \in 1 .. N THEN next(p[1], p[2]) ELSE [adds |-> 0, dels |-> 0, writes |-> 0]]
<1>1. N \in Nat /\ [adds |-> 0, dels |-> 0, writes |-> 0] \in T /\ \A n \in 1 .. N : IsChange(changes[n])
  BY DEF Totals, Changes
<1>2. \A n \in 1 .. N, r \in T : next(n, r) \in T
  BY <1>1, CountedIn
<1>3. PICK g \in [0 .. N -> T] : IsRun(g, [adds |-> 0, dels |-> 0, writes |-> 0], d, N)
  <2>1. d \in [Nat \X T -> T]
    BY <1>1, <1>2
  <2> HIDE DEF d, N, T
  <2>2. QED BY <1>1, <2>1, FiniteRecursion
<1>4. ASSUME NEW n \in 1 .. N PROVE g[n] = next(n, g[n - 1])
  <2>1. n - 1 \in 0 .. N /\ n \in Nat
    BY <1>1
  <2>2. g[n - 1] \in T
    BY <1>3, <2>1
  <2>3. d[<<n, g[n - 1]>>] = next(n, g[n - 1])
    <3> HIDE DEF next, T
    <3>1. QED BY <2>1, <2>2
  <2>4. QED BY <1>3, <2>3 DEF IsRun
<1>5. g = body(g)
  <2>1. ASSUME NEW n \in 0 .. N PROVE g[n] = body(g)[n]
    <3>1. n = 0 \/ n \in 1 .. N
      BY <1>1
    <3>2. QED BY <1>3, <1>4, <3>1 DEF IsRun
  <2>2. QED BY <1>3, <2>1
<1>6. upTo = body(upTo)
  <2> HIDE DEF body
  <2>1. QED BY <1>5
<1>7. AllOf(changes, path) = upTo[N]
  BY DEF AllOf
<1> HIDE DEF upTo
<1>8. upTo[0] = [adds |-> 0, dels |-> 0, writes |-> 0] /\ \A n \in 1 .. N : upTo[n] = next(n, upTo[n - 1])
  <2>1. \A n \in 0 .. N : upTo[n] = body(upTo)[n]
    BY <1>6
  <2>2. 0 \in 0 .. N /\ \A n \in 1 .. N : n \in 0 .. N /\ n # 0
    BY <1>1
  <2>3. QED BY <2>1, <2>2
<1>9. \A n \in 0 .. N : upTo[n] = g[n]
  <2> DEFINE P == {n \in 0 .. N : upTo[n] = g[n]}
  <2> HIDE DEF next
  <2>1. 0 \in P
    BY <1>1, <1>3, <1>8 DEF IsRun
  <2>2. ASSUME NEW n \in 1 .. N, n - 1 \in P PROVE n \in P
    <3>1. n \in 0 .. N /\ upTo[n - 1] = g[n - 1]
      BY <1>1, <2>2
    <3>2. upTo[n] = next(n, upTo[n - 1])
      BY <1>8
    <3>3. g[n] = next(n, g[n - 1])
      BY <1>4
    <3>4. upTo[n] = g[n]
      BY <3>1, <3>2, <3>3, Zenon
    <3>5. QED BY <3>1, <3>4
  <2>3. 0 .. N \subseteq P
    <3> HIDE DEF P
    <3>1. QED BY <1>1, <2>1, <2>2, UpTo
  <2>4. QED BY <2>3
<1>10. g[0] = [adds |-> 0, dels |-> 0, writes |-> 0] /\ AllOf(changes, path) = g[N]
  BY <1>1, <1>3, <1>7, <1>9 DEF IsRun
<1>11. QED BY <1>3, <1>4, <1>10 DEF CountsBy

(* One more change.                                                        *)
LEMMA AllGrows ==
  ASSUME NEW D, Changes(D), NEW path, NEW s \in Seq(D), NEW c \in D
  PROVE  AllOf(Append(s, c), path) = Counted(AllOf(s, path), c, path) /\ AllOf(s, path) \in Totals
<1> DEFINE next(r, x) == Counted(r, x, path)
<1>1. PICK u : u = Append(s, c)
  OBVIOUS
<1>2. PICK l : l = Len(s)
  OBVIOUS
<1>3. u \in Seq(D) /\ Len(u) = l + 1 /\ l \in Nat /\ u[l + 1] = c /\ \A i \in 1 .. l : u[i] = s[i]
  BY <1>1, <1>2, AppendIs
<1>4. PICK f : CountsBy(f, s, path)
  BY AllOfIs
<1>5. PICK g : CountsBy(g, u, path)
  BY <1>3, AllOfIs
<1>6. /\ f[0] = [adds |-> 0, dels |-> 0, writes |-> 0] /\ AllOf(s, path) = f[l] /\ f \in [0 .. l -> Totals]
      /\ \A n \in 1 .. l : f[n] = next(f[n - 1], s[n])
  BY <1>2, <1>4 DEF CountsBy
<1>7. /\ g[0] = [adds |-> 0, dels |-> 0, writes |-> 0] /\ AllOf(u, path) = g[l + 1]
      /\ \A n \in 1 .. l + 1 : g[n] = next(g[n - 1], u[n])
  BY <1>3, <1>5 DEF CountsBy
<1> HIDE DEF next
<1>8. 0 .. l \subseteq {n \in 0 .. l : g[n] = f[n]}
  <2> DEFINE P == {n \in 0 .. l : g[n] = f[n]}
  <2>1. 0 \in P
    <3>1. 0 \in 0 .. l
      BY <1>3
    <3>2. g[0] = f[0]
      BY <1>6, <1>7
    <3>3. QED BY <3>1, <3>2
  <2>2. ASSUME NEW n \in 1 .. l, n - 1 \in P PROVE n \in P
    <3>1. n \in 0 .. l /\ n \in 1 .. l + 1 /\ g[n - 1] = f[n - 1]
      BY <1>3, <2>2
    <3>2. g[n] = next(g[n - 1], u[n]) /\ f[n] = next(f[n - 1], s[n]) /\ u[n] = s[n]
      BY <1>3, <1>6, <1>7, <3>1
    <3>3. g[n] = f[n]
      BY <3>1, <3>2, Zenon
    <3>4. QED BY <3>1, <3>3
  <2> HIDE DEF P
  <2>3. 0 .. l \subseteq P
    BY <1>3, <2>1, <2>2, UpTo
  <2>4. QED BY <2>3 DEF P
<1>9. g[l] = f[l]
  <2>1. l \in 0 .. l
    BY <1>3
  <2>2. QED BY <1>8, <2>1
<1>10. g[l + 1] = next(g[l], c)
  <2>1. PICK k : k = l + 1
    OBVIOUS
  <2>2. k \in 1 .. l + 1 /\ k - 1 = l
    BY <1>3, <2>1
  <2>3. g[k] = next(g[k - 1], u[k])
    BY <1>7, <2>2
  <2>4. QED BY <1>3, <2>1, <2>2, <2>3
<1>11. AllOf(u, path) = next(AllOf(s, path), c)
  BY <1>6, <1>7, <1>9, <1>10
<1>12. AllOf(s, path) \in Totals
  <2>1. l \in 0 .. l
    BY <1>3
  <2>2. QED BY <1>6, <2>1
<1>13. QED BY <1>1, <1>11, <1>12 DEF next

(* One change of the table.                                                *)
NotIn(p, table) == \A i \in 1 .. Len(table) : table[i].path # p

Updated(new, table, c, D) ==
  \/ \E i \in 1 .. Len(table) :
       /\ table[i].path = c.path /\ Len(new) = Len(table)
       /\ new[i] = WroteAgain(table[i], c)
       /\ \A k \in 1 .. Len(table) : k # i => new[k] = table[k]
  \/ NotIn(c.path, table) /\ Len(table) = FilesMax /\ new = table
  \/ /\ NotIn(c.path, table) /\ Len(table) # FilesMax /\ Len(new) = Len(table) + 1
     /\ new[Len(table) + 1] = [path |-> c.path, adds |-> c.adds, dels |-> c.dels, writes |-> 1,
                               created |-> c.created]
     /\ \A k \in 1 .. Len(table) : new[k] = table[k]

LEMMA FileChangeIs ==
  ASSUME NEW D, Changes(D), NEW c \in D, NEW table \in Seq(Entry(D))
  PROVE  FileChange(table, c) \in Seq(Entry(D)) /\ Updated(FileChange(table, c), table, c, D)
<1> DEFINE at == {k \in DOMAIN table : table[k].path = c.path}
           i == CHOOSE k \in at : TRUE
           fresh == [path |-> c.path, adds |-> c.adds, dels |-> c.dels, writes |-> 1, created |-> c.created]
<1>1. Len(table) \in Nat /\ DOMAIN table = 1 .. Len(table) /\ \A k \in 1 .. Len(table) : table[k] \in Entry(D)
  OBVIOUS
<1>2. IsChange(c) /\ c.path \in {x.path : x \in D}
  BY DEF Changes
<1>3. PICK new : new = FileChange(table, c)
  OBVIOUS
<1>4. at = {} => NotIn(c.path, table)
  BY <1>1 DEF NotIn
<1>5. CASE at # {}
  <2>1. i \in at
    BY <1>5
  <2>2. new = [table EXCEPT ![i] = WroteAgain(table[i], c)]
    BY <1>3, <1>5 DEF FileChange
  <2>3. PICK j : j = i
    OBVIOUS
  <2>4. j \in 1 .. Len(table) /\ table[j].path = c.path
    BY <1>1, <2>1, <2>3
  <2>5. WroteAgain(table[j], c) \in Entry(D)
    <3>1. PICK e : e = table[j]
      OBVIOUS
    <3>2. e \in Entry(D)
      BY <1>1, <2>4, <3>1
    <3>3. e.adds + c.adds \in Nat /\ e.dels + c.dels \in Nat /\ e.writes + 1 \in Nat
      BY <1>2, <3>2 DEF Entry, IsChange
    <3>4. (e.created \/ c.created) \in BOOLEAN
      OBVIOUS
    <3>5. WroteAgain(e, c) \in Entry(D)
      BY <3>2, <3>3, <3>4 DEF Entry, WroteAgain
    <3>6. QED BY <3>1, <3>5
  <2>6. new = [table EXCEPT ![j] = WroteAgain(table[j], c)]
    BY <2>2, <2>3
  <2> HIDE DEF i, at
  <2>7. new \in Seq(Entry(D)) /\ Len(new) = Len(table) /\ new[j] = WroteAgain(table[j], c)
        /\ \A k \in 1 .. Len(table) : k # j => new[k] = table[k]
    BY <1>1, <2>4, <2>5, <2>6
  <2>8. Updated(new, table, c, D)
    BY <2>4, <2>7 DEF Updated
  <2>9. QED BY <1>3, <2>7, <2>8
<1>6. CASE at = {} /\ Len(table) = FilesMax
  <2>1. new = table
    BY <1>3, <1>6 DEF FileChange
  <2> HIDE DEF at, i, fresh
  <2>2. Updated(new, table, c, D)
    BY <1>4, <1>6, <2>1 DEF Updated
  <2>3. QED BY <1>3, <2>1, <2>2
<1>7. CASE at = {} /\ Len(table) # FilesMax
  <2>1. new = Append(table, fresh)
    BY <1>3, <1>7 DEF FileChange
  <2>2. fresh \in Entry(D)
    BY <1>2 DEF IsChange, Entry
  <2> HIDE DEF at, i, fresh
  <2>3. PICK f : f = fresh
    OBVIOUS
  <2>4. /\ Append(table, f) \in Seq(Entry(D)) /\ Len(Append(table, f)) = Len(table) + 1
        /\ (\A k \in 1 .. Len(table) : Append(table, f)[k] = table[k]) /\ Append(table, f)[Len(table) + 1] = f
    BY <2>2, <2>3, AppendIs
  <2>5. new \in Seq(Entry(D)) /\ Len(new) = Len(table) + 1
        /\ (\A k \in 1 .. Len(table) : new[k] = table[k]) /\ new[Len(table) + 1] = fresh
    BY <2>1, <2>3, <2>4
  <2>6. Updated(new, table, c, D)
    BY <1>4, <1>7, <2>5 DEF Updated, fresh
  <2>7. QED BY <1>3, <2>5, <2>6
<1>8. QED BY <1>5, <1>6, <1>7

(* The table after all changes.                                            *)
FilesBy(f, changes, D) ==
  /\ f \in [0 .. Len(changes) -> Seq(Entry(D))]
  /\ f[0] = <<>>
  /\ \A n \in 1 .. Len(changes) : f[n] = FileChange(f[n - 1], changes[n])
  /\ FileTable(changes) = f[Len(changes)]

LEMMA FileTableIs ==
  ASSUME NEW D, Changes(D), NEW changes \in Seq(D)
  PROVE  \E f : FilesBy(f, changes, D)
<1> DEFINE N == Len(changes)
           T == Seq(Entry(D))
           next(n, r) == FileChange(r, changes[n])
           body(f) == [n \in 0 .. N |-> IF n = 0 THEN <<>> ELSE FileChange(f[n - 1], changes[n])]
           upTo == CHOOSE f : f = body(f)
           d == [p \in Nat \X T |-> IF p[1] \in 1 .. N THEN next(p[1], p[2]) ELSE <<>>]
<1>1. N \in Nat /\ <<>> \in T /\ \A n \in 1 .. N : changes[n] \in D
  OBVIOUS
<1>2. \A n \in 1 .. N, r \in T : next(n, r) \in T
  BY <1>1, FileChangeIs
<1>3. PICK g \in [0 .. N -> T] : IsRun(g, <<>>, d, N)
  <2>1. d \in [Nat \X T -> T]
    BY <1>1, <1>2
  <2> HIDE DEF d, N, T
  <2>2. QED BY <1>1, <2>1, FiniteRecursion
<1>4. ASSUME NEW n \in 1 .. N PROVE g[n] = next(n, g[n - 1])
  <2>1. n - 1 \in 0 .. N /\ n \in Nat
    BY <1>1
  <2>2. g[n - 1] \in T
    BY <1>3, <2>1
  <2>3. d[<<n, g[n - 1]>>] = next(n, g[n - 1])
    <3> HIDE DEF next, T
    <3>1. QED BY <2>1, <2>2
  <2>4. QED BY <1>3, <2>3 DEF IsRun
<1>5. g = body(g)
  <2>1. ASSUME NEW n \in 0 .. N PROVE g[n] = body(g)[n]
    <3>1. n = 0 \/ n \in 1 .. N
      BY <1>1
    <3>2. QED BY <1>3, <1>4, <3>1 DEF IsRun
  <2>2. QED BY <1>3, <2>1
<1>6. upTo = body(upTo)
  <2> HIDE DEF body
  <2>1. QED BY <1>5
<1>7. FileTable(changes) = upTo[N]
  BY DEF FileTable
<1> HIDE DEF upTo
<1>8. upTo[0] = <<>> /\ \A n \in 1 .. N : upTo[n] = next(n, upTo[n - 1])
  <2>1. \A n \in 0 .. N : upTo[n] = body(upTo)[n]
    BY <1>6
  <2>2. 0 \in 0 .. N /\ \A n \in 1 .. N : n \in 0 .. N /\ n # 0
    BY <1>1
  <2>3. QED BY <2>1, <2>2
<1>9. \A n \in 0 .. N : upTo[n] = g[n]
  <2> DEFINE P == {n \in 0 .. N : upTo[n] = g[n]}
  <2> HIDE DEF next
  <2>1. 0 \in P
    BY <1>1, <1>3, <1>8 DEF IsRun
  <2>2. ASSUME NEW n \in 1 .. N, n - 1 \in P PROVE n \in P
    <3>1. n \in 0 .. N /\ upTo[n - 1] = g[n - 1]
      BY <1>1, <2>2
    <3>2. upTo[n] = next(n, upTo[n - 1])
      BY <1>8
    <3>3. g[n] = next(n, g[n - 1])
      BY <1>4
    <3>4. upTo[n] = g[n]
      BY <3>1, <3>2, <3>3, Zenon
    <3>5. QED BY <3>1, <3>4
  <2>3. 0 .. N \subseteq P
    <3> HIDE DEF P
    <3>1. QED BY <1>1, <2>1, <2>2, UpTo
  <2>4. QED BY <2>3
<1>10. g[0] = <<>> /\ FileTable(changes) = g[N]
  BY <1>1, <1>3, <1>7, <1>9 DEF IsRun
<1>11. QED BY <1>3, <1>4, <1>10 DEF FilesBy

(* One more change of the table.                                           *)
LEMMA FilesGrow ==
  ASSUME NEW D, Changes(D), NEW s \in Seq(D), NEW c \in D
  PROVE  FileTable(Append(s, c)) = FileChange(FileTable(s), c) /\ FileTable(s) \in Seq(Entry(D))
<1> DEFINE next(r, x) == FileChange(r, x)
<1>1. PICK u : u = Append(s, c)
  OBVIOUS
<1>2. PICK l : l = Len(s)
  OBVIOUS
<1>3. u \in Seq(D) /\ Len(u) = l + 1 /\ l \in Nat /\ u[l + 1] = c /\ \A i \in 1 .. l : u[i] = s[i]
  BY <1>1, <1>2, AppendIs
<1>4. PICK f : FilesBy(f, s, D)
  BY FileTableIs
<1>5. PICK g : FilesBy(g, u, D)
  BY <1>3, FileTableIs
<1>6. /\ f[0] = <<>> /\ FileTable(s) = f[l] /\ f \in [0 .. l -> Seq(Entry(D))]
      /\ \A n \in 1 .. l : f[n] = next(f[n - 1], s[n])
  BY <1>2, <1>4 DEF FilesBy
<1>7. /\ g[0] = <<>> /\ FileTable(u) = g[l + 1]
      /\ \A n \in 1 .. l + 1 : g[n] = next(g[n - 1], u[n])
  BY <1>3, <1>5 DEF FilesBy
<1> HIDE DEF next
<1>8. 0 .. l \subseteq {n \in 0 .. l : g[n] = f[n]}
  <2> DEFINE P == {n \in 0 .. l : g[n] = f[n]}
  <2>1. 0 \in P
    <3>1. 0 \in 0 .. l
      BY <1>3
    <3>2. g[0] = f[0]
      BY <1>6, <1>7
    <3>3. QED BY <3>1, <3>2
  <2>2. ASSUME NEW n \in 1 .. l, n - 1 \in P PROVE n \in P
    <3>1. n \in 0 .. l /\ n \in 1 .. l + 1 /\ g[n - 1] = f[n - 1]
      BY <1>3, <2>2
    <3>2. g[n] = next(g[n - 1], u[n]) /\ f[n] = next(f[n - 1], s[n]) /\ u[n] = s[n]
      BY <1>3, <1>6, <1>7, <3>1
    <3>3. g[n] = f[n]
      BY <3>1, <3>2, Zenon
    <3>4. QED BY <3>1, <3>3
  <2> HIDE DEF P
  <2>3. 0 .. l \subseteq P
    BY <1>3, <2>1, <2>2, UpTo
  <2>4. QED BY <2>3 DEF P
<1>9. g[l] = f[l]
  <2>1. l \in 0 .. l
    BY <1>3
  <2>2. QED BY <1>8, <2>1
<1>10. g[l + 1] = next(g[l], c)
  <2>1. PICK k : k = l + 1
    OBVIOUS
  <2>2. k \in 1 .. l + 1 /\ k - 1 = l
    BY <1>3, <2>1
  <2>3. g[k] = next(g[k - 1], u[k])
    BY <1>7, <2>2
  <2>4. QED BY <1>3, <2>1, <2>2, <2>3
<1>11. FileTable(u) = next(FileTable(s), c)
  BY <1>6, <1>7, <1>9, <1>10
<1>12. FileTable(s) \in Seq(Entry(D))
  <2>1. l \in 0 .. l
    BY <1>3
  <2>2. QED BY <1>6, <2>1
<1>13. QED BY <1>1, <1>11, <1>12 DEF next

(* What the table tells.                                                   *)
SumsOf(e) == [adds |-> e.adds, dels |-> e.dels, writes |-> e.writes]
TableOK(table, changes, D) ==
  /\ table \in Seq(Entry(D))
  /\ \A i \in 1 .. Len(table) : SumsOf(table[i]) = AllOf(changes, table[i].path)
  /\ \A i \in 1 .. Len(table), k \in 1 .. Len(table) : table[i].path = table[k].path => i = k
  /\ \A p : NotIn(p, table) => Len(table) = FilesMax \/ AllOf(changes, p) = [adds |-> 0, dels |-> 0, writes |-> 0]

LEMMA TableStays ==
  ASSUME NEW D, Changes(D), NEW changes \in Seq(D), NEW c \in D, NEW table, TableOK(table, changes, D)
  PROVE  TableOK(FileChange(table, c), Append(changes, c), D)
<1>1. PICK new : new = FileChange(table, c)
  OBVIOUS
<1>2. PICK all : all = Append(changes, c)
  OBVIOUS
<1>3. table \in Seq(Entry(D)) /\ Len(table) \in Nat
  BY DEF TableOK
<1>4. new \in Seq(Entry(D)) /\ Updated(new, table, c, D)
  BY <1>1, <1>3, FileChangeIs
<1>5. \A i \in 1 .. Len(table) : SumsOf(table[i]) = AllOf(changes, table[i].path)
  BY DEF TableOK
<1>6. \A i \in 1 .. Len(table), k \in 1 .. Len(table) : table[i].path = table[k].path => i = k
  BY DEF TableOK
<1>7. \A p : NotIn(p, table) =>
        Len(table) = FilesMax \/ AllOf(changes, p) = [adds |-> 0, dels |-> 0, writes |-> 0]
  BY DEF TableOK
<1>8. \A p : AllOf(all, p) = Counted(AllOf(changes, p), c, p)
  BY <1>2, AllGrows
<1>9. \A p : p # c.path => AllOf(all, p) = AllOf(changes, p)
  BY <1>8 DEF Counted
<1>10. AllOf(all, c.path) =
         [adds |-> AllOf(changes, c.path).adds + c.adds, dels |-> AllOf(changes, c.path).dels + c.dels,
          writes |-> AllOf(changes, c.path).writes + 1]
  BY <1>8 DEF Counted
<1>11. IsChange(c)
  BY DEF Changes
<1>12. \A i \in 1 .. Len(table) : table[i] \in Entry(D)
  BY <1>3
<1>13. CASE \E i \in 1 .. Len(table) :
              /\ table[i].path = c.path /\ Len(new) = Len(table)
              /\ new[i] = WroteAgain(table[i], c)
              /\ \A k \in 1 .. Len(table) : k # i => new[k] = table[k]
  <2>1. PICK i \in 1 .. Len(table) :
              /\ table[i].path = c.path /\ Len(new) = Len(table)
              /\ new[i] = WroteAgain(table[i], c)
              /\ \A k \in 1 .. Len(table) : k # i => new[k] = table[k]
    BY <1>13
  <2>2. PICK e : e = table[i]
    OBVIOUS
  <2>3. e \in Entry(D) /\ e.path = c.path /\ SumsOf(e) = AllOf(changes, c.path)
    BY <1>5, <1>12, <2>1, <2>2
  <2>4. new[i].path = c.path /\ new[i].adds = e.adds + c.adds /\ new[i].dels = e.dels + c.dels
        /\ new[i].writes = e.writes + 1
    BY <2>1, <2>2, <2>3 DEF WroteAgain, Entry
  <2>5. SumsOf(new[i]) = AllOf(all, c.path)
    <3>1. AllOf(changes, c.path).adds = e.adds /\ AllOf(changes, c.path).dels = e.dels
          /\ AllOf(changes, c.path).writes = e.writes
      BY <2>3 DEF SumsOf
    <3>2. QED BY <1>10, <2>4, <3>1 DEF SumsOf
  <2>6. ASSUME NEW k \in 1 .. Len(new) PROVE new[k].path = table[k].path
    BY <2>1, <2>4
  <2>7. ASSUME NEW k \in 1 .. Len(new) PROVE SumsOf(new[k]) = AllOf(all, new[k].path)
    <3>1. CASE k = i
      BY <2>4, <2>5, <3>1
    <3>2. CASE k # i
      <4>1. new[k] = table[k] /\ k \in 1 .. Len(table) /\ table[k].path # c.path
        BY <1>6, <2>1, <3>2
      <4>2. QED BY <1>5, <1>9, <4>1
    <3>3. QED BY <3>1, <3>2
  <2>8. \A j \in 1 .. Len(new), k \in 1 .. Len(new) : new[j].path = new[k].path => j = k
    BY <1>6, <2>1, <2>6
  <2>9. \A p : NotIn(p, new) => NotIn(p, table) /\ p # c.path
    BY <2>1, <2>4, <2>6 DEF NotIn
  <2>10. \A p : NotIn(p, new) =>
           Len(new) = FilesMax \/ AllOf(all, p) = [adds |-> 0, dels |-> 0, writes |-> 0]
    BY <1>7, <1>9, <2>1, <2>9
  <2>11. QED BY <1>1, <1>2, <1>4, <2>7, <2>8, <2>10 DEF TableOK
<1>14. CASE NotIn(c.path, table) /\ Len(table) = FilesMax /\ new = table
  <2>1. \A i \in 1 .. Len(table) : table[i].path # c.path
    BY <1>14 DEF NotIn
  <2>2. \A i \in 1 .. Len(new) : SumsOf(new[i]) = AllOf(all, new[i].path)
    BY <1>5, <1>9, <1>14, <2>1
  <2>3. QED BY <1>1, <1>2, <1>4, <1>6, <1>14, <2>2 DEF TableOK
<1>15. CASE /\ NotIn(c.path, table) /\ Len(table) # FilesMax /\ Len(new) = Len(table) + 1
            /\ new[Len(table) + 1] = [path |-> c.path, adds |-> c.adds, dels |-> c.dels, writes |-> 1,
                                      created |-> c.created]
            /\ \A k \in 1 .. Len(table) : new[k] = table[k]
  <2>1. \A i \in 1 .. Len(table) : table[i].path # c.path
    BY <1>15 DEF NotIn
  <2>2. AllOf(changes, c.path) = [adds |-> 0, dels |-> 0, writes |-> 0]
    BY <1>7, <1>15
  <2>3. AllOf(all, c.path) = [adds |-> c.adds, dels |-> c.dels, writes |-> 1]
    <3>1. c.adds \in Nat /\ c.dels \in Nat /\ 0 + c.adds = c.adds /\ 0 + c.dels = c.dels /\ 0 + 1 = 1
      BY <1>11 DEF IsChange
    <3>2. QED BY <1>10, <2>2, <3>1
  <2>4. PICK l : l = Len(table)
    OBVIOUS
  <2>5. l \in Nat /\ Len(new) = l + 1 /\ new[l + 1].path = c.path /\ SumsOf(new[l + 1]) = AllOf(all, c.path)
    BY <1>3, <1>15, <2>3, <2>4 DEF SumsOf
  <2>6. \A i \in 1 .. l : new[i] = table[i] /\ new[i].path # c.path
    BY <1>15, <2>1, <2>4
  <2>7. ASSUME NEW k \in 1 .. l + 1 PROVE SumsOf(new[k]) = AllOf(all, new[k].path)
    <3>1. CASE k = l + 1
      BY <2>5, <3>1
    <3>2. CASE k \in 1 .. l
      BY <1>5, <1>9, <2>4, <2>6, <3>2
    <3>3. QED BY <2>5, <3>1, <3>2
  <2>8. ASSUME NEW j \in 1 .. l + 1, NEW k \in 1 .. l + 1, new[j].path = new[k].path PROVE j = k
    <3>1. j \in 1 .. l \/ j = l + 1
      BY <2>5
    <3>2. k \in 1 .. l \/ k = l + 1
      BY <2>5
    <3>3. QED BY <1>6, <2>4, <2>5, <2>6, <2>8, <3>1, <3>2
  <2>9. ASSUME NEW p, NotIn(p, new) PROVE NotIn(p, table) /\ p # c.path
    <3>1. \A i \in 1 .. l + 1 : new[i].path # p
      BY <2>5, <2>9 DEF NotIn
    <3>2. l + 1 \in 1 .. l + 1 /\ \A i \in 1 .. l : i \in 1 .. l + 1
      BY <2>5
    <3>3. QED BY <2>4, <2>5, <2>6, <3>1, <3>2 DEF NotIn
  <2>10. \A p : NotIn(p, new) =>
           Len(new) = FilesMax \/ AllOf(all, p) = [adds |-> 0, dels |-> 0, writes |-> 0]
    BY <1>7, <1>9, <1>15, <2>9
  <2>11. QED BY <1>1, <1>2, <1>4, <2>5, <2>7, <2>8, <2>10 DEF TableOK
<1>16. QED BY <1>4, <1>13, <1>14, <1>15 DEF Updated

LEMMA TableIs ==
  ASSUME NEW D, Changes(D), NEW changes \in Seq(D)
  PROVE  TableOK(FileTable(changes), changes, D)
<1> DEFINE piece(n) == SubSeq(changes, 1, n)
           P == {n \in 0 .. Len(changes) : TableOK(FileTable(piece(n)), piece(n), D)}
<1>1. Len(changes) \in Nat /\ 0 \in 0 .. Len(changes) /\ Len(changes) \in 0 .. Len(changes)
  OBVIOUS
<1>2. 0 \in P
  <2>1. piece(0) = <<>> /\ <<>> \in Seq(D) /\ Len(<<>>) = 0
    OBVIOUS
  <2>2. FileTable(<<>>) = <<>>
    <3>1. PICK f : FilesBy(f, <<>>, D)
      BY <2>1, FileTableIs
    <3>2. QED BY <2>1, <3>1 DEF FilesBy
  <2>3. \A p : AllOf(<<>>, p) = [adds |-> 0, dels |-> 0, writes |-> 0]
    <3>1. ASSUME NEW p PROVE AllOf(<<>>, p) = [adds |-> 0, dels |-> 0, writes |-> 0]
      <4>1. PICK f : CountsBy(f, <<>>, p)
        BY <2>1, AllOfIs
      <4>2. QED BY <2>1, <4>1 DEF CountsBy
    <3>2. QED BY <3>1
  <2>4. <<>> \in Seq(Entry(D)) /\ \A i \in 1 .. Len(<<>>) : FALSE
    OBVIOUS
  <2>5. TableOK(<<>>, <<>>, D)
    BY <2>3, <2>4 DEF TableOK
  <2>6. QED BY <1>1, <2>1, <2>2, <2>5
<1>3. ASSUME NEW n \in 1 .. Len(changes), n - 1 \in P PROVE n \in P
  <2>1. PICK s : s = piece(n - 1)
    OBVIOUS
  <2>2. PICK c : c = changes[n]
    OBVIOUS
  <2>3. piece(n) = Append(s, c) /\ s \in Seq(D) /\ c \in D
    BY <2>1, <2>2, PrefixGrows
  <2>4. TableOK(FileTable(s), s, D)
    BY <1>3, <2>1
  <2>5. FileTable(Append(s, c)) = FileChange(FileTable(s), c)
    BY <2>3, FilesGrow
  <2>6. TableOK(FileChange(FileTable(s), c), Append(s, c), D)
    BY <2>3, <2>4, TableStays
  <2>7. n \in 0 .. Len(changes)
    BY <1>1
  <2> HIDE DEF piece
  <2>8. TableOK(FileTable(piece(n)), piece(n), D)
    BY <2>3, <2>5, <2>6
  <2>9. QED BY <2>7, <2>8
<1> HIDE DEF P
<1>4. Len(changes) \in P
  <2>1. 0 .. Len(changes) \subseteq P
    BY <1>1, <1>2, <1>3, UpTo
  <2>2. QED BY <1>1, <2>1
<1>5. SubSeq(changes, 1, Len(changes)) = changes
  BY SubSeqFull
<1>6. QED BY <1>4, <1>5 DEF P

(* A ring of places.                                                       *)
LEMMA Remainder ==
  ASSUME NEW H \in Nat \ {0}, NEW a \in Nat
  PROVE  a % H \in 0 .. H - 1 /\ a \div H \in Nat /\ a = H * (a \div H) + (a % H)
OBVIOUS

LEMMA RemainderIs ==
  ASSUME NEW H \in Nat \ {0}, NEW a \in Nat, NEW q \in Nat, NEW r \in 0 .. H - 1, a = H * q + r
  PROVE  a % H = r
OBVIOUS

LEMMA ProductGrows ==
  ASSUME NEW H \in Nat \ {0}, NEW d \in Int, d >= 1
  PROVE  H * d >= H
OBVIOUS

LEMMA OtherPlace ==
  ASSUME NEW H \in Nat \ {0}, NEW a \in Nat, NEW b \in Nat, a < b, b - a < H
  PROVE  a % H # b % H
<1>1. PICK q \in Nat, r \in 0 .. H - 1 : a % H = r /\ a = H * q + r
  BY Remainder
<1>2. PICK p \in Nat, t \in 0 .. H - 1 : b % H = t /\ b = H * p + t
  BY Remainder
<1>3. SUFFICES ASSUME r = t PROVE FALSE
  BY <1>1, <1>2
<1>4. b - a = H * p - H * q
  BY <1>1, <1>2, <1>3
<1>5. H * p - H * q = H * (p - q)
  OBVIOUS
<1>6. CASE p - q >= 1
  <2>1. H * (p - q) >= H
    BY <1>6, ProductGrows
  <2>2. PICK x \in Int : x = H * (p - q)
    OBVIOUS
  <2>3. x >= H /\ b - a = x
    BY <1>4, <1>5, <2>1, <2>2
  <2>4. QED BY <2>3
<1>7. CASE p - q = 0
  <2>1. H * (p - q) = 0
    BY <1>7
  <2>2. b - a = 0
    BY <1>4, <1>5, <2>1
  <2>3. QED BY <2>2
<1>8. CASE q - p >= 1
  <2>1. H * (q - p) >= H /\ H * (p - q) = - (H * (q - p))
    BY <1>8, ProductGrows
  <2>2. PICK x \in Int : x = H * (q - p)
    OBVIOUS
  <2>3. x >= H /\ b - a = - x
    BY <1>4, <1>5, <2>1, <2>2
  <2>4. QED BY <2>3
<1>9. QED BY <1>6, <1>7, <1>8

LEMMA SamePlace ==
  ASSUME NEW H \in Nat \ {0}, NEW n \in Nat, NEW k \in 1 .. H, n >= H
  PROVE  ((n % H) + k - 1) % H = (n - H + k - 1) % H
<1>1. PICK q \in Nat, r \in 0 .. H - 1 : n % H = r /\ n = H * q + r
  BY Remainder
<1>2. q # 0
  BY <1>1
<1>3. PICK a \in Nat : a = r + k - 1
  OBVIOUS
<1>4. PICK p \in Nat, t \in 0 .. H - 1 : a % H = t /\ a = H * p + t
  BY Remainder
<1>5. PICK b \in Nat : b = n - H + k - 1
  OBVIOUS
<1>6. PICK x \in Nat : x = q - 1 + p
  BY <1>2
<1>7. H * x = H * q - H + H * p
  BY <1>6
<1>8. b = H * x + t
  <2>1. b = H * q + r - H + k - 1
    BY <1>1, <1>5
  <2>2. r + k - 1 = H * p + t
    BY <1>3, <1>4
  <2>3. PICK y \in Int : y = H * q
    OBVIOUS
  <2>4. PICK z \in Int : z = H * p
    OBVIOUS
  <2>5. H * x = y - H + z
    BY <1>7, <2>3, <2>4
  <2>6. b = y + r - H + k - 1 /\ r + k - 1 = z + t
    BY <2>1, <2>2, <2>3, <2>4
  <2>7. PICK v \in Int : v = H * x
    OBVIOUS
  <2>8. v = y - H + z
    BY <2>5, <2>7
  <2>9. b = v + t
    BY <2>6, <2>8
  <2>10. QED BY <2>7, <2>9
<1>9. b % H = t
  BY <1>8, RemainderIs
<1>10. QED BY <1>1, <1>3, <1>4, <1>5, <1>9

(* The turns that the graph is drawn from.                                 *)
Counters == [turns : Nat, total : Nat, hist : [1 .. StatHist -> Nat]]

LEMMA RecordIn ==
  ASSUME NEW st \in Counters, NEW tokens \in Nat
  PROVE  StatsRecord(st, tokens) \in Counters
<1>1. st.turns + 1 \in Nat /\ st.total + tokens \in Nat /\ st.hist \in [1 .. StatHist -> Nat]
  BY DEF Counters
<1>2. [st.hist EXCEPT ![(st.turns % StatHist) + 1] = tokens] \in [1 .. StatHist -> Nat]
  BY <1>1
<1>3. QED BY <1>1, <1>2 DEF StatsRecord, Counters

(* The statistics after all turns.                                         *)
StatsBy(f, turns) ==
  /\ f \in [0 .. Len(turns) -> Counters]
  /\ f[0] = NoStats
  /\ \A n \in 1 .. Len(turns) : f[n] = StatsRecord(f[n - 1], turns[n])
  /\ Stats(turns) = f[Len(turns)]

LEMMA StatsIs ==
  ASSUME NEW turns \in Seq(Nat)
  PROVE  \E f : StatsBy(f, turns)
<1> DEFINE N == Len(turns)
           T == Counters
           next(n, r) == StatsRecord(r, turns[n])
           body(f) == [n \in 0 .. N |-> IF n = 0 THEN NoStats ELSE StatsRecord(f[n - 1], turns[n])]
           upTo == CHOOSE f : f = body(f)
           d == [p \in Nat \X T |-> IF p[1] \in 1 .. N THEN next(p[1], p[2]) ELSE NoStats]
<1>1. N \in Nat /\ NoStats \in T /\ \A n \in 1 .. N : turns[n] \in Nat
  BY DEF NoStats, Counters
<1>2. \A n \in 1 .. N, r \in T : next(n, r) \in T
  BY <1>1, RecordIn
<1>3. PICK g \in [0 .. N -> T] : IsRun(g, NoStats, d, N)
  <2>1. d \in [Nat \X T -> T]
    BY <1>1, <1>2
  <2> HIDE DEF d, N, T
  <2>2. QED BY <1>1, <2>1, FiniteRecursion
<1>4. ASSUME NEW n \in 1 .. N PROVE g[n] = next(n, g[n - 1])
  <2>1. n - 1 \in 0 .. N /\ n \in Nat
    BY <1>1
  <2>2. g[n - 1] \in T
    BY <1>3, <2>1
  <2>3. d[<<n, g[n - 1]>>] = next(n, g[n - 1])
    <3> HIDE DEF next, T
    <3>1. QED BY <2>1, <2>2
  <2>4. QED BY <1>3, <2>3 DEF IsRun
<1>5. g = body(g)
  <2>1. ASSUME NEW n \in 0 .. N PROVE g[n] = body(g)[n]
    <3>1. n = 0 \/ n \in 1 .. N
      BY <1>1
    <3>2. QED BY <1>3, <1>4, <3>1 DEF IsRun
  <2>2. QED BY <1>3, <2>1
<1>6. upTo = body(upTo)
  <2> HIDE DEF body
  <2>1. QED BY <1>5
<1>7. Stats(turns) = upTo[N]
  BY DEF Stats
<1> HIDE DEF upTo
<1>8. upTo[0] = NoStats /\ \A n \in 1 .. N : upTo[n] = next(n, upTo[n - 1])
  <2>1. \A n \in 0 .. N : upTo[n] = body(upTo)[n]
    BY <1>6
  <2>2. 0 \in 0 .. N /\ \A n \in 1 .. N : n \in 0 .. N /\ n # 0
    BY <1>1
  <2>3. QED BY <2>1, <2>2
<1>9. \A n \in 0 .. N : upTo[n] = g[n]
  <2> DEFINE P == {n \in 0 .. N : upTo[n] = g[n]}
  <2> HIDE DEF next
  <2>1. 0 \in P
    BY <1>1, <1>3, <1>8 DEF IsRun
  <2>2. ASSUME NEW n \in 1 .. N, n - 1 \in P PROVE n \in P
    <3>1. n \in 0 .. N /\ upTo[n - 1] = g[n - 1]
      BY <1>1, <2>2
    <3>2. upTo[n] = next(n, upTo[n - 1])
      BY <1>8
    <3>3. g[n] = next(n, g[n - 1])
      BY <1>4
    <3>4. upTo[n] = g[n]
      BY <3>1, <3>2, <3>3, Zenon
    <3>5. QED BY <3>1, <3>4
  <2>3. 0 .. N \subseteq P
    <3> HIDE DEF P
    <3>1. QED BY <1>1, <2>1, <2>2, UpTo
  <2>4. QED BY <2>3
<1>10. g[0] = NoStats /\ Stats(turns) = g[N]
  BY <1>1, <1>3, <1>7, <1>9 DEF IsRun
<1>11. QED BY <1>3, <1>4, <1>10 DEF StatsBy

(* One more turn.                                                          *)
LEMMA StatsGrow ==
  ASSUME NEW s \in Seq(Nat), NEW c \in Nat
  PROVE  Stats(Append(s, c)) = StatsRecord(Stats(s), c) /\ Stats(s) \in Counters
<1> DEFINE next(r, x) == StatsRecord(r, x)
<1>1. PICK u : u = Append(s, c)
  OBVIOUS
<1>2. PICK l : l = Len(s)
  OBVIOUS
<1>3. u \in Seq(Nat) /\ Len(u) = l + 1 /\ l \in Nat /\ u[l + 1] = c /\ \A i \in 1 .. l : u[i] = s[i]
  BY <1>1, <1>2, AppendIs
<1>4. PICK f : StatsBy(f, s)
  BY StatsIs
<1>5. PICK g : StatsBy(g, u)
  BY <1>3, StatsIs
<1>6. /\ f[0] = NoStats /\ Stats(s) = f[l] /\ f \in [0 .. l -> Counters]
      /\ \A n \in 1 .. l : f[n] = next(f[n - 1], s[n])
  BY <1>2, <1>4 DEF StatsBy
<1>7. /\ g[0] = NoStats /\ Stats(u) = g[l + 1]
      /\ \A n \in 1 .. l + 1 : g[n] = next(g[n - 1], u[n])
  BY <1>3, <1>5 DEF StatsBy
<1> HIDE DEF next
<1>8. 0 .. l \subseteq {n \in 0 .. l : g[n] = f[n]}
  <2> DEFINE P == {n \in 0 .. l : g[n] = f[n]}
  <2>1. 0 \in P
    <3>1. 0 \in 0 .. l
      BY <1>3
    <3>2. g[0] = f[0]
      BY <1>6, <1>7
    <3>3. QED BY <3>1, <3>2
  <2>2. ASSUME NEW n \in 1 .. l, n - 1 \in P PROVE n \in P
    <3>1. n \in 0 .. l /\ n \in 1 .. l + 1 /\ g[n - 1] = f[n - 1]
      BY <1>3, <2>2
    <3>2. g[n] = next(g[n - 1], u[n]) /\ f[n] = next(f[n - 1], s[n]) /\ u[n] = s[n]
      BY <1>3, <1>6, <1>7, <3>1
    <3>3. g[n] = f[n]
      BY <3>1, <3>2, Zenon
    <3>4. QED BY <3>1, <3>3
  <2> HIDE DEF P
  <2>3. 0 .. l \subseteq P
    BY <1>3, <2>1, <2>2, UpTo
  <2>4. QED BY <2>3 DEF P
<1>9. g[l] = f[l]
  <2>1. l \in 0 .. l
    BY <1>3
  <2>2. QED BY <1>8, <2>1
<1>10. g[l + 1] = next(g[l], c)
  <2>1. PICK k : k = l + 1
    OBVIOUS
  <2>2. k \in 1 .. l + 1 /\ k - 1 = l
    BY <1>3, <2>1
  <2>3. g[k] = next(g[k - 1], u[k])
    BY <1>7, <2>2
  <2>4. QED BY <1>3, <2>1, <2>2, <2>3
<1>11. Stats(u) = next(Stats(s), c)
  BY <1>6, <1>7, <1>9, <1>10
<1>12. Stats(s) \in Counters
  <2>1. l \in 0 .. l
    BY <1>3
  <2>2. QED BY <1>6, <2>1
<1>13. QED BY <1>1, <1>11, <1>12 DEF next

RingOK(st, ts) ==
  /\ st \in Counters /\ st.turns = Len(ts)
  /\ \A j \in 1 .. Len(ts) : j > Len(ts) - StatHist => st.hist[((j - 1) % StatHist) + 1] = ts[j]

LEMMA RingStays ==
  ASSUME NEW ts \in Seq(Nat), NEW c \in Nat, NEW st, RingOK(st, ts)
  PROVE  RingOK(StatsRecord(st, c), Append(ts, c))
<1>1. PICK n : n = Len(ts)
  OBVIOUS
<1>2. PICK all : all = Append(ts, c)
  OBVIOUS
<1>3. Len(all) = n + 1 /\ n \in Nat /\ all[n + 1] = c /\ \A i \in 1 .. n : all[i] = ts[i]
  BY <1>1, <1>2, AppendIs
<1>4. PICK H : H = StatHist
  OBVIOUS
<1>5. H \in Nat \ {0}
  BY <1>4, CommandsAssumption
<1>6. st \in Counters /\ st.turns = n /\ \A j \in 1 .. n : j > n - H => st.hist[((j - 1) % H) + 1] = ts[j]
  BY <1>1, <1>4 DEF RingOK
<1>7. PICK new : new = StatsRecord(st, c)
  OBVIOUS
<1>8. new \in Counters
  BY <1>6, <1>7, RecordIn
<1>9. new.turns = n + 1 /\ new.hist = [st.hist EXCEPT ![(n % H) + 1] = c]
  BY <1>4, <1>6, <1>7 DEF StatsRecord
<1>10. st.hist \in [1 .. H -> Nat]
  BY <1>4, <1>6 DEF Counters
<1>11. \A a \in Nat : (a % H) + 1 \in 1 .. H
  BY <1>5, Remainder
<1>12. ASSUME NEW j \in 1 .. n + 1, j > n + 1 - H PROVE new.hist[((j - 1) % H) + 1] = all[j]
  <2>1. CASE j = n + 1
    <3>1. j - 1 = n
      BY <1>3, <2>1
    <3>2. (n % H) + 1 \in 1 .. H
      BY <1>3, <1>11
    <3>3. new.hist[(n % H) + 1] = c
      BY <1>9, <1>10, <3>2
    <3>4. QED BY <1>3, <2>1, <3>1, <3>3
  <2>2. CASE j \in 1 .. n
    <3>1. j - 1 \in Nat /\ j - 1 < n /\ n - (j - 1) < H /\ j > n - H
      BY <1>3, <1>5, <1>12, <2>2
    <3>2. (j - 1) % H # n % H
      BY <1>3, <1>5, <3>1, OtherPlace
    <3>3. PICK a : a = (j - 1) % H
      OBVIOUS
    <3>4. PICK b : b = n % H
      OBVIOUS
    <3>5. a \in Nat /\ b \in Nat /\ a # b /\ a + 1 \in 1 .. H
      BY <1>3, <1>5, <1>11, <3>1, <3>2, <3>3, <3>4, Remainder
    <3>6. a + 1 # b + 1
      BY <3>5
    <3>7. new.hist[a + 1] = st.hist[a + 1]
      BY <1>9, <1>10, <3>4, <3>5, <3>6
    <3>8. st.hist[a + 1] = ts[j]
      BY <1>6, <2>2, <3>1, <3>3
    <3>9. QED BY <1>3, <2>2, <3>3, <3>7, <3>8
  <2>3. QED BY <1>3, <2>1, <2>2
<1>13. new.turns = Len(all)
  BY <1>3, <1>9
<1>14. PICK l : l = Len(all)
  OBVIOUS
<1>15. \A j \in 1 .. l : j > l - H => new.hist[((j - 1) % H) + 1] = all[j]
  <2>1. l = n + 1
    BY <1>3, <1>14
  <2>2. ASSUME NEW j \in 1 .. l, j > l - H PROVE new.hist[((j - 1) % H) + 1] = all[j]
    <3>1. j \in 1 .. n + 1 /\ j > n + 1 - H
      BY <1>3, <1>5, <2>1, <2>2
    <3>2. QED BY <1>12, <3>1
  <2>3. QED BY <2>2
<1>16. RingOK(new, all)
  BY <1>4, <1>8, <1>13, <1>14, <1>15, Zenon DEF RingOK
<1>17. QED BY <1>2, <1>7, <1>16

LEMMA RingIs ==
  ASSUME NEW ts \in Seq(Nat)
  PROVE  RingOK(Stats(ts), ts)
<1> DEFINE piece(n) == SubSeq(ts, 1, n)
           P == {n \in 0 .. Len(ts) : RingOK(Stats(piece(n)), piece(n))}
<1>1. Len(ts) \in Nat /\ 0 \in 0 .. Len(ts) /\ Len(ts) \in 0 .. Len(ts)
  OBVIOUS
<1>2. 0 \in P
  <2>1. piece(0) = <<>> /\ <<>> \in Seq(Nat) /\ Len(<<>>) = 0
    OBVIOUS
  <2>2. PICK f : StatsBy(f, <<>>)
    BY <2>1, StatsIs
  <2>3. Stats(<<>>) = NoStats
    BY <2>1, <2>2 DEF StatsBy
  <2>4. NoStats \in Counters /\ NoStats.turns = 0
    BY DEF NoStats, Counters
  <2>5. RingOK(NoStats, <<>>)
    BY <2>1, <2>4 DEF RingOK
  <2>6. QED BY <1>1, <2>1, <2>3, <2>5
<1>3. ASSUME NEW n \in 1 .. Len(ts), n - 1 \in P PROVE n \in P
  <2>1. PICK s : s = piece(n - 1)
    OBVIOUS
  <2>2. PICK c : c = ts[n]
    OBVIOUS
  <2>3. piece(n) = Append(s, c) /\ s \in Seq(Nat) /\ c \in Nat
    BY <2>1, <2>2, PrefixGrows
  <2>4. RingOK(Stats(s), s)
    BY <1>3, <2>1
  <2>5. Stats(Append(s, c)) = StatsRecord(Stats(s), c)
    BY <2>3, StatsGrow
  <2>6. RingOK(StatsRecord(Stats(s), c), Append(s, c))
    BY <2>3, <2>4, RingStays
  <2>7. n \in 0 .. Len(ts)
    BY <1>1
  <2> HIDE DEF piece
  <2>8. RingOK(Stats(piece(n)), piece(n))
    BY <2>3, <2>5, <2>6
  <2>9. QED BY <2>7, <2>8
<1> HIDE DEF P
<1>4. Len(ts) \in P
  <2>1. 0 .. Len(ts) \subseteq P
    BY <1>1, <1>2, <1>3, UpTo
  <2>2. QED BY <1>1, <2>1
<1>5. SubSeq(ts, 1, Len(ts)) = ts
  BY SubSeqFull
<1>6. QED BY <1>4, <1>5 DEF P

LEMMA GraphIs ==
  ASSUME NEW ts \in Seq(Nat)
  PROVE  LET latest == IF Len(ts) < StatHist THEN Len(ts) ELSE StatHist
         IN Graph(Stats(ts)) = SubSeq(ts, Len(ts) - latest + 1, Len(ts))
<1>1. PICK n : n = Len(ts)
  OBVIOUS
<1>2. PICK H : H = StatHist
  OBVIOUS
<1>3. n \in Nat /\ H \in Nat \ {0}
  BY <1>1, <1>2, CommandsAssumption
<1>4. PICK st : st = Stats(ts)
  OBVIOUS
<1>5. st.turns = n /\ \A j \in 1 .. n : j > n - H => st.hist[((j - 1) % H) + 1] = ts[j]
  BY <1>1, <1>2, <1>4, RingIs DEF RingOK
<1>6. PICK m : m = IF n < H THEN n ELSE H
  OBVIOUS
<1>7. m \in Nat /\ m <= n /\ m <= H
  BY <1>3, <1>6
<1>8. PICK first : first = IF n < H THEN 0 ELSE n % H
  OBVIOUS
<1>9. PICK drawn : drawn = Graph(st)
  OBVIOUS
<1>10. drawn = [k \in 1 .. m |-> st.hist[((first + k - 1) % H) + 1]]
  BY <1>2, <1>5, <1>6, <1>8, <1>9 DEF Graph
<1>11. PICK want : want = SubSeq(ts, n - m + 1, n)
  OBVIOUS
<1>12. want \in Seq(Nat) /\ Len(want) = m /\ \A k \in 1 .. m : want[k] = ts[n - m + k]
  <2>1. n - m + 1 \in Nat \ {0} /\ n \in 0 .. Len(ts) /\ n - m + 1 <= n + 1 /\ n - (n - m + 1) + 1 = m
    BY <1>1, <1>3, <1>7
  <2>2. want \in Seq(Nat) /\ Len(want) = n - (n - m + 1) + 1
        /\ \A k \in 1 .. n - (n - m + 1) + 1 : want[k] = ts[n - m + 1 + k - 1]
    <3>1. PICK l \in Nat \ {0} : l = n - m + 1
      BY <2>1
    <3>2. want = SubSeq(ts, l, n)
      BY <1>11, <3>1, Zenon
    <3>3. n \in 0 .. Len(ts) /\ l <= n + 1
      BY <2>1, <3>1
    <3>4. want \in Seq(Nat) /\ Len(want) = n - l + 1 /\ \A k \in 1 .. n - l + 1 : want[k] = ts[l + k - 1]
      BY <3>2, <3>3, SubIs
    <3>5. QED BY <3>1, <3>4, Zenon
  <2>3. \A k \in 1 .. m : n - m + 1 + k - 1 = n - m + k
    BY <1>3, <1>7
  <2>4. QED BY <2>1, <2>2, <2>3
<1>13. ASSUME NEW k \in 1 .. m PROVE st.hist[((first + k - 1) % H) + 1] = ts[n - m + k]
  <2>1. n - m + k \in 1 .. n /\ n - m + k > n - H
    BY <1>3, <1>7
  <2>2. st.hist[((n - m + k - 1) % H) + 1] = ts[n - m + k]
    <3>1. PICK j : j = n - m + k
      OBVIOUS
    <3>2. j \in 1 .. n /\ j > n - H
      BY <2>1, <3>1
    <3>3. st.hist[((j - 1) % H) + 1] = ts[j]
      BY <1>5, <3>2
    <3>4. n - m + k - 1 = j - 1
      BY <1>3, <1>7, <3>1
    <3>5. PICK p : p = ((j - 1) % H) + 1
      OBVIOUS
    <3>6. ((n - m + k - 1) % H) + 1 = p
      BY <3>4, <3>5
    <3>7. st.hist[p] = ts[j]
      BY <3>3, <3>5
    <3>8. QED BY <3>1, <3>6, <3>7
  <2>3. (first + k - 1) % H = (n - m + k - 1) % H
    <3>1. CASE n < H
      <4>1. first = 0 /\ m = n
        BY <1>6, <1>8, <3>1
      <4>2. first + k - 1 = n - m + k - 1
        BY <1>3, <4>1
      <4>3. QED BY <4>2
    <3>2. CASE ~(n < H)
      <4>1. first = n % H /\ m = H
        BY <1>6, <1>8, <3>2
      <4>2. k \in 1 .. H /\ n >= H
        BY <1>3, <3>2, <4>1
      <4>3. ((n % H) + k - 1) % H = (n - H + k - 1) % H
        BY <1>3, <4>2, SamePlace
      <4>4. QED BY <4>1, <4>3
    <3>3. QED BY <3>1, <3>2
  <2>4. QED BY <2>2, <2>3
<1>14. drawn = want
  <2>1. ASSUME NEW k \in 1 .. m PROVE drawn[k] = want[k]
    BY <1>10, <1>12, <1>13
  <2>2. want = [k \in 1 .. m |-> want[k]]
    BY <1>12
  <2>3. drawn = [k \in 1 .. m |-> drawn[k]]
    BY <1>10
  <2>4. QED BY <2>1, <2>2, <2>3
<1>15. QED BY <1>1, <1>2, <1>4, <1>6, <1>9, <1>11, <1>14

(* /files and /stats tell what happened.                                   *)
LEMMA TablesTell ==
  ASSUME NEW D, Changes(D), NEW changes \in Seq(D)
  PROVE  TablesAreTrue(changes)
<1> DEFINE turns == [i \in DOMAIN changes |-> changes[i].adds]
<1>1. turns \in Seq(Nat)
  <2>1. Len(changes) \in Nat /\ DOMAIN changes = 1 .. Len(changes) /\ \A i \in 1 .. Len(changes) : changes[i].adds \in Nat
    BY DEF Changes, IsChange
  <2>2. QED BY <2>1
<1>2. PICK table : table = FileTable(changes)
  OBVIOUS
<1>3. TableOK(table, changes, D)
  BY <1>2, TableIs
<1>4. DOMAIN table = 1 .. Len(table)
  BY <1>3 DEF TableOK
<1> HIDE DEF turns
<1>5. Graph(Stats(turns)) =
        SubSeq(turns, Len(turns) - (IF Len(turns) < StatHist THEN Len(turns) ELSE StatHist) + 1, Len(turns))
  BY <1>1, GraphIs
<1>6. \A i \in DOMAIN table :
          /\ [adds |-> table[i].adds, dels |-> table[i].dels, writes |-> table[i].writes]
               = AllOf(changes, table[i].path)
          /\ \A k \in DOMAIN table : table[k].path = table[i].path => k = i
  BY <1>3, <1>4 DEF TableOK, SumsOf
<1>7. QED BY <1>2, <1>5, <1>6 DEF TablesAreTrue, turns

(***************************************************************************)
(* Inputs.                                                                 *)
(***************************************************************************)
TextOK ==
  /\ part # "view" => text \in Seq(Alphabet[part])
  /\ part = "view" => Streamed(text, view)

(* The worlds a command line is typed in.                                  *)
LEMMA TypedIn ==
  ASSUME NEW w, WorldOK(w), NEW argv, ArgvOK(argv)
  PROVE  WorldOK([w EXCEPT !.argv = argv])
<1> DEFINE v == [w EXCEPT !.argv = argv]
<1>1. /\ DOMAIN v = DOMAIN w /\ v.argv = argv /\ v.files = w.files /\ v.env = w.env
      /\ v.stdin = w.stdin /\ v.answers = w.answers /\ v.loadable = w.loadable
      /\ v.fresh = w.fresh /\ v.newest = w.newest
  BY DEF WorldOK
<1> HIDE DEF v
<1>2. QED BY <1>1 DEF WorldOK

LEMMA CommandsAreSafe ==
  ASSUME TextOK
  PROVE  CommandsReachTheirReader
<1>1. ASSUME part = "lines" PROVE LinesAreJoined(text)
  <2>1. text \in Seq(Alphabet["lines"]) /\ Alphabet["lines"] \subseteq Seq(LineChars)
    BY <1>1, InputsAssumption DEF TextOK
  <2>2. text \in Seq(Seq(LineChars))
    BY <2>1, SeqMonotonic
  <2>3. QED BY <2>2, LinesJoin
<1>2. ASSUME part = "typed", NEW custom PROVE RightReader(text, custom)
  <2>1. text \in Seq(Alphabet["typed"])
    BY <1>2 DEF TextOK
  <2>2. QED BY <2>1, TaskIsRouted
<1>3. ASSUME part = "mention", NEW files \in FileSets PROVE MentionsAttach(text, files)
  <2>1. text \in Seq(Alphabet["mention"]) /\ "end" \notin Alphabet["mention"] /\ <<>> \notin files
    BY <1>3, InputsAssumption DEF TextOK
  <2>2. QED BY <2>1, MentionsAreWords
<1>4. ASSUME part = "template", NEW arg \in Arguments PROVE ArgumentIsData(text, arg)
  <2>1. text \in Seq(Alphabet["template"]) /\ "ARG" \notin Alphabet["template"]
        /\ arg \in Seq(Alphabet["template"])
    BY <1>4, InputsAssumption DEF TextOK
  <2>2. QED BY <2>1, ArgumentStays
<1>5. ASSUME part = "name", NEW other \in SessionNames PROVE SessionNamesAreSafe(text, other)
  <2>1. text \in Seq(Alphabet["name"]) /\ other \in Seq(Alphabet["name"])
    BY <1>5, InputsAssumption DEF TextOK
  <2>2. QED BY <2>1, NamesAreSafe
<1>6. ASSUME part = "models", NEW near \in ModelLists, NEW beside \in ModelLists
      PROVE  NumbersMatch(near, beside, text)
  <2>1. text \in Seq(Alphabet["models"]) /\ near \in Seq(Alphabet["models"])
        /\ beside \in Seq(Alphabet["models"])
    BY <1>6, InputsAssumption DEF TextOK
  <2>2. QED BY <2>1, ModelsAreNumbered
<1>7. ASSUME part = "changes" PROVE TablesAreTrue(text)
  <2>1. text \in Seq(Alphabet["changes"]) /\ Changes(Alphabet["changes"])
    BY <1>7, InputsAssumption DEF TextOK, Changes
  <2>2. QED BY <2>1, TablesTell
<1>8. QED BY <1>1, <1>2, <1>3, <1>4, <1>5, <1>6, <1>7 DEF CommandsReachTheirReader

LEMMA TextSafe ==
  ASSUME TextOK
  PROVE  /\ PathsStayInside /\ ReplyIsShown /\ CallsAreUnderstood /\ ProcessesAgree
         /\ CommandsReachTheirReader
<1>1. PathsStayInside
  <2>1. SUFFICES ASSUME part = "path" PROVE StaysInside(text)
    BY DEF PathsStayInside
  <2>2. text \in Seq(Alphabet["path"]) /\ MaxDepth \in Nat
    BY <2>1, InputsAssumption DEF TextOK
  <2>3. QED BY <2>2, SandboxHolds
<1>2. CallsAreUnderstood
  <2>1. SUFFICES ASSUME part = "call", NEW tagged \in BOOLEAN, NEW name \in CallNames,
                        NEW i \in DOMAIN CallArgs
                 PROVE  CallUnderstood(text, tagged, name, CallArgs[i])
    BY DEF CallsAreUnderstood
  <2>2. text \in Seq(Alphabet["call"]) /\ Alphabet["call"] \subseteq Items
    BY <2>1, InputsAssumption DEF TextOK
  <2>4. ArgsOK(CallArgs[i]) /\ MaxPar \in Nat /\ text \in Seq(Items)
    BY <2>1, <2>2, InputsAssumption, SeqMonotonic
  <2>3. QED BY <2>4, CallsAlwaysUnderstood
<1>3. ProcessesAgree
  <2>1. SUFFICES ASSUME ArgvOK(CommandLine(text)), NEW w \in Worlds
                 PROVE  Agrees([w EXCEPT !.argv = CommandLine(text)])
    BY DEF ProcessesAgree
  <2>2. WorldOK(w)
    BY InputsAssumption
  <2>3. WorldOK([w EXCEPT !.argv = CommandLine(text)])
    BY <2>1, <2>2, TypedIn
  <2>4. QED BY <2>3, EveryProcessAgrees
<1>4. ReplyIsShown
  BY StreamedIsShown DEF TextOK, ReplyIsShown
<1>5. QED BY <1>1, <1>2, <1>3, <1>4, CommandsAreSafe

LEMMA TextIsText == TextSpec => []TextOK
<1>1. ASSUME text = <<>>, view = Fresh PROVE TextOK
  <2>1. Streamed(text, view)
    BY <1>1, FreshIs DEF Streamed
  <2>2. QED BY <1>1, <2>1 DEF TextOK
<1>2. ASSUME TextOK, [\E c \in Alphabet[part] : NextSymbol(c)]_<<part, text, view>> PROVE TextOK'
  <2>1. CASE UNCHANGED <<part, text, view>>
    BY <1>2, <2>1 DEF TextOK
  <2>2. ASSUME NEW c \in Alphabet[part], NextSymbol(c) PROVE TextOK'
    <3>1. part' = part /\ text' = Append(text, c) /\ (part = "view" => view' = Token(view, c))
      BY <2>2 DEF NextSymbol
    <3>2. CASE part # "view"
      <4>1. text \in Seq(Alphabet[part])
        BY <1>2, <3>2 DEF TextOK
      <4>2. Append(text, c) \in Seq(Alphabet[part])
        BY <4>1
      <4>3. QED BY <3>1, <3>2, <4>2 DEF TextOK
    <3>3. CASE part = "view"
      <4>1. c \in Chars
        BY <2>2, <3>3, InputsAssumption
      <4>2. Streamed(text, view)
        BY <1>2, <3>3 DEF TextOK
      <4>3. Streamed(text', view')
        BY <3>1, <3>3, <4>1, <4>2, TokenStreams
      <4>4. QED BY <3>1, <3>3, <4>3 DEF TextOK
    <3>4. QED BY <3>2, <3>3
  <2>3. QED BY <1>2, <2>1, <2>2
<1>3. QED BY <1>1, <1>2, PTL DEF TextSpec

(* Whatever path a model spells, for every alphabet and every depth of the *)
(* stack, sandbox_resolve keeps it below the root and refuses no other.    *)
THEOREM EveryPathStaysInside == TextSpec => []PathsStayInside
<1>1. TextOK => PathsStayInside
  BY TextSafe
<1>2. QED BY <1>1, TextIsText, PTL

(* Whatever a model streams, whatever the markers are and wherever they    *)
(* are cut, for every alphabet, every tag and every length of what is held *)
(* back: what main.c shows of a reply at its end are its words in order,   *)
(* each once, and all of those on a line without the marker of a fence.    *)
THEOREM EveryReplyIsShown == TextSpec => []ReplyIsShown
<1>1. TextOK => ReplyIsShown
  BY TextSafe
<1>2. QED BY <1>1, TextIsText, PTL

(* Whatever a model says before a call, whatever it is called and given,   *)
(* toolcall_parse understands it and adds nothing of its own.              *)
THEOREM EveryCallIsUnderstood == TextSpec => []CallsAreUnderstood
<1>1. TextOK => CallsAreUnderstood
  BY TextSafe
<1>2. QED BY <1>1, TextIsText, PTL

(* Whatever is typed, configured and answered, main starts the process     *)
(* that was asked for, and agent_run_parallel its likes.                   *)
THEOREM EveryStartAgrees == TextSpec => []ProcessesAgree
<1>1. TextOK => ProcessesAgree
  BY TextSafe
<1>2. QED BY <1>1, TextIsText, PTL

(* Whatever a user types at the prompt, chooses from a list and has the    *)
(* program write, for every alphabet and every length: a line goes whole   *)
(* to the one it is meant for, a command's argument is never run, names of *)
(* sessions stay in their folder and apart, numbers choose what stands     *)
(* beside them, and /files and /stats tell what happened.                  *)
THEOREM EveryCommandIsRead == TextSpec => []CommandsReachTheirReader
<1>1. TextOK => CommandsReachTheirReader
  BY TextSafe
<1>2. QED BY <1>1, TextIsText, PTL
=============================================================================
