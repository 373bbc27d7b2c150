------------------------------- MODULE Commands -------------------------------
(***************************************************************************)
(* What happens to a line typed at the prompt, and to the tables the       *)
(* prompt keeps: the continuation of lines, "!" and "/" of main.c's loop   *)
(* and handle_command, custom commands, @ mentions, the names of sessions, *)
(* the numbered list of models, /files and /stats.  A line is a sequence   *)
(* of characters.                                                          *)
(***************************************************************************)
EXTENDS Integers, FiniteSets, Characters

CONSTANTS
  VerbMax,                    \* sizeof verb - 1, 31
  FilesMax,                   \* FILES_MAX, 64
  StatHist,                   \* STAT_HIST, 24
  ListMax,                    \* catalog entries offered, 24
  Builtin,                    \* /new, /save, ...: the verbs
  NameChars,                  \* letters, digits, '-' and '_'
  Safe,                       \* the same and '.'
  Lower,                      \* a character in lower case
  Devices                     \* con, prn, aux, nul, com1, ...

ASSUME CommandsAssumption ==
  /\ VerbMax \in Nat /\ FilesMax \in Nat /\ StatHist \in Nat \ {0} /\ ListMax \in Nat
  /\ Safe \subseteq DOMAIN Lower /\ Lower["."] = "." /\ Safe \cap {"/", Slash} = {}
  /\ \A d \in Devices : \A i \in DOMAIN d : d[i] # "."

(***************************************************************************)
(* Reading: a line that ends with a backslash goes on with the next.       *)
(***************************************************************************)
Open(line) == line # <<>> /\ line[Len(line)] = Slash
Broken(line) == Append(SubSeq(line, 1, Len(line) - 1), Newline)

ReadOn(r, line) ==            \* r is the task so far, and how many lines it took
  IF Open(r.task) THEN [task |-> Broken(r.task) \o line, used |-> r.used + 1] ELSE r
AtTheEnd(r) == IF Open(r.task) THEN [task |-> Broken(r.task), used |-> r.used] ELSE r

Gather(lines) ==
  LET more[n \in 0 .. Len(lines) - 1] ==
        IF n = 0 THEN [task |-> lines[1], used |-> 1] ELSE ReadOn(more[n - 1], lines[n + 1])
  IN AtTheEnd(more[Len(lines) - 1])

(* Nothing typed is lost or sent twice: the task is the lines up to the    *)
(* first that does not end with a backslash, and the rest waits.           *)
LinesAreJoined(lines) ==
  LET k == Least({n \in DOMAIN lines : ~Open(lines[n])} \cup {Len(lines)})
      part(n) == IF Open(lines[n]) THEN Broken(lines[n]) ELSE lines[n]
  IN lines # <<>> => Gather(lines) = [task |-> Joined([n \in 1 .. k |-> part(n)]), used |-> k]

(***************************************************************************)
(* Dispatch.                                                               *)
(***************************************************************************)
Skip(s, chars) ==
  LET ink == {i \in DOMAIN s : s[i] \notin chars}
  IN IF ink = {} THEN <<>> ELSE SubSeq(s, Least(ink), Len(s))
FirstWord(s) == SubSeq(s, 1, Least({i \in DOMAIN s : s[i] = " "} \cup {Len(s) + 1}) - 1)

Verb(s) == SubSeq(FirstWord(s), 1, IF Len(FirstWord(s)) > VerbMax THEN VerbMax ELSE Len(FirstWord(s)))
Arg(s) == Skip(SubSeq(s, Len(FirstWord(s)) + 1, Len(s)), {" "})

CustomName(verb) == Tail(verb)
Sane(name) == \A i \in DOMAIN name : name[i] \in NameChars

Nobody == [to |-> "nobody", text |-> <<>>, arg |-> <<>>]
Command(s, custom) ==
  CASE Verb(s) \in Builtin -> [to |-> "builtin", text |-> Verb(s), arg |-> Arg(s)]
    [] Verb(s) \notin Builtin /\ Sane(CustomName(Verb(s))) /\ CustomName(Verb(s)) \in custom ->
         [to |-> "custom", text |-> CustomName(Verb(s)), arg |-> Arg(s)]
    [] OTHER -> Nobody

(* Mutant of Reader: blanks in front hide a command from its handler.      *)
ReaderUntrimmed(task, custom) ==
  CASE task = <<>> -> Nobody
    [] At(task, 1) = "!" -> [to |-> "shell", text |-> Skip(Tail(task), Blanks), arg |-> <<>>]
    [] At(task, 1) = "/" -> Command(task, custom)
    [] OTHER -> [to |-> "model", text |-> task, arg |-> <<>>]

Reader(task, custom) ==
  CASE task = <<>> -> Nobody
    [] At(task, 1) = "!" -> [to |-> "shell", text |-> Skip(Tail(task), Blanks), arg |-> <<>>]
    [] At(Skip(task, Blanks), 1) = "/" -> Command(Skip(task, Blanks), custom)
    [] OTHER -> [to |-> "model", text |-> task, arg |-> <<>>]

(* A line that looks like a command is never sent to the model as it is,   *)
(* nor is anything but "!" run; the verb, blanks and the argument are the  *)
(* line again, as long as the verb fits.                                   *)
RightReader(task, custom) ==
  LET r == Reader(task, custom)
      body == Skip(task, Blanks)
      verb == IF r.to = "custom" THEN <<"/">> \o r.text ELSE r.text
      gap == Len(body) - Len(verb) - Len(r.arg)
  IN /\ r.to = "model" => r.text = task /\ At(body, 1) # "/"
     /\ r.to = "shell" <=> At(task, 1) = "!"
     /\ r.to = "custom" => r.text \in custom
     /\ r.to = "builtin" => r.text \in Builtin
     /\ r.to \in {"builtin", "custom"} /\ Len(FirstWord(body)) <= VerbMax =>
          /\ gap >= 0 /\ body = verb \o [i \in 1 .. gap |-> " "] \o r.arg
          /\ r.arg # <<>> => gap > 0 /\ r.arg[1] # " "

(***************************************************************************)
(* Custom commands: a template of characters and "$ARGUMENTS"; a command   *)
(* stands between "!" with a backtick ("tick") and the next backtick.      *)
(***************************************************************************)
Output(cmd) == <<"out">> \o cmd

ExpandAt(e, t, arg) ==        \* e is the text so far, what ran, and where the loop is
  LET ends == {k \in e.at + 2 .. Len(t) : t[k] = "tick"}
      cmd == SubSeq(t, e.at + 2, Least(ends) - 1)
  IN IF e.at > Len(t) THEN e
     ELSE IF t[e.at] = "$ARGUMENTS" THEN [at |-> e.at + 1, text |-> e.text \o arg, ran |-> e.ran]
     ELSE IF t[e.at] = "!" /\ At(t, e.at + 1) = "tick" /\ ends # {}
     THEN [at |-> Least(ends) + 1, text |-> e.text \o Output(cmd), ran |-> Append(e.ran, cmd)]
     ELSE [at |-> e.at + 1, text |-> Append(e.text, t[e.at]), ran |-> e.ran]

Expand(t, arg) ==
  LET upTo[n \in 0 .. Len(t)] ==
        IF n = 0 THEN [at |-> 1, text |-> <<>>, ran |-> <<>>] ELSE ExpandAt(upTo[n - 1], t, arg)
  IN upTo[Len(t)]

(* The argument is data: whatever it holds, the commands that run are the  *)
(* template's, and it stands, once and untouched, where it was asked for.  *)
ArgumentIsData(t, arg) ==
  LET e == Expand(t, arg)
      marked == Expand(t, <<"ARG">>)
  IN /\ e.ran = marked.ran /\ e.at > Len(t)
     /\ e.text = Joined([i \in DOMAIN marked.text |->
                           IF marked.text[i] = "ARG" THEN arg ELSE <<marked.text[i]>>])

(***************************************************************************)
(* Mentions: "@" at a word's beginning names a file, if there is one.      *)
(***************************************************************************)
Breaks == Blanks \cup {Newline}
WordAt(s, i) == SubSeq(s, i, Least({k \in i .. Len(s) : s[k] \in Breaks} \cup {Len(s) + 1}) - 1)
MentionsAt(s) ==
  {i \in DOMAIN s : /\ s[i] = "@" /\ (i = 1 \/ s[i - 1] \in Breaks)
                    /\ At(s, i + 1) \notin Blanks \cup {"end"}}
ExpandMentions(s, files) ==   \* the names of the files that are attached
  Picked([i \in DOMAIN s |-> WordAt(s, i + 1)], {i \in MentionsAt(s) : WordAt(s, i + 1) \in files})

(* Of the words of the line exactly those that begin with "@" and name a   *)
(* file attach it, in their order; an address like x@f attaches nothing.   *)
MentionsAttach(s, files) ==
  LET blank(i) == At(s, i) \in Breaks \cup {"end"}
      words == {i \in DOMAIN s : ~blank(i) /\ blank(i - 1)}
      rest(w) == SubSeq(w, 2, Len(w))
      named == {i \in words : WordAt(s, i)[1] = "@" /\ rest(WordAt(s, i)) \in files}
  IN ExpandMentions(s, files) = Picked([i \in DOMAIN s |-> rest(WordAt(s, i))], named)

(***************************************************************************)
(* Names of sessions: session_path.                                        *)
(***************************************************************************)
BeforeDot(name) == SubSeq(name, 1, Least({i \in DOMAIN name : name[i] = "."} \cup {Len(name) + 1}) - 1)
Lowered(name) == [i \in DOMAIN name |-> Lower[name[i]]]
IsReservedDosName(base) == Lowered(base) \in Devices

NoSession == [ok |-> FALSE, path |-> <<>>]
SessionPath(name) ==
  IF name = <<>> \/ (\E i \in DOMAIN name : name[i] \notin Safe) \/ IsReservedDosName(BeforeDot(name))
  THEN NoSession
  ELSE [ok |-> TRUE, path |-> <<".anachron-sessions">> \o name \o <<".json">>]

(* Two names never share a file, and no name leaves the folder or opens a  *)
(* device.                                                                 *)
SessionNamesAreSafe(a, b) ==
  /\ SessionPath(a).ok /\ SessionPath(b).ok /\ a # b => SessionPath(a).path # SessionPath(b).path
  /\ SessionPath(a).ok => /\ \A i \in DOMAIN a : a[i] \notin {"/", Slash}
                          /\ Lowered(a) \notin Devices

(***************************************************************************)
(* /model without a name: three lists, numbered through.                   *)
(***************************************************************************)
Listed(catalog) == SubSeq(catalog, 1, IF Len(catalog) > ListMax THEN ListMax ELSE Len(catalog))
ShownModels(near, beside, catalog) ==   \* the lines, as [number, model]
  LET c == Listed(catalog)
  IN [i \in DOMAIN near |-> [number |-> i, model |-> near[i]]]
     \o [i \in DOMAIN beside |-> [number |-> Len(near) + i, model |-> beside[i]]]
     \o [i \in DOMAIN c |-> [number |-> Len(near) + Len(beside) + i, model |-> c[i]]]
PickModel(near, beside, catalog, k) ==   \* "" when the number is a model's name
  LET n == Len(near) n2 == Len(beside)
      c == Listed(catalog)
  IN CASE k \in 1 .. n -> near[k]
       [] k \in n + 1 .. n + n2 -> beside[k - n]
       [] k \in n + n2 + 1 .. n + n2 + Len(c) -> c[k - n - n2]
       [] OTHER -> ""

(* The number beside a model's name chooses that model.                    *)
NumbersMatch(near, beside, catalog) ==
  LET shown == ShownModels(near, beside, catalog)
  IN /\ \A i \in DOMAIN shown : PickModel(near, beside, catalog, shown[i].number) = shown[i].model
     /\ PickModel(near, beside, catalog, Len(shown) + 1) = ""

(***************************************************************************)
(* /files and /stats.                                                      *)
(***************************************************************************)
IsChange(c) ==
  /\ c = [path |-> c.path, adds |-> c.adds, dels |-> c.dels, created |-> c.created]
  /\ c.adds \in Nat /\ c.dels \in Nat /\ c.created \in BOOLEAN

WroteAgain(entry, c) ==
  [entry EXCEPT !.adds = @ + c.adds, !.dels = @ + c.dels, !.writes = @ + 1, !.created = @ \/ c.created]
FileChange(table, c) ==
  LET at == {i \in DOMAIN table : table[i].path = c.path}
      i == CHOOSE k \in at : TRUE
  IN IF at # {} THEN [table EXCEPT ![i] = WroteAgain(@, c)]
     ELSE IF Len(table) = FilesMax THEN table
     ELSE Append(table, [path |-> c.path, adds |-> c.adds, dels |-> c.dels, writes |-> 1,
                         created |-> c.created])
FileTable(changes) ==
  LET upTo[n \in 0 .. Len(changes)] ==
        IF n = 0 THEN <<>> ELSE FileChange(upTo[n - 1], changes[n])
  IN upTo[Len(changes)]

StatsRecord(st, tokens) ==
  [turns |-> st.turns + 1, total |-> st.total + tokens,
   hist |-> [st.hist EXCEPT ![(st.turns % StatHist) + 1] = tokens]]
NoStats == [turns |-> 0, total |-> 0, hist |-> [i \in 1 .. StatHist |-> 0]]
Stats(turns) ==
  LET upTo[n \in 0 .. Len(turns)] ==
        IF n = 0 THEN NoStats ELSE StatsRecord(upTo[n - 1], turns[n])
  IN upTo[Len(turns)]
Graph(st) ==                  \* the turns drawn, oldest first
  LET n == IF st.turns < StatHist THEN st.turns ELSE StatHist
      start == IF st.turns < StatHist THEN 0 ELSE st.turns % StatHist
  IN [k \in 1 .. n |-> st.hist[((start + k - 1) % StatHist) + 1]]

(* The tables tell what happened: the totals of a tracked file are those   *)
(* of all its writes, no file is in the table twice, and the graph is the  *)
(* latest turns, in order.                                                 *)
Counted(r, c, path) ==
  IF c.path # path THEN r
  ELSE [adds |-> r.adds + c.adds, dels |-> r.dels + c.dels, writes |-> r.writes + 1]
AllOf(changes, path) ==       \* the sums over the changes of one file
  LET upTo[n \in 0 .. Len(changes)] ==
        IF n = 0 THEN [adds |-> 0, dels |-> 0, writes |-> 0]
        ELSE Counted(upTo[n - 1], changes[n], path)
  IN upTo[Len(changes)]
TablesAreTrue(changes) ==
  LET table == FileTable(changes)
      turns == [i \in DOMAIN changes |-> changes[i].adds]
      drawn == Graph(Stats(turns))
      latest == IF Len(turns) < StatHist THEN Len(turns) ELSE StatHist
  IN /\ \A i \in DOMAIN table :
          /\ [adds |-> table[i].adds, dels |-> table[i].dels, writes |-> table[i].writes]
               = AllOf(changes, table[i].path)
          /\ \A k \in DOMAIN table : table[k].path = table[i].path => k = i
     /\ drawn = SubSeq(turns, Len(turns) - latest + 1, Len(turns))
=============================================================================
