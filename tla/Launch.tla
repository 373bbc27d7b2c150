-------------------------------- MODULE Launch --------------------------------
(***************************************************************************)
(* How a process of the program comes to be what it is: main.c's defaults, *)
(* config file, environment and arguments, the first-run questions, the    *)
(* budgets that follow the kind of model, /model, and the command line by  *)
(* which agent_run_parallel of core/agent.c starts the same program again. *)
(*                                                                         *)
(* A config is a function from the keys it has to their values; its key    *)
(* grammar stands for grammar_enabled.  --grammar, --log, --tty-diag and   *)
(* the colours change nothing that is modelled here and are left out.      *)
(***************************************************************************)
EXTENDS Integers, Sequences

NoModel == "none"
NotANumber == -1              \* the key is there, but no number
Networked(spec) == spec \in {"lan", "api"}
Vision(spec) == spec = "api"  \* a LAN server takes text only

(* The tools of the permission table that ask by default; others run.      *)
Asking == {"write_file", "edit", "run_command", "screenshot", "fetch", "websearch", "agent"}
Kinds == Asking \cup {"read_file", "search"}

Defaults ==
  [model |-> NoModel, sandbox |-> ".", small_model |-> NoModel, max_iters |-> 8, ctx |-> 4096,
   pinned |-> {},             \* of ctx and max_iters: set by the user
   verify |-> TRUE, plan |-> FALSE, grammar |-> TRUE, yolo |-> FALSE, lean |-> FALSE,
   print |-> FALSE, cont |-> FALSE, depth |-> 0, permission |-> <<>>, words |-> <<>>]

(* env_truthy, and load_config: the first file that holds an object.       *)
Truthy(v) == v \in {"1", "true", "yes", "on"}
LoadConfig(files, hermetic) ==
  LET objects == {i \in DOMAIN files : files[i].is = "object"}
  IN IF hermetic \/ objects = {} THEN <<>>
     ELSE files[CHOOSE i \in objects : \A k \in objects : i <= k].conf

(* Key by key; a ctx that is no number counts as set and changes nothing.  *)
FromConfig(o, conf) ==
  LET plain == DOMAIN conf \cap {"model", "sandbox", "small_model", "verify", "plan", "grammar",
                                 "yolo", "lean", "permission"}
      counts == DOMAIN conf \cap {"ctx", "max_iters"}
  IN [k \in DOMAIN o |->
        CASE k = "pinned" -> counts
          [] k \in plain -> conf[k]
          [] k \in counts -> IF conf[k] = NotANumber THEN o[k] ELSE conf[k]
          [] OTHER -> o[k]]

(* The credentials of the config, unless the environment has its own.      *)
Credentials(conf, env) ==
  [k \in {"api_key", "api_url", "remote_key"} |->
     IF env[k] # "" THEN env[k] ELSE IF k \in DOMAIN conf THEN conf[k] ELSE ""]

(***************************************************************************)
(* Arguments.  Numbers reads a value as atoi does.                         *)
(***************************************************************************)
CONSTANTS
  Texts,                      \* words, folders and names of models
  Counts,                     \* the numbers an int holds
  Numbers,                    \* the words that are numbers, to their value
  Word(_)                     \* a number as a word
Atoi(w) == IF w \in DOMAIN Numbers THEN Numbers[w] ELSE 0

Exit(code) == [exit |-> code]
Runs(o) == "exit" \notin DOMAIN o

Valued == {"--model", "--sandbox", "--ctx", "--max-iters", "--depth"}
Option(o, a, v) ==
  CASE a = "--model" -> [o EXCEPT !.model = v]
    [] a = "--sandbox" -> [o EXCEPT !.sandbox = v]
    [] a = "--ctx" -> [o EXCEPT !.ctx = Atoi(v), !.pinned = @ \cup {"ctx"}]
    [] a = "--max-iters" -> [o EXCEPT !.max_iters = Atoi(v), !.pinned = @ \cup {"max_iters"}]
    [] a = "--depth" -> [o EXCEPT !.depth = Atoi(v)]

Switches == {"--here", "--no-grammar", "--no-verify", "--verify", "--plan", "--no-plan", "--yolo",
             "-p", "-c", "--lean"}
Switch(o, a) ==
  CASE a = "--here" -> [o EXCEPT !.sandbox = "."]
    [] a = "--no-grammar" -> [o EXCEPT !.grammar = FALSE]
    [] a \in {"--verify", "--no-verify"} -> [o EXCEPT !.verify = (a = "--verify")]
    [] a \in {"--plan", "--no-plan"} -> [o EXCEPT !.plan = (a = "--plan")]
    [] a = "--yolo" -> [o EXCEPT !.yolo = TRUE]
    [] a = "-p" -> [o EXCEPT !.print = TRUE]
    [] a = "-c" -> [o EXCEPT !.cont = TRUE]
    [] a = "--lean" -> [o EXCEPT !.lean = TRUE]

ASSUME LaunchAssumption ==
  /\ Valued \cup Switches \cup {"."} \subseteq Texts /\ NoModel \notin Texts
  /\ Counts \subseteq Int /\ {0, 1, 8, 32, 4096, 131072} \subseteq Counts
  /\ \A a \in DOMAIN Numbers : Numbers[a] \in Counts
  /\ \A n \in Counts : Word(n) \in Texts /\ Atoi(Word(n)) = n

(* Word after word; `wait` is an option whose value comes next, or "".  An *)
(* option without its value is a word of the task.                         *)
AsTask(o, a) == [o EXCEPT !.words = Append(@, a)]

ReadArg(r, a) ==
  IF ~Runs(r.o) THEN r
  ELSE IF r.wait # "" THEN [o |-> Option(r.o, r.wait, a), wait |-> ""]
  ELSE IF a \in Valued THEN [o |-> r.o, wait |-> a]
  ELSE IF a \in Switches THEN [o |-> Switch(r.o, a), wait |-> ""]
  ELSE IF a \in {"--help", "--version"} THEN [o |-> Exit(0), wait |-> ""]
  ELSE [o |-> AsTask(r.o, a), wait |-> ""]

AllRead(r) == IF r.wait = "" THEN r.o ELSE AsTask(r.o, r.wait)

FromArgs(o, argv) ==
  LET upTo[n \in 0 .. Len(argv)] ==
        IF n = 0 THEN [o |-> o, wait |-> ""] ELSE ReadArg(upTo[n - 1], argv[n])
  IN AllRead(upTo[Len(argv)])

(* The task: words and, for -p, what is piped in.                          *)
WithTask(o, stdin) ==         \* stdin "tty", or the piped words
  CASE o.print /\ stdin.tty -> IF o.words = <<>> THEN Exit(2) ELSE o
    [] o.print /\ ~stdin.tty -> IF o.words \o stdin.piped = <<>> THEN Exit(2)
                                ELSE [o EXCEPT !.words = @ \o stdin.piped]
    [] OTHER -> o

(* The first-run questions; `answers` is <<>> when the user gives up.      *)
Setup(o, stdin, answers) ==
  IF o.model # NoModel \/ o.words # <<>> \/ ~stdin.tty \/ answers = <<>> THEN o
  ELSE [o EXCEPT !.model = answers.model, !.sandbox = answers.sandbox, !.lean = answers.lean]

Budgets(o) ==
  [o EXCEPT !.ctx = IF Networked(o.model) /\ "ctx" \notin o.pinned THEN 131072 ELSE @,
            !.max_iters = IF Networked(o.model) /\ "max_iters" \notin o.pinned THEN 32 ELSE @]

(* --sandbox auto, and -c: `newest` is the newest session folder, or "".   *)
Folder(o, fresh, newest) ==
  [o EXCEPT !.sandbox = IF @ # "auto" THEN @
                        ELSE IF o.cont /\ newest # "" THEN newest ELSE fresh]

ToolPerm(o) ==
  [k \in Kinds |-> IF k \in DOMAIN o.permission THEN o.permission[k]
                   ELSE IF k \in Asking THEN "ask" ELSE "allow"]

(* The rules in the system prompt: the folder's first rules file, the      *)
(* user's own unless hermetic, and the config's that can be read.          *)
RuleNames == <<"AGENTS.md", "CRUSH.md", "CLAUDE.md">>
RulesIn(there) ==
  LET found == SelectSeq(RuleNames, LAMBDA f : f \in there)
  IN SubSeq(found, 1, IF found = <<>> THEN 0 ELSE 1)
Instructions(readable, conf) ==
  IF "instructions" \in DOMAIN conf
  THEN SelectSeq(conf.instructions, LAMBDA f : f \in readable) ELSE <<>>
LoadProjectContext(w, sandbox, conf) ==
  RulesIn(IF sandbox \in DOMAIN w.rules THEN w.rules[sandbox] ELSE {})
  \o (IF ~Truthy(w.env.hermetic) /\ w.global THEN <<"~/.anachron/AGENTS.md">> ELSE <<>>)
  \o Instructions(w.readable, conf)

(* The process: its options and what follows from them.                    *)
Process(o, stdin, cred, rules) ==
  [opt |-> o, rules |-> rules, perm |-> ToolPerm(o), cred |-> cred, vision |-> Vision(o.model),
   model |-> o.model, ctx |-> o.ctx, max_iters |-> o.max_iters, sandbox |-> o.sandbox,
   confirms |-> o.words = <<>> /\ stdin.tty /\ ~o.yolo,
   asks |-> ~o.print, autosaves |-> o.depth = 0]

(* main: from all its inputs to a process, or an exit code.                *)
Main(w) ==
  LET conf == LoadConfig(w.files, Truthy(w.env.hermetic))
      start == [Defaults EXCEPT !.yolo = Truthy(w.env.yolo), !.lean = Truthy(w.env.lean)]
      parsed == FromArgs(FromConfig(start, conf), w.argv)
      tasked == IF Runs(parsed) THEN WithTask(parsed, w.stdin) ELSE parsed
      asked == IF Runs(tasked) THEN Budgets(Setup(tasked, w.stdin, w.answers)) ELSE tasked
  IN IF ~Runs(asked) THEN asked
     ELSE IF asked.model \notin w.loadable THEN Exit(1)
     ELSE LET o == Folder(asked, w.fresh, w.newest)
          IN Process(o, w.stdin, Credentials(conf, w.env),
                     LoadProjectContext(w, o.sandbox, conf))

(* /model: the running process changes its model.                          *)
SwitchModel(p, spec, loadable) ==
  IF spec \notin loadable THEN p
  ELSE [p EXCEPT !.model = spec, !.vision = Vision(spec),
                 !.ctx = IF Networked(spec) /\ "ctx" \notin p.opt.pinned /\ p.opt.ctx < 131072
                         THEN 131072 ELSE p.opt.ctx,
                 !.max_iters = IF Networked(spec) /\ "max_iters" \notin p.opt.pinned
                                  /\ p.opt.max_iters < 32 THEN 32 ELSE p.opt.max_iters]

(* Mutant of ChildArgv: the child is not told how deep it is.              *)
ChildArgvFlat(p) ==
  LET spec == IF p.opt.small_model # NoModel THEN p.opt.small_model ELSE p.model
  IN <<"-p", "--sandbox", p.sandbox, "--ctx", Word(p.ctx)>>
     \o IF spec = NoModel THEN <<>> ELSE <<"--model", spec>>

(* agent_run_parallel: the child's command line and its world.             *)
ChildArgv(p) ==
  LET spec == IF p.opt.small_model # NoModel THEN p.opt.small_model ELSE p.model
  IN <<"-p", "--depth", Word(p.opt.depth + 1), "--sandbox", p.sandbox, "--ctx", Word(p.ctx)>>
     \o IF spec = NoModel THEN <<>> ELSE <<"--model", spec>>

Child(w, p, task) ==
  Main([w EXCEPT !.argv = ChildArgv(p), !.stdin = [tty |-> FALSE, piped |-> <<task>>],
                 !.env = [@ EXCEPT !.api_key = p.cred.api_key, !.api_url = p.cred.api_url,
                                   !.remote_key = p.cred.remote_key]])
-----------------------------------------------------------------------------
(***************************************************************************)
(* What a config, a command line and a world may be.  A depth is one that  *)
(* agent_run_parallel has passed.                                          *)
(***************************************************************************)
Perms == UNION {[K -> {"allow", "ask", "deny"}] : K \in SUBSET Kinds}

ConfOK(conf) ==
  /\ \A k \in DOMAIN conf \cap {"model", "small_model", "sandbox"} : conf[k] \in Texts
  /\ \A k \in DOMAIN conf \cap {"verify", "plan", "grammar", "yolo", "lean"} : conf[k] \in BOOLEAN
  /\ \A k \in DOMAIN conf \cap {"ctx", "max_iters"} : conf[k] = NotANumber \/ conf[k] \in Counts
  /\ "permission" \in DOMAIN conf => conf["permission"] \in Perms

ArgvOK(argv) ==
  /\ argv \in Seq(Texts)
  /\ \A i \in 2 .. Len(argv) : argv[i - 1] = "--depth" =>
       Atoi(argv[i]) \in Nat /\ Atoi(argv[i]) + 1 \in Counts

WorldOK(w) ==
  /\ DOMAIN w = {"files", "env", "argv", "stdin", "answers", "loadable", "fresh", "newest", "rules",
                 "global", "readable"}
  /\ w.files = [i \in 1 .. Len(w.files) |-> w.files[i]] /\ Len(w.files) \in Nat
  /\ \A i \in DOMAIN w.files : w.files[i].is = "object" => ConfOK(w.files[i].conf)
  /\ DOMAIN w.env = {"hermetic", "yolo", "lean", "api_key", "api_url", "remote_key"}
  /\ w.stdin.tty \in BOOLEAN /\ w.stdin.piped \in Seq(Texts)
  /\ w.answers = <<>> \/ w.answers \in [model : Texts, sandbox : Texts, lean : BOOLEAN]
  /\ w.fresh \in Texts \ {"auto"} /\ w.newest \in (Texts \ {"auto"}) \cup {""}
  /\ w.loadable \subseteq Texts \cup {NoModel} /\ ArgvOK(w.argv)
-----------------------------------------------------------------------------
(* A child is its parent's: it works in the folder the parent works in,    *)
(* even if that was made for the conversation; it is one level deeper, so  *)
(* that it does not fan out again; it has the same permission table, the   *)
(* same credentials and rules, and the budget the parent has now; nobody   *)
(* is asked; it does not save over the conversation; and it runs the cheap *)
(* model or the one the parent switched to.                                *)
IsChildOf(c, p) ==
  /\ c.sandbox = p.sandbox /\ c.opt.depth = p.opt.depth + 1
  /\ c.perm = p.perm /\ c.cred = p.cred /\ c.rules = p.rules
  /\ c.ctx = p.ctx
  /\ ~c.confirms /\ ~c.asks /\ ~c.autosaves
  /\ c.model = IF p.opt.small_model # NoModel THEN p.opt.small_model ELSE p.model
  /\ c.opt.words = <<"task">>
ChildOf(w, p) ==
  LET c == Child(w, p, "task") IN Runs(c) => IsChildOf(c, p)

(* What the user says wins over what the config says, and that over the    *)
(* defaults; a budget that was set is kept, by a start and by /model.      *)
UserWins(w, p) ==
  LET conf == LoadConfig(w.files, Truthy(w.env.hermetic))
      given(a) == \E i \in 1 .. Len(w.argv) - 1 : w.argv[i] = a
  IN /\ "ctx" \in DOMAIN conf /\ ~given("--ctx") /\ conf["ctx"] # NotANumber => p.ctx = conf["ctx"]
     /\ {"ctx", "max_iters"} \cap p.opt.pinned = {} /\ p.model = p.opt.model =>
          (p.ctx = 131072) = Networked(p.model) /\ (p.max_iters = 32) = Networked(p.model)
     /\ "permission" \in DOMAIN conf => \A k \in DOMAIN conf["permission"] :
          p.perm[k] = conf["permission"][k]

(* ... whatever the parent was started with and switched to since.         *)
Agrees(w) ==
  LET p == Main(w)
  IN Runs(p) => /\ UserWins(w, p)
                /\ \A spec \in (w.loadable \ {NoModel}) \cup {p.model} :
                     LET q == SwitchModel(p, spec, w.loadable)
                     IN ChildOf(w, q) /\ ("ctx" \in p.opt.pinned => q.ctx = p.ctx)
=============================================================================
