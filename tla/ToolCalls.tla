------------------------------ MODULE ToolCalls ------------------------------
(***************************************************************************)
(* toolcall_parse of core/toolcall.c: the model's text to a tool call.     *)
(* The parser forgives: the tags may be missing, the arguments may be      *)
(* called "parameters" or be hoisted to the top level.                     *)
(*                                                                         *)
(* A text is a sequence of items: prose, the opening tag, a brace in the   *)
(* prose, or an object.  A value is [t, v], t one of "str", "num", "arr"   *)
(* and "obj"; an object's v maps keys to values.                           *)
(***************************************************************************)
EXTENDS Integers, Sequences

CONSTANT MaxPar               \* AGENT_MAX_PAR, 8

Str(s) == [t |-> "str", v |-> s]
Num(n) == [t |-> "num", v |-> n]
Arr(s) == [t |-> "arr", v |-> s]
Obj(f) == [t |-> "obj", v |-> f]
Missing == [t |-> "none", v |-> 0]

Get(obj, key) == IF key \in DOMAIN obj.v THEN obj.v[key] ELSE Missing
IsStr(obj, key) == Get(obj, key).t = "str"

(* The string arguments a tool cannot do without.                          *)
Required ==
  [read_file |-> {"path"}, write_file |-> {"path", "content"}, list_dir |-> {"path"},
   run_command |-> {"cmd"}, edit |-> {"path", "old", "new"}, search |-> {"pattern"},
   glob |-> {"pattern"}, agent |-> {}, fetch |-> {"url"}, websearch |-> {"query"},
   ask |-> {"question"}, screenshot |-> {}, plan |-> {"steps"}, final |-> {"message"}]

(* Those it may have.                                                      *)
Optional == [k \in DOMAIN Required |-> CASE k = "search" -> {"path"}
                                         [] k = "screenshot" -> {"path"}
                                         [] k = "agent" -> {"task"}
                                         [] OTHER -> {}]

KindOf(name) == IF name = "question" THEN "ask" ELSE name

(* The strings of a list, in their order.                                  *)
AddString(strings, x) == IF x.t = "str" THEN Append(strings, x.v) ELSE strings

Strings(list) ==
  LET upTo[n \in 0 .. Len(list)] == IF n = 0 THEN <<>> ELSE AddString(upTo[n - 1], list[n])
  IN upTo[Len(list)]

(* Of the first MaxPar tasks the strings.                                  *)
Tasks(args) ==
  LET ts == Get(args, "tasks")
      most == IF Len(ts.v) > MaxPar THEN MaxPar ELSE Len(ts.v)
  IN IF ts.t = "arr" THEN Strings(SubSeq(ts.v, 1, most)) ELSE <<>>

Offset(args) ==               \* of read_file; -1 for none
  LET off == Get(args, "offset")
  IN CASE off.t # "num" -> -1 [] off.t = "num" /\ off.v < 0 -> 0 [] OTHER -> off.v

Fails == [kind |-> "none", args |-> <<>>, tasks |-> <<>>, offset |-> -1]

(* The object the arguments are taken from.                                *)
Container(root) ==
  CASE Get(root, "arguments").t = "obj" -> Get(root, "arguments")
    [] Get(root, "arguments").t # "obj" /\ Get(root, "parameters").t = "obj" ->
         Get(root, "parameters")
    [] OTHER -> root

CallName(root) ==
  CASE IsStr(root, "name") -> Get(root, "name").v
    [] ~IsStr(root, "name") /\ Get(root, "tasks").t = "arr" -> "agent"
    [] OTHER -> ""

CallOf(kind, args) ==
  LET given == {k \in Required[kind] \cup Optional[kind] : IsStr(args, k)}
      tasks == IF kind = "agent" THEN Tasks(args) ELSE <<>>
      default == IF kind = "screenshot" /\ "path" \notin given THEN {"path"} ELSE {}
  IN IF kind \notin DOMAIN Required THEN Fails
     ELSE IF ~(Required[kind] \subseteq given) \/ (kind = "agent" /\ given = {} /\ tasks = <<>>)
     THEN Fails
     ELSE [kind |-> kind,
           args |-> [k \in given \cup default |->
                       IF k \in given THEN Get(args, k).v ELSE "screenshot.png"],
           tasks |-> tasks,
           offset |-> IF kind = "read_file" THEN Offset(args) ELSE -1]

Call(root) == CallOf(KindOf(CallName(root)), Container(root))

(* Where the JSON starts: after the first tag, else at the first brace.    *)
FirstOf(text, kinds) ==
  LET at == {i \in DOMAIN text : text[i].is \in kinds}
  IN IF at = {} THEN 0 ELSE CHOOSE i \in at : \A k \in at : i <= k

(* Mutant of JsonStart: a brace in the prose wins over the tag.            *)
JsonStartAtBrace(text) ==
  IF FirstOf(text, {"brace", "object"}) > 0 THEN FirstOf(text, {"brace", "object"})
  ELSE FirstOf(text, {"tag"}) + 1

JsonStart(text) ==
  IF FirstOf(text, {"tag"}) > 0 THEN FirstOf(text, {"tag"}) + 1
  ELSE FirstOf(text, {"brace", "object"})

ToolcallParse(text) ==
  LET at == JsonStart(text)
  IN IF at \in DOMAIN text /\ text[at].is = "object" THEN Call(text[at].obj) ELSE Fails
-----------------------------------------------------------------------------
(* A model means a call of `kind` with `args`, and writes it in one of the *)
(* shapes seen in the wild.                                                *)
Shapes == {"arguments", "parameters", "hoisted"}
Items == [is : {"prose", "tag", "brace"}]

IsList(v) == Len(v) \in Nat /\ v = [i \in 1 .. Len(v) |-> v[i]]

ArgsOK(args) ==
  /\ {"name", "arguments", "parameters"} \cap DOMAIN args = {}
  /\ \A k \in DOMAIN args :
       /\ args[k].t = "num" => args[k].v \in Int
       /\ args[k].t = "arr" => IsList(args[k].v)

Shaped(name, args, shape) ==
  LET named == IF name = "" THEN {} ELSE {"name"}
      keys == IF shape = "hoisted" THEN DOMAIN args ELSE {shape}
  IN Obj([k \in named \cup keys |->
            IF k = "name" THEN Str(name) ELSE IF shape = "hoisted" THEN args[k] ELSE Obj(args)])

Written(before, tagged, obj) ==
  before \o (IF tagged THEN <<[is |-> "tag"]>> ELSE <<>>) \o <<[is |-> "object", obj |-> obj]>>

(* Behind the first tag, or with neither a tag nor a brace before it, the  *)
(* call is what is parsed.                                                 *)
Leads(before, tagged) ==
  IF tagged THEN FirstOf(before, {"tag"}) = 0 ELSE FirstOf(before, {"brace", "tag"}) = 0

(* Every required argument is the string the model gave, and no argument   *)
(* comes from nowhere.                                                     *)
Complete(call, args) ==
  /\ Required[call.kind] \subseteq DOMAIN call.args
  /\ \A k \in DOMAIN call.args :
       \/ k \in DOMAIN args /\ args[k].t = "str" /\ args[k].v = call.args[k]
       \/ call.kind = "screenshot"
  /\ Len(call.tasks) <= MaxPar
  /\ \A i \in DOMAIN call.tasks : \E k \in DOMAIN args["tasks"].v :
       args["tasks"].v[k].t = "str" /\ args["tasks"].v[k].v = call.tasks[i]
  /\ call.offset >= -1

(* The shape makes no difference, and behind a tag neither does what was   *)
(* said before; a call with its arguments is understood; and a call that   *)
(* parses is complete, with the model's own arguments.                     *)
CallUnderstood(before, tagged, name, args) ==
  LET call(shape) == ToolcallParse(Written(before, tagged, Shaped(name, args, shape)))
      alone == ToolcallParse(Written(<<>>, FALSE, Shaped(name, args, "hoisted")))
      kind == KindOf(name)
  IN /\ Leads(before, tagged) /\ name # "" => \A s \in Shapes : call(s) = alone
     /\ kind \in DOMAIN Required \ {"agent"}
          /\ (\A k \in Required[kind] : k \in DOMAIN args /\ args[k].t = "str")
          => alone.kind = kind
     /\ \A s \in Shapes : call(s).kind # "none" => Complete(call(s), args)
=============================================================================
