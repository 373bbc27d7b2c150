---------------------------- MODULE MCSequential ----------------------------
(***************************************************************************)
(* The parts of the program in which one actor works alone, as one small   *)
(* instance: an initial state picks a part.  /update and the line editor   *)
(* have states of their own; every other part is a function of a text, and *)
(* its texts grow symbol by symbol, so that every short one is reached.    *)
(***************************************************************************)
EXTENDS SelfUpdate, LineEditor, Inputs

allVars == <<vars, part, text, view, editorVars>>

SeqsUpTo(S, n) == UNION {[1 .. k -> S] : k \in 0 .. n}

Wire == INSTANCE Wire WITH BlockMax <- 7
Path == INSTANCE Paths
Obs == INSTANCE Observations
  WITH MaxLines <- 2, MaxBytes <- 3, WalkBudget <- 4, WalkDepth <- 1, TextCap <- 3,
       Junk <- {"build"}

(***************************************************************************)
(* Inputs.                                                                 *)
(***************************************************************************)
Parts == [
  view |-> Chars,
  literal |-> {"n", "\\", "\"", "\n", "soh"},
  json |-> {"s", "1", "{", "}", "[", "]", ":", ","},
  chunks |-> {<<"x">>, <<"1">>, <<"cr", "lf">>, <<"0", "cr">>, [i \in 1 .. 10 |-> "x"]},
  url |-> {"h", ":", "/", "8"},
  bytes |-> {0, 1, 77, 255},
  history |-> {[role |-> "user", image |-> "none"], [role |-> "assistant", image |-> "none"]}
              \cup [role : {"result"}, image : {"none", "ok", "bad"}],
  call |-> Items,
  edit |-> {"x", " ", "\n"},
  lexer |-> {"\"", "'", "/", "*", "\\", "\n", "("},
  diff |-> {<<"a", "\n">>, <<"b", "\n">>},
  path |-> {"a", ".", "/", "\\", ":"},
  glob |-> {"a", "b", "*", "?"},
  ignore |-> {"a", "*", "/", "!", "#", " "},
  name |-> {"c", "O", "n", ".", "/", "1"},
  output |-> {"x", "\n"},
  listing |-> [name : {"f"}, is : {"plain", "bak", "redo", "state"}],
  shell |-> [out : {<<>>, <<"x", "\n">>}, err : {<<>>, <<"nofile">>}],
  tree |-> [path : {<<"d">>, <<"d", "f">>, <<"d", "e">>, <<"d", "e", "f">>, <<"build">>,
                    <<"build", "f">>, <<"f">>},
            kind : {"file", "dir", "link"}],
  search |-> {"a", "b", "\n", "nul"},
  page |-> {"w", "<p>", "</p>", "<b>", "<script>", "</script>", "<!--", "-->", "&lt;", "\n", "<"},
  query |-> {"a", "-", " ", "&", "+"},
  argv |->
    {<<"--model", "api">>, <<"--model", "local">>, <<"--ctx", "512">>, <<"--ctx">>,
     <<"--max-iters", "2">>, <<"--sandbox", "auto">>, <<"-p">>, <<"-c">>, <<"--yolo">>,
     <<"--depth", "1">>, <<"fix">>},
  lines |-> {<<>>, <<"a">>, <<"\\">>, <<"a", "\\">>},
  typed |-> {"/", "x", "y", " ", "!"},
  mention |-> {"@", "f", " ", "x"},
  template |-> {"!", "tick", "$ARGUMENTS", "a"},
  models |-> {"near", "near2", "beside"},
  changes |-> [path : {"p", "q", "r"}, adds : 1 .. 2, dels : {0}, created : {FALSE}]]

Longest == [
  view |-> 6, literal |-> 4, json |-> 4, chunks |-> 3, url |-> 5, bytes |-> 5, history |-> 4, call |-> 2,
  edit |-> 5, lexer |-> 4, diff |-> 5, path |-> 5, glob |-> 4, ignore |-> 3, name |-> 3,
  output |-> 7, listing |-> 5, shell |-> 2, tree |-> 5, search |-> 5, page |-> 4, query |-> 3,
  argv |-> 3, lines |-> 4, typed |-> 5, mention |-> 5, template |-> 5, models |-> 3, changes |-> 4]

ReplyChars == {"a", "tick", "*", "-", "\n", "<", "t"}
SomeTag == <<"<", "t">>

(* What a user types into, and has.                                        *)
SomeLineChars == {"a", "\\"}
SomeCommands == {<<"/", "x">>, <<"/", "x", "y">>}
SessionChars == {"c", "O", "n", ".", "1"}
InLower == [c \in SessionChars |-> IF c = "O" THEN "o" ELSE c]
SomeDevices == {<<"c", "o", "n">>}
OneCustomSet == {{<<"x">>, <<"y">>, <<"y", "x">>}}
OneFileSet == {{<<"f">>, <<"@", "f">>}}
SomeArguments == {<<>>, <<"a">>, <<"!", "tick", "a", "tick">>, <<"$ARGUMENTS">>}
SomeNames == SeqsUpTo({"c", "O", "n", "."}, 3)
SomeModels == {<<>>, <<"near">>, <<"near", "near2">>, <<"beside">>}

(* What edit is asked, and what a file may become.                         *)
SomeSearches == SeqsUpTo({"x", " ", "\n"}, 3)
SomeReplacements == SeqsUpTo({"x", "\n"}, 2)
SomeFileChars == {"a", "b", "\n"}
SomeRewrites == SeqsUpTo(Parts["diff"], 4)

(* Arguments of calls.                                                     *)
SomeArgs ==
  LET some == [path |-> Str("p"), content |-> Str("c"), cmd |-> Str("m"), question |-> Str("q")]
  IN <<<<>>, some, [some EXCEPT !.path = Num(1)], [path |-> Str("p"), offset |-> Num(-3)],
      [path |-> Str("p"), offset |-> Num(4)], [task |-> Str("t")],
      [tasks |-> Arr(<<Str("t"), Num(1), Str("u"), Str("v")>>)]>>

(* Command lines, and the worlds they are typed in.                        *)
SomeTexts == STRING \ {NoModel}
WordOf(n) == ToString(n)
SomeCounts == {0, 1, 2, 8, 32, 512, 4096, 131072}
NumberOf == [w \in {WordOf(n) : n \in SomeCounts} |-> CHOOSE n \in SomeCounts : WordOf(n) = w]
Confs == {<<>>, [model |-> "lan", ctx |-> 512], [ctx |-> NotANumber, yolo |-> TRUE],
          [small_model |-> "local", permission |-> [run_command |-> "deny"], sandbox |-> "auto",
           instructions |-> <<"gone.md", "style.md">>]}
SomeWorlds ==
  {[files |-> <<[is |-> "torn", conf |-> <<>>], [is |-> "object", conf |-> conf]>>,
    env |-> [hermetic |-> hermetic, yolo |-> "", lean |-> "yes", api_key |-> "key", api_url |-> "",
             remote_key |-> ""],
    argv |-> <<>>, stdin |-> [tty |-> tty, piped |-> IF tty THEN <<>> ELSE <<"piped">>],
    answers |-> answers, loadable |-> {NoModel, "local", "lan", "api"}, fresh |-> "f2",
    newest |-> "f1", rules |-> [box |-> {"CRUSH.md", "CLAUDE.md"}, f1 |-> {"AGENTS.md"}],
    global |-> TRUE, readable |-> {"style.md"}] :
   <<conf, hermetic>> \in (Confs \X {""}) \cup {<<[model |-> "lan", ctx |-> 512], "1">>},
   <<tty, answers>> \in {<<FALSE, <<>>>>, <<TRUE, <<>>>>,
                        <<TRUE, [model |-> "local", sandbox |-> "box", lean |-> TRUE]>>}}

(* A tree has the folder of each of its nodes, and no node twice.          *)
Fits(node) ==
  part = "tree" =>
    /\ \A i \in DOMAIN text : text[i].path # node.path
    /\ Len(node.path) > 1 => \E i \in DOMAIN text :
         text[i] = [path |-> SubSeq(node.path, 1, Len(node.path) - 1), kind |-> "dir"]
    /\ node.path \in {<<"d">>, <<"d", "e">>, <<"build">>} => node.kind # "file"
    /\ node.path \notin {<<"d">>, <<"d", "e">>, <<"build">>} => node.kind # "dir"

Everywhere ==
  /\ Init
  /\ EditorInit
  /\ part \in DOMAIN Parts \cup {"update", "editor"}
  /\ part # "update" => windows
  /\ text = <<>>
  /\ view = Fresh

Grow ==
  /\ part \in DOMAIN Parts
  /\ Len(text) < Longest[part]
  /\ \E c \in Parts[part] :
       /\ Fits(c)
       /\ NextSymbol(c)
  /\ UNCHANGED <<vars, editorVars>>

UpdateStep == part = "update" /\ Next /\ UNCHANGED <<part, text, view, editorVars>>
EditorStep == part = "editor" /\ EditorNext /\ UNCHANGED <<part, text, view, vars>>

Step == Grow \/ UpdateStep \/ EditorStep

OneByOne == Everywhere /\ [][Step]_allVars
-----------------------------------------------------------------------------
(* What goes over the wire comes back as it was: text through JSON, code   *)
(* points through \u escapes, a body through chunks, an image through its  *)
(* file and base64, an address through its parts, a conversation through   *)
(* the two kinds of request; and what was cut short on the way is never    *)
(* taken for whole.  The content of a file being written is previewed as   *)
(* it will be.                                                             *)
CodePoints == {0, 1, 127, 128, 2047, 2048, 55295, 57344, 65535, 65536, 1114111}
WireRoundTrip ==
  /\ part = "literal" => Wire!TextSurvives(text)
  /\ part = "literal" /\ "soh" \notin {text[i] : i \in DOMAIN text} =>
       ContentShown(Wire!Literal(text), text)
  /\ part = "literal" /\ text = <<>> => \A cp \in CodePoints : Wire!CodePointSurvives(cp)
  /\ part = "json" =>
       \A body \in {text, <<"{", "s", ":">> \o text \o <<"}">>,
                   <<"[">> \o text \o <<",", "s", "]">>} : Wire!BodyIsWhole(body)
  /\ part = "chunks" => Wire!ChunksSurvive(text)
  /\ part = "url" => Wire!UrlSurvives(text)
  /\ part = "bytes" => Wire!BytesSurvive(text)
  /\ part = "bytes" /\ text = <<>> => \A w \in 1 .. 4, h \in 1 .. 4 : Wire!ImageIsWhole(w, h)
  /\ part = "history" => Wire!SameConversation(text)

(* What the tools tell the model is what is there: pages and capped        *)
(* outputs say what they leave out, a listing, a walk and a search miss    *)
(* nothing they do not announce, no pattern matches more or less than it   *)
(* means, a run is not reported better than it went, a page keeps its      *)
(* words, and search names files as the sandbox will find them again.      *)
TreePaths == {<<"d">>, <<"d", "f">>, <<"d", "e">>, <<"f">>}
ObservationsAreTrue ==
  /\ part = "output" => Obs!TextsAreWhole(text)
  /\ part = "listing" => Obs!ListingIsHonest(text)
  /\ part = "shell" => \A launched \in BOOLEAN, code \in {0, 1},
                         mtime \in {<<>>} \cup [{"c", "cpp", "bin"} -> -1 .. 1] :
                         Obs!RunIsHonest(launched, text, code, mtime)
  /\ part = "tree" => \A gi \in SUBSET TreePaths, wanted \in {{"f"}, {"e", "f"}} :
                        Obs!GlobFindsAll({text[i] : i \in DOMAIN text}, gi, wanted)
  /\ part = "glob" => \A s \in SeqsUpTo({"a", "b"}, 4) : Path!GlobIsExact(text, s)
  /\ part = "ignore" => \A other \in {<<"a">>, <<"!", "a">>, <<"#">>, <<"*", "/">>},
                          rel \in {<<"a">>, <<"a", "/", "a">>, <<"#">>}, isDir \in BOOLEAN :
                          Path!IgnoreIsLawful(text, other, rel, isDir)
  /\ part = "search" => \A w \in SeqsUpTo({"a", "b", "\n"}, 2) \ {<<>>} : Obs!SearchFindsLines(text, w)
  /\ part = "page" => Obs!PageIsReadable(text)
  /\ part = "query" => Obs!QuerySurvives(text)
  /\ part = "path" => LET to(dir) == SandboxResolve(dir \o <<"/", "a">>)
                      IN to(Obs!Spelled(text)) = to(text)
=============================================================================
