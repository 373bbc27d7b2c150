------------------------------- MODULE Inputs -------------------------------
(***************************************************************************)
(* What comes into a process from outside, as texts that grow symbol by    *)
(* symbol, in whatever order: the path of a file a model asks for          *)
(* (Sandbox), its reply, as it streams to the screen (StreamView) and as a *)
(* call of its is read from it (ToolCalls), the command line the program   *)
(* is started with (Launch), what a user types, chooses and does           *)
(* (Commands), and the files that are edited (TextEdits).                  *)
(***************************************************************************)
EXTENDS Sandbox, ToolCalls, StreamView, Launch, Commands, TextEdits

CONSTANTS
  Alphabet,                   \* the symbols of each part's texts
  CallNames,                  \* names a call may have, those of no tool too
  CallArgs,                   \* arguments it may have: a sequence of them
  Worlds,                     \* files, environment and user a program is started in
  LineChars,                  \* characters of a typed line
  CustomSets,                 \* the custom commands there may be
  FileSets,                   \* the files there may be to mention
  Arguments,                  \* what a custom command may be given
  SessionNames,               \* names of other sessions
  ModelLists,                 \* models found near and beside the program
  Searches,                   \* what edit may be asked to find
  Replacements,               \* and to put in its place
  FileChars,                  \* characters of a file whose change is shown
  Rewrites                    \* what the file may become, line by line

ASSUME InputsAssumption ==
  /\ MaxDepth \in Nat /\ MaxPar \in Nat
  /\ \A i \in DOMAIN CallArgs : ArgsOK(CallArgs[i])
  /\ \A w \in Worlds : WorldOK(w)
  /\ Alphabet["call"] \subseteq Items /\ Alphabet["view"] \subseteq Chars
  /\ Alphabet["lines"] \subseteq Seq(LineChars)
  /\ "end" \notin Alphabet["mention"] /\ \A files \in FileSets : <<>> \notin files
  /\ "ARG" \notin Alphabet["template"] /\ Arguments \subseteq Seq(Alphabet["template"])
  /\ \A c \in Alphabet["changes"] : IsChange(c)
  /\ SessionNames \subseteq Seq(Alphabet["name"]) /\ ModelLists \subseteq Seq(Alphabet["models"])
  /\ Searches \subseteq Seq(Alphabet["edit"]) /\ Replacements \subseteq Seq(Alphabet["edit"])
  /\ Alphabet["diff"] \subseteq Seq(FileChars) /\ Rewrites \subseteq Seq(Alphabet["diff"])

VARIABLES
  part,                       \* which of them
  text,                       \* its symbols so far
  view                        \* the renderer a reply is fed to

NextSymbol(c) ==
  /\ text' = Append(text, c)
  /\ view' = IF part = "view" THEN Token(view, c) ELSE view
  /\ UNCHANGED part

TextSpec ==
  /\ part \in DOMAIN Alphabet /\ text = <<>> /\ view = Fresh
  /\ [][\E c \in Alphabet[part] : NextSymbol(c)]_<<part, text, view>>
-----------------------------------------------------------------------------
(* No path from a model leaves the root of the sandbox: sandbox_resolve    *)
(* follows it exactly when none of its prefixes does, and ends where its   *)
(* components lead.                                                        *)
PathsStayInside == part = "path" => StaysInside(text)

(* Whatever markers a streamed reply of main.c's ui_token holds and        *)
(* wherever they are cut, its words reach the screen in order, and only    *)
(* those: nothing that was held back is lost or shown twice, and a word    *)
(* may stay away only from a line with the marker of a fence.              *)
ReplyIsShown == part = "view" => ReplyShown(text, view)

(* A call the model writes in any of the shapes toolcall_parse forgives is *)
(* the same call, complete, with the model's own arguments.                *)
CallsAreUnderstood ==
  part = "call" =>
    \A tagged \in BOOLEAN, name \in CallNames, i \in DOMAIN CallArgs :
      CallUnderstood(text, tagged, name, CallArgs[i])

(* The command line that groups of arguments make.                         *)
CommandLine(groups) ==
  LET upTo[n \in 0 .. Len(groups)] == IF n = 0 THEN <<>> ELSE upTo[n - 1] \o groups[n]
  IN upTo[Len(groups)]

(* What a user configures, types and switches is what the process does,    *)
(* and a sub-agent's process is its parent's: with whatever argv main is   *)
(* called, in whatever order its options stand.                            *)
ProcessesAgree ==
  LET argv == CommandLine(text)
  IN part = "argv" =>
       (ArgvOK(argv) => \A w \in Worlds : Agrees([w EXCEPT !.argv = argv]))

(* A line goes to the one it is meant for, whole; an argument is never run *)
(* as a command; no two names of sessions share a file; and the numbers    *)
(* beside the entries of a list and the totals of a table are the entries' *)
(* own.                                                                    *)
CommandsReachTheirReader ==
  /\ part = "lines" => LinesAreJoined(text)
  /\ part = "typed" => \A custom \in CustomSets : RightReader(text, custom)
  /\ part = "mention" => \A files \in FileSets : MentionsAttach(text, files)
  /\ part = "template" => \A arg \in Arguments : ArgumentIsData(text, arg)
  /\ part = "name" => \A other \in SessionNames : SessionNamesAreSafe(text, other)
  /\ part = "models" => \A near \in ModelLists, beside \in ModelLists : NumbersMatch(near, beside, text)
  /\ part = "changes" => TablesAreTrue(text)

(* edit_apply leaves the lines it was not asked about alone, the repair of *)
(* literals does not change the verdict on a program, and the diff the     *)
(* user decides on is the change.                                          *)
EditsAreExact ==
  /\ part = "edit" => \A old \in Searches, new \in Replacements : OtherLinesStay(text, old, new)
  /\ part = "lexer" => RepairIsSafe(text)
  /\ part = "diff" => \A new \in Rewrites : DiffIsTheChange(Joined(text), Joined(new))
=============================================================================
