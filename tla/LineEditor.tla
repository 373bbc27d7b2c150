----------------------------- MODULE LineEditor -----------------------------
(***************************************************************************)
(* The line editor of the prompt, read_line_raw in main.c, and the row of  *)
(* the terminal it draws on.  The editor keeps the line and the cursor; it *)
(* never redraws from scratch but sends the bytes that should bring the    *)
(* row up to date: characters, \b, and the escape that erases to the end.  *)
(* The row is taken to be wide enough for the line.                        *)
(***************************************************************************)
EXTENDS Integers, Sequences, SequencesExt

CONSTANTS
  Printable,   \* characters that can be typed
  Blank,       \* a blank cell
  MaxLine,     \* sizeof buf - 1, 4095 in the code
  HistMax      \* HIST_MAX, 128

ASSUME EditorAssumption ==
  /\ MaxLine \in Nat
  /\ HistMax \in Nat \ {0}

VARIABLES
  buf, pos,    \* the line and the cursor in it, 0 .. Len(buf)
  hist,        \* g_hist: submitted lines, oldest first
  browse,      \* the recalled entry; Len(hist): the line being typed
  saved,       \* that line, stashed while browsing
  row, col,    \* the terminal: cells after the prompt, and the cursor
  typing,      \* read_line_raw is reading; FALSE after an end of file
  typed        \* history variable: the line as it was before browsing began

recall == <<hist, browse, saved>>
editorVars == <<buf, pos, hist, browse, saved, row, col, typing, typed>>

(* What the terminal makes of the bytes.  A screen is [row, col].          *)
Screen == [row |-> row, col |-> col]
Cells(r, n) == [i \in 1 .. n |-> IF i \in DOMAIN r THEN r[i] ELSE Blank]

Type(s, text) ==
  LET w == s.col + Len(text)
  IN [col |-> w,
      row |-> [i \in 1 .. IF w > Len(s.row) THEN w ELSE Len(s.row) |->
                 IF i \in s.col + 1 .. w THEN text[i - s.col] ELSE Cells(s.row, i)[i]]]
Back(s, n) == [s EXCEPT !.col = @ - n]
EraseToEnd(s) == [s EXCEPT !.row = Cells(@, s.col)]

Show(s) ==
  /\ row' = s.row
  /\ col' = s.col

After(b, p) == SubSeq(b, p + 1, Len(b))

RedrawTail(s, b, p, pad) ==
  LET tail == After(b, p) \o pad IN Back(Type(s, tail), Len(tail))

ClearLine(s, p) == EraseToEnd(Back(s, p))

EditorInit ==
  /\ buf = <<>> /\ pos = 0
  /\ hist = <<>> /\ browse = 0 /\ saved = <<>>
  /\ row = <<>> /\ col = 0
  /\ typing = TRUE /\ typed = <<>>

(* While not browsing, what is on the line is what is being typed.         *)
Edited == typed' = IF browse = Len(hist) THEN buf' ELSE typed

(* Mutant of Insert: the tail after the new character is not redrawn.      *)
InsertOverwrites(c) ==
  /\ typing /\ Len(buf) < MaxLine
  /\ buf' = InsertAt(buf, pos + 1, c)
  /\ pos' = pos + 1
  /\ Show(Type(Screen, <<c>>))
  /\ Edited
  /\ UNCHANGED <<recall, typing>>

Insert(c) ==
  /\ typing /\ Len(buf) < MaxLine
  /\ buf' = InsertAt(buf, pos + 1, c)
  /\ pos' = pos + 1
  /\ Show(RedrawTail(Type(Screen, <<c>>), buf', pos', <<>>))
  /\ Edited
  /\ UNCHANGED <<recall, typing>>

Backspace ==
  /\ typing /\ pos > 0
  /\ buf' = RemoveAt(buf, pos)
  /\ pos' = pos - 1
  /\ Show(RedrawTail(Back(Screen, 1), buf', pos', <<Blank>>))
  /\ Edited
  /\ UNCHANGED <<recall, typing>>

Delete ==
  /\ typing /\ pos < Len(buf)
  /\ buf' = RemoveAt(buf, pos + 1)
  /\ Show(RedrawTail(Screen, buf', pos, <<Blank>>))
  /\ Edited
  /\ UNCHANGED <<pos, recall, typing>>

Left ==
  /\ typing /\ pos > 0
  /\ pos' = pos - 1
  /\ Show(Back(Screen, 1))
  /\ UNCHANGED <<buf, recall, typing, typed>>

Right ==                        \* moves by sending the character again
  /\ typing /\ pos < Len(buf)
  /\ pos' = pos + 1
  /\ Show(Type(Screen, <<buf[pos + 1]>>))
  /\ UNCHANGED <<buf, recall, typing, typed>>

Home ==                         \* and Ctrl+A
  /\ typing /\ pos > 0
  /\ pos' = 0
  /\ Show(Back(Screen, pos))
  /\ UNCHANGED <<buf, recall, typing, typed>>

End ==                          \* and Ctrl+E
  /\ typing /\ pos < Len(buf)
  /\ pos' = Len(buf)
  /\ Show(Type(Screen, After(buf, pos)))
  /\ UNCHANGED <<buf, recall, typing, typed>>

Recall(text) ==
  /\ buf' = SubSeq(text, 1, IF Len(text) > MaxLine THEN MaxLine ELSE Len(text))
  /\ pos' = Len(buf')
  /\ Show(Type(ClearLine(Screen, pos), buf'))
  /\ UNCHANGED <<hist, typing, typed>>

Up ==
  /\ typing /\ browse > 0
  /\ saved' = IF browse = Len(hist) THEN buf ELSE saved
  /\ browse' = browse - 1
  /\ Recall(hist[browse])

Down ==
  /\ typing /\ browse < Len(hist)
  /\ browse' = browse + 1
  /\ Recall(IF browse' = Len(hist) THEN saved ELSE hist[browse' + 1])
  /\ UNCHANGED saved

(* The line goes to its caller, and the next prompt opens a fresh row.     *)
Pushed(text) ==
  IF text = <<>> \/ (hist # <<>> /\ Last(hist) = text) THEN hist
  ELSE IF Len(hist) = HistMax THEN Append(Tail(hist), text)
  ELSE Append(hist, text)

NextLine(text) ==
  /\ hist' = Pushed(text)
  /\ browse' = Len(hist')
  /\ buf' = <<>> /\ pos' = 0 /\ saved' = <<>>
  /\ row' = <<>> /\ col' = 0
  /\ typed' = <<>>

Enter == typing /\ NextLine(buf) /\ UNCHANGED typing
CtrlC == typing /\ NextLine(<<>>) /\ UNCHANGED typing

EndOfFile ==                    \* Ctrl+D on an empty line, or a hangup
  /\ typing
  /\ typing' = FALSE
  /\ NextLine(buf)

EditorNext ==
  \/ \E c \in Printable : Insert(c)
  \/ Backspace \/ Delete
  \/ Left \/ Right \/ Home \/ End
  \/ Up \/ Down
  \/ Enter \/ CtrlC \/ EndOfFile
-----------------------------------------------------------------------------
Trimmed(r) ==
  LET used == {i \in DOMAIN r : r[i] # Blank}
  IN SubSeq(r, 1, IF used = {} THEN 0 ELSE CHOOSE n \in used : \A i \in used : i <= n)

(* The user sees the line that Enter would submit, with the cursor where   *)
(* the next character goes, although the editor only ever sends patches;   *)
(* and Down past the newest entry gives back the line that was being typed *)
(* when Up first left it.                                                  *)
ScreenShowsTheLine ==
  /\ Trimmed(row) = buf
  /\ col = pos /\ pos \in 0 .. Len(buf)
  /\ browse = Len(hist) => buf = typed
=============================================================================
