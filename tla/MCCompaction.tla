---------------------------- MODULE MCCompaction ----------------------------
(***************************************************************************)
(* Small instances of Compaction for TLC, in the program's own numbers.    *)
(***************************************************************************)
EXTENDS Compaction

Short == [chars |-> 36, toks |-> 12]          \* one line of a tool's answer
Prose == [chars |-> 1890, toks |-> 450]       \* 4.2 characters a token
CodeText == [chars |-> 1350, toks |-> 450]    \* 3.0 characters a token
LeanPrompt == [chars |-> 1600, toks |-> 400]

UsualTexts == {Short, Prose, CodeText}
=============================================================================
