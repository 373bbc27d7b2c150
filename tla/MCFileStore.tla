---------------------------- MODULE MCFileStore ----------------------------
(***************************************************************************)
(* A small instance of FileStore for TLC: a C file, which the verification *)
(* may refuse, and a text file, which is never verified.  bad lacks a      *)
(* brace.                                                                  *)
(***************************************************************************)
EXTENDS FileStore

CONSTANTS ok, bad

NoRepair == [c \in Contents |-> c]
=============================================================================
