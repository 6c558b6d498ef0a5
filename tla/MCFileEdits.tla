---------------------------- MODULE MCFileEdits ----------------------------
(* Instances of the file tools for TLC. *)
EXTENDS FileEditsInvariant, TLC

CONSTANTS c1, c2, c3, c4, k1, k2, f1

\* All calls for one file.
OneKey == [c \in Callers |-> k1]
OneFile == [c \in Callers |-> f1]

\* A file with two names: two calls use the first, one the second.
NameKey == (c1 :> k1 @@ c2 :> k1 @@ c3 :> k2)
=============================================================================
