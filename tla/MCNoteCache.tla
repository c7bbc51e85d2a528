---------------------------- MODULE MCNoteCache -----------------------------
(* NoteCache with interchangeable addresses. *)
EXTENDS NoteCache, TLC

CONSTANTS a, b
AnyMac == Permutations(Mac)
=============================================================================
