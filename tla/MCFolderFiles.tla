----------------------------- MODULE MCFolderFiles -----------------------------
(* Model-checking instances of FolderFiles. *)
EXTENDS FolderFiles, TLC
CONSTANTS m, z, a, b, c

\* b is like a and like c, which are not alike.
Alike == {<<a, a>>, <<b, b>>, <<c, c>>, <<a, b>>, <<b, a>>, <<b, c>>, <<c, b>>}
SmallLibraries == {(m :> a) @@ (z :> b)}

\* The walk comes to m before duplicates/ and to z after it.
LexicalOrder ==
    LET deepest == IF Deepest = 1 THEN <<<<m, 1>>, <<z, 1>>>>
                   ELSE <<<<m, 1>>, <<m, 2>>, <<z, 2>>, <<z, 1>>>>
    IN <<<<m, 0>>>> \o deepest \o <<<<z, 0>>>>
===============================================================================
