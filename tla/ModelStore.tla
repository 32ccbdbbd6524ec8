------------------------------ MODULE ModelStore ------------------------------
(***************************************************************************)
(* What DownloadFileResumable promises of the files it installs: whatever  *)
(* is interrupted, there is never a torn file under a final name.  A file  *)
(* appears there whole; it leaves when it is deleted or found out of date; *)
(* a new version of the application may expect another content.            *)
(***************************************************************************)

CONSTANT Files

VARIABLE dest   \* what is under the final name of every file

TypeOK == dest \in [Files -> {"absent", "stale", "whole"}]

Init == dest = [f \in Files |-> "absent"]

\* The verified download is renamed.
Install(f) ==
    /\ dest[f] = "absent"
    /\ dest' = [dest EXCEPT ![f] = "whole"]

\* Some files are removed.
Remove(S) == dest' = [f \in Files |-> IF f \in S THEN "absent" ELSE dest[f]]

\* Other contents are expected than those that are there.
Age(S) ==
    dest' = [f \in Files |-> IF f \in S /\ dest[f] = "whole" THEN "stale"
                                                             ELSE dest[f]]

Next ==
    \/ \E f \in Files : Install(f)
    \/ \E S \in SUBSET Files : Remove(S) \/ Age(S)

Spec == Init /\ [][Next]_dest
===============================================================================
