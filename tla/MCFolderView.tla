------------------------------ MODULE MCFolderView ------------------------------
(* Model-checking instances of FolderView. *)
EXTENDS FolderView, TLC
CONSTANTS a, b, A, B, l1, l2, w1, w2, r1, r2

\* Two photos, or one file of another kind, in one folder; the other is empty.
SmallLibraries == {(a :> "photo") @@ (b :> "photo")}
                  \cup {(a :> k) : k \in {"raw", "heic", "video"}}
InFolder == [p \in {a, b} |-> A]
WorkerOf == (l1 :> {w1}) @@ (l2 :> {w2})

\* A load goes with its worker.
Symmetry == {f \in Permutations(Loads \cup Threads) :
                /\ \A c \in Loads : f[c] \in Loads /\ WorkerOf[f[c]] = {f[t] : t \in WorkerOf[c]}
                /\ \A r \in Requests : f[r] \in Requests}
===============================================================================
