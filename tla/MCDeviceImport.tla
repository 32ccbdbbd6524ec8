----------------------------- MODULE MCDeviceImport -----------------------------
(* Model-checking instances of DeviceImport. *)
EXTENDS DeviceImport, TLC
CONSTANTS stick, camera, n1, n2, a, b, c, i1, i2

\* A card with two photos, a camera with one; a and b are of one size.
Serial == (stick :> "storage:X") @@ (camera :> "04a9:1")
Directory == ("storage:X" :> "storage_X") @@ ("04a9:1" :> "04a9_1")
Sizes == [x \in Contents |-> IF x = c THEN 1 ELSE 2]
Files0 == (stick :> ((n1 :> a) @@ (n2 :> c))) @@ (camera :> ((n1 :> c) @@ (n2 :> None)))
===============================================================================
