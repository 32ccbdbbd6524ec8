---------------------------- MODULE InstallProofs ----------------------------
(***************************************************************************)
(* What the program installs: the models and runtime of the VLM            *)
(* (Provisioner, first), its own updates (Updater) and the engine of the   *)
(* scoring plugins (ScoringEngine, last), each for every value of the      *)
(* constants.                                                              *)
(*                                                                         *)
(* For the VLM's models, IInv follows a call: what its download has made   *)
(* sure of so far (FetchInv), what the extraction has put in place         *)
(* (ExtractInv), and what the caller may rely on once they return          *)
(* (ModelInv, CleanupInv).                                                 *)
(***************************************************************************)
EXTENDS Provisioner, Updater, ScoringEngine, TLAPS

\* A download writes only where no file is, and renames only a .partial
\* that is complete and right; so no file is torn.
FetchInv ==
    /\ \A f \in Files : dest[f] # "torn"
    /\ at \in FetchPCs \ {"check"} => dest[item] = "absent"
    /\ at \in {"verify", "rename"} => Complete(item)
    /\ at = "rename" => part[item].bytes = "right"

\* The steps after the download of the model.
PastModel ==
    \/ at \in {"runtime", "extract", "chmod", "cleanup", "configure", "persist"}
    \/ at \in FetchPCs /\ item = Zip

\* Past it, the model is there, unless it has been deleted.
ModelInv ==
    /\ at # "idle" => model \in Models /\ item \in {model, Zip}
    /\ PastModel => wiped \/ dest[model] = "whole"

\* The zip that was saved as the binary is gone before the release is
\* downloaded; the members that are not left to extract are on disk.
ExtractInv ==
    /\ at \in {"extract", "chmod", "cleanup"} => server # "zip"
    /\ at \in FetchPCs /\ item = Zip => server # "zip"
    /\ at \in {"extract", "chmod"} => Libs \ left \subseteq libs
    /\ at = "chmod" => left = {}

\* After the extraction the runtime is usable, unless it has been deleted.
CleanupInv ==
    /\ at = "cleanup" => server = "absent" \/ Usable
    /\ at \in {"configure", "persist"} => wiped \/ Usable \/ interrupted

IInv ==
    /\ TypeOK
    /\ FetchInv
    /\ ModelInv
    /\ ExtractInv
    /\ CleanupInv
    /\ ReadyIsUsable

-------------------------------------------------------------------------------

\* A new installation.
LEMMA InitIInv == Init => IInv
<1> SUFFICES ASSUME Init PROVE IInv
  OBVIOUS
<1> USE SizePositive, DisturbancesNat DEF Init, Files, Members
<1>1. TypeOK
  <2>1. part \in [Files -> [size : 0 .. Size, bytes : {"right", "wrong"}]]
    <3>1. Empty \in [size : 0 .. Size, bytes : {"right", "wrong"}]
      BY DEF Empty
    <3>2. QED
      BY <3>1
  <2>2. dest \in [Files -> {"absent", "stale", "torn", "whole"}]
    OBVIOUS
  <2>3. libs \in SUBSET Libs /\ left \in SUBSET Members
    OBVIOUS
  <2>4. /\ ranges \in BOOLEAN /\ executable \in BOOLEAN
        /\ interrupted \in BOOLEAN /\ spoiled \in BOOLEAN /\ wiped \in BOOLEAN
    OBVIOUS
  <2>5. QED
    BY <2>1, <2>2, <2>3, <2>4 DEF TypeOK, PCs, FetchPCs
<1>2. FetchInv
  BY DEF FetchInv, FetchPCs
<1>3. ModelInv /\ ExtractInv /\ CleanupInv
  BY DEF ModelInv, ExtractInv, CleanupInv, PastModel, FetchPCs
<1>4. ReadyIsUsable
  BY DEF ReadyIsUsable, RuntimeReady
<1>5. QED
  BY <1>1, <1>2, <1>3, <1>4 DEF IInv

\* A step keeps every variable in its type.
LEMMA TypeStep == ASSUME TypeOK, Next PROVE TypeOK'
<1> USE SizePositive, DisturbancesNat
    DEF TypeOK, PCs, FetchPCs, Files, Members, Empty, store, runtime, call, engine,
        history, Goto, Disturb, Fetched, Complete
<1>1. ASSUME FetchNext PROVE TypeOK'
  <2>1. CASE CheckPresent
    BY <2>1 DEF CheckPresent
  <2>2. CASE CheckAbsent
    BY <2>2 DEF CheckAbsent
  <2>3. CASE DiscardPartial
    BY <2>3 DEF DiscardPartial
  <2>4. CASE Request
    BY <2>4 DEF Request
  <2>5. CASE Refused
    BY <2>5 DEF Refused
  <2>6. CASE WriteChunk
    BY <2>6 DEF WriteChunk
  <2>7. CASE EndOfBody
    BY <2>7 DEF EndOfBody
  <2>8. CASE Verify
    BY <2>8 DEF Verify
  <2>9. CASE Rename
    BY <2>9 DEF Rename
  <2>10. QED
    BY <1>1, <2>1, <2>2, <2>3, <2>4, <2>5, <2>6, <2>7, <2>8, <2>9 DEF FetchNext
<1>2. ASSUME RuntimeNext PROVE TypeOK'
  <2>1. CASE RuntimePresent
    BY <2>1 DEF RuntimePresent
  <2>2. CASE RuntimeMissing
    BY <2>2 DEF RuntimeMissing
  <2>3. ASSUME NEW m \in Members, Extract(m) PROVE TypeOK'
    BY <2>3 DEF Extract
  <2>4. CASE Chmod
    BY <2>4 DEF Chmod
  <2>5. CASE Cleanup
    BY <2>5 DEF Cleanup
  <2>6. QED
    BY <1>2, <2>1, <2>2, <2>3, <2>4, <2>5 DEF RuntimeNext
<1>3. CASE Configure \/ Persist
  BY <1>3 DEF Configure, Persist
<1>4. CASE DeleteNext
  <2>1. CASE DeleteModels
    <3>1. dest' \in [Files -> {"absent", "stale", "torn", "whole"}]
      BY <2>1 DEF DeleteModels
    <3>2. deleting' = "runtime" /\ wiped' = TRUE
      BY <2>1 DEF DeleteModels
    <3>3. UNCHANGED <<ranges, part, runtime, call, engine, disturbances,
                      interrupted, spoiled>>
      BY <2>1 DEF DeleteModels
    <3> QED
      BY <3>1, <3>2, <3>3
  <2>2. CASE DeleteRuntime
    <3>1. server' = "absent" /\ deleting' = "config"
      BY <2>2 DEF DeleteRuntime
    <3>2. executable' \in BOOLEAN /\ wiped' \in BOOLEAN
      BY <2>2 DEF DeleteRuntime
    <3>3. UNCHANGED <<ranges, store, libs, call, engine, disturbances,
                      interrupted, spoiled>>
      BY <2>2 DEF DeleteRuntime
    <3> QED
      BY <3>1, <3>2, <3>3
  <2>3. CASE ClearConfig
    BY <2>3 DEF ClearConfig
  <2> QED
    BY <1>4, <2>1, <2>2, <2>3 DEF DeleteNext
<1>5. CASE Delete
  BY <1>5 DEF Delete
<1>6. CASE Fail \/ Crash
  <2>1. interrupted' \in BOOLEAN /\ spoiled' \in BOOLEAN
    BY <1>6, Zenon DEF Fail, Crash, CutOff
  <2>2. CASE Fail
    BY <2>1, <2>2 DEF Fail
  <2>3. CASE Crash
    <3>1. left' \in SUBSET Members
      BY <2>3 DEF Crash
    <3>2. /\ wiped' \in BOOLEAN /\ ranges' \in BOOLEAN /\ executable' \in BOOLEAN
          /\ libs' \in SUBSET Libs
      BY <2>3 DEF Crash
    <3>3. QED
      BY <2>1, <2>3, <3>1, <3>2 DEF Crash
  <2>4. QED
    BY <1>6, <2>2, <2>3
<1>7. ASSUME NEW S \in SUBSET Files, Upgrade(S) PROVE TypeOK'
  BY <1>7 DEF Upgrade
<1>8. ASSUME NEW m \in Models, Download(m) PROVE TypeOK'
  BY <1>8 DEF Download
<1>9. QED
  BY <1>1, <1>2, <1>3, <1>4, <1>5, <1>6, <1>7, <1>8 DEF Next, CallNext, EnvNext

\* Every variable is of its type, always.
THEOREM TypeCorrect == Spec => []TypeOK
<1>1. TypeOK /\ [Next]_vars => TypeOK'
  <2> SUFFICES ASSUME TypeOK, [Next]_vars PROVE TypeOK'
    OBVIOUS
  <2>1. CASE Next
    BY <2>1, TypeStep
  <2>2. CASE UNCHANGED vars
    BY <2>2 DEF TypeOK, vars, Files, Members
  <2>3. QED
    BY <2>1, <2>2
<1>2. Init => TypeOK
  BY InitIInv DEF IInv
<1>3. QED
  BY <1>1, <1>2, PTL DEF Spec

-------------------------------------------------------------------------------

\* A download leaves no torn file, whatever its .partial was.
LEMMA FetchStep ==
    ASSUME TypeOK, FetchInv, Next
    PROVE  FetchInv'
<1> USE SizePositive DEF FetchInv, TypeOK, FetchPCs, Complete, Fetched, Files, Empty,
           store, runtime, call, engine, history, Goto
<1>1. CASE CheckPresent
  BY <1>1 DEF CheckPresent
<1>2. CASE CheckAbsent \/ DiscardPartial
  BY <1>2 DEF CheckAbsent, DiscardPartial
<1>3. CASE Request \/ Refused
  BY <1>3 DEF Request, Refused
<1>4. CASE WriteChunk \/ EndOfBody
  BY <1>4 DEF WriteChunk, EndOfBody
<1>5. CASE Verify
  BY <1>5 DEF Verify
<1>6. CASE Rename
  BY <1>6 DEF Rename
<1>7. CASE RuntimePresent
  BY <1>7 DEF RuntimePresent
<1>8. CASE RuntimeMissing
  BY <1>8 DEF RuntimeMissing
<1>9. ASSUME NEW m \in Members, Extract(m) PROVE FetchInv'
  BY <1>9 DEF Extract
<1>10. CASE Chmod
  BY <1>10 DEF Chmod
<1>11. CASE Cleanup
  BY <1>11 DEF Cleanup
<1>12. CASE Configure \/ Persist
  BY <1>12 DEF Configure, Persist
<1>13. CASE Delete \/ ClearConfig
  BY <1>13 DEF Delete, ClearConfig
<1>14. CASE DeleteModels
  BY <1>14 DEF DeleteModels
<1>15. CASE DeleteRuntime
  BY <1>15 DEF DeleteRuntime
<1>16. CASE Fail
  BY <1>16 DEF Fail, CutOff
<1>17. CASE Crash
  BY <1>17 DEF Crash, CutOff
<1>18. ASSUME NEW S \in SUBSET Files, Upgrade(S) PROVE FetchInv'
  BY <1>18 DEF Upgrade
<1>19. ASSUME NEW m \in Models, Download(m) PROVE FetchInv'
  BY <1>19 DEF Download
<1>20. QED
  BY <1>1, <1>2, <1>3, <1>4, <1>5, <1>6, <1>7, <1>8, <1>9, <1>10, <1>11,
     <1>12, <1>13, <1>14, <1>15, <1>16, <1>17, <1>18, <1>19 DEF Next,
     CallNext, FetchNext, RuntimeNext, DeleteNext, EnvNext

\* Nobody but a deletion takes the model away from under the call.
LEMMA ModelStep ==
    ASSUME TypeOK, FetchInv, ModelInv, Next
    PROVE  ModelInv'
<1> USE ZipIsNoModel DEF FetchInv, ModelInv, PastModel, TypeOK, FetchPCs, Fetched, Files,
           Complete, store, runtime, call, engine, history, Goto
<1>1. CASE CheckPresent
  BY <1>1 DEF CheckPresent
<1>2. CASE CheckAbsent \/ DiscardPartial
  BY <1>2 DEF CheckAbsent, DiscardPartial
<1>3. CASE Request \/ Refused
  BY <1>3 DEF Request, Refused
<1>4. CASE WriteChunk \/ EndOfBody
  BY <1>4 DEF WriteChunk, EndOfBody
<1>5. CASE Verify
  BY <1>5 DEF Verify
<1>6. CASE Rename
  BY <1>6 DEF Rename
<1>7. CASE RuntimePresent
  BY <1>7 DEF RuntimePresent
<1>8. CASE RuntimeMissing
  BY <1>8 DEF RuntimeMissing
<1>9. ASSUME NEW m \in Members, Extract(m) PROVE ModelInv'
  BY <1>9 DEF Extract
<1>10. CASE Chmod
  BY <1>10 DEF Chmod
<1>11. CASE Cleanup
  BY <1>11 DEF Cleanup
<1>12. CASE Configure \/ Persist
  BY <1>12 DEF Configure, Persist
<1>13. CASE Delete \/ ClearConfig
  BY <1>13 DEF Delete, ClearConfig
<1>14. CASE DeleteModels
  BY <1>14 DEF DeleteModels
<1>15. CASE DeleteRuntime
  BY <1>15 DEF DeleteRuntime
<1>16. CASE Fail
  BY <1>16 DEF Fail, CutOff
<1>17. CASE Crash
  BY <1>17 DEF Crash, CutOff
<1>18. ASSUME NEW S \in SUBSET Files, Upgrade(S) PROVE ModelInv'
  BY <1>18 DEF Upgrade
<1>19. ASSUME NEW m \in Models, Download(m) PROVE ModelInv'
  BY <1>19 DEF Download
<1>20. QED
  BY <1>1, <1>2, <1>3, <1>4, <1>5, <1>6, <1>7, <1>8, <1>9, <1>10, <1>11,
     <1>12, <1>13, <1>14, <1>15, <1>16, <1>17, <1>18, <1>19 DEF Next,
     CallNext, FetchNext, RuntimeNext, DeleteNext, EnvNext

\* The extraction puts every member in its place.
LEMMA ExtractStep ==
    ASSUME TypeOK, ModelInv, ExtractInv, Next
    PROVE  ExtractInv'
<1> USE ZipIsNoModel, ServerIsNoLib
        DEF ExtractInv, ModelInv, TypeOK, FetchPCs, Fetched, Files, Members,
            RuntimeReady, store, runtime, call, engine, history, Goto
<1>1. CASE CheckPresent
  BY <1>1 DEF CheckPresent
<1>2. CASE CheckAbsent \/ DiscardPartial
  BY <1>2 DEF CheckAbsent, DiscardPartial
<1>3. CASE Request \/ Refused
  BY <1>3 DEF Request, Refused
<1>4. CASE WriteChunk \/ EndOfBody
  BY <1>4 DEF WriteChunk, EndOfBody
<1>5. CASE Verify
  BY <1>5 DEF Verify
<1>6. CASE Rename
  BY <1>6 DEF Rename
<1>7. CASE RuntimePresent
  BY <1>7 DEF RuntimePresent
<1>8. CASE RuntimeMissing
  BY <1>8 DEF RuntimeMissing
<1>9. ASSUME NEW m \in Members, Extract(m) PROVE ExtractInv'
  BY <1>9 DEF Extract
<1>10. CASE Chmod
  BY <1>10 DEF Chmod
<1>11. CASE Cleanup
  BY <1>11 DEF Cleanup
<1>12. CASE Configure \/ Persist
  BY <1>12 DEF Configure, Persist
<1>13. CASE Delete \/ ClearConfig
  BY <1>13 DEF Delete, ClearConfig
<1>14. CASE DeleteModels
  BY <1>14 DEF DeleteModels
<1>15. CASE DeleteRuntime
  BY <1>15 DEF DeleteRuntime
<1>16. CASE Fail
  BY <1>16 DEF Fail, CutOff
<1>17. CASE Crash
  BY <1>17 DEF Crash, CutOff
<1>18. ASSUME NEW S \in SUBSET Files, Upgrade(S) PROVE ExtractInv'
  BY <1>18 DEF Upgrade
<1>19. ASSUME NEW m \in Models, Download(m) PROVE ExtractInv'
  BY <1>19 DEF Download
<1>20. QED
  BY <1>1, <1>2, <1>3, <1>4, <1>5, <1>6, <1>7, <1>8, <1>9, <1>10, <1>11,
     <1>12, <1>13, <1>14, <1>15, <1>16, <1>17, <1>18, <1>19 DEF Next,
     CallNext, FetchNext, RuntimeNext, DeleteNext, EnvNext

\* What the call returns with is usable.
LEMMA CleanupStep ==
    ASSUME TypeOK, ExtractInv, CleanupInv, ReadyIsUsable, Next
    PROVE  CleanupInv'
<1> USE DEF ExtractInv, CleanupInv, ReadyIsUsable, TypeOK, FetchPCs, Fetched,
            Usable, RuntimeReady, store, runtime, call, engine, history, Goto
<1>1. CASE CheckPresent
  BY <1>1 DEF CheckPresent
<1>2. CASE CheckAbsent \/ DiscardPartial
  BY <1>2 DEF CheckAbsent, DiscardPartial
<1>3. CASE Request \/ Refused
  BY <1>3 DEF Request, Refused
<1>4. CASE WriteChunk \/ EndOfBody
  BY <1>4 DEF WriteChunk, EndOfBody
<1>5. CASE Verify
  BY <1>5 DEF Verify
<1>6. CASE Rename
  BY <1>6 DEF Rename
<1>7. CASE RuntimePresent
  BY <1>7 DEF RuntimePresent
<1>8. CASE RuntimeMissing
  BY <1>8 DEF RuntimeMissing
<1>9. ASSUME NEW m \in Members, Extract(m) PROVE CleanupInv'
  BY <1>9 DEF Extract
<1>10. CASE Chmod
  BY <1>10 DEF Chmod
<1>11. CASE Cleanup
  BY <1>11 DEF Cleanup
<1>12. CASE Configure \/ Persist
  BY <1>12 DEF Configure, Persist
<1>13. CASE Delete \/ ClearConfig
  BY <1>13 DEF Delete, ClearConfig
<1>14. CASE DeleteModels
  BY <1>14 DEF DeleteModels
<1>15. CASE DeleteRuntime
  BY <1>15 DEF DeleteRuntime
<1>16. CASE Fail
  BY <1>16 DEF Fail, CutOff
<1>17. CASE Crash
  BY <1>17 DEF Crash, CutOff
<1>18. ASSUME NEW S \in SUBSET Files, Upgrade(S) PROVE CleanupInv'
  BY <1>18 DEF Upgrade
<1>19. ASSUME NEW m \in Models, Download(m) PROVE CleanupInv'
  BY <1>19 DEF Download
<1>20. QED
  BY <1>1, <1>2, <1>3, <1>4, <1>5, <1>6, <1>7, <1>8, <1>9, <1>10, <1>11,
     <1>12, <1>13, <1>14, <1>15, <1>16, <1>17, <1>18, <1>19 DEF Next,
     CallNext, FetchNext, RuntimeNext, DeleteNext, EnvNext

\* A runtime that was not cut off is ready only when it is usable.
LEMMA ReadyStep ==
    ASSUME TypeOK, ExtractInv, CleanupInv, ReadyIsUsable, Next
    PROVE  ReadyIsUsable'
<1> USE DEF ExtractInv, CleanupInv, ReadyIsUsable, TypeOK, FetchPCs, Fetched,
            Usable, RuntimeReady, store, runtime, call, engine, history, Goto
<1>1. CASE CheckPresent
  BY <1>1 DEF CheckPresent
<1>2. CASE CheckAbsent \/ DiscardPartial
  BY <1>2 DEF CheckAbsent, DiscardPartial
<1>3. CASE Request \/ Refused
  BY <1>3 DEF Request, Refused
<1>4. CASE WriteChunk \/ EndOfBody
  BY <1>4 DEF WriteChunk, EndOfBody
<1>5. CASE Verify
  BY <1>5 DEF Verify
<1>6. CASE Rename
  BY <1>6 DEF Rename
<1>7. CASE RuntimePresent
  BY <1>7 DEF RuntimePresent
<1>8. CASE RuntimeMissing
  BY <1>8 DEF RuntimeMissing
<1>9. ASSUME NEW m \in Members, Extract(m) PROVE ReadyIsUsable'
  BY <1>9 DEF Extract
<1>10. CASE Chmod
  BY <1>10 DEF Chmod
<1>11. CASE Cleanup
  BY <1>11 DEF Cleanup
<1>12. CASE Configure \/ Persist
  BY <1>12 DEF Configure, Persist
<1>13. CASE Delete \/ ClearConfig
  BY <1>13 DEF Delete, ClearConfig
<1>14. CASE DeleteModels
  BY <1>14 DEF DeleteModels
<1>15. CASE DeleteRuntime
  BY <1>15 DEF DeleteRuntime
<1>16. CASE Fail
  BY <1>16 DEF Fail, CutOff
<1>17. CASE Crash
  BY <1>17 DEF Crash, CutOff
<1>18. ASSUME NEW S \in SUBSET Files, Upgrade(S) PROVE ReadyIsUsable'
  BY <1>18 DEF Upgrade
<1>19. ASSUME NEW m \in Models, Download(m) PROVE ReadyIsUsable'
  BY <1>19 DEF Download
<1>20. QED
  BY <1>1, <1>2, <1>3, <1>4, <1>5, <1>6, <1>7, <1>8, <1>9, <1>10, <1>11,
     <1>12, <1>13, <1>14, <1>15, <1>16, <1>17, <1>18, <1>19 DEF Next,
     CallNext, FetchNext, RuntimeNext, DeleteNext, EnvNext

-------------------------------------------------------------------------------

\* IInv is inductive.
LEMMA Inductive == IInv /\ [Next]_vars => IInv'
<1> SUFFICES ASSUME IInv, [Next]_vars PROVE IInv'
  OBVIOUS
<1>1. CASE Next
  <2>1. TypeOK'
    BY <1>1, TypeStep DEF IInv
  <2>2. FetchInv'
    BY <1>1, FetchStep DEF IInv
  <2>3. ModelInv'
    BY <1>1, ModelStep DEF IInv
  <2>4. ExtractInv'
    BY <1>1, ExtractStep DEF IInv
  <2>5. CleanupInv' /\ ReadyIsUsable'
    BY <1>1, CleanupStep, ReadyStep DEF IInv
  <2>6. QED
    BY <2>1, <2>2, <2>3, <2>4, <2>5 DEF IInv
<1>2. CASE UNCHANGED vars
  <2> USE <1>2 DEF IInv, vars
  <2>1. TypeOK'
    BY DEF TypeOK, Files, Members
  <2>2. FetchInv' /\ ModelInv'
    BY DEF FetchInv, ModelInv, PastModel, Complete, Files
  <2>3. ExtractInv' /\ CleanupInv' /\ ReadyIsUsable'
    BY DEF ExtractInv, CleanupInv, ReadyIsUsable, RuntimeReady, Usable
  <2>4. QED
    BY <2>1, <2>2, <2>3
<1>3. QED
  BY <1>1, <1>2

\* In every behaviour.
LEMMA Invariant == Spec => []IInv
<1>1. Init => IInv
  BY InitIInv
<1>2. IInv /\ [Next]_vars => IInv'
  BY Inductive
<1>3. QED
  BY <1>1, <1>2, PTL DEF Spec

\* LlamaServerRuntimeReady accepts no runtime but a usable one or one that
\* an extraction was cut off in.
THEOREM ReadyRuntimes == Spec => []ReadyIsUsable
<1>1. IInv => ReadyIsUsable
  BY DEF IInv
<1>2. QED
  BY <1>1, Invariant, PTL

\* DownloadVLMModel configures the manager with what it has installed.
THEOREM ConfiguredModels == Spec => []ConfiguredIsInstalled
<1>1. IInv => ConfiguredIsInstalled
  BY DEF IInv, ModelInv, PastModel, CleanupInv, ConfiguredIsInstalled
<1>2. QED
  BY <1>1, Invariant, PTL

-------------------------------------------------------------------------------

\* What happens to the final names is what ModelStore allows.
LEMMA StoreStep == ASSUME IInv, Next PROVE Store!Next \/ UNCHANGED dest
<1> USE DEF IInv, TypeOK, FetchInv, FetchPCs, store, Store!Next
<1>1. CASE CheckPresent
  <2>1. CASE UNCHANGED dest
    BY <2>1
  <2>2. CASE dest' = [dest EXCEPT ![item] = "absent"]
    <3>1. Store!Remove({item})
      BY <2>2 DEF Store!Remove
    <3>2. QED
      BY <3>1
  <2>3. QED
    BY <1>1, <2>1, <2>2 DEF CheckPresent
<1>2. CASE CheckAbsent \/ DiscardPartial \/ Request \/ Refused \/ WriteChunk
           \/ EndOfBody \/ Verify
  BY <1>2 DEF CheckAbsent, DiscardPartial, Request, Refused, WriteChunk, EndOfBody,
              Verify
<1>3. CASE Rename
  <2>1. Store!Install(item)
    BY <1>3 DEF Rename, Store!Install
  <2>2. QED
    BY <2>1
<1>4. CASE RuntimePresent \/ RuntimeMissing \/ (\E m \in Members : Extract(m)) \/ Chmod
  BY <1>4 DEF RuntimePresent, RuntimeMissing, Extract, Chmod
<1>5. CASE Cleanup
  <2>1. CASE dest' = [dest EXCEPT ![Zip] = "absent"]
    <3>1. Store!Remove({Zip})
      BY <2>1 DEF Store!Remove, Files
    <3>2. QED
      BY <3>1 DEF Files
  <2>2. QED
    BY <1>5, <2>1 DEF Cleanup
<1>6. CASE Configure \/ Persist \/ Delete \/ DeleteRuntime \/ ClearConfig \/ Fail \/ Crash
  BY <1>6 DEF Configure, Persist, Delete, DeleteRuntime, ClearConfig, Fail, Crash
<1>7. CASE DeleteModels
  <2>1. Store!Remove(Models)
    BY <1>7 DEF DeleteModels, Store!Remove
  <2>2. QED
    BY <2>1 DEF Files
<1>8. ASSUME NEW S \in SUBSET Files, Upgrade(S) PROVE Store!Next \/ UNCHANGED dest
  <2>1. Store!Age(S)
    BY <1>8 DEF Upgrade, Store!Age
  <2>2. QED
    BY <2>1
<1>9. ASSUME NEW m \in Models, Download(m) PROVE Store!Next \/ UNCHANGED dest
  BY <1>9 DEF Download
<1>10. QED
  BY <1>1, <1>2, <1>3, <1>4, <1>5, <1>6, <1>7, <1>8, <1>9
     DEF Next, CallNext, FetchNext, RuntimeNext, DeleteNext, EnvNext

\* The provisioner implements the store: no failure, crash, upgrade or
\* deletion ever leaves a torn file under a final name.
THEOREM AtomicInstallation == Spec => InstallsAtomically
<1>1. Init => Store!Init
  BY DEF Init, Store!Init
<1>2. IInv /\ [Next]_vars => [Store!Next]_dest
  BY StoreStep DEF vars
<1>3. QED
  BY <1>1, <1>2, Invariant, PTL DEF Spec, InstallsAtomically, Store!Spec
-------------------------------------------------------------------------------
(* The self-updater, for every number of checks and downloads at a time,   *)
(* every mode and either kind of install.  UpdaterInv adds to its          *)
(* invariants what a step needs to know of the past: a check that          *)
(* announces a release has stored it, and whoever says ready (a goroutine  *)
(* about to, or the toast) has an installed update behind it.              *)

\* A check that is about to announce a release has remembered it.
AnnouncedIsKnown == \A t \in Threads : pc[t] = "announce" => release

\* Nobody says ready before a binary has been replaced.
ReadyIsInstalled ==
    /\ toast = "ready" => installed
    /\ \A t \in Threads : pc[t] = "applied" => installed

UpdaterInv ==
    /\ UpdaterTypeOK
    /\ TransientStatesOwned
    /\ UpdatesOnlyWhenAllowed
    /\ AnnouncedIsKnown
    /\ ReadyIsInstalled

-------------------------------------------------------------------------------

\* The updater starts idle, with nothing to download and nobody at work.
LEMMA InitUpdater == UpdaterInit => UpdaterInv
<1> SUFFICES ASSUME UpdaterInit PROVE UpdaterInv
  OBVIOUS
<1> USE DEF UpdaterInit, Threads
<1>1. UpdaterTypeOK
  BY DEF UpdaterTypeOK, States, Toasts, UpdaterPCs, CheckPCs, DownloadPCs
<1>2. TransientStatesOwned
  BY DEF TransientStatesOwned
<1>3. UpdatesOnlyWhenAllowed
  BY DEF UpdatesOnlyWhenAllowed, DownloadPCs
<1>4. AnnouncedIsKnown /\ ReadyIsInstalled
  BY DEF AnnouncedIsKnown, ReadyIsInstalled
<1>5. QED
  BY <1>1, <1>2, <1>3, <1>4 DEF UpdaterInv

\* A step keeps every variable in its type.
LEMMA UpdaterTypeStep == ASSUME UpdaterTypeOK, UpdaterNext PROVE UpdaterTypeOK'
<1> USE DEF UpdaterTypeOK, States, Toasts, UpdaterPCs, CheckPCs, DownloadPCs, config, ui,
            MoveTo, Return, Spawn, Show, Threads
<1>1. ASSUME NEW t \in Threads, CheckNext(t) PROVE UpdaterTypeOK'
  <2>1. CASE CheckBegins(t)
    <3>1. CASE CanTransitionTo(state, "checking")
      BY <2>1, <3>1 DEF CheckBegins
    <3>2. CASE ~CanTransitionTo(state, "checking")
      BY <2>1, <3>2 DEF CheckBegins
    <3> QED
      BY <3>1, <3>2
  <2>2. CASE NothingNewer(t)
    BY <2>2 DEF NothingNewer
  <2>3. CASE FoundNewer(t)
    BY <2>3 DEF FoundNewer
  <2>4. CASE Announce(t)
    BY <2>4 DEF Announce
  <2>5. CASE CheckEnds(t)
    BY <2>5 DEF CheckEnds
  <2>6. QED
    BY <1>1, <2>1, <2>2, <2>3, <2>4, <2>5 DEF CheckNext
<1>2. ASSUME NEW t \in Threads, DownloadNext(t) PROVE UpdaterTypeOK'
  <2>1. CASE DownloadBegins(t)
    BY <2>1 DEF DownloadBegins
  <2>2. CASE ReportDownloading(t)
    BY <2>2 DEF ReportDownloading
  <2>3. CASE UpdateApplied(t)
    BY <2>3 DEF UpdateApplied
  <2>4. CASE ReportReady(t)
    BY <2>4 DEF ReportReady
  <2>5. QED
    BY <1>2, <2>1, <2>2, <2>3, <2>4 DEF DownloadNext
<1>3. ASSUME NEW t \in Threads, ErrorNext(t) PROVE UpdaterTypeOK'
  <2>1. CASE HandleError(t)
    BY <2>1 DEF HandleError
  <2>2. CASE ReportError(t)
    BY <2>2 DEF ReportError
  <2>3. QED
    BY <1>3, <2>1, <2>2 DEF ErrorNext
<1>4. CASE LoopTick
  BY <1>4 DEF LoopTick
<1>5. ASSUME NEW w \in Workers, CheckNow(w) PROVE UpdaterTypeOK'
  BY <1>5 DEF CheckNow
<1>6. ASSUME NEW w \in Workers, DownloadUpdate(w) PROVE UpdaterTypeOK'
  BY <1>6 DEF DownloadUpdate
<1>7. CASE CooldownEnds
  <2>1. /\ cooling' = FALSE
        /\ UNCHANGED <<mode, isHomebrew, state, release, pc, job, installed,
                       running, toast, subscribed>>
    BY <1>7 DEF CooldownEnds
  <2> HIDE DEF States, Toasts, UpdaterPCs
  <2>2. QED
    BY <2>1
<1>8. CASE RestartForUpdate
  BY <1>8 DEF RestartForUpdate
<1>9. CASE AboutEventsOff
  <2>1. /\ subscribed' = FALSE
        /\ UNCHANGED <<mode, isHomebrew, state, release, cooling, pc, job,
                       installed, running, toast>>
    BY <1>9 DEF AboutEventsOff
  <2> HIDE DEF States, Toasts, UpdaterPCs
  <2>2. QED
    BY <2>1
<1>10. QED
  BY <1>1, <1>2, <1>3, <1>4, <1>5, <1>6, <1>7, <1>8, <1>9
     DEF UpdaterNext, ThreadNext

\* The step of a goroutine keeps the transient states owned: it leaves its
\* work only by writing the next state, or by being refused at the entry of
\* download in a state that is not checking.
LEMMA OwnedStep ==
    ASSUME UpdaterTypeOK, TransientStatesOwned, UpdaterNext PROVE TransientStatesOwned'
<1> USE DEF UpdaterTypeOK, TransientStatesOwned, Querying, Updating, config, ui,
            MoveTo, Return, Spawn, Show, CanTransitionTo
<1>1. ASSUME NEW t \in Threads, CheckNext(t) PROVE TransientStatesOwned'
  <2>1. CASE CheckBegins(t)
    BY <2>1 DEF CheckBegins, CanTransitionTo
  <2>2. CASE NothingNewer(t)
    BY <2>2 DEF NothingNewer
  <2>3. CASE FoundNewer(t)
    BY <2>3 DEF FoundNewer
  <2>4. CASE Announce(t)
    BY <2>4 DEF Announce
  <2>5. CASE CheckEnds(t)
    BY <2>5 DEF CheckEnds
  <2>6. QED
    BY <1>1, <2>1, <2>2, <2>3, <2>4, <2>5 DEF CheckNext
<1>2. ASSUME NEW t \in Threads, DownloadNext(t) PROVE TransientStatesOwned'
  <2>1. CASE DownloadBegins(t)
    BY <2>1 DEF DownloadBegins
  <2>2. CASE ReportDownloading(t)
    BY <2>2 DEF ReportDownloading
  <2>3. CASE UpdateApplied(t)
    BY <2>3 DEF UpdateApplied
  <2>4. CASE ReportReady(t)
    BY <2>4 DEF ReportReady
  <2>5. QED
    BY <1>2, <2>1, <2>2, <2>3, <2>4 DEF DownloadNext
<1>3. ASSUME NEW t \in Threads, ErrorNext(t) PROVE TransientStatesOwned'
  <2>1. CASE HandleError(t)
    BY <2>1 DEF HandleError
  <2>2. CASE ReportError(t)
    BY <2>2 DEF ReportError
  <2>3. QED
    BY <1>3, <2>1, <2>2 DEF ErrorNext
<1>4. CASE LoopTick
  BY <1>4 DEF LoopTick, Threads
<1>5. ASSUME NEW w \in Workers, CheckNow(w) PROVE TransientStatesOwned'
  BY <1>5 DEF CheckNow, Threads
<1>6. ASSUME NEW w \in Workers, DownloadUpdate(w) PROVE TransientStatesOwned'
  BY <1>6 DEF DownloadUpdate, Threads
<1>7. CASE CooldownEnds
  BY <1>7 DEF CooldownEnds
<1>8. CASE RestartForUpdate
  BY <1>8 DEF RestartForUpdate
<1>9. CASE AboutEventsOff
  BY <1>9 DEF AboutEventsOff
<1>10. QED
  BY <1>1, <1>2, <1>3, <1>4, <1>5, <1>6, <1>7, <1>8, <1>9
     DEF UpdaterNext, ThreadNext

\* What the invariants about permission and about readiness share: they only
\* speak of where a goroutine is and of variables that never go back.
History == AnnouncedIsKnown /\ UpdatesOnlyWhenAllowed /\ ReadyIsInstalled

\* A step keeps what goroutines have been allowed to do and what they have
\* done: a release once known stays known, an update once installed stays.
LEMMA HistoryStep == ASSUME UpdaterTypeOK, History, UpdaterNext PROVE History'
<1> USE DEF UpdaterTypeOK, History, AnnouncedIsKnown, UpdatesOnlyWhenAllowed,
            ReadyIsInstalled, DownloadPCs, config, ui, MoveTo, Return, Spawn,
            Show
<1>1. ASSUME NEW t \in Threads, CheckNext(t) PROVE History'
  <2>1. CASE CheckBegins(t)
    BY <2>1 DEF CheckBegins, CanTransitionTo
  <2>2. CASE NothingNewer(t)
    BY <2>2 DEF NothingNewer
  <2>3. CASE FoundNewer(t)
    BY <2>3 DEF FoundNewer
  <2>4. CASE Announce(t)
    BY <2>4 DEF Announce
  <2>5. CASE CheckEnds(t)
    BY <2>5 DEF CheckEnds
  <2>6. QED
    BY <1>1, <2>1, <2>2, <2>3, <2>4, <2>5 DEF CheckNext
<1>2. ASSUME NEW t \in Threads, DownloadNext(t) PROVE History'
  <2>1. CASE DownloadBegins(t)
    BY <2>1 DEF DownloadBegins
  <2>2. CASE ReportDownloading(t)
    BY <2>2 DEF ReportDownloading
  <2>3. CASE UpdateApplied(t)
    BY <2>3 DEF UpdateApplied
  <2>4. CASE ReportReady(t)
    BY <2>4 DEF ReportReady
  <2>5. QED
    BY <1>2, <2>1, <2>2, <2>3, <2>4 DEF DownloadNext
<1>3. ASSUME NEW t \in Threads, ErrorNext(t) PROVE History'
  <2>1. CASE HandleError(t)
    BY <2>1 DEF HandleError
  <2>2. CASE ReportError(t)
    BY <2>2 DEF ReportError
  <2>3. QED
    BY <1>3, <2>1, <2>2 DEF ErrorNext
<1>4. CASE LoopTick
  BY <1>4 DEF LoopTick, Threads
<1>5. ASSUME NEW w \in Workers, CheckNow(w) PROVE History'
  BY <1>5 DEF CheckNow, Threads
<1>6. ASSUME NEW w \in Workers, DownloadUpdate(w) PROVE History'
  BY <1>6 DEF DownloadUpdate, Threads
<1>7. CASE CooldownEnds
  BY <1>7 DEF CooldownEnds
<1>8. CASE RestartForUpdate
  BY <1>8 DEF RestartForUpdate
<1>9. CASE AboutEventsOff
  BY <1>9 DEF AboutEventsOff
<1>10. QED
  BY <1>1, <1>2, <1>3, <1>4, <1>5, <1>6, <1>7, <1>8, <1>9
     DEF UpdaterNext, ThreadNext

\* UpdaterInv is inductive.
LEMMA NextUpdater == UpdaterInv /\ [UpdaterNext]_updaterVars => UpdaterInv'
<1>1. ASSUME UpdaterInv, UpdaterNext PROVE UpdaterInv'
  BY <1>1, UpdaterTypeStep, OwnedStep, HistoryStep DEF UpdaterInv, History
<1>2. ASSUME UpdaterInv, UNCHANGED updaterVars PROVE UpdaterInv'
  BY <1>2 DEF updaterVars, UpdaterInv, UpdaterTypeOK, TransientStatesOwned, Querying, Updating,
              UpdatesOnlyWhenAllowed, AnnouncedIsKnown, ReadyIsInstalled
<1>3. QED
  BY <1>1, <1>2

\* UpdaterInv always holds.
LEMMA AlwaysUpdater == UpdaterSpec => []UpdaterInv
<1>1. QED
  BY InitUpdater, NextUpdater, PTL DEF UpdaterSpec

-------------------------------------------------------------------------------

\* Every variable keeps its type, whatever the goroutines do.
THEOREM UpdaterTypes == UpdaterSpec => []UpdaterTypeOK
<1>1. UpdaterInv => UpdaterTypeOK
  BY DEF UpdaterInv
<1>2. QED
  BY <1>1, AlwaysUpdater, PTL

\* The updater is never left checking or downloading by nobody: updates
\* cannot be blocked for good by a check and a download that cross.
THEOREM UpdaterNeverStranded == UpdaterSpec => []TransientStatesOwned
<1>1. UpdaterInv => TransientStatesOwned
  BY DEF UpdaterInv
<1>2. QED
  BY <1>1, AlwaysUpdater, PTL

\* A Homebrew install is never overwritten, a user who wants to be asked is
\* asked, and no download lacks its release.
THEOREM UpdatesAreAllowed == UpdaterSpec => []UpdatesOnlyWhenAllowed
<1>1. UpdaterInv => UpdatesOnlyWhenAllowed
  BY DEF UpdaterInv
<1>2. QED
  BY <1>1, AlwaysUpdater, PTL

\* The application restarts only after the binary has been replaced.
THEOREM RestartsAfterUpdate == UpdaterSpec => RestartsIntoUpdate
<1>1. UpdaterInv /\ [UpdaterNext]_updaterVars => [running' # running => installed]_updaterVars
  <2> SUFFICES ASSUME UpdaterInv, UpdaterNext, running' # running PROVE installed
    BY DEF updaterVars
  <2>1. RestartForUpdate
    BY DEF UpdaterNext, ThreadNext, CheckNext, CheckBegins, NothingNewer, FoundNewer,
           Announce, CheckEnds, DownloadNext, DownloadBegins,
           ReportDownloading, UpdateApplied, ReportReady, ErrorNext,
           HandleError, ReportError, LoopTick, CheckNow, DownloadUpdate,
           CooldownEnds, AboutEventsOff
  <2>2. QED
    BY <2>1 DEF RestartForUpdate, UpdaterInv, ReadyIsInstalled
<1>2. QED
  BY <1>1, AlwaysUpdater, PTL DEF UpdaterSpec, RestartsIntoUpdate
-------------------------------------------------------------------------------
(* The scoring engine, for any number of plugins and of calls at once.      *)
(* EngineInv says what a call has made sure of where it stands.             *)

\* Only a file with the right hash is about to be renamed; so no model under
\* its final name is torn.
ModelsAreVerified ==
    /\ \A p \in Plugins : modelFile[p] # "torn"
    /\ \A s \in Setups :
         /\ phase[s] \in {"verify", "rename"} => fetched[s].plugin \in Plugins
         /\ phase[s] = "rename" => fetched[s].right

\* A chunk that is not in the library has a writer who has still to come to it.
HolesHaveWriters ==
    libThere /\ ~cut =>
        \A k \in LibChunks \ libData :
            \E s \in Setups : phase[s] = "extract" /\ k \notin wrote[s]

\* A call in InitAll, or successful, has seen every model in place; a detector
\* still closed is one its InitAll has to come to.
InitFollowsModels ==
    \A s \in Setups :
        phase[s] \in {"init", "ok"} =>
            /\ \A p \in Plugins : modelFile[p] # "absent"
            /\ \A p \in Detectors :
                 session[p] = "closed" => phase[s] = "init" /\ p \in toDo[s]

EngineInv ==
    /\ EngineTypeOK
    /\ ModelsAreVerified
    /\ HolesHaveWriters
    /\ InitFollowsModels

-------------------------------------------------------------------------------

LEMMA StartupIsNoSetup == Startup \notin Setups
BY DEF Setups

LEMMA DetectorsArePlugins == Detectors \subseteq Plugins
BY DEF Plugins

\* A new installation.
LEMMA InitEngine == EngineInit => EngineInv
<1> SUFFICES ASSUME EngineInit PROVE EngineInv
  OBVIOUS
<1> USE DEF EngineInit, Callers, NoFile
<1>1. EngineTypeOK
  <2>1. wrote \in [Setups -> SUBSET LibChunks]
    OBVIOUS
  <2>2. phase \in [Callers -> Ended \cup Working]
    BY DEF Ended, Working
  <2>3. QED
    BY <2>1, <2>2 DEF EngineTypeOK, SessionStates
<1>2. ModelsAreVerified /\ HolesHaveWriters /\ InitFollowsModels
  BY DEF ModelsAreVerified, HolesHaveWriters, InitFollowsModels
<1>3. QED
  BY <1>1, <1>2 DEF EngineInv

\* A step keeps every variable in its type.
LEMMA EngineTypeStep == ASSUME EngineTypeOK, EngineNext PROVE EngineTypeOK'
<1> USE DetectorsArePlugins
    DEF EngineTypeOK, SessionStates, Ended, Working, Callers, disk, Goes
<1>1. ASSUME NEW s \in Setups, LibNext(s) PROVE EngineTypeOK'
  <2>1. CASE AlreadyProvisioned(s)
    BY <2>1 DEF AlreadyProvisioned, BeginModels
  <2>2. CASE NotProvisioned(s)
    BY <2>2 DEF NotProvisioned
  <2>3. CASE OpenLib(s)
    BY <2>3 DEF OpenLib
  <2>4. CASE WriteLib(s)
    BY <2>4 DEF WriteLib
  <2>5. CASE LibExtracted(s)
    BY <2>5 DEF LibExtracted, BeginModels
  <2>6. QED
    BY <1>1, <2>1, <2>2, <2>3, <2>4, <2>5 DEF LibNext
<1>2. ASSUME NEW s \in Setups, ModelNext(s) PROVE EngineTypeOK'
  <2>1. ASSUME NEW p \in Plugins, SkipModel(s, p) PROVE EngineTypeOK'
    BY <2>1 DEF SkipModel
  <2>2. ASSUME NEW p \in Plugins, GetModel(s, p) PROVE EngineTypeOK'
    BY <2>2 DEF GetModel
  <2>3. CASE VerifyModel(s)
    BY <2>3 DEF VerifyModel
  <2>4. CASE RenameModel(s)
    BY <2>4 DEF RenameModel
  <2>5. CASE CheckModels(s)
    <3>1. toDo' \in [Callers -> SUBSET Plugins]
      BY <2>5 DEF CheckModels
    <3>2. phase' \in [Callers -> Ended \cup Working]
      BY <2>5 DEF CheckModels
    <3>3. QED
      BY <2>5, <3>1, <3>2 DEF CheckModels
  <2>6. QED
    BY <1>2, <2>1, <2>2, <2>3, <2>4, <2>5 DEF ModelNext
<1>3. ASSUME NEW c \in Callers, InitNext(c) PROVE EngineTypeOK'
  <2> USE DEF InitDone, InitRefused
  <2>1. ASSUME NEW p \in Plugins, InitAgain(c, p) PROVE EngineTypeOK'
    BY <2>1 DEF InitAgain
  <2>2. ASSUME NEW p \in Plugins, InitPlugin(c, p) PROVE EngineTypeOK'
    BY <2>2 DEF InitPlugin
  <2>3. ASSUME NEW p \in Plugins, LoadFails(c, p) PROVE EngineTypeOK'
    BY <2>3 DEF LoadFails
  <2>4. ASSUME NEW p \in Plugins, RuntimeFails(c, p) PROVE EngineTypeOK'
    BY <2>4 DEF RuntimeFails
  <2>5. CASE InitEnds(c)
    BY <2>5 DEF InitEnds
  <2>6. QED
    BY <1>3, <2>1, <2>2, <2>3, <2>4, <2>5 DEF InitNext
<1>4. ASSUME NEW s \in Setups, DownloadAIModels(s) PROVE EngineTypeOK'
  BY <1>4 DEF DownloadAIModels
<1>5. ASSUME NEW s \in Setups, SetupFails(s) PROVE EngineTypeOK'
  BY <1>5 DEF SetupFails, Cutting
<1>6. CASE Restart
  BY <1>6 DEF Restart, Booted, NoFile, Cutting
<1>7. ASSUME NEW p \in Plugins, PlaceModel(p) PROVE EngineTypeOK'
  BY <1>7 DEF PlaceModel
<1>8. QED
  BY <1>1, <1>2, <1>3, <1>4, <1>5, <1>6, <1>7 DEF EngineNext, SetupNext

\* What a step of InitAll may touch: engines and lists of plugins.
LEMMA InitNextFrame ==
    ASSUME EngineTypeOK, NEW c \in Callers, InitNext(c)
    PROVE  /\ UNCHANGED <<libThere, libData, modelFile, wrote, fetched, cut>>
           /\ phase[c] = "init"
           /\ phase' \in {phase, [phase EXCEPT ![c] = "failed"], [phase EXCEPT ![c] = "ok"]}
BY DEF InitNext, InitAgain, InitPlugin, LoadFails, RuntimeFails, InitEnds, InitDone,
       InitRefused, Goes, disk

\* Only what VerifyModel has let through is renamed.
LEMMA VerifiedStep ==
    ASSUME EngineTypeOK, ModelsAreVerified, EngineNext PROVE ModelsAreVerified'
<1> USE DEF EngineTypeOK, ModelsAreVerified, Callers, disk, Goes
<1>1. ASSUME NEW s \in Setups, LibNext(s) PROVE ModelsAreVerified'
  BY <1>1 DEF LibNext, AlreadyProvisioned, NotProvisioned, OpenLib, WriteLib,
              LibExtracted, BeginModels
<1>2. ASSUME NEW s \in Setups, ModelNext(s) PROVE ModelsAreVerified'
  <2>1. ASSUME NEW p \in Plugins, SkipModel(s, p) PROVE ModelsAreVerified'
    BY <2>1 DEF SkipModel
  <2>2. ASSUME NEW p \in Plugins, GetModel(s, p) PROVE ModelsAreVerified'
    BY <2>2 DEF GetModel
  <2>3. CASE VerifyModel(s)
    BY <2>3 DEF VerifyModel
  <2>4. CASE RenameModel(s)
    BY <2>4 DEF RenameModel
  <2>5. CASE CheckModels(s)
    BY <2>5 DEF CheckModels
  <2>6. QED
    BY <1>2, <2>1, <2>2, <2>3, <2>4, <2>5 DEF ModelNext
<1>3. ASSUME NEW c \in Callers, InitNext(c) PROVE ModelsAreVerified'
  BY <1>3, InitNextFrame
<1>4. ASSUME NEW s \in Setups, DownloadAIModels(s) PROVE ModelsAreVerified'
  BY <1>4 DEF DownloadAIModels
<1>5. ASSUME NEW s \in Setups, SetupFails(s) PROVE ModelsAreVerified'
  BY <1>5 DEF SetupFails
<1>6. CASE Restart
  BY <1>6, StartupIsNoSetup DEF Restart, Booted
<1>7. ASSUME NEW p \in Plugins, PlaceModel(p) PROVE ModelsAreVerified'
  BY <1>7 DEF PlaceModel
<1>8. QED
  BY <1>1, <1>2, <1>3, <1>4, <1>5, <1>6, <1>7 DEF EngineNext, SetupNext

\* A truncation makes holes with a writer; a writer leaves none behind it.
LEMMA HolesStep ==
    ASSUME EngineTypeOK, HolesHaveWriters, EngineNext PROVE HolesHaveWriters'
<1> USE DEF EngineTypeOK, HolesHaveWriters, Callers, disk, Goes
<1>1. ASSUME NEW s \in Setups, LibNext(s) PROVE HolesHaveWriters'
  <2>1. CASE AlreadyProvisioned(s) \/ NotProvisioned(s)
    BY <2>1 DEF AlreadyProvisioned, NotProvisioned, BeginModels
  <2>2. CASE OpenLib(s)
    BY <2>2 DEF OpenLib
  <2>3. CASE WriteLib(s)
    <3> SUFFICES ASSUME libThere', ~cut', NEW k \in LibChunks \ libData'
                 PROVE  \E t \in Setups : phase'[t] = "extract" /\ k \notin wrote'[t]
      OBVIOUS
    <3>1. PICK i \in LibChunks \ wrote[s] :
             libData' = libData \cup {i} /\ wrote' = [wrote EXCEPT ![s] = @ \cup {i}]
      BY <2>3 DEF WriteLib
    <3>2. k \in LibChunks \ libData /\ k # i /\ libThere /\ ~cut /\ phase' = phase
      BY <2>3, <3>1 DEF WriteLib
    <3>3. PICK t \in Setups : phase[t] = "extract" /\ k \notin wrote[t]
      BY <3>2
    <3>4. CASE t = s
      BY <3>1, <3>2, <3>3, <3>4
    <3>5. CASE t # s
      BY <3>1, <3>2, <3>3, <3>5
    <3>6. QED
      BY <3>4, <3>5
  <2>4. CASE LibExtracted(s)
    BY <2>4 DEF LibExtracted, BeginModels
  <2>5. QED
    BY <1>1, <2>1, <2>2, <2>3, <2>4 DEF LibNext
<1>2. ASSUME NEW s \in Setups, ModelNext(s) PROVE HolesHaveWriters'
  BY <1>2 DEF ModelNext, SkipModel, GetModel, VerifyModel, RenameModel, CheckModels
<1>3. ASSUME NEW c \in Callers, InitNext(c) PROVE HolesHaveWriters'
  BY <1>3, InitNextFrame
<1>4. ASSUME NEW s \in Setups, DownloadAIModels(s) PROVE HolesHaveWriters'
  BY <1>4 DEF DownloadAIModels, Ended
<1>5. ASSUME NEW s \in Setups, SetupFails(s) PROVE HolesHaveWriters'
  BY <1>5 DEF SetupFails, Cutting
<1>6. CASE Restart
  BY <1>6 DEF Restart, Booted, Cutting
<1>7. ASSUME NEW p \in Plugins, PlaceModel(p) PROVE HolesHaveWriters'
  BY <1>7 DEF PlaceModel
<1>8. QED
  BY <1>1, <1>2, <1>3, <1>4, <1>5, <1>6, <1>7 DEF EngineNext, SetupNext

\* Models stay; an engine closes only when the application ends, and InitAll
\* passes over a detector only if it is open.
LEMMA InitFollowsStep ==
    ASSUME EngineTypeOK, InitFollowsModels, EngineNext PROVE InitFollowsModels'
<1> USE DetectorsArePlugins, StartupIsNoSetup
    DEF EngineTypeOK, InitFollowsModels, Callers, disk, Goes
<1>1. ASSUME NEW s \in Setups, LibNext(s) PROVE InitFollowsModels'
  BY <1>1 DEF LibNext, AlreadyProvisioned, NotProvisioned, OpenLib, WriteLib,
              LibExtracted, BeginModels
<1>2. ASSUME NEW s \in Setups, ModelNext(s) PROVE InitFollowsModels'
  <2>1. ASSUME NEW p \in Plugins, SkipModel(s, p) PROVE InitFollowsModels'
    BY <2>1 DEF SkipModel
  <2>2. ASSUME NEW p \in Plugins, GetModel(s, p) PROVE InitFollowsModels'
    BY <2>2 DEF GetModel
  <2>3. CASE VerifyModel(s)
    BY <2>3 DEF VerifyModel
  <2>4. CASE RenameModel(s)
    BY <2>4 DEF RenameModel
  <2>5. CASE CheckModels(s)
    BY <2>5 DEF CheckModels, Downloaded
  <2>6. QED
    BY <1>2, <2>1, <2>2, <2>3, <2>4, <2>5 DEF ModelNext
<1>3. ASSUME NEW c \in Callers, InitNext(c) PROVE InitFollowsModels'
  <2> USE DEF InitDone, InitRefused
  <2>1. ASSUME NEW p \in Plugins, InitAgain(c, p) PROVE InitFollowsModels'
    BY <2>1 DEF InitAgain
  <2>2. ASSUME NEW p \in Plugins, InitPlugin(c, p) PROVE InitFollowsModels'
    BY <2>2 DEF InitPlugin
  <2>3. ASSUME NEW p \in Plugins, LoadFails(c, p) PROVE InitFollowsModels'
    BY <2>3 DEF LoadFails
  <2>4. ASSUME NEW p \in Plugins, RuntimeFails(c, p) PROVE InitFollowsModels'
    BY <2>4 DEF RuntimeFails
  <2>5. CASE InitEnds(c)
    BY <2>5 DEF InitEnds
  <2>6. QED
    BY <1>3, <2>1, <2>2, <2>3, <2>4, <2>5 DEF InitNext
<1>4. ASSUME NEW s \in Setups, DownloadAIModels(s) PROVE InitFollowsModels'
  BY <1>4 DEF DownloadAIModels
<1>5. ASSUME NEW s \in Setups, SetupFails(s) PROVE InitFollowsModels'
  BY <1>5 DEF SetupFails
<1>6. CASE Restart
  BY <1>6 DEF Restart, Booted
<1>7. ASSUME NEW p \in Plugins, PlaceModel(p) PROVE InitFollowsModels'
  BY <1>7 DEF PlaceModel
<1>8. QED
  BY <1>1, <1>2, <1>3, <1>4, <1>5, <1>6, <1>7 DEF EngineNext, SetupNext

\* EngineInv is inductive.
LEMMA NextEngine == EngineInv /\ [EngineNext]_engineVars => EngineInv'
<1>1. ASSUME EngineInv, EngineNext PROVE EngineInv'
  BY <1>1, EngineTypeStep, VerifiedStep, HolesStep, InitFollowsStep DEF EngineInv
<1>2. ASSUME EngineInv, UNCHANGED engineVars PROVE EngineInv'
  BY <1>2 DEF engineVars, EngineInv, EngineTypeOK, ModelsAreVerified,
              HolesHaveWriters, InitFollowsModels
<1>3. QED
  BY <1>1, <1>2

\* EngineInv always holds.
LEMMA AlwaysEngine == EngineSpec => []EngineInv
<1>1. QED
  BY InitEngine, NextEngine, PTL DEF EngineSpec

-------------------------------------------------------------------------------

\* Every variable keeps its type, whatever calls overlap.
THEOREM EngineTypes == EngineSpec => []EngineTypeOK
<1>1. EngineInv => EngineTypeOK
  BY DEF EngineInv
<1>2. QED
  BY <1>1, AlwaysEngine, PTL

\* Extractions into one file that overlap leave it whole when none is cut off.
THEOREM SettledLibraries == EngineSpec => []SettledLibraryIsWhole
<1>1. EngineInv => SettledLibraryIsWhole
  <2> SUFFICES ASSUME EngineInv, libThere, ~cut, \A s \in Setups : phase[s] # "extract"
               PROVE  libData = LibChunks
    BY DEF SettledLibraryIsWhole, LibWhole
  <2>1. LibChunks \ libData = {}
    BY DEF EngineInv, HolesHaveWriters
  <2>2. QED
    BY <2>1 DEF EngineInv, EngineTypeOK
<1>2. QED
  BY <1>1, AlwaysEngine, PTL

\* After a successful set-up the detectors are available.
THEOREM SuccessIsAvailable == EngineSpec => []SuccessMeansAvailable
<1>1. EngineInv => SuccessMeansAvailable
  BY DetectorsArePlugins
     DEF EngineInv, EngineTypeOK, ModelsAreVerified, InitFollowsModels,
         SuccessMeansAvailable, Available, Downloaded
<1>2. QED
  BY <1>1, AlwaysEngine, PTL

\* A set-up initialises no plugin before its model is there.
THEOREM SetupsInitialiseLast == EngineSpec => SetupsLeaveNoneEmpty
<1>1. EngineInv /\ [EngineNext]_engineVars
        => [\A p \in Plugins :
              session[p] = "closed" /\ session'[p] = "empty"
                => phase[Startup] = "init"]_engineVars
  <2> SUFFICES ASSUME EngineInv, EngineNext, NEW p \in Plugins,
                      session[p] = "closed", session'[p] = "empty"
               PROVE  phase[Startup] = "init"
    BY DEF engineVars
  <2> USE DEF EngineInv, EngineTypeOK
  <2>1. \E c \in Callers, q \in Plugins : InitPlugin(c, q)
    BY DEF EngineNext, SetupNext, LibNext, ModelNext, InitNext, DownloadAIModels,
           AlreadyProvisioned, NotProvisioned, OpenLib, WriteLib, LibExtracted,
           BeginModels, SkipModel, GetModel, VerifyModel, RenameModel, CheckModels,
           InitAgain, LoadFails, RuntimeFails, InitEnds, SetupFails, Restart, PlaceModel,
           disk, Callers
  <2>2. PICK c \in Callers, q \in Plugins : InitPlugin(c, q)
    BY <2>1
  <2>3. q = p /\ ~Downloaded(p) /\ phase[c] = "init"
    BY <2>2 DEF InitPlugin
  <2>4. c \notin Setups
    BY <2>3 DEF InitFollowsModels, Downloaded
  <2>5. QED
    BY <2>3, <2>4 DEF Callers
<1>2. QED
  BY <1>1, AlwaysEngine, PTL DEF EngineSpec, SetupsLeaveNoneEmpty

\* The models, too, are installed as ModelStore promises: a step leaves the
\* final names alone, or puts a whole file under one where none was.
THEOREM AtomicModels == EngineSpec => ModelsInstallAtomically
<1>1. EngineInit => EngineStore!Init
  BY DEF EngineInit, EngineStore!Init
<1>2. EngineInv /\ [EngineNext]_engineVars => [EngineStore!Next]_modelFile
  <2> SUFFICES ASSUME EngineInv, EngineNext
               PROVE  EngineStore!Next \/ UNCHANGED modelFile
    BY DEF engineVars
  <2> USE DEF EngineInv, EngineTypeOK, ModelsAreVerified
  <2>1. ASSUME NEW s \in Setups, RenameModel(s)
        PROVE  EngineStore!Next \/ UNCHANGED modelFile
    <3>1. /\ fetched[s].plugin \in Plugins
          /\ modelFile' = [modelFile EXCEPT ![fetched[s].plugin] = "whole"]
      BY <2>1 DEF RenameModel
    <3>2. CASE modelFile[fetched[s].plugin] = "absent"
      <4>1. EngineStore!Install(fetched[s].plugin)
        BY <3>1, <3>2 DEF EngineStore!Install
      <4>2. QED
        BY <3>1, <4>1 DEF EngineStore!Next
    <3>3. CASE modelFile[fetched[s].plugin] # "absent"
      <4>1. modelFile[fetched[s].plugin] = "whole"
        BY <3>1, <3>3
      <4>2. QED
        BY <3>1, <4>1
    <3>4. QED
      BY <3>2, <3>3
  <2>2. ASSUME NEW p \in Plugins, PlaceModel(p)
        PROVE  EngineStore!Next \/ UNCHANGED modelFile
    <3>1. EngineStore!Install(p)
      BY <2>2 DEF PlaceModel, Downloaded, EngineStore!Install
    <3>2. QED
      BY <3>1 DEF EngineStore!Next
  <2>3. ASSUME NEW c \in Callers, InitNext(c) PROVE UNCHANGED modelFile
    BY <2>3, InitNextFrame
  <2>4. ASSUME NEW s \in Setups, DownloadAIModels(s) \/ LibNext(s) \/ SetupFails(s)
        PROVE  UNCHANGED modelFile
    BY <2>4 DEF DownloadAIModels, LibNext, AlreadyProvisioned, NotProvisioned, OpenLib,
                WriteLib, LibExtracted, BeginModels, SetupFails, disk
  <2>5. ASSUME NEW s \in Setups, ModelNext(s), ~RenameModel(s) PROVE UNCHANGED modelFile
    BY <2>5 DEF ModelNext, SkipModel, GetModel, VerifyModel, CheckModels, disk
  <2>6. CASE Restart
    BY <2>6 DEF Restart, disk
  <2>7. QED
    BY <2>1, <2>2, <2>3, <2>4, <2>5, <2>6 DEF EngineNext, SetupNext, Callers
<1>3. QED
  BY <1>1, <1>2, AlwaysEngine, PTL DEF EngineSpec, ModelsInstallAtomically, EngineStore!Spec
===============================================================================
