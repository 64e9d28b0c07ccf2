---------------------- MODULE ArtifactPublicationProofs ----------------------
(***************************************************************************)
(* Proofs about ArtifactPublication, for every list of payloads and        *)
(* without any bound on generations, kills and failures that the constants *)
(* do not state.                                                           *)
(*                                                                         *)
(* The inductive invariant IInv follows the two things a session may       *)
(* destroy, the published files and their copies in the rollback           *)
(* directory: at each step it names the one that must still be good.       *)
(*                                                                         *)
(* At the end, what the same run checks of the host's descent.             *)
(***************************************************************************)
EXTENDS MCResults, TLAPS

States == {"none", "backup_ready", "recovery_required"}

Backup == [dir : BOOLEAN, marker : BOOLEAN, state : States, draft : BOOLEAN,
           copy : [K -> Nat], hash : [K -> Nat], keys : SUBSET K]

\* Files and copies are generation numbers, and no caller was told of a
\* generation that was never staged.
TypeOK ==
    /\ final \in [K -> Nat] /\ tmp \in [K -> Nat] /\ bak \in Backup
    /\ i \in Nat \ {0} /\ gen \in Nat /\ known \in 0 .. gen
    /\ pc # "idle" => caller \in {"startup", "commit", "committed",
                                   "rollback", "failed"}

\* No payload of another generation beside both markers.
Pure(f) == MarkedIn(f) => \A k \in K : f[k] \in {0, f["summary"]}

\* The steps of a session that work on the published files, and those before.
Touching == {"hide", "payload", "prepare", "wipe", "put", "mark", "remark"}
Saving == {"save", "draft", "ready"}
Early == {"clean", "sweep", "decide", "stage", "reserve"} \cup Saving

\* A generation from known on is whole in place.
InPlace == \E g \in known .. gen : final = [k \in K |-> g]

\* What a rollback directory is, and when there must be one.
BackupInv ==
    /\ bak.dir \/ bak = NoBackup
    /\ bak.state = "none" => bak.keys = {}
    /\ pc \in Touching \cup Saving \cup {"drop"} => bak.dir
    /\ pc \in Early => bak.state = "none"
    /\ Pure(bak.copy)

\* The backup is filled from files that do not change meanwhile.
SaveInv ==
    pc \in Saving =>
        /\ \A k \in K : bak.copy[k] \in {0, final[k]}
        /\ \A j \in 1 .. Len(Keys) :
              Keys[j] \in RestoreKeys /\ (pc = "save" => j < i)
                 => bak.copy[Keys[j]] = final[Keys[j]]

\* A restore first takes everything away and then puts copies in place.
RestoreInv ==
    /\ pc \in {"wipe", "put"} \/ (pc = "prepare" /\ i > 1)
         => \A k \in bak.keys : tmp[k] \in {0, bak.copy[k]}
    /\ pc = "wipe" => \A j \in 1 .. Len(Keys) : j < i => final[Keys[j]] = 0
    /\ pc = "put" => \A k \in K : final[k] \in {0, bak.copy[k]}

\* A commit takes the markers away first and puts them back last.
CommitInv ==
    /\ pc = "hide" => \A j \in 1 .. 2 : j < i => final[<<"manifest", "summary">>[j]] = 0
    /\ pc = "payload" =>
        \A j \in 1 .. Len(Keys) :
            /\ j < i => final[Keys[j]] = gen
            /\ j >= i /\ j > Len(Payloads) => final[Keys[j]] = 0

\* While the published files are touched the copies are good, while the
\* copies are removed the published files are, and what a caller is going to
\* be told is true and owes nothing to the copies.
SafeInv ==
    known # 0 =>
        /\ bak.state # "none" => \E g \in known .. gen : bak.hash = [k \in K |-> g]
        /\ pc \in Touching => bak.state # "none" /\ bak.copy = bak.hash
        /\ pc = "drop" => InPlace

ReportInv ==
    /\ caller = "committed" => pc \in {"drop", "unstage", "idle"}
    /\ pc = "drop" /\ caller = "committed" => Whole
    /\ pc = "unstage" /\ result \in {"published", "reused"}
         => Whole /\ bak.state = "none"

IInv ==
    /\ TypeOK /\ MarkersNeverMix /\ NothingLost /\ BackupInv /\ SaveInv
    /\ RestoreInv /\ CommitInv /\ SafeInv /\ ReportInv

-----------------------------------------------------------------------------
LEMMA KeyFacts ==
    ASSUME PublicationAssumption
    PROVE  /\ Len(Payloads) \in Nat /\ Len(Keys) = Len(Payloads) + 2
           /\ Keys[Len(Payloads) + 1] = "manifest"
           /\ Keys[Len(Payloads) + 2] = "summary"
           /\ \A j \in 1 .. Len(Keys) : Keys[j] \in K
           /\ \A k \in K : \E j \in 1 .. Len(Keys) : k = Keys[j]
           /\ "manifest" \in K /\ "summary" \in K
           /\ \A m, n \in 1 .. Len(Keys) : Keys[m] = Keys[n] => m = n
<1>1. Payloads \in Seq(STRING)
  BY DEF PublicationAssumption
<1>2. /\ Keys \in Seq(STRING \cup {"manifest", "summary"})
      /\ Len(Keys) = Len(Payloads) + 2 /\ Len(Payloads) \in Nat
      /\ Keys[Len(Payloads) + 1] = "manifest"
      /\ Keys[Len(Payloads) + 2] = "summary"
  BY <1>1 DEF Keys
<1>3. DOMAIN Keys = 1 .. Len(Keys)
  BY <1>2
<1>4. K = {Keys[j] : j \in 1 .. Len(Keys)}
  BY <1>3 DEF K, ToSet
<1>5. QED
  BY <1>2, <1>3, <1>4 DEF PublicationAssumption

LEMMA InitHolds ==
    ASSUME PublicationAssumption, Init
    PROVE  IInv
<1> USE KeyFacts DEF Init, Nothing, NoBackup
<1>1. TypeOK
  BY DEF TypeOK, Backup, States
<1>2. MarkersNeverMix /\ NothingLost
  BY DEF MarkersNeverMix, NothingLost, Marked, MarkedIn
<1>3. BackupInv
  BY DEF BackupInv, Touching, Saving, Early, Pure, MarkedIn
<1>4. SaveInv /\ RestoreInv /\ CommitInv /\ SafeInv /\ ReportInv
  BY DEF SaveInv, RestoreInv, CommitInv, SafeInv, ReportInv, Touching, Saving
<1>5. QED
  BY <1>1, <1>2, <1>3, <1>4 DEF IInv

-----------------------------------------------------------------------------
(* What a step does to the rollback directory, field by field.             *)

LEMMA BackupFields ==
    ASSUME bak \in Backup
    PROVE  /\ bak.dir \in BOOLEAN /\ bak.state \in States
           /\ bak.copy \in [K -> Nat] /\ bak.hash \in [K -> Nat]
           /\ bak.keys \in SUBSET K
BY DEF Backup

LEMMA NoBackupFields ==
    /\ NoBackup.dir = FALSE /\ NoBackup.state = "none" /\ NoBackup.keys = {}
    /\ NoBackup.copy = Nothing
BY DEF NoBackup

Unmoved == bak'.dir = bak.dir /\ bak'.state = bak.state /\ bak'.keys = bak.keys
Rehashed == bak'.hash = bak.hash
Kept == Unmoved /\ Rehashed /\ bak'.copy = bak.copy

LEMMA BackupType ==
    ASSUME PublicationAssumption, TypeOK, [Next]_vars
    PROVE  bak' \in Backup
<1> USE DEF TypeOK
<1>1. CASE Mark \/ Draft
  BY <1>1 DEF Mark, Draft, Backup
<1>2. CASE Remark
  BY <1>2 DEF Remark, Backup, States
<1>3. CASE Drop
  <2>1. CASE bak' = [bak EXCEPT !.marker = FALSE]
    BY <2>1 DEF Backup
  <2>2. CASE bak' = [bak EXCEPT !.state = "none", !.hash = Nothing, !.keys = {}]
    BY <2>2 DEF Backup, States, Nothing
  <2>3. CASE bak' = [bak EXCEPT !.draft = FALSE]
    BY <2>3 DEF Backup
  <2>4. CASE \E k \in K : bak' = [bak EXCEPT !.copy[k] = 0]
    BY <2>4 DEF Backup
  <2>5. QED
    BY <1>3, <2>1, <2>2, <2>3, <2>4 DEF Drop
<1>4. NoBackup \in Backup
  BY DEF NoBackup, Nothing, Backup, States
<1>5. CASE Dropped
  BY <1>4, <1>5 DEF Dropped
<1>6. CASE Sweep
  <2>1. CASE bak' = [bak EXCEPT !.marker = FALSE]
    BY <2>1 DEF Backup
  <2>2. QED
    BY <1>4, <1>6, <2>1 DEF Sweep
<1>7. CASE Reserve
  <2>1. [NoBackup EXCEPT !.dir = TRUE, !.marker = TRUE] \in Backup
    BY <1>4 DEF Backup
  <2>2. QED
    BY <1>7, <2>1 DEF Reserve
<1>8. CASE Save
  <2>1. CASE i \in 1 .. Len(Keys) /\ bak' = [bak EXCEPT !.copy[Keys[i]] = final[Keys[i]]]
    BY <2>1, KeyFacts DEF Backup
  <2>2. QED
    BY <1>8, <2>1, KeyFacts DEF Save, SaveKey
<1>9. CASE Ready
  BY <1>9 DEF Ready, Backup, States, RestoreKeys
<1>10. CASE CommitFails
  BY <1>10 DEF CommitFails, Backup
<1>11. CASE UNCHANGED bak
  BY <1>11
<1>12. QED
  BY <1>1, <1>2, <1>3, <1>5, <1>6, <1>7, <1>8, <1>9, <1>10, <1>11
     DEF Next, Step, vars, disk, Publish, CommitDirectly, Scan, PrepareRefused,
         Prepare, Wipe, Put, Restored, CleanRefused, Clean, Swept, Decide, Stage,
         Hide, Replace, Committed, RestoreFails, Unstage, Return, Crash

LEMMA BackupMoves ==
    ASSUME PublicationAssumption, TypeOK
    PROVE  /\ Mark \/ Draft \/ CommitFails => Kept
           /\ Remark => /\ bak'.state = "recovery_required" /\ bak'.dir = bak.dir
                        /\ bak'.keys = bak.keys /\ bak'.copy = bak.copy /\ Rehashed
           /\ Drop => /\ bak'.dir = bak.dir
                      /\ \/ Kept
                         \/ bak'.state = "none" /\ bak'.keys = {} /\ bak'.copy = bak.copy
                         \/ Unmoved /\ Rehashed
                            /\ \E k \in K : bak'.copy = [bak.copy EXCEPT ![k] = 0]
           /\ Dropped \/ (Reserve /\ pc' = "save")
                 => bak'.state = "none" /\ bak'.keys = {} /\ bak'.copy = Nothing
           /\ Sweep => Kept \/ bak' = NoBackup
           /\ Reserve => bak'.dir \/ UNCHANGED <<bak, pc>>
           /\ Save => /\ Unmoved /\ Rehashed
                      /\ \/ /\ bak'.copy = bak.copy
                            /\ i <= Len(Keys) => Keys[i] \notin RestoreKeys
                         \/ /\ i <= Len(Keys) /\ Keys[i] \in RestoreKeys
                            /\ bak'.copy = [bak.copy EXCEPT ![Keys[i]] = final[Keys[i]]]
           /\ Ready => /\ bak'.state = "backup_ready" /\ bak'.dir = bak.dir
                       /\ bak'.keys = RestoreKeys
                       /\ bak'.copy = bak.copy /\ bak'.hash = bak.copy
<1> USE DEF TypeOK, Kept, Unmoved, Rehashed
<1>1. ASSUME Mark \/ Draft \/ CommitFails
      PROVE  Kept
  BY <1>1 DEF Mark, Draft, CommitFails, Backup
<1>2. ASSUME Remark
      PROVE  /\ bak'.state = "recovery_required" /\ bak'.dir = bak.dir
             /\ bak'.keys = bak.keys /\ bak'.copy = bak.copy /\ Rehashed
  BY <1>2 DEF Remark, Backup
<1>3. ASSUME Drop
      PROVE  /\ bak'.dir = bak.dir
             /\ \/ Kept
                \/ bak'.state = "none" /\ bak'.keys = {} /\ bak'.copy = bak.copy
                \/ Unmoved /\ Rehashed
                   /\ \E k \in K : bak'.copy = [bak.copy EXCEPT ![k] = 0]
  <2>1. CASE bak' = [bak EXCEPT !.marker = FALSE]
    BY <2>1 DEF Backup
  <2>2. CASE bak' = [bak EXCEPT !.state = "none", !.hash = Nothing, !.keys = {}]
    BY <2>2 DEF Backup
  <2>3. CASE bak' = [bak EXCEPT !.draft = FALSE]
    BY <2>3 DEF Backup
  <2>4. CASE \E k \in K : bak' = [bak EXCEPT !.copy[k] = 0]
    BY <2>4 DEF Backup
  <2>5. QED
    BY <1>3, <2>1, <2>2, <2>3, <2>4 DEF Drop
<1>4. ASSUME Dropped \/ (Reserve /\ pc' = "save")
      PROVE  bak'.state = "none" /\ bak'.keys = {} /\ bak'.copy = Nothing
  BY <1>4, NoBackupFields DEF Dropped, Reserve, NoBackup
<1>5. ASSUME Sweep
      PROVE  Kept \/ bak' = NoBackup
  <2>1. CASE bak' = [bak EXCEPT !.marker = FALSE]
    BY <2>1 DEF Backup
  <2>2. QED
    BY <1>5, <2>1 DEF Sweep
<1>6. ASSUME Reserve
      PROVE  bak'.dir \/ UNCHANGED <<bak, pc>>
  BY <1>6 DEF Reserve, NoBackup
<1>7. ASSUME Save
      PROVE  /\ Unmoved /\ Rehashed
             /\ \/ /\ bak'.copy = bak.copy
                   /\ i <= Len(Keys) => Keys[i] \notin RestoreKeys
                \/ /\ i <= Len(Keys) /\ Keys[i] \in RestoreKeys
                   /\ bak'.copy = [bak.copy EXCEPT ![Keys[i]] = final[Keys[i]]]
  <2>1. CASE i <= Len(Keys) /\ Keys[i] \in RestoreKeys
    <3>1. bak' = [bak EXCEPT !.copy[Keys[i]] = final[Keys[i]]]
      BY <1>7, <2>1, KeyFacts DEF Save, SaveKey
    <3>2. QED
      BY <2>1, <3>1 DEF Backup
  <2>2. CASE ~(i <= Len(Keys) /\ Keys[i] \in RestoreKeys)
    BY <1>7, <2>2, KeyFacts DEF Save, SaveKey
  <2>3. QED
    BY <2>1, <2>2
<1>8. ASSUME Ready
      PROVE  /\ bak'.state = "backup_ready" /\ bak'.dir = bak.dir
             /\ bak'.keys = RestoreKeys
             /\ bak'.copy = bak.copy /\ bak'.hash = bak.copy
  BY <1>8 DEF Ready, Backup
<1>9. QED
  BY <1>1, <1>2, <1>3, <1>4, <1>5, <1>6, <1>7, <1>8

-----------------------------------------------------------------------------
(* Each part of the invariant is kept by every step.                       *)

\* Every step keeps the types.
LEMMA TypeStep ==
    ASSUME PublicationAssumption, TypeOK, CommitInv, ReportInv, [Next]_vars
    PROVE  TypeOK'
<1> USE DEF Go, Again, End, disk, bounds, TypeOK, Nothing
<1>1. CASE Publish
  BY <1>1, BackupType DEF Publish
<1>2. CASE CommitDirectly
  BY <1>2, BackupType DEF CommitDirectly
<1>3. CASE Scan
  BY <1>3, BackupType DEF Scan, Unauthenticated
<1>4. CASE PrepareRefused
  BY <1>4, BackupType DEF PrepareRefused
<1>5. CASE Prepare
  <2>1. tmp' \in [K -> Nat]
    BY <1>5, BackupFields DEF Prepare
  <2>2. QED
    BY <1>5, <2>1, BackupType DEF Prepare
<1>6. CASE Wipe
  BY <1>6, BackupType, KeyFacts, SMTT(40) DEF Wipe
<1>7. CASE Put
  <2>1. Keys[i] \in K
    BY <1>7, KeyFacts DEF Put
  <2>2. final' \in [K -> Nat]
    BY <1>7, <2>1 DEF Put
  <2>3. tmp' \in [K -> Nat]
    BY <1>7, <2>1 DEF Put
  <2>4. QED
    BY <1>7, <2>2, <2>3, BackupType DEF Put
<1>8. CASE Restored
  BY <1>8, BackupType DEF Restored, Marked, Whole
<1>9. CASE Mark
  BY <1>9, BackupType DEF Mark
<1>10. CASE Remark
  BY <1>10, BackupType DEF Remark
<1>11. CASE Drop
  BY <1>11, BackupType DEF Drop
<1>12. CASE Dropped
  <2>1. i' = 1 /\ UNCHANGED caller
    BY <1>12 DEF Dropped
  <2>2. QED
    BY <1>12, <2>1, BackupType DEF Dropped
<1>13. CASE CleanRefused
  BY <1>13, BackupType DEF CleanRefused, Purposes
<1>14. CASE Clean
  BY <1>14, BackupType DEF Clean, Purposes
<1>15. CASE Sweep
  BY <1>15, BackupType DEF Sweep, Purposes
<1>16. CASE Swept
  BY <1>16, BackupType DEF Swept, Purposes
<1>17. CASE Decide
  BY <1>17, BackupType DEF Decide, Marked, Whole
<1>18. CASE Stage
  BY <1>18, BackupType DEF Stage
<1>19. CASE Reserve
  BY <1>19, BackupType DEF Reserve
<1>20. CASE Save
  BY <1>20, BackupType DEF Save, SaveKey, RestoreKeys
<1>21. CASE Draft
  BY <1>21, BackupType DEF Draft
<1>22. CASE Ready
  BY <1>22, BackupType DEF Ready, RestoreKeys
<1>23. CASE Hide
  <2>1. i \in 1 .. 2 => <<"manifest", "summary">>[i] \in K
    BY KeyFacts
  <2>2. QED
    BY <1>23, <2>1, BackupType DEF Hide
<1>24. CASE Replace
  <2>1. Keys[i] \in K
    BY <1>24, KeyFacts DEF Replace
  <2>2. final' \in [K -> Nat]
    BY <1>24, <2>1 DEF Replace
  <2>3. QED
    BY <1>24, <2>2, BackupType DEF Replace
<1>25. CASE Committed
  BY <1>25, BackupType DEF Committed, Whole
<1>26. CASE Unstage
  BY <1>26, BackupType DEF Unstage
<1>27. CASE Return
  <2>1. Whole => final["summary"] \in 0 .. gen
    BY KeyFacts DEF Whole, WholeIn
  <2>2. QED
    BY <1>27, <2>1, BackupType DEF Return, ReportInv
<1>28. CASE CommitFails
  BY <1>28, BackupType DEF CommitFails
<1>29. CASE RestoreFails
  BY <1>29, BackupType DEF RestoreFails
<1>30. CASE Crash
  BY <1>30, BackupType DEF Crash
<1>31. CASE UNCHANGED vars
  BY <1>31, BackupType DEF vars
<1>32. QED
  BY <1>1, <1>2, <1>3, <1>4, <1>5, <1>6, <1>7, <1>8, <1>9, <1>10, <1>11, <1>12,
     <1>13, <1>14, <1>15, <1>16, <1>17, <1>18, <1>19, <1>20, <1>21, <1>22,
     <1>23, <1>24, <1>25, <1>26, <1>27, <1>28, <1>29, <1>30, <1>31
     DEF Next, Step

\* No step shows both markers over a mixture of generations.
LEMMA PureStep ==
    ASSUME PublicationAssumption, TypeOK, MarkersNeverMix, BackupInv,
           RestoreInv, CommitInv, [Next]_vars
    PROVE  MarkersNeverMix'
<1> USE DEF Go, Again, End, disk, bounds, TypeOK, MarkersNeverMix, Marked,
            MarkedIn
<1>1. CASE Publish
  BY <1>1 DEF Publish
<1>2. CASE CommitDirectly
  BY <1>2 DEF CommitDirectly
<1>3. CASE Scan
  BY <1>3 DEF Scan, Unauthenticated
<1>4. CASE PrepareRefused
  BY <1>4 DEF PrepareRefused, Nothing
<1>5. CASE Prepare
  BY <1>5 DEF Prepare, Nothing
<1>6. CASE Wipe
  BY <1>6, KeyFacts DEF Wipe
<1>7. CASE Put
  <2>1. \A k \in K : final'[k] \in {0, bak.copy[k]}
    BY <1>7, KeyFacts, BackupFields DEF Put, RestoreInv
  <2>2. QED
    BY <1>7, <2>1, KeyFacts, BackupFields DEF Put, BackupInv, Pure
<1>8. CASE Restored
  BY <1>8 DEF Restored, Nothing, Whole
<1>9. CASE Mark
  BY <1>9 DEF Mark
<1>10. CASE Remark
  BY <1>10 DEF Remark
<1>11. CASE Drop
  BY <1>11 DEF Drop, Nothing
<1>12. CASE Dropped
  BY <1>12 DEF Dropped
<1>13. CASE CleanRefused
  BY <1>13 DEF CleanRefused, Purposes
<1>14. CASE Clean
  BY <1>14 DEF Clean, Purposes
<1>15. CASE Sweep
  BY <1>15 DEF Sweep, Purposes
<1>16. CASE Swept
  BY <1>16 DEF Swept, Purposes
<1>17. CASE Decide
  BY <1>17 DEF Decide, Whole
<1>18. CASE Stage
  BY <1>18 DEF Stage
<1>19. CASE Reserve
  BY <1>19 DEF Reserve
<1>20. CASE Save
  BY <1>20 DEF Save, SaveKey, RestoreKeys
<1>21. CASE Draft
  BY <1>21 DEF Draft
<1>22. CASE Ready
  BY <1>22 DEF Ready, RestoreKeys
<1>23. CASE Hide
  BY <1>23, KeyFacts DEF Hide
<1>24. CASE Replace
  <2>1. CASE UNCHANGED i
    BY <1>24, <2>1, KeyFacts, SMTT(40) DEF Replace
  <2>2. CASE i # Len(Keys) /\ i' = i + 1
    <3>1. final["summary"] = 0 /\ Keys[i] # "summary"
      BY <1>24, <2>2, KeyFacts, SMTT(40) DEF Replace, CommitInv
    <3>2. QED
      BY <1>24, <3>1, KeyFacts DEF Replace
  <2>3. CASE i = Len(Keys) /\ i' = i + 1
    <3>1. \A k \in K : final'[k] = gen
      BY <1>24, <2>3, KeyFacts, SMTT(40) DEF Replace, CommitInv
    <3>2. QED
      BY <3>1, KeyFacts
  <2>4. QED
    BY <1>24, <2>1, <2>2, <2>3 DEF Replace
<1>25. CASE Committed
  BY <1>25 DEF Committed, Whole
<1>26. CASE Unstage
  BY <1>26 DEF Unstage
<1>27. CASE Return
  BY <1>27 DEF Return
<1>28. CASE CommitFails
  BY <1>28 DEF CommitFails
<1>29. CASE RestoreFails
  BY <1>29 DEF RestoreFails, Nothing
<1>30. CASE Crash
  BY <1>30 DEF Crash
<1>31. CASE UNCHANGED vars
  BY <1>31 DEF vars
<1>32. QED
  BY <1>1, <1>2, <1>3, <1>4, <1>5, <1>6, <1>7, <1>8, <1>9, <1>10, <1>11, <1>12,
     <1>13, <1>14, <1>15, <1>16, <1>17, <1>18, <1>19, <1>20, <1>21, <1>22,
     <1>23, <1>24, <1>25, <1>26, <1>27, <1>28, <1>29, <1>30, <1>31
     DEF Next, Step

\* Every step keeps what a rollback directory is.
LEMMA BackupStep ==
    ASSUME PublicationAssumption, TypeOK, MarkersNeverMix, BackupInv, SaveInv,
           [Next]_vars
    PROVE  BackupInv'
<1> USE DEF Go, Again, End, disk, bounds, TypeOK, BackupInv, Pure, MarkedIn,
            Touching, Saving, Early
<1>1. CASE Publish
  BY <1>1 DEF Publish
<1>2. CASE CommitDirectly
  BY <1>2 DEF CommitDirectly
<1>3. CASE Scan
  BY <1>3, NoBackupFields DEF Scan, Unauthenticated
<1>4. CASE PrepareRefused
  BY <1>4 DEF PrepareRefused, Nothing
<1>5. CASE Prepare
  BY <1>5 DEF Prepare, Nothing
<1>6. CASE Wipe
  BY <1>6 DEF Wipe
<1>7. CASE Put
  BY <1>7 DEF Put
<1>8. CASE Restored
  BY <1>8 DEF Restored, Nothing, Marked, Whole
<1>9. CASE Mark
  BY <1>9, BackupMoves, BackupFields, NoBackupFields
     DEF Mark, Kept, Unmoved, Rehashed
<1>10. CASE Remark
  BY <1>10, BackupMoves, BackupFields, NoBackupFields
     DEF Remark, Kept, Unmoved, Rehashed
<1>11. CASE Drop
  <2>1. Pure(bak'.copy)
    <3>1. CASE bak'.copy = bak.copy
      BY <3>1
    <3>2. CASE \E k \in K : bak'.copy = [bak.copy EXCEPT ![k] = 0]
      BY <3>2, KeyFacts, BackupFields, SMTT(40)
    <3>3. QED
      BY <1>11, <3>1, <3>2, BackupMoves DEF Kept
  <2>2. bak'.dir /\ (bak'.state = "none" => bak'.keys = {})
    BY <1>11, BackupMoves DEF Kept, Unmoved, Drop
  <2>3. QED
    BY <1>11, <2>1, <2>2 DEF Drop
<1>12. CASE Dropped
  BY <1>12, BackupMoves, BackupFields, NoBackupFields, KeyFacts
     DEF Dropped, Kept, Unmoved, Rehashed, Nothing
<1>13. CASE CleanRefused
  BY <1>13 DEF CleanRefused, Purposes
<1>14. CASE Clean
  BY <1>14 DEF Clean, Purposes
<1>15. CASE Sweep
  BY <1>15, BackupMoves, BackupFields, NoBackupFields
     DEF Sweep, Purposes, Kept, Unmoved, Rehashed, Nothing
<1>16. CASE Swept
  BY <1>16 DEF Swept, Purposes
<1>17. CASE Decide
  BY <1>17 DEF Decide, Marked, Whole
<1>18. CASE Stage
  BY <1>18 DEF Stage
<1>19. CASE Reserve
  <2>1. CASE UNCHANGED <<bak, pc>>
    BY <1>19, <2>1
  <2>2. CASE pc' = "save" /\ bak'.dir
    <3>1. bak'.state = "none" /\ bak'.keys = {} /\ bak'.copy = Nothing
      BY <1>19, <2>2, BackupMoves
    <3>2. Pure(Nothing)
      BY KeyFacts DEF Nothing
    <3>3. QED
      BY <2>2, <3>1, <3>2
  <2>3. QED
    BY <1>19, <2>1, <2>2, BackupMoves DEF Reserve
<1>20. CASE Save
  <2>0. \/ bak'.copy = bak.copy
        \/ /\ Keys[i] \in K
           /\ bak'.copy = [bak.copy EXCEPT ![Keys[i]] = final[Keys[i]]]
    BY <1>20, BackupMoves DEF RestoreKeys
  <2>1. \A k \in K : bak'.copy[k] \in {0, final[k]}
    BY <1>20, <2>0, BackupFields, SMTT(40) DEF Save, SaveInv
  <2>2. Pure(bak'.copy)
    BY <2>1, KeyFacts DEF MarkersNeverMix, Marked
  <2>3. QED
    BY <1>20, <2>2, BackupMoves DEF Save, Unmoved
<1>21. CASE Draft
  BY <1>21, BackupMoves, BackupFields, NoBackupFields
     DEF Draft, Kept, Unmoved, Rehashed
<1>22. CASE Ready
  BY <1>22, BackupMoves, BackupFields, NoBackupFields
     DEF Ready, RestoreKeys, Kept, Unmoved, Rehashed
<1>23. CASE Hide
  BY <1>23 DEF Hide
<1>24. CASE Replace
  BY <1>24 DEF Replace
<1>25. CASE Committed
  BY <1>25 DEF Committed, Whole
<1>26. CASE Unstage
  BY <1>26 DEF Unstage
<1>27. CASE Return
  BY <1>27 DEF Return
<1>28. CASE CommitFails
  BY <1>28, BackupMoves, BackupFields, NoBackupFields
     DEF CommitFails, Kept, Unmoved, Rehashed
<1>29. CASE RestoreFails
  BY <1>29 DEF RestoreFails, Nothing
<1>30. CASE Crash
  BY <1>30 DEF Crash
<1>31. CASE UNCHANGED vars
  BY <1>31 DEF vars
<1>32. QED
  BY <1>1, <1>2, <1>3, <1>4, <1>5, <1>6, <1>7, <1>8, <1>9, <1>10, <1>11, <1>12,
     <1>13, <1>14, <1>15, <1>16, <1>17, <1>18, <1>19, <1>20, <1>21, <1>22,
     <1>23, <1>24, <1>25, <1>26, <1>27, <1>28, <1>29, <1>30, <1>31
     DEF Next, Step

\* The copies are filled from files that stay as they are.
LEMMA SaveStep ==
    ASSUME PublicationAssumption, TypeOK, SaveInv, BackupInv, [Next]_vars
    PROVE  SaveInv'
<1> USE DEF Go, Again, End, disk, bounds, TypeOK, SaveInv, Saving, RestoreKeys,
            Marked, MarkedIn
<1>1. CASE Publish
  BY <1>1 DEF Publish
<1>2. CASE CommitDirectly
  BY <1>2 DEF CommitDirectly
<1>3. CASE Scan
  BY <1>3 DEF Scan, Unauthenticated
<1>4. CASE PrepareRefused
  BY <1>4 DEF PrepareRefused, Nothing
<1>5. CASE Prepare
  BY <1>5 DEF Prepare, Nothing
<1>6. CASE Wipe
  BY <1>6 DEF Wipe
<1>7. CASE Put
  BY <1>7 DEF Put
<1>8. CASE Restored
  BY <1>8 DEF Restored, Nothing, Whole
<1>9. CASE Mark
  BY <1>9, BackupMoves, BackupFields, NoBackupFields
     DEF Mark, Kept, Unmoved, Rehashed
<1>10. CASE Remark
  BY <1>10, BackupMoves, BackupFields, NoBackupFields
     DEF Remark, Kept, Unmoved, Rehashed
<1>11. CASE Drop
  BY <1>11, BackupMoves, BackupFields, NoBackupFields
     DEF Drop, Nothing, Kept, Unmoved, Rehashed
<1>12. CASE Dropped
  BY <1>12, BackupMoves, BackupFields, NoBackupFields
     DEF Dropped, Kept, Unmoved, Rehashed
<1>13. CASE CleanRefused
  BY <1>13 DEF CleanRefused, Purposes
<1>14. CASE Clean
  BY <1>14 DEF Clean, Purposes
<1>15. CASE Sweep
  BY <1>15, BackupMoves, BackupFields, NoBackupFields
     DEF Sweep, Purposes, Kept, Unmoved, Rehashed
<1>16. CASE Swept
  BY <1>16 DEF Swept, Purposes
<1>17. CASE Decide
  BY <1>17 DEF Decide, Whole
<1>18. CASE Stage
  BY <1>18 DEF Stage
<1>19. CASE Reserve
  <2>1. pc' = "save" => i' = 1 /\ bak'.copy = Nothing /\ UNCHANGED final
    BY <1>19, BackupMoves DEF Reserve
  <2>2. pc' \in Saving => pc' = "save"
    BY <1>19 DEF Reserve
  <2>3. QED
    BY <2>1, <2>2, KeyFacts DEF Nothing
<1>20. CASE Save
  <2>1. RestoreKeys' = RestoreKeys
    BY <1>20 DEF Save
  <2>0. \/ bak'.copy = bak.copy /\ (i <= Len(Keys) => Keys[i] \notin RestoreKeys)
        \/ /\ Keys[i] \in K
           /\ bak'.copy = [bak.copy EXCEPT ![Keys[i]] = final[Keys[i]]]
    BY <1>20, BackupMoves DEF RestoreKeys
  <2>2. \A k \in K : bak'.copy[k] \in {0, final[k]}
    <3>1. /\ \A k \in K : bak.copy[k] \in {0, final[k]}
          /\ bak.copy \in [K -> Nat]
      BY <1>20, BackupFields DEF Save
    <3>2. CASE bak'.copy = bak.copy
      BY <3>1, <3>2
    <3>3. CASE /\ Keys[i] \in K
               /\ bak'.copy = [bak.copy EXCEPT ![Keys[i]] = final[Keys[i]]]
      <4> HIDE DEF TypeOK, SaveInv
      <4> QED
        BY <3>1, <3>3
    <3> QED
      BY <2>0, <3>2, <3>3
  <2>3. ASSUME NEW j \in 1 .. Len(Keys), Keys[j] \in RestoreKeys, j <= i
        PROVE  bak'.copy[Keys[j]] = final[Keys[j]]
    <3>1. j < i => bak.copy[Keys[j]] = final[Keys[j]]
      BY <1>20, <2>3 DEF Save
    <3>2. Keys[j] \in K
      BY KeyFacts
    <3>3. QED
      BY <1>20, <2>0, <2>3, <3>1, <3>2, BackupFields DEF Save
  <2>4. QED
    BY <1>20, <2>1, <2>2, <2>3, KeyFacts DEF Save
<1>21. CASE Draft
  BY <1>21, BackupMoves, BackupFields, NoBackupFields
     DEF Draft, Kept, Unmoved, Rehashed
<1>22. CASE Ready
  BY <1>22, BackupMoves, BackupFields, NoBackupFields
     DEF Ready, Kept, Unmoved, Rehashed
<1>23. CASE Hide
  BY <1>23 DEF Hide
<1>24. CASE Replace
  BY <1>24 DEF Replace
<1>25. CASE Committed
  BY <1>25 DEF Committed, Whole
<1>26. CASE Unstage
  BY <1>26 DEF Unstage
<1>27. CASE Return
  BY <1>27 DEF Return
<1>28. CASE CommitFails
  BY <1>28, BackupMoves, BackupFields, NoBackupFields
     DEF CommitFails, Kept, Unmoved, Rehashed
<1>29. CASE RestoreFails
  BY <1>29 DEF RestoreFails, Nothing
<1>30. CASE Crash
  BY <1>30 DEF Crash
<1>31. CASE UNCHANGED vars
  BY <1>31 DEF vars
<1>32. QED
  BY <1>1, <1>2, <1>3, <1>4, <1>5, <1>6, <1>7, <1>8, <1>9, <1>10, <1>11, <1>12,
     <1>13, <1>14, <1>15, <1>16, <1>17, <1>18, <1>19, <1>20, <1>21, <1>22,
     <1>23, <1>24, <1>25, <1>26, <1>27, <1>28, <1>29, <1>30, <1>31
     DEF Next, Step

\* A restore goes through nothing to the copies.
LEMMA RestoreStep ==
    ASSUME PublicationAssumption, TypeOK, RestoreInv, BackupInv, [Next]_vars
    PROVE  RestoreInv'
<1> USE DEF Go, Again, End, disk, bounds, TypeOK, RestoreInv
<1>1. CASE Publish
  BY <1>1 DEF Publish
<1>2. CASE CommitDirectly
  BY <1>2 DEF CommitDirectly
<1>3. CASE Scan
  BY <1>3 DEF Scan, Unauthenticated
<1>4. CASE PrepareRefused
  BY <1>4 DEF PrepareRefused, Nothing
<1>5. CASE Prepare
  <2>1. i = 1 => tmp = [k \in K |-> 0]
    BY <1>5 DEF Prepare, Nothing
  <2>2. \A k \in bak.keys : tmp[k] \in {0, bak.copy[k]}
    BY <1>5, <2>1, BackupFields DEF Prepare
  <2>3. \A k \in bak.keys : tmp'[k] \in {0, bak.copy[k]}
    BY <1>5, <2>2, BackupFields, KeyFacts DEF Prepare
  <2>4. QED
    BY <1>5, <2>3 DEF Prepare
<1>6. CASE Wipe
  <2>1. CASE i > Len(Keys)
    <3>1. \A k \in K : final[k] = 0
      BY <1>6, <2>1, KeyFacts DEF Wipe
    <3>2. QED
      BY <1>6, <2>1, <3>1 DEF Wipe
  <2>2. CASE i <= Len(Keys)
    <3>1. Keys[i] \in K
      BY <2>2, KeyFacts
    <3>2. final' = [final EXCEPT ![Keys[i]] = 0]
      BY <1>6, <2>2, KeyFacts DEF Wipe
    <3>3. ASSUME NEW j \in 1 .. Len(Keys), j < i + 1
          PROVE  final'[Keys[j]] = 0
      <4>1. j < i => final[Keys[j]] = 0
        BY <1>6 DEF Wipe
      <4>2. Keys[j] \in K
        BY KeyFacts
      <4>3. QED
        BY <3>1, <3>2, <3>3, <4>1, <4>2
    <3>4. QED
      BY <1>6, <2>2, <3>3, KeyFacts, SMTT(40) DEF Wipe
  <2>3. QED
    BY <2>1, <2>2, KeyFacts
<1>7. CASE Put
  <2>1. Keys[i] \in K
    BY <1>7, KeyFacts DEF Put
  <2>2. \A k \in K : final'[k] \in {0, bak.copy[k]}
    BY <1>7, <2>1, BackupFields DEF Put
  <2>3. \A k \in bak.keys : tmp'[k] \in {0, bak.copy[k]}
    BY <1>7, <2>1, BackupFields DEF Put
  <2>4. QED
    BY <1>7, <2>2, <2>3 DEF Put
<1>8. CASE Restored
  BY <1>8 DEF Restored, Nothing, Marked, Whole
<1>9. CASE Mark
  BY <1>9, BackupMoves, BackupFields, NoBackupFields
     DEF Mark, Kept, Unmoved, Rehashed
<1>10. CASE Remark
  BY <1>10, BackupMoves, BackupFields, NoBackupFields
     DEF Remark, Kept, Unmoved, Rehashed
<1>11. CASE Drop
  BY <1>11, BackupMoves, BackupFields, NoBackupFields
     DEF Drop, Nothing, Kept, Unmoved, Rehashed
<1>12. CASE Dropped
  BY <1>12, BackupMoves, BackupFields, NoBackupFields
     DEF Dropped, Kept, Unmoved, Rehashed
<1>13. CASE CleanRefused
  BY <1>13 DEF CleanRefused, Purposes
<1>14. CASE Clean
  BY <1>14 DEF Clean, Purposes
<1>15. CASE Sweep
  BY <1>15, BackupMoves, BackupFields, NoBackupFields
     DEF Sweep, Purposes, Kept, Unmoved, Rehashed
<1>16. CASE Swept
  BY <1>16 DEF Swept, Purposes
<1>17. CASE Decide
  BY <1>17 DEF Decide, Marked, Whole
<1>18. CASE Stage
  BY <1>18 DEF Stage
<1>19. CASE Reserve
  BY <1>19, BackupMoves, BackupFields, NoBackupFields
     DEF Reserve, Kept, Unmoved, Rehashed
<1>20. CASE Save
  BY <1>20, BackupMoves, BackupFields, NoBackupFields
     DEF Save, SaveKey, RestoreKeys, Kept, Unmoved, Rehashed
<1>21. CASE Draft
  BY <1>21, BackupMoves, BackupFields, NoBackupFields
     DEF Draft, Kept, Unmoved, Rehashed
<1>22. CASE Ready
  BY <1>22, BackupMoves, BackupFields, NoBackupFields
     DEF Ready, RestoreKeys, Kept, Unmoved, Rehashed
<1>23. CASE Hide
  BY <1>23 DEF Hide
<1>24. CASE Replace
  BY <1>24 DEF Replace
<1>25. CASE Committed
  BY <1>25 DEF Committed, Whole
<1>26. CASE Unstage
  BY <1>26 DEF Unstage
<1>27. CASE Return
  BY <1>27 DEF Return
<1>28. CASE CommitFails
  BY <1>28, BackupMoves, BackupFields, NoBackupFields
     DEF CommitFails, Kept, Unmoved, Rehashed, BackupInv
<1>29. CASE RestoreFails
  BY <1>29 DEF RestoreFails, Nothing
<1>30. CASE Crash
  BY <1>30 DEF Crash
<1>31. CASE UNCHANGED vars
  BY <1>31 DEF vars
<1>32. QED
  BY <1>1, <1>2, <1>3, <1>4, <1>5, <1>6, <1>7, <1>8, <1>9, <1>10, <1>11, <1>12,
     <1>13, <1>14, <1>15, <1>16, <1>17, <1>18, <1>19, <1>20, <1>21, <1>22,
     <1>23, <1>24, <1>25, <1>26, <1>27, <1>28, <1>29, <1>30, <1>31
     DEF Next, Step

\* A commit goes through no markers to the new generation.
LEMMA CommitStep ==
    ASSUME PublicationAssumption, TypeOK, CommitInv, [Next]_vars
    PROVE  CommitInv'
<1> USE DEF Go, Again, End, disk, bounds, TypeOK, CommitInv
<1>1. CASE Publish
  BY <1>1 DEF Publish
<1>2. CASE CommitDirectly
  BY <1>2 DEF CommitDirectly
<1>3. CASE Scan
  BY <1>3 DEF Scan, Unauthenticated
<1>4. CASE PrepareRefused
  BY <1>4 DEF PrepareRefused, Nothing
<1>5. CASE Prepare
  BY <1>5 DEF Prepare, Nothing
<1>6. CASE Wipe
  BY <1>6 DEF Wipe
<1>7. CASE Put
  BY <1>7 DEF Put
<1>8. CASE Restored
  BY <1>8 DEF Restored, Nothing, Marked, Whole
<1>9. CASE Mark
  BY <1>9 DEF Mark
<1>10. CASE Remark
  BY <1>10 DEF Remark
<1>11. CASE Drop
  BY <1>11 DEF Drop, Nothing
<1>12. CASE Dropped
  BY <1>12 DEF Dropped
<1>13. CASE CleanRefused
  BY <1>13 DEF CleanRefused, Purposes
<1>14. CASE Clean
  BY <1>14 DEF Clean, Purposes
<1>15. CASE Sweep
  BY <1>15 DEF Sweep, Purposes
<1>16. CASE Swept
  BY <1>16 DEF Swept, Purposes
<1>17. CASE Decide
  BY <1>17 DEF Decide, Marked, Whole
<1>18. CASE Stage
  BY <1>18 DEF Stage
<1>19. CASE Reserve
  BY <1>19 DEF Reserve
<1>20. CASE Save
  BY <1>20 DEF Save, SaveKey, RestoreKeys
<1>21. CASE Draft
  BY <1>21 DEF Draft
<1>22. CASE Ready
  BY <1>22 DEF Ready, RestoreKeys
<1>23. CASE Hide
  <2>1. CASE i > 2
    <3>1. final["manifest"] = 0 /\ final["summary"] = 0
      BY <1>23, <2>1 DEF Hide
    <3>2. QED
      BY <1>23, <2>1, <3>1, KeyFacts DEF Hide
  <2>2. CASE i = 1
    BY <1>23, <2>2, KeyFacts DEF Hide
  <2>3. CASE i = 2
    BY <1>23, <2>3, KeyFacts DEF Hide
  <2>4. QED
    BY <2>1, <2>2, <2>3
<1>24. CASE Replace
  BY <1>24, KeyFacts, SMTT(40) DEF Replace
<1>25. CASE Committed
  BY <1>25 DEF Committed, Whole
<1>26. CASE Unstage
  BY <1>26 DEF Unstage
<1>27. CASE Return
  BY <1>27 DEF Return
<1>28. CASE CommitFails
  BY <1>28 DEF CommitFails
<1>29. CASE RestoreFails
  BY <1>29 DEF RestoreFails, Nothing
<1>30. CASE Crash
  BY <1>30 DEF Crash
<1>31. CASE UNCHANGED vars
  BY <1>31 DEF vars
<1>32. QED
  BY <1>1, <1>2, <1>3, <1>4, <1>5, <1>6, <1>7, <1>8, <1>9, <1>10, <1>11, <1>12,
     <1>13, <1>14, <1>15, <1>16, <1>17, <1>18, <1>19, <1>20, <1>21, <1>22,
     <1>23, <1>24, <1>25, <1>26, <1>27, <1>28, <1>29, <1>30, <1>31
     DEF Next, Step

\* No step gives up the files and their copies at once.
LEMMA SafeStep ==
    ASSUME PublicationAssumption, TypeOK, SafeInv, NothingLost, BackupInv,
           SaveInv, CommitInv, ReportInv, [Next]_vars
    PROVE  SafeInv' /\ NothingLost'
<1> USE DEF Go, Again, End, disk, bounds, TypeOK, SafeInv, NothingLost, Copies,
            InPlace, Touching
<1>1. CASE Publish
  BY <1>1 DEF Publish, BackupInv, Early, Saving
<1>2. CASE CommitDirectly
  BY <1>2 DEF CommitDirectly, BackupInv, Early, Saving
<1>3. CASE Scan
  <2>1. CASE Unauthenticated
    BY <1>3, <2>1 DEF Scan
  <2>2. CASE ~Unauthenticated
    <3>1. bak.state # "none" => bak.copy = bak.hash
      BY <2>2, NoBackupFields DEF Unauthenticated, BackupInv
    <3>2. QED
      BY <1>3, <2>2, <3>1 DEF Scan
  <2>3. QED
    BY <2>1, <2>2
<1>4. CASE PrepareRefused
  BY <1>4 DEF PrepareRefused, Nothing, BackupInv, Early, Saving
<1>5. CASE Prepare
  BY <1>5 DEF Prepare, Nothing, BackupInv, Early, Saving
<1>6. CASE Wipe
  BY <1>6 DEF Wipe, BackupInv, Early, Saving
<1>7. CASE Put
  <2>1. pc \in Touching /\ pc' \in Touching /\ UNCHANGED <<bak, known, gen>>
    BY <1>7 DEF Put
  <2>2. SafeInv'
    BY <2>1
  <2>3. QED
    BY <2>1, <2>2
<1>8. CASE Restored
  <2>1. /\ pc = "put" /\ pc' \in {"drop", "mark"}
        /\ pc' = "drop" => final = bak.hash
        /\ UNCHANGED <<final, bak, known, gen>>
    BY <1>8 DEF Restored
  <2>2. known # 0 => \E g \in known .. gen : bak.hash = [k \in K |-> g]
    BY <2>1
  <2>3. known # 0 => bak.state # "none" /\ bak.copy = bak.hash
    BY <2>1
  <2>4. NothingLost'
    BY <2>1
  <2>5. SafeInv'
    BY <2>1, <2>2, <2>3
  <2>6. QED
    BY <2>4, <2>5
<1>9. CASE Mark
  BY <1>9, BackupMoves, BackupFields, NoBackupFields
     DEF Mark, BackupInv, Early, Saving, Kept, Unmoved, Rehashed
<1>10. CASE Remark
  BY <1>10, BackupMoves, BackupFields, NoBackupFields
     DEF Remark, BackupInv, Early, Saving, Kept, Unmoved, Rehashed
<1>11. CASE Drop
  <2>1. pc = "drop" /\ pc' = "drop" /\ UNCHANGED <<final, known, gen>>
    BY <1>11 DEF Drop
  <2>2. bak'.state # "none" => bak.state # "none" /\ bak'.hash = bak.hash
    BY <1>11, BackupMoves DEF Kept, Unmoved, Rehashed
  <2>3. SafeInv'
    BY <2>1, <2>2
  <2>4. known # 0 => InPlace
    BY <2>1
  <2>5. NothingLost'
    BY <2>1, <2>4
  <2>6. QED
    BY <2>3, <2>5
<1>12. CASE Dropped
  BY <1>12, BackupMoves, BackupFields, NoBackupFields
     DEF Dropped, BackupInv, Early, Saving, Kept, Unmoved, Rehashed
<1>13. CASE CleanRefused
  BY <1>13 DEF CleanRefused, Purposes, BackupInv, Early, Saving
<1>14. CASE Clean
  BY <1>14 DEF Clean, Purposes, BackupInv, Early, Saving
<1>15. CASE Sweep
  BY <1>15, BackupMoves, BackupFields, NoBackupFields
     DEF Sweep, Purposes, BackupInv, Early, Saving, Kept, Unmoved, Rehashed
<1>16. CASE Swept
  BY <1>16 DEF Swept, Purposes, BackupInv, Early, Saving
<1>17. CASE Decide
  BY <1>17 DEF Decide, Marked, Whole, BackupInv, Early, Saving
<1>18. CASE Stage
  BY <1>18 DEF Stage, BackupInv, Early, Saving
<1>19. CASE Reserve
  BY <1>19, BackupMoves, BackupFields, NoBackupFields
     DEF Reserve, BackupInv, Early, Saving, Kept, Unmoved, Rehashed
<1>20. CASE Save
  <2>1. /\ UNCHANGED <<final, known, gen>> /\ bak.state = "none"
        /\ bak'.state = "none"
    BY <1>20, BackupMoves DEF Save, BackupInv, Early, Saving, Unmoved
  <2>2. known # 0 => InPlace
    BY <2>1
  <2>3. known # 0 => "summary" \in RestoreKeys
    BY <2>2, KeyFacts DEF RestoreKeys, Marked, MarkedIn
  <2>4. known # 0 => pc' \in {"save", "draft"}
    BY <1>20, <2>3 DEF Save
  <2>5. QED
    BY <2>1, <2>2, <2>4
<1>21. CASE Draft
  BY <1>21, BackupMoves, BackupFields, NoBackupFields
     DEF Draft, BackupInv, Early, Saving, Kept, Unmoved, Rehashed
<1>22. CASE Ready
  <2>1. /\ UNCHANGED <<final, known, gen>> /\ bak.state = "none"
        /\ bak'.copy = bak.copy /\ bak'.hash = bak.copy
        /\ bak'.state = "backup_ready" /\ pc' = "hide"
    BY <1>22, BackupMoves DEF Ready, BackupInv, Early, Saving
  <2>2. ASSUME NEW g \in known .. gen, final = [k \in K |-> g], known # 0
        PROVE  bak.copy = [k \in K |-> g]
    <3>1. Marked /\ RestoreKeys = K
      BY <2>2, KeyFacts DEF RestoreKeys, Marked, MarkedIn
    <3>2. \A j \in 1 .. Len(Keys) : bak.copy[Keys[j]] = final[Keys[j]]
      BY <1>22, <3>1, KeyFacts DEF Ready, SaveInv, Saving
    <3>3. ASSUME NEW k \in K
          PROVE  bak.copy[k] = g
      <4>1. PICK j \in 1 .. Len(Keys) : k = Keys[j]
        BY KeyFacts
      <4>2. QED
        BY <2>2, <3>2, <4>1
    <3>4. QED
      BY <3>3, BackupFields
  <2>3. known # 0 => InPlace
    BY <2>1
  <2>4. QED
    BY <2>1, <2>2, <2>3
<1>23. CASE Hide
  BY <1>23 DEF Hide, BackupInv, Early, Saving
<1>24. CASE Replace
  <2>1. pc \in Touching /\ pc' \in Touching /\ UNCHANGED <<bak, known, gen>>
    BY <1>24 DEF Replace
  <2>2. SafeInv'
    BY <2>1
  <2>3. QED
    BY <2>1, <2>2
<1>25. CASE Committed
  <2>1. UNCHANGED <<final, known, gen, bak>> /\ pc' = "drop"
    BY <1>25 DEF Committed
  <2>2. final = [k \in K |-> gen]
    <3>1. PICK g \in 1 .. gen : final = [k \in K |-> g]
      BY <1>25 DEF Committed, Whole, WholeIn
    <3>2. final[Keys[1]] = gen /\ Keys[1] \in K
      BY <1>25, KeyFacts DEF Committed, CommitInv
    <3>3. QED
      BY <3>1, <3>2
  <2>3. InPlace
    BY <2>2
  <2>4. QED
    BY <2>1, <2>3
<1>26. CASE Unstage
  BY <1>26 DEF Unstage, BackupInv, Early, Saving
<1>27. CASE Return
  <2>1. UNCHANGED <<final, bak, gen>> /\ pc' = "idle" /\ pc = "unstage"
    BY <1>27 DEF Return
  <2>2. CASE result \in {"published", "reused"}
    <3>1. PICK g \in 1 .. gen : final = [k \in K |-> g]
      BY <2>1, <2>2 DEF ReportInv, Whole, WholeIn
    <3>2. known' = g /\ bak.state = "none"
      BY <1>27, <2>1, <2>2, <3>1, KeyFacts DEF Return, ReportInv
    <3>3. QED
      BY <2>1, <3>1, <3>2
  <2>3. CASE known' = known
    BY <2>1, <2>3
  <2>4. QED
    BY <1>27, <2>2, <2>3 DEF Return
<1>28. CASE CommitFails
  <2>1. UNCHANGED <<final, known, gen>> /\ Kept
    BY <1>28, BackupMoves DEF CommitFails
  <2>2. CASE pc \in Saving /\ pc' = "drop"
    <3>1. known # 0 => InPlace
      BY <2>2 DEF BackupInv, Early
    <3>2. QED
      BY <2>1, <2>2, <3>1 DEF Kept, Unmoved, Rehashed
  <2>3. CASE pc \in Touching /\ pc' \in Touching
    BY <2>1, <2>3 DEF Kept, Unmoved, Rehashed
  <2>4. QED
    BY <1>28, <2>2, <2>3 DEF CommitFails, Saving
<1>29. CASE RestoreFails
  BY <1>29 DEF RestoreFails, Nothing, BackupInv, Early, Saving
<1>30. CASE Crash
  BY <1>30 DEF Crash, BackupInv, Early, Saving
<1>31. CASE UNCHANGED vars
  BY <1>31 DEF vars
<1>32. QED
  BY <1>1, <1>2, <1>3, <1>4, <1>5, <1>6, <1>7, <1>8, <1>9, <1>10, <1>11, <1>12,
     <1>13, <1>14, <1>15, <1>16, <1>17, <1>18, <1>19, <1>20, <1>21, <1>22,
     <1>23, <1>24, <1>25, <1>26, <1>27, <1>28, <1>29, <1>30, <1>31
     DEF Next, Step

\* What a caller is going to be told is true.
LEMMA ReportStep ==
    ASSUME PublicationAssumption, TypeOK, ReportInv, BackupInv, [Next]_vars
    PROVE  ReportInv'
<1> USE DEF Go, Again, End, disk, bounds, TypeOK, ReportInv, Whole, WholeIn,
            Early
<1>1. CASE Publish
  BY <1>1 DEF Publish
<1>2. CASE CommitDirectly
  BY <1>2 DEF CommitDirectly
<1>3. CASE Scan
  BY <1>3 DEF Scan, Unauthenticated
<1>4. CASE PrepareRefused
  BY <1>4 DEF PrepareRefused, Nothing
<1>5. CASE Prepare
  BY <1>5 DEF Prepare, Nothing
<1>6. CASE Wipe
  BY <1>6 DEF Wipe
<1>7. CASE Put
  BY <1>7 DEF Put
<1>8. CASE Restored
  BY <1>8 DEF Restored, Nothing, Marked
<1>9. CASE Mark
  BY <1>9, BackupMoves, BackupFields, NoBackupFields
     DEF Mark, Kept, Unmoved, Rehashed
<1>10. CASE Remark
  BY <1>10, BackupMoves, BackupFields, NoBackupFields
     DEF Remark, Kept, Unmoved, Rehashed
<1>11. CASE Drop
  BY <1>11, BackupMoves, BackupFields, NoBackupFields
     DEF Drop, Nothing, Kept, Unmoved, Rehashed
<1>12. CASE Dropped
  BY <1>12, BackupMoves, BackupFields, NoBackupFields
     DEF Dropped, Kept, Unmoved, Rehashed
<1>13. CASE CleanRefused
  BY <1>13 DEF CleanRefused, Purposes
<1>14. CASE Clean
  BY <1>14 DEF Clean, Purposes
<1>15. CASE Sweep
  BY <1>15, BackupMoves, BackupFields, NoBackupFields
     DEF Sweep, Purposes, Kept, Unmoved, Rehashed
<1>16. CASE Swept
  BY <1>16 DEF Swept, Purposes
<1>17. CASE Decide
  BY <1>17 DEF Decide, Marked, BackupInv
<1>18. CASE Stage
  BY <1>18 DEF Stage
<1>19. CASE Reserve
  BY <1>19, BackupMoves, BackupFields, NoBackupFields
     DEF Reserve, Kept, Unmoved, Rehashed
<1>20. CASE Save
  BY <1>20, BackupMoves, BackupFields, NoBackupFields
     DEF Save, SaveKey, RestoreKeys, Kept, Unmoved, Rehashed
<1>21. CASE Draft
  BY <1>21, BackupMoves, BackupFields, NoBackupFields
     DEF Draft, Kept, Unmoved, Rehashed
<1>22. CASE Ready
  BY <1>22, BackupMoves, BackupFields, NoBackupFields
     DEF Ready, RestoreKeys, Kept, Unmoved, Rehashed
<1>23. CASE Hide
  BY <1>23 DEF Hide
<1>24. CASE Replace
  BY <1>24 DEF Replace
<1>25. CASE Committed
  BY <1>25 DEF Committed
<1>26. CASE Unstage
  BY <1>26 DEF Unstage
<1>27. CASE Return
  BY <1>27 DEF Return
<1>28. CASE CommitFails
  BY <1>28, BackupMoves, BackupFields, NoBackupFields
     DEF CommitFails, Kept, Unmoved, Rehashed
<1>29. CASE RestoreFails
  BY <1>29 DEF RestoreFails, Nothing
<1>30. CASE Crash
  BY <1>30 DEF Crash
<1>31. CASE UNCHANGED vars
  BY <1>31 DEF vars
<1>32. QED
  BY <1>1, <1>2, <1>3, <1>4, <1>5, <1>6, <1>7, <1>8, <1>9, <1>10, <1>11, <1>12,
     <1>13, <1>14, <1>15, <1>16, <1>17, <1>18, <1>19, <1>20, <1>21, <1>22,
     <1>23, <1>24, <1>25, <1>26, <1>27, <1>28, <1>29, <1>30, <1>31
     DEF Next, Step

-----------------------------------------------------------------------------
\* The inductive invariant holds of every behaviour.
THEOREM Invariance ==
    ASSUME PublicationAssumption
    PROVE  Spec => []IInv
<1>1. Init => IInv
  BY InitHolds
<1>2. IInv /\ [Next]_vars => IInv'
  <2> SUFFICES ASSUME IInv, [Next]_vars
               PROVE  IInv'
    OBVIOUS
  <2> USE DEF IInv
  <2>1. TypeOK'
    BY TypeStep
  <2>2. MarkersNeverMix'
    BY PureStep
  <2>3. BackupInv' /\ SaveInv' /\ RestoreInv' /\ CommitInv'
    BY BackupStep, SaveStep, RestoreStep, CommitStep
  <2>4. SafeInv' /\ NothingLost'
    BY SafeStep
  <2>5. ReportInv'
    BY ReportStep
  <2>6. QED
    BY <2>1, <2>2, <2>3, <2>4, <2>5
<1>3. QED
  BY <1>1, <1>2, PTL DEF Spec

\* Files are generation numbers at every step of every session.
THEOREM TypeCorrect ==
    ASSUME PublicationAssumption
    PROVE  Spec => []TypeOK
<1>1. IInv => TypeOK
  BY DEF IInv
<1>2. QED
  BY <1>1, Invariance, PTL

\* The commit protocol: while both completion markers are visible no payload
\* of another generation is, through kills and failures of the commit
\* (commit_shadow_generation) and of the restore (shadow_restore_from_backup).
THEOREM MarkersCertifyOneGeneration ==
    ASSUME PublicationAssumption
    PROVE  Spec => []MarkersNeverMix
<1>1. IInv => MarkersNeverMix
  BY DEF IInv
<1>2. QED
  BY <1>1, Invariance, PTL

\* A generation a caller was told is in place is whole afterwards too, in the
\* files or in the rollback directory, or a later one is.
THEOREM PublishedSurvives ==
    ASSUME PublicationAssumption
    PROVE  Spec => []NothingLost
<1>1. IInv => NothingLost
  BY DEF IInv
<1>2. QED
  BY <1>1, Invariance, PTL

-----------------------------------------------------------------------------
(* The host's descent, as the results run instantiates it.                 *)

(* Where the last reduction stands against the iteration: behind it as     *)
(* long as no step of the iteration is taken, and the last try of an       *)
(* iteration takes none, for the one before it has zeroed the step.        *)
TrialInv ==
    hostPc = "trial" =>
        /\ reduction < iteration /\ iteration > 1
        /\ tries < MaxHalving
        /\ tries = MaxHalving - 1 => zero

JudgeInv ==
    hostPc = "judge" =>
        /\ iteration > 0 /\ reduction <= iteration /\ tries <= MaxHalving
        /\ tries = MaxHalving => reduction < iteration
        /\ tries # MaxHalving /\ iteration > 1 => reduction = iteration

DescentInv ==
    /\ iteration \in Nat /\ tries \in Nat /\ reduction \in Nat
    /\ hostPc = "initial" => iteration = 0 /\ tries = 0 /\ reduction = 0
    /\ TrialInv /\ JudgeInv
    /\ HostGcv!ConvergenceIsFresh

LEMMA DescentTrial ==
    ASSUME HostGcv!ControlAssumption, MaxHalving > 4, Steps \subseteq Int,
           DescentInv, HostGcv!Trial
    PROVE  DescentInv'
<1>1. /\ hostPc = "trial" /\ tries' = tries + 1 /\ iteration' = iteration
      /\ iteration \in Nat /\ tries \in Nat /\ reduction \in Nat
      /\ reduction < iteration /\ iteration > 1 /\ tries < MaxHalving
      /\ tries = MaxHalving - 1 => zero
      /\ MaxHalving \in Nat /\ MaxHalving > 4
  BY DEF HostGcv!Trial, DescentInv, TrialInv, HostGcv!ControlAssumption
<1>2. PICK p \in Points, d \in Steps :
        /\ HostGcv!Unmoved(tries + 1) => p = logSp
        /\ p = logSp => d = 0
        /\ \/ d < 0 /\ HostGcv!Accepted(p)
           \/ d >= 0 /\ HostGcv!Rejected(tries + 1)
  BY DEF HostGcv!Trial
<1>3. CASE d < 0 /\ HostGcv!Accepted(p)
  <2>1. ~HostGcv!Unmoved(tries + 1)
    BY <1>2, <1>3
  <2>2. tries + 1 # MaxHalving
    BY <1>1, <2>1 DEF HostGcv!Unmoved, HostGcv!Source
  <2>3. hostPc' = "judge" /\ reduction' = iteration
    BY <1>3 DEF HostGcv!Accepted
  <2> QED
    BY <1>1, <2>2, <2>3
    DEF DescentInv, TrialInv, JudgeInv, HostGcv!ConvergenceIsFresh
<1>4. CASE d >= 0 /\ HostGcv!Rejected(tries + 1)
  <2>1. /\ reduction' = reduction
        /\ tries + 1 = MaxHalving - 1 => zero'
        /\ hostPc' = (IF tries + 1 = MaxHalving THEN "judge" ELSE "trial")
    BY <1>4 DEF HostGcv!Rejected
  <2> QED
    BY <1>1, <2>1 DEF DescentInv, TrialInv, JudgeInv, HostGcv!ConvergenceIsFresh
<1> QED
  BY <1>2, <1>3, <1>4

LEMMA DescentJudge ==
    ASSUME HostGcv!ControlAssumption, MaxHalving > 4, DescentInv, HostGcv!Judge
    PROVE  DescentInv'
<1>1. /\ hostPc = "judge" /\ tries' = 0 /\ reduction' = reduction
      /\ iteration \in Nat /\ tries \in Nat /\ reduction \in Nat
      /\ iteration > 0 /\ reduction <= iteration
      /\ tries = MaxHalving => reduction < iteration
      /\ tries # MaxHalving /\ iteration > 1 => reduction = iteration
      /\ MaxHalving \in Nat /\ MaxHalving > 4
  BY DEF HostGcv!Judge, DescentInv, JudgeInv, HostGcv!ControlAssumption
<1>2. PICK flat \in BOOLEAN :
        /\ stepFailed' = (HostGcv!Converges(flat) /\ HostGcv!Exhausted)
        /\ \/ HostGcv!Converges(flat) /\ hostPc' = "probe" /\ iteration' = iteration
           \/ hostPc' = "trial" /\ iteration' = iteration + 1
           \/ hostPc' = "thrown" /\ iteration' = iteration
  BY DEF HostGcv!Judge
<1>3. CASE HostGcv!Converges(flat) /\ hostPc' = "probe" /\ iteration' = iteration
  <2>1. iteration > 3 /\ (stepFailed' <=> tries = MaxHalving)
    BY <1>2, <1>3 DEF HostGcv!Converges, HostGcv!Exhausted
  <2> QED
    BY <1>1, <1>3, <2>1 DEF DescentInv, TrialInv, JudgeInv, HostGcv!ConvergenceIsFresh
<1>4. CASE hostPc' = "trial" /\ iteration' = iteration + 1
  BY <1>1, <1>4 DEF DescentInv, TrialInv, JudgeInv, HostGcv!ConvergenceIsFresh
<1>5. CASE hostPc' = "thrown" /\ iteration' = iteration
  BY <1>1, <1>5 DEF DescentInv, TrialInv, JudgeInv, HostGcv!ConvergenceIsFresh
<1> QED
  BY <1>2, <1>3, <1>4, <1>5

LEMMA DescentProbe ==
    ASSUME HostGcv!ControlAssumption, DescentInv, HostGcv!Probe
    PROVE  DescentInv'
<1>1. /\ hostPc = "probe" /\ hostPc' \in {"probe", "refine"}
      /\ iteration' = iteration /\ reduction' = reduction
      /\ stepFailed' = stepFailed
      /\ tries' = 0 \/ tries' = tries + 1
  BY DEF HostGcv!Probe, HostGcv!NextCoordinate, HostGcv!verdict
<1> QED
  BY <1>1 DEF DescentInv, TrialInv, JudgeInv, HostGcv!ConvergenceIsFresh

LEMMA DescentNext ==
    ASSUME HostGcv!ControlAssumption, MaxHalving > 4, Steps \subseteq Int,
           DescentInv, [HostGcv!Next]_(HostGcv!vars)
    PROVE  DescentInv'
<1>1. CASE HostGcv!BeginDescent
  <2>1. /\ hostPc = "initial" /\ hostPc' = "judge" /\ iteration' = 1
        /\ tries' = tries /\ reduction' = reduction
    BY <1>1 DEF HostGcv!BeginDescent, HostGcv!verdict
  <2> QED
    BY <2>1
    DEF DescentInv, TrialInv, JudgeInv, HostGcv!ConvergenceIsFresh,
        HostGcv!ControlAssumption
<1>2. CASE HostGcv!Throw
  BY <1>2
  DEF HostGcv!Throw, HostGcv!progress, HostGcv!verdict, DescentInv, TrialInv, JudgeInv,
      HostGcv!ConvergenceIsFresh
<1>3. CASE HostGcv!Refine
  BY <1>3
  DEF HostGcv!Refine, HostGcv!progress, HostGcv!verdict, DescentInv, TrialInv, JudgeInv,
      HostGcv!ConvergenceIsFresh
<1>4. CASE UNCHANGED HostGcv!vars
  BY <1>4
  DEF HostGcv!vars, HostGcv!progress, HostGcv!verdict, DescentInv, TrialInv, JudgeInv,
      HostGcv!ConvergenceIsFresh
<1> QED
  BY <1>1, <1>2, <1>3, <1>4, DescentTrial, DescentJudge, DescentProbe DEF HostGcv!Next

(* multi_penalty_gcv_optimize_cpp: an optimizer that reports full          *)
(* convergence took a step in its last iteration, and one that reports a   *)
(* failed step took none in it, for every number of penalties, iterations  *)
(* and probes and every number of halvings above four; four is the least   *)
(* the control admits, and there a failed step may have moved.             *)
THEOREM DescentIsFresh ==
    ASSUME HostGcv!ControlAssumption, MaxHalving > 4, Steps \subseteq Int
    PROVE  HostGcv!Spec => []ConvergenceIsFresh
<1>1. HostGcv!Init => DescentInv
  BY DEF HostGcv!Init, DescentInv, TrialInv, JudgeInv, HostGcv!ConvergenceIsFresh
<1>2. DescentInv /\ [HostGcv!Next]_(HostGcv!vars) => DescentInv'
  BY DescentNext
<1>3. DescentInv => ConvergenceIsFresh
  BY DEF DescentInv, ConvergenceIsFresh
<1> QED
  BY <1>1, <1>2, <1>3, PTL DEF HostGcv!Spec
=============================================================================
