------------------------ MODULE ArtifactPublication ------------------------
(***************************************************************************)
(* The publication of a shadow artifact generation                         *)
(* (R/full_cuda_ci_phase3_artifacts.R): the start-up recovery and clean-up,*)
(* the commit of a staged generation file by file behind two completion    *)
(* markers, the rollback directory with its state file, and the restore    *)
(* from it, with the process killed between any two file operations.       *)
(*                                                                         *)
(* A file is the number of the generation that wrote it, 0 for no file.    *)
(* The publication lock is exclusive and is dropped by the operating       *)
(* system when its owner dies, so at most one session runs at a time.      *)
(***************************************************************************)
EXTENDS Integers, Sequences, SequencesExt

CONSTANTS Payloads,     \* the payload keys, in the order they are committed
          Direct,       \* whether commit is also called without the start-up
          MaxGen,       \* direct commits stop at this generation
          MaxCrash,     \* bound on the kills
          MaxFault      \* bound on the failed renames, hooks and validations

Keys == Payloads \o <<"manifest", "summary">>

\* The commit refuses no payload at all and a key that is there twice.
PublicationAssumption ==
    /\ Payloads \in Seq(STRING) /\ Payloads # <<>>
    /\ \A m, n \in DOMAIN Keys : Keys[m] = Keys[n] => m = n
    /\ Direct \in BOOLEAN
    /\ MaxGen \in Nat /\ MaxCrash \in Nat /\ MaxFault \in Nat

VARIABLES final,        \* the published files
          tmp,          \* the restore temporaries beside them
          bak,          \* the rollback directory
          work,         \* bootstrap and staging directories on disk
          pc, i, caller,\* the session: its step, loop index and who called
          staged,       \* whether the session owns the staging directory
          result,       \* what the session is about to return
          gen,          \* the last generation staged
          known,        \* the last generation a caller was told is in place
          crashes, faults

disk == <<final, tmp, bak, work>>
vars == <<disk, pc, i, caller, staged, result, gen, known, crashes, faults>>

K == ToSet(Keys)
Nothing == [k \in K |-> 0]

NoBackup == [dir |-> FALSE, marker |-> FALSE, state |-> "none",
             draft |-> FALSE, copy |-> Nothing, hash |-> Nothing,
             keys |-> {}]

\* Both completion markers are among the files f.
MarkedIn(f) == f["manifest"] # 0 /\ f["summary"] # 0
Marked == MarkedIn(final)
\* What the validators accept: every file present and of one generation.
WholeIn(f) == \E g \in 1..gen : f = [k \in K |-> g]
Whole == WholeIn(final)

Init ==
    /\ final \in {Nothing, [k \in K |-> 1]}
    /\ gen = final["summary"] /\ known = gen
    /\ tmp = Nothing /\ bak = NoBackup /\ work = {}
    /\ pc = "idle" /\ i = 1 /\ caller = "none" /\ result = "none"
    /\ staged = FALSE
    /\ crashes = 0 /\ faults = 0

bounds == <<crashes, faults>>

Go(p) == pc' = p /\ i' = 1
Again == pc' = pc /\ i' = i + 1
\* A return or a stop: the exit handlers of the publisher run last.
End(r) == Go("unstage") /\ result' = r

\* What the rollback directory must look like to be used or to be ignored.
Unauthenticated ==
    /\ bak.dir
    /\ \/ ~bak.marker
       \/ bak.state = "none" /\ (bak.draft \/ bak.copy # Nothing)
       \/ bak.state # "none" /\ (bak.draft \/ bak.copy # bak.hash)

----------------------------------------------------------------------------
(* Sessions.                                                               *)

Publish ==
    /\ pc = "idle"
    /\ Go("scan") /\ caller' = "startup" /\ result' = "none"
    /\ staged' = FALSE
    /\ UNCHANGED <<disk, gen, known, bounds>>

CommitDirectly ==
    /\ pc = "idle" /\ Direct /\ gen < MaxGen
    /\ Go("scan") /\ caller' = "commit" /\ gen' = gen + 1 /\ result' = "none"
    /\ staged' = FALSE
    /\ UNCHANGED <<disk, known, bounds>>

\* recover_shadow_rollback: find the rollback directory.
Scan ==
    /\ pc = "scan"
    /\ \/ Unauthenticated /\ End("error")
       \/ /\ ~Unauthenticated
          /\ Go(IF bak.state # "none" THEN "prepare" ELSE "clean")
          /\ UNCHANGED result
    /\ UNCHANGED <<disk, caller, staged, gen, known, bounds>>

----------------------------------------------------------------------------
(* shadow_restore_from_backup.                                             *)

\* Mutant: the exit handler that removes the temporaries is missing.
PrepareRefusedKeeps ==
    /\ pc = "prepare" /\ i = 1 /\ tmp # Nothing
    /\ Go("mark")
    /\ UNCHANGED <<disk, caller, result, staged, gen, known, bounds>>

\* Leftovers of a killed restore make this one fail; the exit handler
\* removes them.
PrepareRefused ==
    /\ pc = "prepare" /\ i = 1 /\ tmp # Nothing
    /\ tmp' = Nothing /\ Go("mark")
    /\ UNCHANGED <<final, bak, work, caller, result, staged, gen, known, bounds>>

Prepare ==
    /\ pc = "prepare" /\ (i = 1 => tmp = Nothing)
    /\ IF i > Len(Keys)
       THEN Go("wipe") /\ UNCHANGED tmp
       ELSE /\ tmp' = [k \in K |-> IF k = Keys[i] /\ k \in bak.keys
                                  THEN bak.copy[k] ELSE tmp[k]]
            /\ Again
    /\ UNCHANGED <<final, bak, work, caller, result, staged, gen, known, bounds>>

Wipe ==
    /\ pc = "wipe"
    /\ IF i > Len(Keys)
       THEN Go("put") /\ UNCHANGED final
       ELSE final' = [final EXCEPT ![Keys[i]] = 0] /\ Again
    /\ UNCHANGED <<tmp, bak, work, caller, result, staged, gen, known, bounds>>

Put ==
    /\ pc = "put" /\ i <= Len(Keys)
    /\ IF Keys[i] \in bak.keys
       THEN /\ final' = [final EXCEPT ![Keys[i]] = tmp[Keys[i]]]
            /\ tmp' = [tmp EXCEPT ![Keys[i]] = 0]
       ELSE UNCHANGED <<final, tmp>>
    /\ Again
    /\ UNCHANGED <<bak, work, caller, result, staged, gen, known, bounds>>

\* The restored files are hashed again before the backup is dropped.
Restored ==
    /\ pc = "put" /\ i > Len(Keys)
    /\ Go(IF final = bak.hash /\ (caller = "startup" /\ Marked => Whole)
          THEN "drop" ELSE "mark")
    /\ tmp' = Nothing
    /\ UNCHANGED <<final, bak, work, caller, result, staged, gen, known, bounds>>

\* A failed restore leaves the backup and says so in its state file, which
\* is written beside the old one and renamed over it.
Mark ==
    /\ pc = "mark"
    /\ bak' = [bak EXCEPT !.draft = TRUE] /\ Go("remark")
    /\ UNCHANGED <<final, tmp, work, caller, result, staged, gen, known, bounds>>

Remark ==
    /\ pc = "remark"
    /\ bak' = [bak EXCEPT !.draft = FALSE, !.state = "recovery_required"]
    /\ End("error")
    /\ UNCHANGED <<final, tmp, work, caller, staged, gen, known, bounds>>

\* unlink(recursive = TRUE) takes the entries in directory order.
Drop ==
    /\ pc = "drop" /\ bak # [NoBackup EXCEPT !.dir = TRUE]
    /\ \/ bak.marker /\ bak' = [bak EXCEPT !.marker = FALSE]
       \/ bak.state # "none"
          /\ bak' = [bak EXCEPT !.state = "none", !.hash = Nothing,
                                !.keys = {}]
       \/ bak.draft /\ bak' = [bak EXCEPT !.draft = FALSE]
       \/ \E k \in K : /\ bak.copy[k] # 0
                       /\ bak' = [bak EXCEPT !.copy[k] = 0]
    /\ UNCHANGED <<final, tmp, work, pc, i, caller, result, staged, gen, known, bounds>>

\* The directory is gone: the caller of the removal goes on.
Dropped ==
    /\ pc = "drop" /\ bak = [NoBackup EXCEPT !.dir = TRUE]
    /\ bak' = NoBackup
    /\ CASE caller \in {"startup", "commit"} ->
                Go("clean") /\ UNCHANGED result
         [] caller = "committed" -> End("published")
         [] caller \in {"rollback", "failed"} -> End("error")
    /\ UNCHANGED <<final, tmp, work, caller, staged, gen, known, bounds>>

----------------------------------------------------------------------------
(* cleanup_shadow_work_dirs and the decision to reuse.                     *)

Purposes == IF caller = "startup" THEN {"staging", "rollback"}
            ELSE {"rollback"}

CleanRefused ==
    /\ pc = "clean"
    /\ "staging" \in Purposes /\ <<"unmarked", "staging">> \in work
    /\ work' = work \ {<<"bootstrap", p>> : p \in Purposes}
    /\ End("error")
    /\ UNCHANGED <<final, tmp, bak, caller, staged, gen, known, bounds>>

Clean ==
    /\ pc = "clean"
    /\ "staging" \in Purposes => <<"unmarked", "staging">> \notin work
    /\ work' = work \ {<<"bootstrap", p>> : p \in Purposes}
    /\ Go("sweep")
    /\ UNCHANGED <<final, tmp, bak, caller, result, staged, gen, known, bounds>>

\* A stale staging directory and an empty rollback directory are removed,
\* each one's ownership marker before the directory itself.
Sweep ==
    /\ pc = "sweep"
    /\ \/ /\ "staging" \in Purposes /\ <<"reserved", "staging">> \in work
          /\ work' = (work \ {<<"reserved", "staging">>})
                          \cup {<<"unmarked", "staging">>}
          /\ UNCHANGED bak
       \/ /\ "staging" \in Purposes /\ <<"unmarked", "staging">> \in work
          /\ work' = work \ {<<"unmarked", "staging">>}
          /\ UNCHANGED bak
       \/ /\ bak.dir
          /\ bak' = IF bak.marker THEN [bak EXCEPT !.marker = FALSE]
                    ELSE NoBackup
          /\ UNCHANGED work
    /\ UNCHANGED <<final, tmp, pc, i, caller, result, staged, gen, known, bounds>>

Swept ==
    /\ pc = "sweep" /\ ~bak.dir
    /\ "staging" \in Purposes =>
           work \cap {<<"reserved", "staging">>, <<"unmarked", "staging">>} = {}
    /\ Go(IF caller = "startup" THEN "decide" ELSE "reserve")
    /\ UNCHANGED <<disk, caller, result, staged, gen, known, bounds>>

Decide ==
    /\ pc = "decide"
    /\ IF Marked
       THEN End(IF Whole THEN "reused" ELSE "error")
       ELSE Go("stage") /\ UNCHANGED result
    /\ UNCHANGED <<disk, caller, staged, gen, known, bounds>>

\* acquire_shadow_work_dir: a bootstrap directory, its marker, the rename to
\* the reserved name; then the recomputed payload is written there.
Stage ==
    /\ pc = "stage"
    /\ IF <<"bootstrap", "staging">> \in work
       THEN /\ work' = (work \ {<<"bootstrap", "staging">>})
                            \cup {<<"reserved", "staging">>}
            /\ gen' = gen + 1 /\ caller' = "commit" /\ Go("scan")
            /\ staged' = TRUE
       ELSE /\ work' = work \cup {<<"bootstrap", "staging">>}
            /\ UNCHANGED <<gen, caller, staged, pc, i>>
    /\ UNCHANGED <<final, tmp, bak, result, known, bounds>>

----------------------------------------------------------------------------
(* commit_shadow_generation.                                               *)

\* The marker of an incomplete generation is not worth restoring.
RestoreKeys ==
    {k \in K : final[k] # 0 /\ (Marked \/ k \in ToSet(Payloads))}

SaveKey ==
    IF Keys[i] \in RestoreKeys
    THEN bak' = [bak EXCEPT !.copy[Keys[i]] = final[Keys[i]]]
    ELSE UNCHANGED bak

Reserve ==
    /\ pc = "reserve"
    /\ IF <<"bootstrap", "rollback">> \in work
       THEN /\ work' = work \ {<<"bootstrap", "rollback">>}
            /\ bak' = [NoBackup EXCEPT !.dir = TRUE, !.marker = TRUE]
            /\ Go("save")
       ELSE /\ work' = work \cup {<<"bootstrap", "rollback">>}
            /\ UNCHANGED <<bak, pc, i>>
    /\ UNCHANGED <<final, tmp, caller, result, staged, gen, known, bounds>>

\* Mutant: the transaction starts without a state file for the backup.
SaveUnsealed ==
    /\ pc = "save"
    /\ IF i > Len(Keys)
       THEN Go("hide") /\ UNCHANGED bak
       ELSE SaveKey /\ Again
    /\ UNCHANGED <<final, tmp, work, caller, result, staged, gen, known, bounds>>

Save ==
    /\ pc = "save"
    /\ IF i > Len(Keys)
       THEN Go(IF RestoreKeys = {} THEN "hide" ELSE "draft") /\ UNCHANGED bak
       ELSE SaveKey /\ Again
    /\ UNCHANGED <<final, tmp, work, caller, result, staged, gen, known, bounds>>

\* write_shadow_rollback_state: a temporary, renamed into place.
Draft ==
    /\ pc = "draft"
    /\ bak' = [bak EXCEPT !.draft = TRUE] /\ Go("ready")
    /\ UNCHANGED <<final, tmp, work, caller, result, staged, gen, known, bounds>>

Ready ==
    /\ pc = "ready"
    /\ bak' = [bak EXCEPT !.draft = FALSE, !.state = "backup_ready",
                          !.hash = bak.copy, !.keys = RestoreKeys]
    /\ Go("hide")
    /\ UNCHANGED <<final, tmp, work, caller, result, staged, gen, known, bounds>>

\* Mutant: the old markers stay until the renames replace them.
HideNothing ==
    /\ pc = "hide" /\ Go("payload")
    /\ UNCHANGED <<disk, caller, result, staged, gen, known, bounds>>

\* Both markers go before the first payload is replaced.
Hide ==
    /\ pc = "hide"
    /\ IF i > 2
       THEN Go("payload") /\ UNCHANGED final
       ELSE final' = [final EXCEPT ![<<"manifest", "summary">>[i]] = 0] /\ Again
    /\ UNCHANGED <<tmp, bak, work, caller, result, staged, gen, known, bounds>>

\* Each payload is unlinked and renamed in from the staging directory, then
\* the manifest, then the summary.
Replace ==
    /\ pc = "payload" /\ i <= Len(Keys)
    /\ \/ final[Keys[i]] # 0 /\ i <= Len(Payloads)
          /\ final' = [final EXCEPT ![Keys[i]] = 0] /\ UNCHANGED <<pc, i>>
       \/ final[Keys[i]] = 0
          /\ final' = [final EXCEPT ![Keys[i]] = gen] /\ Again
    /\ UNCHANGED <<tmp, bak, work, caller, result, staged, gen, known, bounds>>

\* The post-commit validation, after which the backup is not needed.
Committed ==
    /\ pc = "payload" /\ i > Len(Keys) /\ Whole
    /\ Go("drop") /\ caller' = "committed"
    /\ UNCHANGED <<disk, result, staged, gen, known, bounds>>

\* A rename, hook or validation of the commit fails. Before the transaction
\* the exit handler only removes the backup; after it has started it restores
\* it (and unlinks what it published when there was nothing to restore).
CommitFails ==
    /\ faults < MaxFault /\ faults' = faults + 1
    /\ \/ /\ pc \in {"save", "draft", "ready"}
          /\ bak' = [bak EXCEPT !.draft = FALSE]
          /\ Go("drop") /\ caller' = "failed"
       \/ /\ pc \in {"hide", "payload"} /\ UNCHANGED bak
          /\ Go(IF bak.state = "none" THEN "wipe" ELSE "prepare")
          /\ caller' = "rollback"
    /\ UNCHANGED <<final, tmp, work, result, staged, gen, known, crashes>>

\* A rename of the restore fails: its temporaries go, the backup stays.
RestoreFails ==
    /\ faults < MaxFault /\ faults' = faults + 1
    /\ pc = "put" /\ i <= Len(Keys) /\ Keys[i] \in bak.keys
    /\ tmp' = Nothing /\ Go("mark")
    /\ UNCHANGED <<final, bak, work, caller, result, staged, gen, known, crashes>>

----------------------------------------------------------------------------
(* The publisher's exit handlers, and the kill that skips them.            *)

Unstage ==
    /\ pc = "unstage"
    /\ \/ /\ staged /\ <<"reserved", "staging">> \in work
          /\ work' = (work \ {<<"reserved", "staging">>})
                          \cup {<<"unmarked", "staging">>}
       \/ /\ staged /\ <<"unmarked", "staging">> \in work
          /\ work' = work \ {<<"unmarked", "staging">>}
    /\ UNCHANGED <<final, tmp, bak, pc, i, caller, result, staged, gen, known, bounds>>

Return ==
    /\ pc = "unstage"
    /\ staged =>
           work \cap {<<"reserved", "staging">>, <<"unmarked", "staging">>} = {}
    /\ pc' = "idle"
    /\ known' = IF result \in {"published", "reused"} THEN final["summary"]
                ELSE known
    /\ UNCHANGED <<disk, i, caller, staged, result, gen, bounds>>

Crash ==
    /\ pc # "idle" /\ crashes < MaxCrash
    /\ pc' = "idle" /\ i' = 1 /\ caller' = "none" /\ result' = "killed"
    /\ staged' = FALSE /\ crashes' = crashes + 1
    /\ UNCHANGED <<disk, gen, known, faults>>

Step == \/ Scan \/ PrepareRefused \/ Prepare \/ Wipe \/ Put \/ Restored
        \/ Mark \/ Remark \/ Drop \/ Dropped \/ CleanRefused \/ Clean
        \/ Sweep \/ Swept \/ Decide \/ Stage \/ Reserve \/ Save \/ Draft
        \/ Ready \/ Hide \/ Replace \/ Committed \/ Unstage \/ Return

Next == \/ Publish \/ CommitDirectly \/ Step
        \/ CommitFails \/ RestoreFails \/ Crash

Fairness == WF_vars(Publish) /\ WF_vars(Step)

Spec == Init /\ [][Next]_vars /\ Fairness
----------------------------------------------------------------------------
(* Properties.                                                             *)

\* While both completion markers are visible no payload of another generation
\* is: the markers are unlinked before the first payload is replaced and come
\* last on commit and on restore, whatever kill or failure comes in between.
MarkersNeverMix ==
    Marked => \A k \in K : final[k] \in {0, final["summary"]}

Copies(g) == bak.state # "none" /\ bak.copy = [k \in K |-> g]

\* A generation a caller was told is in place is never lost: it or a later
\* one is whole, in the files or in the copies of the rollback directory,
\* through kills in the backup, the commit, the restore and the removals.
NothingLost ==
    known # 0 =>
        \E g \in known..gen : final = [k \in K |-> g] \/ Copies(g)

\* What makes every later session refuse: evidence without its state file or
\* its marker, a half-removed staging directory, or both markers over
\* missing payloads, in place or in the backup that would be restored.
NeedsOperator ==
    \/ Unauthenticated
    \/ <<"unmarked", "staging">> \in work
    \/ LET source == IF bak.state = "none" THEN final ELSE bak.hash
       IN  MarkedIn(source) /\ ~WholeIn(source)

\* Sessions that are re-run end with a whole generation in place, unless the
\* kill left a disk that only an operator may repair; a restore that was
\* itself killed does not block the next ones for ever.
Settles == <>[](pc = "idle" => Whole \/ NeedsOperator)

\* The repository's test: "publication after a hard exit recomputes and
\* completes a clean generation".
HardExitCompletes == <>[](pc = "idle" => Whole)
=============================================================================
