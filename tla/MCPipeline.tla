----------------------------- MODULE MCPipeline -----------------------------
(* A level's windows and the slots that optimize one of them, on small      *)
(* instances, one at a time: `subject` says which.                          *)
(*                                                                          *)
(* "slots": a failure while a worker restores its slot leaves the pool      *)
(* stuck: such runs are kept apart, so that everything else can be shown to *)
(* end.  "windows": two levels of single- and multi-penalty sets, more than *)
(* the host tier holds; the call starts fresh or warm.                      *)
EXTENDS SlotPool

CONSTANTS
    Subjects, Key, SinglePenalty, SingleCapacity, MultiCapacity, HostCapacity,
    Levels, Width, WaveCap, Starts

VARIABLES
    subject,
    restores,   \* can no restore fail in this run
    opts, level, todo, hand, window, pending, async, wave, states, cache,
    windowPc

Restoring == INSTANCE SlotPool WITH MayFail <- Steps \ {"restore"}

Windows == INSTANCE PrefillPipeline WITH pc <- windowPc

windowVars == <<opts, level, todo, hand, window, pending, async, wave, states,
                cache, windowPc>>
all == <<subject, restores, vars, windowVars>>

ASSUME Windows!KeyAssumption /\ Windows!CapacityAssumption
ASSUME Windows!LevelsAssumption /\ Windows!WidthAssumption
ASSUME Windows!WaveAssumption /\ Windows!StartsAssumption
ASSUME Windows!NoneAssumption

AnyFault == Steps

SmallLevels == << <<1, 2, 3>>, <<4, 5, 6>> >>
UnitWidth == [k \in Key |-> 1]
Small == {1, 2, 3}

-----------------------------------------------------------------------------
MCInit ==
    /\ subject \in Subjects /\ restores \in BOOLEAN
    /\ Init /\ Windows!Init
    /\ subject # "slots" => restores
    /\ subject # "windows" =>
          \A o \in DOMAIN opts : opts[o] <=> o = "fresh"

SlotsStep ==
    /\ subject = "slots"
    /\ IF restores THEN Restoring!Next ELSE Next
    /\ UNCHANGED <<subject, restores, windowVars>>

WindowsStep ==
    /\ subject = "windows"
    /\ Windows!Next
    /\ UNCHANGED <<subject, restores, vars>>

MCSpec ==
    /\ MCInit /\ [][SlotsStep \/ WindowsStep]_all
    /\ WF_all(/\ subject = "slots" /\ restores /\ Restoring!MainStep
              /\ UNCHANGED <<subject, restores, windowVars>>)
    /\ WF_all(/\ subject = "slots" /\ restores /\ Restoring!Execute
              /\ UNCHANGED <<subject, restores, windowVars>>)
    /\ \A s \in Slot :
          WF_all(/\ subject = "slots" /\ restores /\ Restoring!Worker(s)
                 /\ UNCHANGED <<subject, restores, windowVars>>)
    /\ WF_all(/\ subject = "windows" /\ Windows!Main
              /\ UNCHANGED <<subject, restores, vars>>)
    /\ WF_all(/\ subject = "windows" /\ Windows!Optimize
              /\ UNCHANGED <<subject, restores, vars>>)

(* Only the runs in which the restore may fail.                             *)
RestoreMayFail ==
    /\ MCInit /\ subject = "slots" /\ ~restores
    /\ [][SlotsStep]_all
    /\ WF_vars(MainStep) /\ WF_vars(Execute)
    /\ \A s \in Slot : WF_vars(Worker(s))

-----------------------------------------------------------------------------
(* Whatever else fails, the layer ends: cancellation reaches every worker   *)
(* and nobody waits for a mutex or an event for ever.                       *)
EndsIfRestored ==
    <>(subject = "slots" /\ restores => main \in {"returned", "thrown"})

(* Whatever get() throws half-way and however the callers interleave, the   *)
(* containers of NativeSetupCache agree, both tiers evict in one order, a   *)
(* handle belongs to a cached context, a window is new, none of the guards  *)
(* between the cache and its users fires, and nothing is open at the end;   *)
(* and with fresh caches the frontier starts only when every group of the   *)
(* level has been optimized and no optimizer is left running.               *)
PrefillSound ==
    /\ Windows!CacheConsistent /\ Windows!DeviceIsMostRecent
    /\ Windows!HandlesAreCached /\ Windows!WindowIsNew
    /\ Windows!NoRefusal /\ Windows!ClosedAtEnd
    /\ Windows!LevelPrefilled

(* A window handed to the optimizer is collected or joined.                 *)
WindowCollected == Windows!WindowCollected
=============================================================================
