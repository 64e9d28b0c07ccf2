----------------------------- MODULE SetupCache -----------------------------
(***************************************************************************)
(* NativeSetupCache: the two-tier cache of prepared conditioning sets.     *)
(*                                                                         *)
(* A key stands for a conditioning set and for its context object: no two  *)
(* contexts of one set are ever in use together, because the prefill       *)
(* visits each set of a level once and a wave holds distinct sets.  The    *)
(* cache is a record                                                       *)
(*   order      the device tier's LRU list of each penalty class           *)
(*   entries    entries_, the keys of the device tier                      *)
(*   live       live_conditioning_keys_                                    *)
(*   hostOrder  host_order_                                                *)
(*   host       the keys of host_entries_                                  *)
(*   fixed      the contexts that have a fixed_sp handle                   *)
(*   multi      the contexts that have a multi_penalty handle              *)
(* Lists are most recent first.  Counters and timings are left out.        *)
(***************************************************************************)
EXTENDS Naturals, Sequences, FiniteSets, SequencesExt

CONSTANTS
    Key,                \* conditioning sets
    SinglePenalty,      \* the ones with one penalty (at most two members)
    SingleCapacity,     \* kSinglePenaltyPreparedCacheCapacity = 2048
    MultiCapacity,      \* kMultiPenaltyPreparedCacheCapacity = 8192
    HostCapacity        \* kHostPreparedCacheCapacity = 16384

KeyAssumption == SinglePenalty \subseteq Key
CapacityAssumption ==
    /\ SingleCapacity \in Nat \ {0} /\ MultiCapacity \in Nat \ {0}
    /\ HostCapacity \in Nat /\ HostCapacity > SingleCapacity + MultiCapacity

Class == {"single", "multi"}
ClassOf(k) == IF k \in SinglePenalty THEN "single" ELSE "multi"
Capacity(class) == IF class = "single" THEN SingleCapacity ELSE MultiCapacity

EmptyCache ==
    [order |-> [c \in Class |-> <<>>], entries |-> {}, live |-> {},
     hostOrder |-> <<>>, host |-> {}, fixed |-> {}, multi |-> {}]

\* A list is erased from by position: an entry keeps its iterator.
Touch(list, k) ==
    <<k>> \o RemoveAt(list, CHOOSE i \in DOMAIN list : list[i] = k)

close_context(c, k) == [c EXCEPT !.fixed = @ \ {k}, !.multi = @ \ {k}]

touch_host(c, k) == [c EXCEPT !.hostOrder = Touch(@, k)]

(* Drops the least recent context that is not on the device.               *)
evict_host_one(c) ==
    LET dormant == {i \in DOMAIN c.hostOrder : c.hostOrder[i] \notin c.entries}
        candidate == CHOOSE i \in dormant : \A j \in dormant : j <= i
    IN  [c EXCEPT !.hostOrder = RemoveAt(@, candidate),
                  !.host = @ \ {c.hostOrder[candidate]}]

MutEvictKeepsLive(c, class) ==
    LET victim == Last(c.order[class])
    IN  close_context([c EXCEPT !.order[class] = Front(@),
                                !.entries = @ \ {victim}], victim)

evict_one(c, class) ==
    LET victim == Last(c.order[class])
    IN  close_context([c EXCEPT !.order[class] = Front(@),
                                !.entries = @ \ {victim},
                                !.live = @ \ {victim}], victim)

HostRoom(c) ==
    IF Cardinality(c.host) >= HostCapacity THEN evict_host_one(c) ELSE c
DeviceRoom(c, class) ==
    IF Len(c.order[class]) >= Capacity(class) THEN evict_one(c, class) ELSE c

OnDevice(c, k) ==
    [c EXCEPT !.order[ClassOf(k)] = <<k>> \o @,
              !.entries = @ \cup {k}, !.live = @ \cup {k}]

DeviceHit(c, k) ==
    touch_host([c EXCEPT !.order[ClassOf(k)] = Touch(@, k)], k)

(* rehydrate_native_context gives the context its device handle again.     *)
HostHit(c, k) ==
    touch_host([OnDevice(DeviceRoom(c, ClassOf(k)), k)
                    EXCEPT !.fixed = @ \cup {k}], k)

(* build_native_context creates the handle unless that is deferred.        *)
Miss(c, k, deferred) ==
    LET new == OnDevice(DeviceRoom(HostRoom(c), ClassOf(k)), k)
    IN  [new EXCEPT !.hostOrder = <<k>> \o @,
                    !.host = @ \cup {k},
                    !.fixed = IF deferred THEN @ ELSE @ \cup {k}]

get(c, k, deferred) ==
    IF k \in c.entries THEN DeviceHit(c, k)
    ELSE IF k \in c.host THEN HostHit(c, k)
    ELSE Miss(c, k, deferred)

(* What a get leaves behind that throws: rehydration fails after the       *)
(* device eviction, a build after the host eviction.                       *)
GetFails(c, k) ==
    IF k \in c.host THEN DeviceRoom(c, ClassOf(k)) ELSE HostRoom(c)

(* materialize_new_native_context_device, unless the handle exists.        *)
materialize_device(c, k) == [c EXCEPT !.fixed = @ \cup {k}]

(* Only the contexts of the device tier are closed.                        *)
clear(c) ==
    [EmptyCache EXCEPT !.fixed = c.fixed \ c.entries,
                       !.multi = c.multi \ c.entries]

-----------------------------------------------------------------------------
CacheType(c) ==
    /\ DOMAIN c.order = Class
    /\ \A class \in Class : c.order[class] \in Seq(Key)
    /\ c.hostOrder \in Seq(Key)
    /\ \A s \in {c.entries, c.live, c.host, c.fixed, c.multi} : s \subseteq Key

(* The lists, the maps and the set of live conditioning keys of one cache  *)
(* describe the same contents within their capacities, and every device    *)
(* entry has its host entry.                                               *)
Consistent(c) ==
    /\ \A class \in Class :
          /\ IsInjective(c.order[class])
          /\ ToSet(c.order[class]) =
                {k \in c.entries : ClassOf(k) = class}
          /\ Len(c.order[class]) <= Capacity(class)
    /\ c.live = c.entries
    /\ IsInjective(c.hostOrder) /\ ToSet(c.hostOrder) = c.host
    /\ Cardinality(c.host) <= HostCapacity
    /\ c.entries \subseteq c.host

Ahead(list, a, b) ==
    \E i, j \in DOMAIN list : i < j /\ list[i] = a /\ list[j] = b

(* The device tier of a class holds the most recently used contexts of     *)
(* that class, in the order of the host tier.                              *)
MostRecent(c) ==
    \A a \in c.host : \A b \in c.entries :
        ClassOf(a) = ClassOf(b) /\ Ahead(c.hostOrder, a, b) =>
            a \in c.entries /\ Ahead(c.order[ClassOf(b)], a, b)
=============================================================================
