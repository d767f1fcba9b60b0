------------------------------ MODULE HttpCache ------------------------------
(***************************************************************************)
(* HttpCache of src/cache.cpp: an LRU list of entries, an index of their   *)
(* keys and the memory they are charged for.  Every operation holds        *)
(* mutex_, so each is one step.  A response is a record of what the cache  *)
(* looks at: its size, the directives of its Cache-Control header, -1 for  *)
(* an age that is not given, and whether the backend spells the name that  *)
(* way: headers.find() tells upper case from lower.                        *)
(***************************************************************************)
EXTENDS Integers, SequencesExt

CONSTANTS
    Keys,
    MaxEntries,              \* Config::max_entries
    MaxMemory,               \* Config::max_memory_bytes
    DefaultTtl,              \* Config::default_ttl
    StaleWhileRevalidate,    \* Config::stale_while_revalidate
    HasCallback              \* a revalidation callback was installed

VARIABLES
    lru_list_,               \* entries, the most recently used first
    index_,                  \* the keys index_ holds
    current_memory_,
    stats_,                  \* current_entries and current_bytes
    clock,                   \* std::chrono::steady_clock
    revalidations,           \* callbacks made and not finished, for each key
    recency                  \* history: the pairs of keys whose first was used last

cacheVars == <<lru_list_, index_, current_memory_, stats_, clock, revalidations, recency>>

ASSUME CacheAssumption ==
    /\ {MaxEntries, MaxMemory, DefaultTtl, StaleWhileRevalidate} \subseteq Nat
    /\ HasCallback \in BOOLEAN

CacheInit ==
    /\ lru_list_ = <<>>
    /\ index_ = {}
    /\ current_memory_ = 0
    /\ stats_ = [current_entries |-> 0, current_bytes |-> 0]
    /\ clock = 0
    /\ revalidations = [k \in Keys |-> 0]
    /\ recency = {}

EntrySize(e) == e.response.size
TotalSize(list) ==
    LET upTo[n \in 0..Len(list)] == IF n = 0 THEN 0 ELSE upTo[n - 1] + EntrySize(list[n])
    IN  upTo[Len(list)]

Position(key) == CHOOSE i \in DOMAIN lru_list_ : lru_list_[i].key = key
EntryOf(key) == lru_list_[Position(key)]
Without(key) == IF key \in index_ THEN RemoveAt(lru_list_, Position(key)) ELSE lru_list_
Used(key) == recency' = {p \in recency : p[2] # key} \cup ({key} \X (Keys \ {key}))

(* What every operation that adds or removes an entry stores in stats_.     *)
RecordStats == stats_' = [current_entries |-> Cardinality(index_'), current_bytes |-> current_memory_']

(* Fault: a hit leaves its entry where it is. *)
LeftInPlace(key, e) == lru_list_' = [lru_list_ EXCEPT ![Position(key)] = e]

(* lru_list_.splice(begin, ...) of the entry, with the new flag.            *)
MoveToFront(key, e) == lru_list_' = <<e>> \o Without(key)

GetMiss(key) == key \notin index_ /\ UNCHANGED cacheVars

GetFresh(key) ==
    /\ key \in index_
    /\ clock < EntryOf(key).expires
    /\ MoveToFront(key, EntryOf(key))
    /\ Used(key)
    /\ UNCHANGED <<index_, current_memory_, stats_, clock, revalidations>>

GetStale(key) ==
    /\ key \in index_
    /\ clock >= EntryOf(key).expires /\ clock < EntryOf(key).stale_expires
    /\ MoveToFront(key, [EntryOf(key) EXCEPT !.revalidating = @ \/ HasCallback])
    /\ revalidations' = IF HasCallback /\ ~EntryOf(key).revalidating
                        THEN [revalidations EXCEPT ![key] = @ + 1] ELSE revalidations
    /\ Used(key)
    /\ UNCHANGED <<index_, current_memory_, stats_, clock>>

(* The entry leaves list, index and memory count.                           *)
DropEntry(key) ==
    /\ lru_list_' = Without(key)
    /\ index_' = index_ \ {key}
    /\ current_memory_' = current_memory_ - EntrySize(EntryOf(key))
    /\ RecordStats
    /\ UNCHANGED <<clock, revalidations, recency>>

GetExpired(key) == key \in index_ /\ clock >= EntryOf(key).stale_expires /\ DropEntry(key)

Invalidate(key) == key \in index_ /\ DropEntry(key)

Clear ==
    /\ lru_list_' = <<>> /\ index_' = {} /\ current_memory_' = 0
    /\ RecordStats
    /\ UNCHANGED <<clock, revalidations, recency>>

(* What the code finds in the header, if it finds the header.               *)
NoDirectives == [no_store |-> FALSE, private_ |-> FALSE, s_maxage |-> -1, max_age |-> -1]
Directives(r) ==
    IF r.spelled THEN [d \in DOMAIN NoDirectives |-> r[d]] ELSE NoDirectives

(* Fault: max-age is preferred to s-maxage. *)
TtlMaxAgeFirst(r, ttl) ==
    LET cc == Directives(r)
        asked == IF cc.max_age >= 0 THEN cc.max_age
                 ELSE IF cc.s_maxage >= 0 THEN cc.s_maxage ELSE ttl
    IN  IF asked = 0 THEN DefaultTtl ELSE asked

(* The lifetime put() gives a response: s-maxage, max-age or what the       *)
(* caller asks for, and the default in place of zero.                       *)
TtlFor(r, ttl) ==
    LET cc == Directives(r)
        asked == IF cc.s_maxage >= 0 THEN cc.s_maxage
                 ELSE IF cc.max_age >= 0 THEN cc.max_age ELSE ttl
    IN  IF asked = 0 THEN DefaultTtl ELSE asked

NewEntry(key, r, ttl) ==
    LET expires == clock + TtlFor(r, ttl)
    IN  [key |-> key, response |-> r, created |-> clock, expires |-> expires,
         stale_expires |-> expires + StaleWhileRevalidate, revalidating |-> FALSE]

(* The eviction loop: how many entries remain when the last ones are        *)
(* dropped until one of the given size fits, or none is left.               *)
Kept(list, memory, size) ==
    LET left(n) == memory - TotalSize(SubSeq(list, n + 1, Len(list)))
    IN  Max({n \in 0..Len(list) : n = 0 \/ (n < MaxEntries /\ left(n) + size <= MaxMemory)})

(* Fault: the entry that is replaced stays charged. *)
StoreLeaksOld(key, r, ttl) ==
    LET others == Without(key)
        n == Kept(others, current_memory_, r.size)
        victims == SubSeq(others, n + 1, Len(others))
    IN  /\ lru_list_' = <<NewEntry(key, r, ttl)>> \o SubSeq(others, 1, n)
        /\ index_' = (index_ \ {e.key : e \in ToSet(victims)}) \cup {key}
        /\ current_memory_' = current_memory_ - TotalSize(victims) + r.size
        /\ RecordStats /\ Used(key) /\ UNCHANGED clock

(* put() of a response that may be stored: replace, evict, insert in front. *)
Store(key, r, ttl) ==
    LET others == Without(key)
        freed == IF key \in index_ THEN EntrySize(EntryOf(key)) ELSE 0
        n == Kept(others, current_memory_ - freed, r.size)
        victims == SubSeq(others, n + 1, Len(others))
    IN  /\ lru_list_' = <<NewEntry(key, r, ttl)>> \o SubSeq(others, 1, n)
        /\ index_' = (index_ \ {e.key : e \in ToSet(victims)}) \cup {key}
        /\ current_memory_' = current_memory_ - freed - TotalSize(victims) + r.size
        /\ RecordStats /\ Used(key) /\ UNCHANGED clock

Put(key, r, ttl) ==
    \/ ~Directives(r).no_store /\ Store(key, r, ttl) /\ UNCHANGED revalidations
    \/ Directives(r).no_store /\ UNCHANGED cacheVars

(* The work a callback started ends, with a new response or with none.      *)
RevalidationEnds(key) ==
    /\ revalidations[key] > 0
    /\ revalidations' = [revalidations EXCEPT ![key] = @ - 1]

Revalidated(key, r) == RevalidationEnds(key) /\ ~Directives(r).no_store /\ Store(key, r, 0)

RevalidationFails(key) ==
    RevalidationEnds(key) /\ UNCHANGED <<lru_list_, index_, current_memory_, stats_, clock, recency>>

Age == clock' = clock + 1 /\ UNCHANGED <<lru_list_, index_, current_memory_, stats_, revalidations, recency>>

-----------------------------------------------------------------------------
(* List, index, memory and statistics describe the same entries: put()      *)
(* replaces, evict_lru() and an expired get() remove in all four places.    *)
CacheConsistent ==
    /\ index_ = {e.key : e \in ToSet(lru_list_)}
    /\ Len(lru_list_) = Cardinality(index_)
    /\ current_memory_ = TotalSize(lru_list_)
    /\ stats_ = [current_entries |-> Len(lru_list_), current_bytes |-> current_memory_]

(* The limits of the configuration hold, except that a single entry may be  *)
(* larger than the memory allowed.                                          *)
CacheBounded ==
    /\ Len(lru_list_) <= IF MaxEntries = 0 THEN 1 ELSE MaxEntries
    /\ current_memory_ <= MaxMemory \/ Len(lru_list_) = 1

(* The list is in the order of last use, hits on stale entries included.    *)
InOrderOfUse ==
    \A i, j \in DOMAIN lru_list_ : i < j => <<lru_list_[i].key, lru_list_[j].key>> \in recency
=============================================================================
