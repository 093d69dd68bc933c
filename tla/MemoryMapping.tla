--------------------------- MODULE MemoryMapping ---------------------------
(***************************************************************************)
(* MemoryMapping (memory_region.rs) over both of its implementations:      *)
(* UnalignedMemoryMapping, which searches the regions in Eytzinger order   *)
(* behind a small cache, and AlignedMemoryMapping, which indexes them by   *)
(* the upper half of the address.  Loads, stores and the translations of   *)
(* syscalls change the cache; an access that is refused may let the access *)
(* violation handler replace the region.                                   *)
(*                                                                         *)
(* Regions are a function from 0, as in the code.                          *)
(***************************************************************************)
EXTENDS MemoryRegion, FiniteSets

CONSTANTS
    Regions,            \* the regions the host backs with memory
    RegionSets,         \* those it may construct a mapping of
    AccessAddrs, AccessLens,    \* addresses and lengths of an access
    CacheSize           \* MappingCache::SIZE

ASSUME MappingAssumption ==
    /\ \A r \in Regions : IsRegion(r)
    /\ RegionSets \subseteq SUBSET Regions /\ \A S \in RegionSets : IsFiniteSet(S)
    /\ AccessAddrs \subseteq Addrs /\ AccessLens \subseteq Addrs \ {0}
    /\ CacheSize \in Nat \ {0}

VARIABLES
    given,                      \* the regions passed to the constructor
    kind,                       \* which implementation
    allow_memory_region_zero,
    state,                      \* "new", "aligning", "ready" or "invalid"
    regions,
    region_addresses, region_index_lookup,
    entries, head,              \* MappingCache
    expected_region_index       \* of the aligned constructor's loop

unalignedVars == <<region_addresses, region_index_lookup, entries, head>>
vars == <<given, kind, allow_memory_region_zero, state, regions, unalignedVars,
          expected_region_index>>

Count == Cardinality(DOMAIN regions)

(* What regions.sort() may leave: regions of equal vm_addr are equal to it. *)
Sorted(S) ==
    {f \in [0..Cardinality(S)-1 -> S] :
        \A i, k \in DOMAIN f : i < k => f[i] # f[k] /\ f[i].vm_addr <= f[k].vm_addr}

-----------------------------------------------------------------------------
(* MappingCache                                                            *)

NoEntries == [i \in 0..CacheSize-1 |-> [first |-> 0, end |-> 0, index |-> 0]]

Covers(e, vm_addr) == e.first <= vm_addr /\ vm_addr < e.end

(* The scan starts at head, so the newest entry that covers it is used.    *)
CacheHit(vm_addr) == \E i \in 0..CacheSize-1 : Covers(entries[i], vm_addr)
CacheFind(vm_addr) ==
    LET at(i) == entries[(head + i) % CacheSize]
        i == CHOOSE i \in 0..CacheSize-1 :
                /\ Covers(at(i), vm_addr)
                /\ \A k \in 0..i-1 : ~Covers(at(k), vm_addr)
    IN  at(i).index

CacheInsert(first, end, index) ==
    LET h == (head - 1) % CacheSize
    IN  /\ head' = h
        /\ entries' = [entries EXCEPT ![h] = [first |-> first, end |-> end, index |-> index]]

CacheFlush == entries' = NoEntries /\ head' = 0

-----------------------------------------------------------------------------
(* UnalignedMemoryMapping                                                  *)

(* The in-order walk over the implicit tree whose node `out' has the       *)
(* children 2*out+1 and 2*out+2: which region each node gets, and the      *)
(* region the walk goes on with.                                           *)
Visit(left_walk, right_walk, out, in_index) ==
    LET left  == left_walk[in_index]
        right == right_walk[left.next + 1]
    IN  [next |-> right.next,
         lookup |-> [o \in DOMAIN left.lookup \cup {out} \cup DOMAIN right.lookup |->
                        IF o = out THEN left.next
                        ELSE IF o \in DOMAIN left.lookup THEN left.lookup[o]
                        ELSE right.lookup[o]]]

EytzingerWalk(n) ==
    LET walk[out \in Nat] ==
            [in_index \in Nat |->
                IF out >= n THEN [next |-> in_index, lookup |-> << >>]
                ELSE Visit(walk[2*out + 1], walk[2*out + 2], out, in_index)]
    IN  walk

construct_eytzinger_order(n) == EytzingerWalk(n)[0][0].lookup

(* The descent of find_region, which ends below the tree, and the way back *)
(* to the last node where it turned right: 0 if there is none.             *)
Descend(n, addresses, vm_addr) ==
    LET descend[i \in 1..2*n + 1] ==
            IF i > n THEN i
            ELSE descend[2*i + IF addresses[i - 1] <= vm_addr THEN 1 ELSE 0]
    IN  descend

Strip(n) ==
    LET strip[i \in 1..2*n + 1] == IF i % 2 = 0 THEN strip[i \div 2] ELSE i \div 2
    IN  strip

EytzingerSearch(vm_addr) ==
    Strip(Count)[Descend(Count, region_addresses, vm_addr)[1]]

NoRegion == -1

FindUnaligned(vm_addr) ==
    IF CacheHit(vm_addr) THEN CacheFind(vm_addr)
    ELSE LET index == EytzingerSearch(vm_addr)
         IN  IF index = 0 THEN NoRegion ELSE region_index_lookup[index - 1]

NewUnaligned ==
    /\ state = "new" /\ kind = "unaligned"
    /\ regions' \in Sorted(given)
    /\ LET n == Cardinality(given)
           lookup == construct_eytzinger_order(n)
       IN  IF \E i \in 1..n-1 : RangeEnd(regions'[i - 1]) > regions'[i].vm_addr
           THEN /\ state' = "invalid"
                /\ UNCHANGED <<region_addresses, region_index_lookup>>
           ELSE /\ state' = "ready"
                /\ region_index_lookup' = lookup
                /\ region_addresses' = [i \in 0..n-1 |-> regions'[lookup[i]].vm_addr]
    /\ UNCHANGED <<given, kind, allow_memory_region_zero, entries, head,
                   expected_region_index>>

-----------------------------------------------------------------------------
(* AlignedMemoryMapping                                                    *)

NewAligned ==
    /\ state = "new" /\ kind = "aligned"
    /\ regions' \in Sorted(given)
    /\ state' = "aligning"
    /\ UNCHANGED <<given, kind, allow_memory_region_zero, unalignedVars,
                   expected_region_index>>

InsertRegion(rs, at, r) ==
    [i \in 0..Cardinality(DOMAIN rs) |->
        IF i < at THEN rs[i] ELSE IF i = at THEN r ELSE rs[i - 1]]

(* One turn of the loop that fills the slots no region was given for.      *)
AlignTurn ==
    /\ state = "aligning" /\ allow_memory_region_zero
    /\ expected_region_index < Count
    /\ LET actual == Slot(regions[expected_region_index].vm_addr)
       IN  /\ regions' = IF actual > expected_region_index
                         THEN InsertRegion(regions, expected_region_index,
                                  EmptyRegion(expected_region_index * RegionSize))
                         ELSE regions
           /\ state' = IF actual < expected_region_index THEN "invalid" ELSE state
           /\ expected_region_index' = IF actual < expected_region_index
                                       THEN expected_region_index
                                       ELSE expected_region_index + 1
    /\ UNCHANGED <<given, kind, allow_memory_region_zero, unalignedVars>>

AlignDone ==
    /\ state = "aligning" /\ allow_memory_region_zero
    /\ expected_region_index >= Count
    /\ state' = "ready"
    /\ UNCHANGED <<given, kind, allow_memory_region_zero, regions, unalignedVars,
                   expected_region_index>>

(* Without region zero an empty region takes its place, ahead of any other *)
(* at address 0, and no slot may be missing.                               *)
AlignWithoutZero ==
    /\ state = "aligning" /\ ~allow_memory_region_zero
    /\ regions' = InsertRegion(regions, 0, EmptyRegion(0))
    /\ state' = IF \A i \in DOMAIN regions' : Slot(regions'[i].vm_addr) = i
                THEN "ready" ELSE "invalid"
    /\ UNCHANGED <<given, kind, allow_memory_region_zero, unalignedVars,
                   expected_region_index>>

FindAligned(vm_addr) ==
    IF Slot(vm_addr) < Count /\ (Slot(vm_addr) > 0 \/ allow_memory_region_zero)
    THEN Slot(vm_addr) ELSE NoRegion

-----------------------------------------------------------------------------
(* MemoryMapping                                                           *)

find_region(vm_addr) ==
    IF kind = "aligned" THEN FindAligned(vm_addr) ELSE FindUnaligned(vm_addr)

(* What a search leaves in the cache.                                      *)
RememberSearch(vm_addr) ==
    IF kind = "aligned" \/ CacheHit(vm_addr) \/ FindUnaligned(vm_addr) = NoRegion
    THEN UNCHANGED <<entries, head>>
    ELSE LET r == regions[FindUnaligned(vm_addr)]
         IN  CacheInsert(r.vm_addr, RangeEnd(r), FindUnaligned(vm_addr))

map(access, vm_addr, len) ==
    IF find_region(vm_addr) = NoRegion THEN NoAddr
    ELSE vm_to_host(regions[find_region(vm_addr)], access, vm_addr, len)

(* The virtual address the region after `index' starts at.                 *)
NextStart(index) ==
    IF index + 1 < Count THEN regions[index + 1].vm_addr ELSE MaxAddr

(* The last address of a region, and whether it is in the slot the region  *)
(* starts in.                                                              *)
LastAddr(r) == Saturating(r.vm_addr + IF r.len = 0 THEN 0 ELSE r.len - 1)
InSlot(r) == Slot(LastAddr(r)) = Slot(r.vm_addr)

(* Mutant: a region may grow over the next one.                            *)
ReplaceableOverNext(index, region) ==
    /\ index < Count
    /\ regions[index].vm_addr = region.vm_addr

(* The checks of replace_region, and of its aligned implementation.        *)
Replaceable(index, region) ==
    /\ index < Count
    /\ regions[index].vm_addr = region.vm_addr
    /\ RangeEnd(region) <= NextStart(index)
    /\ kind = "aligned" => Slot(region.vm_addr) = index /\ Slot(LastAddr(region)) = index

DoReplace(index, region) ==
    /\ regions' = [regions EXCEPT ![index] = region]
    /\ IF kind = "unaligned" THEN CacheFlush ELSE UNCHANGED <<entries, head>>

(* A syscall translates an address, or a load or store is not refused:     *)
(* only the cache changes, and the translation itself is `map'.            *)
Map(vm_addr) ==
    /\ state = "ready"
    /\ RememberSearch(vm_addr)
    /\ UNCHANGED <<given, kind, allow_memory_region_zero, state, regions,
                   region_addresses, region_index_lookup, expected_region_index>>

(* A load or a store that is refused.  The handler may leave any region,   *)
(* the old one too.                                                        *)
AccessViolation(access, vm_addr, len) ==
    /\ state = "ready"
    /\ map(access, vm_addr, len) = NoAddr
    /\ find_region(vm_addr) # NoRegion
    /\ LET index == find_region(vm_addr)
       IN  \E region \in Regions \cup {regions[index]} :
              IF /\ vm_to_host(region, access, vm_addr, len) # NoAddr
                 /\ Replaceable(index, region)
              THEN DoReplace(index, region)
              ELSE RememberSearch(vm_addr) /\ UNCHANGED regions
    /\ UNCHANGED <<given, kind, allow_memory_region_zero, state, region_addresses,
                   region_index_lookup, expected_region_index>>

(* The host calls replace_region.                                          *)
ReplaceRegion(index, region) ==
    /\ state = "ready"
    /\ Replaceable(index, region)
    /\ DoReplace(index, region)
    /\ UNCHANGED <<given, kind, allow_memory_region_zero, state, region_addresses,
                   region_index_lookup, expected_region_index>>

Init ==
    /\ given \in RegionSets
    /\ kind \in {"aligned", "unaligned"}
    /\ allow_memory_region_zero \in BOOLEAN
    /\ kind = "unaligned" => allow_memory_region_zero   \* which it ignores
    /\ state = "new"
    /\ regions = << >> /\ region_addresses = << >> /\ region_index_lookup = << >>
    /\ entries = NoEntries /\ head = 0
    /\ expected_region_index = 0

Next ==
    \/ NewUnaligned \/ NewAligned \/ AlignTurn \/ AlignDone \/ AlignWithoutZero
    \/ \E vm_addr \in AccessAddrs : Map(vm_addr)
    \/ \E access \in {"Load", "Store"}, vm_addr \in AccessAddrs, len \in AccessLens :
          AccessViolation(access, vm_addr, len)
    \/ \E index \in DOMAIN regions, region \in Regions : ReplaceRegion(index, region)

Spec == Init /\ [][Next]_vars

-----------------------------------------------------------------------------
(* find_region returns the region whose range an address is in, whatever   *)
(* was cached before and whichever regions have been replaced since.  The  *)
(* Eytzinger search finds what a linear search would, for every address:   *)
(* the last region that starts there or before.                            *)
FindsOwner ==
    state = "ready" =>
        /\ \A i \in DOMAIN regions : \A vm_addr \in vm_addr_range(regions[i]) :
              kind = "unaligned" \/ (Slot(vm_addr) = i /\ (i > 0 \/ allow_memory_region_zero))
                  => find_region(vm_addr) = i
        /\ kind = "unaligned" =>
              \A vm_addr \in Addrs :
                  LET before == {i \in DOMAIN regions : regions[i].vm_addr <= vm_addr}
                  IN  find_region(vm_addr) =
                          IF before = {} THEN NoRegion
                          ELSE CHOOSE i \in before : \A k \in before : k <= i

(* The memory of two regions does not overlap.                             *)
HostApart ==
    \A i, k \in DOMAIN regions : i # k =>
        \/ regions[i].host_addr + regions[i].len <= regions[k].host_addr
        \/ regions[k].host_addr + regions[k].len <= regions[i].host_addr

(* No two virtual addresses are translated to the same byte of the host,   *)
(* as long as the regions the host provides do not share any.              *)
NoAliasing ==
    state = "ready" /\ HostApart =>
        \A a, b \in Addrs : a # b /\ map("Load", a, 1) # NoAddr /\ map("Load", b, 1) # NoAddr
                               => map("Load", a, 1) # map("Load", b, 1)

(* In a region without gaps an access of several bytes reaches the bytes   *)
(* that one access to each of its addresses would, and is refused if one   *)
(* of them would be.  What no constructor checks is that a region does not *)
(* reach the last address nor, if aligned, beyond its slot.                *)
AccessIsBytewise ==
    state = "ready" /\ (kind = "aligned" => \A r \in given : InSlot(r)) =>
        \A access \in {"Load", "Store"}, vm_addr \in Addrs, len \in AccessLens :
            LET r == regions[find_region(vm_addr)]
            IN  /\ map(access, vm_addr, len) # NoAddr
                /\ r.vm_gap_shift = Continuous /\ r.vm_addr + r.len <= MaxAddr
                => \A k \in 0..len-1 :
                      map(access, vm_addr + k, 1) = map(access, vm_addr, len) + k

(* "The gaps are not mapped and accessing them results in an               *)
(* AccessViolation": an access any byte of which is in a gap is refused.   *)
GapsRefused ==
    state = "ready" =>
        \A access \in {"Load", "Store"}, vm_addr \in Addrs, len \in AccessLens :
            map(access, vm_addr, len) # NoAddr =>
                LET r == regions[find_region(vm_addr)]
                IN  \A k \in 0..len-1 :
                        ((vm_addr + k - r.vm_addr) \div 2^r.vm_gap_shift) % 2 = 0

=============================================================================
