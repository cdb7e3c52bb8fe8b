---------------------------- MODULE LookupProofs ----------------------------
(* Proofs about what a step looks up, and whether it is what was put there: the
   rule that a slot's cache has for an address (RuleCaching), the FDE that the index
   of a JIT module has for it (JitIndex), and the sections and the key of the module
   made of an image (Images). Each is a system of its own.

   NoStaleRule says nothing of what the caches hold. CacheInv adds that generations
   in caches and unwinders are below the counter, so that the next one is new; that a
   generation names one list; and that the entries of a cache agree with every
   unwinder of their generation.

   IndexInv strengthens LookupsLineUp by where an index comes from: it is try_new's,
   for the module's own base. That the search then finds the right FDE rests on
   two facts about FDEs that do not overlap: one that starts at the address is the
   only one that covers it, and otherwise the one with the last start below it is
   the only one that can.

   A module of an image is made in one step from what never changes, so that
   SectionsInv only adds where the image is loaded. The work is in the addresses:
   they wrap, at several places of each computation, and Cong, being equal once
   wrapped, is what sums and differences keep. *)
EXTENDS RuleCaching, JitIndex, Images, FiniteSetTheorems, WellFoundedInduction, TLAPS

-----------------------------------------------------------------------------
(* The rule cache                                                          *)

(* Every generation in use was handed out by the counter. *)
Below ==
  /\ \A u \in Live : u.generation < counter
  /\ \A s \in Slots, i \in Indices :
       entries[s][i] # None => entries[s][i].generation < counter

(* A cache entry holds a rule of every unwinder in use with its generation. *)
EntriesAgree ==
  \A s \in Slots, i \in Indices, u \in Live :
    entries[s][i] # None /\ entries[s][i].generation = u.generation
      => entries[s][i].rule \in Possible(u.list, entries[s][i].address)

CacheInv == TypeOK /\ Below /\ GenerationNamesList /\ EntriesAgree /\ NoStaleRule

(* The unwinders in use are unwinders. *)
LEMMA LiveType ==
  ASSUME TypeOK
  PROVE  Live \subseteq Unwinders
BY DEF TypeOK, Live

LEMMA InitCache == Init => CacheInv
<1> SUFFICES ASSUME Init PROVE CacheInv
  OBVIOUS
<1>1. TypeOK
  BY CachingAssumption DEF Init, TypeOK, Indices
<1>2. Live = {}
  BY DEF Init, Live
<1>3. QED
  BY <1>1, <1>2 DEF Init, CacheInv, Below, GenerationNamesList, EntriesAgree, NoStaleRule

LEMMA IndexInRange ==
  ASSUME NEW a \in Addrs
  PROVE  cache_index(a) \in Indices
<1>1. a \in Nat /\ CACHE_ENTRY_COUNT \in Nat /\ CACHE_ENTRY_COUNT > 0
  BY CachingAssumption
<1>2. a % CACHE_ENTRY_COUNT \in 0 .. CACHE_ENTRY_COUNT - 1
  BY <1>1
<1>3. QED
  BY <1>2 DEF cache_index, Indices

(* If no unwinder comes into use, the caches and the history stay and the
   counter does not go back, the invariant is kept. *)
LEMMA NothingNew ==
  ASSUME CacheInv, TypeOK', Live' \subseteq Live, counter' = counter,
         UNCHANGED <<entries, last>>
  PROVE  CacheInv'
<1>1. Below'
  BY DEF CacheInv, Below
<1>2. GenerationNamesList'
  BY DEF CacheInv, GenerationNamesList
<1>3. EntriesAgree'
  BY DEF CacheInv, EntriesAgree, Possible
<1>4. NoStaleRule'
  BY DEF CacheInv, NoStaleRule, Possible
<1>5. QED
  BY <1>1, <1>2, <1>3, <1>4 DEF CacheInv

(* A list with a fresh generation: nothing cached or in use has it. *)
LEMMA FreshGeneration ==
  ASSUME CacheInv, NEW list \in Lists, with_next_generation(list),
         UNCHANGED <<current, walk, entries, last>>
  PROVE  CacheInv'
<1> DEFINE new == [list |-> list, generation |-> counter]
<1>a. TypeOK /\ Below /\ GenerationNamesList /\ EntriesAgree /\ NoStaleRule
  BY DEF CacheInv
<1>b. /\ counter \in Nat /\ counter' = counter + 1 /\ editing' = new
      /\ new.generation = counter /\ new.list = list /\ new \in Unwinders
  BY <1>a, CachingAssumption DEF with_next_generation, TypeOK, Unwinders
<1>1. TypeOK'
  BY <1>a, <1>b, CachingAssumption DEF TypeOK, with_next_generation
<1>2. Live' \subseteq Live \cup {new}
  BY <1>b DEF Live
<1>3. \A u \in Live : u.generation \in Nat /\ u.generation < counter
  BY <1>a, LiveType DEF Below, Unwinders
<1>4. \A s \in Slots, i \in Indices : entries[s][i] # None =>
        entries[s][i].generation \in Nat /\ entries[s][i].generation < counter
  BY <1>a DEF Below, TypeOK, Entries
<1> HIDE DEF new
<1>5. Below'
  <2>1. \A u \in Live' : u.generation < counter'
    BY <1>b, <1>2, <1>3
  <2>2. \A s \in Slots, i \in Indices : entries'[s][i] # None => entries'[s][i].generation < counter'
    BY <1>b, <1>4
  <2>3. QED
    BY <2>1, <2>2 DEF Below
<1>6. GenerationNamesList'
  <2> SUFFICES ASSUME NEW u \in Live', NEW v \in Live', u.generation = v.generation
               PROVE  u.list = v.list
    BY DEF GenerationNamesList
  <2>1. CASE u \in Live /\ v \in Live
    BY <2>1, <1>a DEF GenerationNamesList
  <2>2. CASE u = new \/ v = new
    BY <2>2, <1>b, <1>2, <1>3
  <2>3. QED
    BY <2>1, <2>2, <1>2
<1>7. EntriesAgree'
  <2> SUFFICES ASSUME NEW s \in Slots, NEW i \in Indices, NEW u \in Live',
                      entries[s][i] # None, entries[s][i].generation = u.generation
               PROVE  entries[s][i].rule \in Possible(u.list, entries[s][i].address)
    BY DEF EntriesAgree, Possible
  <2>1. u # new
    BY <1>b, <1>4
  <2>2. u \in Live
    BY <2>1, <1>2
  <2>3. QED
    BY <2>2, <1>a DEF EntriesAgree
<1>8. NoStaleRule'
  BY <1>a DEF NoStaleRule, Possible
<1>9. QED
  BY <1>1, <1>5, <1>6, <1>7, <1>8 DEF CacheInv

LEMMA BeginUpdateKeeps ==
  ASSUME CacheInv, BeginUpdate PROVE CacheInv'
<1>1. CASE current = None
  <2>1. with_next_generation(Empty) /\ UNCHANGED <<current, walk, entries, last>>
    BY <1>1 DEF BeginUpdate
  <2>2. QED
    BY <2>1, FreshGeneration, CachingAssumption
<1>2. CASE current # None
  <2>1. editing' = current /\ UNCHANGED <<counter, current, walk, entries, last>>
    BY <1>2 DEF BeginUpdate
  <2>2. TypeOK'
    BY <2>1 DEF CacheInv, TypeOK
  <2>3. Live' \subseteq Live
    BY <2>1 DEF Live
  <2>4. QED
    BY <2>1, <2>2, <2>3, NothingNew
<1>3. QED
  BY <1>1, <1>2

LEMMA PublishKeeps ==
  ASSUME CacheInv, Publish PROVE CacheInv'
<1>1. TypeOK'
  BY DEF Publish, CacheInv, TypeOK
<1>2. Live' \subseteq Live
  BY DEF Publish, Live
<1>3. QED
  BY <1>1, <1>2, NothingNew DEF Publish

LEMMA BeginWalkKeeps ==
  ASSUME CacheInv, NEW s \in Slots, BeginWalk(s) PROVE CacheInv'
<1>1. TypeOK'
  BY DEF BeginWalk, CacheInv, TypeOK
<1>2. Live' \subseteq Live
  BY DEF BeginWalk, Live, CacheInv, TypeOK
<1>3. QED
  BY <1>1, <1>2, NothingNew DEF BeginWalk

LEMMA EndWalkKeeps ==
  ASSUME CacheInv, NEW s \in Slots, EndWalk(s) PROVE CacheInv'
<1>1. TypeOK'
  BY DEF EndWalk, CacheInv, TypeOK
<1>2. Live' \subseteq Live
  BY DEF EndWalk, Live, CacheInv, TypeOK
<1>3. QED
  BY <1>1, <1>2, NothingNew DEF EndWalk

LEMMA StepHitKeeps ==
  ASSUME CacheInv, NEW s \in Slots, NEW a \in Addrs, NEW readable \in BOOLEAN,
         StepHit(s, a, readable)
  PROVE  CacheInv'
<1> DEFINE e == entries[s][cache_index(a)]
<1>a. TypeOK /\ Below /\ GenerationNamesList /\ EntriesAgree /\ NoStaleRule
  BY DEF CacheInv
<1>b. walk[s] \in Unwinders /\ walk[s] \in Live
  BY <1>a DEF StepHit, TypeOK, Live
<1>c. e \in Entries /\ e # None /\ e.generation = walk[s].generation /\ e.address = a
  BY <1>a, IndexInRange, NoneAssumption DEF StepHit, lookup_hits, TypeOK
<1>d. e.rule \in Rules /\ walk[s].list \in Lists
  BY <1>b, <1>c DEF Entries, Unwinders
<1>e. last' = [last EXCEPT ![s] = [list |-> walk[s].list, address |-> a, rule |-> e.rule,
                                   readable |-> readable]]
  BY DEF StepHit, Did
<1>1. TypeOK'
  <2>1. [list |-> walk[s].list, address |-> a, rule |-> e.rule, readable |-> readable] \in Done
    BY <1>d DEF Done
  <2> HIDE DEF e
  <2>2. last' \in [Slots -> Done \cup {None}]
    BY <2>1, <1>a, <1>e DEF TypeOK
  <2>3. QED
    BY <2>2, <1>a DEF StepHit, TypeOK
<1>2. Below' /\ GenerationNamesList' /\ EntriesAgree'
  <2>1. Live' = Live /\ UNCHANGED <<counter, entries>>
    BY DEF StepHit, Live
  <2>2. QED
    BY <2>1, <1>a DEF Below, GenerationNamesList, EntriesAgree, Possible
<1>3. e.rule \in Possible(walk[s].list, a)
  BY <1>a, <1>b, <1>c, IndexInRange DEF EntriesAgree
<1> HIDE DEF e
<1>4. NoStaleRule'
  BY <1>a, <1>e, <1>3 DEF NoStaleRule, Possible, TypeOK
<1>5. QED
  BY <1>1, <1>2, <1>4 DEF CacheInv

LEMMA StepMissKeeps ==
  ASSUME CacheInv, NEW s \in Slots, NEW a \in Addrs, NEW readable \in BOOLEAN,
         StepMiss(s, a, readable)
  PROVE  CacheInv'
<1> DEFINE fresh == RuleFor[walk[s].list][a]
           rule  == IF fresh = Generic /\ ~readable THEN Fallback ELSE fresh
           ix    == cache_index(a)
           made  == [address |-> a, generation |-> walk[s].generation, rule |-> rule]
<1>a. TypeOK /\ Below /\ GenerationNamesList /\ EntriesAgree /\ NoStaleRule
  BY DEF CacheInv
<1>b. walk[s] \in Unwinders /\ walk[s] \in Live /\ ix \in Indices
  BY <1>a, IndexInRange DEF StepMiss, TypeOK, Live
<1>c. walk[s].list \in Lists /\ walk[s].generation \in Nat /\ walk[s].generation < counter
  BY <1>a, <1>b DEF Unwinders, Below
<1>d. rule \in Rules \cup {Generic} /\ rule \in Possible(walk[s].list, a)
  BY <1>c, CachingAssumption DEF Possible
<1>e. /\ last' = [last EXCEPT ![s] = [list |-> walk[s].list, address |-> a, rule |-> rule,
                                      readable |-> readable]]
      /\ entries' = IF rule = Generic THEN entries ELSE [entries EXCEPT ![s][ix] = made]
      /\ UNCHANGED <<counter, current, editing, walk>>
  BY DEF StepMiss, Did
<1>f. made.address = a /\ made.generation = walk[s].generation /\ made.rule = rule
  OBVIOUS
<1>g. rule # Generic => made \in Entries
  BY <1>c, <1>d DEF Entries
<1>h. [list |-> walk[s].list, address |-> a, rule |-> rule, readable |-> readable] \in Done
  BY <1>c, <1>d DEF Done
<1>i. Live' = Live
  BY <1>e DEF Live
<1> HIDE DEF fresh, rule, ix, made
<1>1. TypeOK'
  <2>1. last' \in [Slots -> Done \cup {None}]
    BY <1>a, <1>e, <1>h DEF TypeOK
  <2>2. entries' \in [Slots -> [Indices -> Entries \cup {None}]]
    BY <1>a, <1>b, <1>e, <1>g DEF TypeOK
  <2>3. QED
    BY <2>1, <2>2, <1>a, <1>e DEF TypeOK
<1>2. \A t \in Slots, i \in Indices :
        entries'[t][i] = entries[t][i] \/ (entries'[t][i] = made /\ rule # Generic)
  BY <1>a, <1>b, <1>e DEF TypeOK
<1>3. Below'
  BY <1>a, <1>c, <1>e, <1>f, <1>i, <1>2 DEF Below
<1>4. GenerationNamesList'
  BY <1>a, <1>i DEF GenerationNamesList
<1>5. EntriesAgree'
  <2> SUFFICES ASSUME NEW t \in Slots, NEW i \in Indices, NEW u \in Live,
                      entries'[t][i] # None, entries'[t][i].generation = u.generation
               PROVE  entries'[t][i].rule \in Possible(u.list, entries'[t][i].address)
    BY <1>i DEF EntriesAgree, Possible
  <2>1. CASE entries'[t][i] = entries[t][i]
    BY <2>1, <1>a DEF EntriesAgree
  <2>2. CASE entries'[t][i] = made
    <3>1. u.list = walk[s].list
      BY <2>2, <1>a, <1>b, <1>f DEF GenerationNamesList
    <3>2. QED
      BY <3>1, <2>2, <1>d, <1>f
  <2>3. QED
    BY <2>1, <2>2, <1>2
<1>6. NoStaleRule'
  BY <1>a, <1>d, <1>e DEF NoStaleRule, Possible, TypeOK
<1>7. QED
  BY <1>1, <1>3, <1>4, <1>5, <1>6 DEF CacheInv

(* Every step of the writer and of the walks keeps the invariant. *)
LEMMA NextCache == CacheInv /\ [Next]_vars => CacheInv'
<1> SUFFICES ASSUME CacheInv, [Next]_vars PROVE CacheInv'
  OBVIOUS
<1>1. CASE BeginUpdate
  BY <1>1, BeginUpdateKeeps
<1>2. CASE Publish
  BY <1>2, PublishKeeps
<1>3. ASSUME NEW list \in Lists, ChangeModules(list) PROVE CacheInv'
  BY <1>3, FreshGeneration DEF ChangeModules
<1>4. ASSUME NEW s \in Slots, BeginWalk(s) PROVE CacheInv'
  BY <1>4, BeginWalkKeeps
<1>5. ASSUME NEW s \in Slots, EndWalk(s) PROVE CacheInv'
  BY <1>5, EndWalkKeeps
<1>6. ASSUME NEW s \in Slots, NEW a \in Addrs, NEW readable \in BOOLEAN, Step(s, a, readable)
      PROVE CacheInv'
  BY <1>6, StepHitKeeps, StepMissKeeps DEF Step
<1>7. CASE UNCHANGED vars
  <2>1. TypeOK' /\ Live' = Live /\ UNCHANGED <<counter, entries, last>>
    BY <1>7 DEF vars, CacheInv, TypeOK, Live
  <2>2. QED
    BY <2>1, NothingNew
<1>8. QED
  BY <1>1, <1>2, <1>3, <1>4, <1>5, <1>6, <1>7 DEF Next

LEMMA CacheInvCorrect == Spec => []CacheInv
BY InitCache, NextCache, PTL DEF Spec

(* For any number of slots and module changes, and any cache size: a step of a
   walk applies only rules that the walk's own snapshot gives (with_cache and
   RuleCache::lookup). *)
THEOREM RuleCacheCorrect == Spec => []NoStaleRule
<1>1. CacheInv => NoStaleRule
  BY DEF CacheInv
<1> QED
  BY CacheInvCorrect, <1>1, PTL

(* A generation in use names one module list: the counter of
   next_modules_generation never comes round, it fails when it is exhausted. *)
THEOREM GenerationsNameLists == Spec => []GenerationNamesList
<1>1. CacheInv => GenerationNamesList
  BY DEF CacheInv
<1> QED
  BY CacheInvCorrect, <1>1, PTL

-----------------------------------------------------------------------------
(* Least and greatest elements                                             *)

LEMMA LeastNatural ==
  ASSUME NEW S \in SUBSET Nat, S # {}
  PROVE  \E n \in S : \A m \in S : n <= m
<1> DEFINE R == {ss \in Nat \X Nat : ss[1] < ss[2]}
<1>1. IsWellFoundedOn(R, Nat)
  BY NatLessThanWellFounded DEF OpToRel
<1> HIDE DEF R
<1>2. PICK n \in S : \A m \in S : ~(<<m, n>> \in R)
  BY <1>1, WFMin
<1>3. \A m \in S : ~(m < n)
  BY <1>2 DEF R
<1> QED
  BY <1>3

LEMMA MinIsLeast ==
  ASSUME NEW S \in SUBSET Nat, S # {}
  PROVE  Min(S) \in S /\ \A m \in S : Min(S) <= m
<1>1. \E n \in S : \A m \in S : n <= m
  BY LeastNatural
<1> QED
  BY <1>1 DEF Min

LEMMA MaxIsGreatest ==
  ASSUME NEW N \in Nat, NEW S \in SUBSET (0 .. N), S # {}
  PROVE  Max(S) \in S /\ \A m \in S : m <= Max(S)
<1> DEFINE U == {n \in Nat : \A m \in S : m <= n}
<1>1. PICK n \in U : \A u \in U : n <= u
  <2>1. U \in SUBSET Nat /\ N \in U
    OBVIOUS
  <2> HIDE DEF U
  <2> QED
    BY <2>1, LeastNatural
<1>2. n \in S
  <2> SUFFICES ASSUME n \notin S PROVE FALSE
    OBVIOUS
  <2>1. n \in Nat /\ \A m \in S : m \in Nat /\ m <= n - 1
    BY <1>1
  <2>2. n - 1 \in Nat
    <3>1. PICK m \in S : TRUE
      OBVIOUS
    <3> QED
      BY <2>1, <3>1
  <2>3. n - 1 \in U
    BY <2>1, <2>2
  <2> QED
    BY <2>1, <2>3, <1>1
<1>3. \E k \in S : \A m \in S : k >= m
  BY <1>1, <1>2
<1>4. Max(S) \in S /\ \A m \in S : Max(S) >= m
  BY <1>3 DEF Max
<1> QED
  BY <1>4

-----------------------------------------------------------------------------
(* The inductive invariant: a module's index is the one that try_new makes for
   the section and the module's range, and fde_pc_range found one. *)
IndexInv ==
  /\ section \in Sections
  /\ module # Nothing =>
       /\ module.lo \in Nat /\ module.hi \in Nat /\ module.hi - module.lo <= U32_MAX
       /\ module.index = try_new(module.lo)
       /\ fde_pc_range # Nothing

LEMMA SectionTyped ==
  ASSUME section \in Sections
  PROVE  /\ \E n \in Nat : Fdes = 1 .. n
         /\ \A f \in Fdes : Begin(f) \in 0 .. Word - 1 /\ Size(f) \in 0 .. Word - 1
         /\ Word \in Nat /\ U32_MAX \in Nat
<1> DEFINE R == [start : 0 .. Word - 1, len : 0 .. Word - 1]
<1>1. section \in [fdes : Seq(R), parses : BOOLEAN] /\ Word \in Nat /\ U32_MAX \in Nat
  <2>1. \A s \in Sections : s \in [fdes : Seq(R), parses : BOOLEAN]
    BY IndexAssumption
  <2>2. Word \in Nat /\ U32_MAX \in 0 .. Word - 1
    BY IndexAssumption
  <2> HIDE DEF R
  <2> QED
    BY <2>1, <2>2
<1>2. \A r \in R : r.start \in 0 .. Word - 1 /\ r.len \in 0 .. Word - 1
  OBVIOUS
<1> HIDE DEF R
<1>3. section.fdes \in Seq(R)
  BY <1>1
<1>4. Len(section.fdes) \in Nat /\ Fdes = 1 .. Len(section.fdes) /\ \A f \in Fdes : section.fdes[f] \in R
  BY <1>3 DEF Fdes
<1> QED
  BY <1>1, <1>2, <1>4 DEF Begin, Size

LEMMA RangeTyped ==
  ASSUME section \in Sections, fde_pc_range # Nothing
  PROVE  fde_pc_range[1] \in Nat /\ fde_pc_range[2] \in Nat
<1> DEFINE L == {Begin(g) : g \in Fdes}
           H == {(Begin(g) + Size(g)) % Word : g \in Fdes}
<1>1. fde_pc_range = <<Min(L), Max(H)>> /\ Fdes # {}
  BY DEF fde_pc_range
<1>2. PICK f \in Fdes : TRUE
  BY <1>1
<1>3. Word \in Nat /\ Word > 0 /\ \A g \in Fdes : Begin(g) \in Nat /\ Begin(g) + Size(g) \in Nat
  BY <1>2, SectionTyped
<1>4. \A x \in Nat : x % Word \in 0 .. Word - 1
  BY <1>3
<1>5. L \in SUBSET Nat /\ Begin(f) \in L /\ H \in SUBSET (0 .. Word - 1) /\ (Begin(f) + Size(f)) % Word \in H
  BY <1>3, <1>4
<1>6. Word - 1 \in Nat
  BY <1>3
<1> HIDE DEF L, H
<1>7. Min(L) \in Nat /\ Max(H) \in Nat
  <2>1. Min(L) \in L
    BY <1>5, MinIsLeast
  <2>2. Max(H) \in H
    BY <1>5, <1>6, MaxIsGreatest
  <2>3. Max(H) \in 0 .. Word - 1
    BY <1>5, <2>2
  <2>4. Max(H) \in Nat
    BY <2>3
  <2>5. Min(L) \in Nat
    BY <1>5, <2>1
  <2> QED
    BY <2>4, <2>5
<1> QED
  BY <1>1, <1>7

(* What fde_pc_range says of a section without FDEs that wrap around. *)
LEMMA RangeIncludes ==
  ASSUME section \in Sections, fde_pc_range # Nothing, WellFormed, NEW f \in Fdes
  PROVE  /\ section.parses /\ fde_pc_range[1] \in Nat /\ fde_pc_range[2] \in Nat
         /\ fde_pc_range[1] <= Begin(f) /\ Begin(f) + Size(f) <= fde_pc_range[2]
<1> DEFINE L == {Begin(g) : g \in Fdes}
           H == {(Begin(g) + Size(g)) % Word : g \in Fdes}
           E == {Begin(g) + Size(g) : g \in Fdes}
<1>1. section.parses /\ fde_pc_range = <<Min(L), Max(H)>>
  BY DEF fde_pc_range
<1>2. \A g \in Fdes : Begin(g) \in Nat /\ Size(g) \in Nat /\ Begin(g) + Size(g) \in 0 .. Word - 1
  BY SectionTyped DEF WellFormed
<1>3. H = E
  <2>1. Word \in Nat
    BY SectionTyped
  <2>2. \A x \in 0 .. Word - 1 : x % Word = x
    BY <2>1
  <2> QED
    BY <1>2, <2>2
<1>4. L \in SUBSET Nat /\ Begin(f) \in L
  BY <1>2
<1>5. E \in SUBSET (0 .. Word - 1) /\ Begin(f) + Size(f) \in E /\ Word - 1 \in Nat
  <2>1. Word - 1 \in Nat
    BY <1>2, SectionTyped
  <2> QED
    BY <1>2, <2>1
<1> HIDE DEF L, H, E
<1>6. Min(L) \in Nat /\ Min(L) <= Begin(f)
  BY <1>4, MinIsLeast
<1>7. Max(E) \in Nat /\ Begin(f) + Size(f) <= Max(E)
  <2>1. Max(E) \in E /\ \A m \in E : m <= Max(E)
    BY <1>5, MaxIsGreatest
  <2>2. Max(E) \in 0 .. Word - 1
    BY <1>5, <2>1
  <2>3. Max(E) \in Nat
    BY <2>2
  <2>4. Begin(f) + Size(f) <= Max(E)
    BY <1>5, <2>1
  <2> QED
    BY <2>3, <2>4
<1> QED
  BY <1>1, <1>3, <1>6, <1>7

(* FDEs that do not overlap: the one that covers the start of another is it. *)
LEMMA CoversOnce ==
  ASSUME section \in Sections, WellFormed, NEW f \in Fdes, NEW g \in Fdes, Covers(f, Begin(g))
  PROVE  f = g
<1>1. Begin(g) \in 0 .. Word - 1 /\ Size(g) \in Nat /\ Size(g) > 0
  BY SectionTyped DEF WellFormed
<1>2. Covers(g, Begin(g))
  BY <1>1 DEF Covers
<1> QED
  BY <1>1, <1>2 DEF WellFormed

(* The FDE that covers an address is the one that the search finds. *)
LEMMA SearchFinds ==
  ASSUME section \in Sections, WellFormed, NEW lo \in Nat, NEW a \in Nat, lo <= a,
         \A f \in Fdes : lo <= Begin(f),
         NEW index, index = [f \in Fdes |-> Begin(f) - lo]
  PROVE  {f \in fde_for_relative_address(index, a - lo) : Covers(f, a)} = {f \in Fdes : Covers(f, a)}
<1> DEFINE rel == a - lo
           equal == {f \in DOMAIN index : index[f] = rel}
           below == {f \in DOMAIN index : index[f] < rel}
           values == {index[f] : f \in below}
           top == Max(values)
           hits == {f \in below : index[f] = top}
           found == fde_for_relative_address(index, rel)
<1>1. PICK n \in Nat : Fdes = 1 .. n
  BY SectionTyped
<1>2. \A f \in Fdes : Begin(f) \in Nat /\ Size(f) \in Nat
  BY SectionTyped
<1>3. rel \in Nat /\ DOMAIN index = Fdes /\ \A f \in Fdes : index[f] = Begin(f) - lo /\ index[f] \in Nat
  BY <1>2
<1>4. found = IF equal # {} THEN equal ELSE IF below = {} THEN {} ELSE {Max(hits)}
  BY DEF fde_for_relative_address
<1>5. \A f \in Fdes : /\ f \in equal <=> Begin(f) = a
                      /\ f \in below <=> Begin(f) < a
  BY <1>2, <1>3
<1>6. equal \subseteq Fdes /\ below \subseteq Fdes
  BY <1>3
<1>7. ASSUME NEW x \in below
      PROVE  /\ Max(hits) \in below /\ index[Max(hits)] = top
             /\ \A f \in below : index[f] <= top
  <2>1. values \in SUBSET (0 .. rel) /\ index[x] \in values
    BY <1>3, <1>6
  <2> HIDE DEF values
  <2>2. top \in values /\ \A v \in values : v <= top
    BY <1>3, <2>1, MaxIsGreatest
  <2>3. PICK y \in below : index[y] = top
    BY <2>2 DEF values
  <2>4. \A f \in below : index[f] <= top
    BY <2>2 DEF values
  <2> HIDE DEF top
  <2>5. hits \in SUBSET (0 .. n) /\ y \in hits
    BY <1>1, <1>6, <2>3
  <2> HIDE DEF hits
  <2>6. Max(hits) \in hits
    BY <2>5, MaxIsGreatest
  <2> QED
    BY <2>4, <2>6 DEF hits
<1>8. found \subseteq Fdes
  <2>1. CASE below = {}
    BY <1>4, <1>6, <2>1
  <2>2. CASE below # {}
    <3>1. PICK x \in below : TRUE
      BY <2>2
    <3>2. Max(hits) \in Fdes
      BY <1>6, <1>7, <3>1
    <3> QED
      BY <1>4, <1>6, <3>2
  <2> QED
    BY <2>1, <2>2
<1>9. ASSUME NEW f \in Fdes, Covers(f, a) PROVE f \in found
  <2>1. Begin(f) <= a /\ a < Begin(f) + Size(f)
    BY <1>9 DEF Covers
  <2>2. CASE equal # {}
    <3>1. PICK g \in Fdes : Begin(g) = a
      BY <1>5, <1>6, <2>2
    <3>2. f = g
      BY <1>9, <3>1, CoversOnce
    <3> QED
      BY <1>4, <1>5, <2>2, <3>1, <3>2
  <2>3. CASE equal = {}
    <3>1. f \in below
      <4>1. f \notin equal
        BY <2>3
      <4> HIDE DEF equal, below
      <4>2. Begin(f) # a
        BY <1>5, <4>1
      <4> QED
        BY <1>2, <1>5, <2>1, <4>2
    <3> DEFINE g == Max(hits)
    <3>2. g \in Fdes /\ g \in below /\ index[f] <= index[g]
      BY <1>6, <1>7, <3>1
    <3>3. found = {g}
      BY <1>4, <2>3, <3>1
    <3> HIDE DEF g
    <3>4. Begin(f) <= Begin(g) /\ Begin(g) < a
      BY <1>2, <1>3, <1>5, <3>2
    <3>5. Covers(f, Begin(g))
      BY <1>2, <2>1, <3>2, <3>4 DEF Covers
    <3>6. f = g
      BY <3>2, <3>5, CoversOnce
    <3> QED
      BY <3>3, <3>6
  <2> QED
    BY <2>2, <2>3
<1> HIDE DEF found, rel
<1>10. {f \in found : Covers(f, a)} = {f \in Fdes : Covers(f, a)}
  BY <1>8, <1>9
<1> QED
  BY <1>10 DEF found, rel

LEMMA InitIndex == IndexInit => IndexInv
BY DEF IndexInit, IndexInv

LEMMA RegisterKeeps ==
  ASSUME IndexInv, NEW lo \in Nat, NEW hi \in Nat, register_jit_eh_frame(lo, hi)
  PROVE  IndexInv'
<1>1. CASE hi <= lo \/ hi - lo > U32_MAX \/ fde_pc_range = Nothing
  <2>1. UNCHANGED <<section, module>>
    BY <1>1 DEF register_jit_eh_frame, note_fail
  <2> QED
    BY <2>1 DEF IndexInv, try_new, fde_pc_range, Fdes, Begin, Size
<1>2. CASE ~(hi <= lo \/ hi - lo > U32_MAX \/ fde_pc_range = Nothing)
  <2>1. section' = section /\ module' = [lo |-> lo, hi |-> hi, index |-> try_new(lo)]
    BY <1>2 DEF register_jit_eh_frame
  <2>2. fde_pc_range' = fde_pc_range /\ \A x : try_new(x)' = try_new(x)
    BY <2>1 DEF fde_pc_range, try_new, Fdes, Begin, Size
  <2>3. U32_MAX \in Nat
    BY SectionTyped DEF IndexInv
  <2>4. module'.lo = lo /\ module'.hi = hi /\ module'.index = try_new(lo)
    BY <2>1
  <2>5. module'.index = try_new(module.lo)'
    BY <2>1 DEF try_new, Fdes, Begin, Size
  <2> QED
    BY <1>2, <2>1, <2>2, <2>3, <2>4, <2>5 DEF IndexInv
<1> QED
  BY <1>1, <1>2

LEMMA NextIndex == IndexInv /\ [IndexNext]_index_vars => IndexInv'
<1> SUFFICES ASSUME IndexInv, [IndexNext]_index_vars PROVE IndexInv'
  OBVIOUS
<1>1. CASE \E lo, hi \in 0 .. Word - 1 : register_jit_eh_frame(lo, hi)
  BY <1>1, RegisterKeeps
<1>2. CASE register_jit_eh_frame_auto
  <2>1. CASE fde_pc_range = Nothing
    <3>1. UNCHANGED <<section, module>>
      BY <1>2, <2>1 DEF register_jit_eh_frame_auto, note_fail
    <3> QED
      BY <3>1 DEF IndexInv, try_new, fde_pc_range, Fdes, Begin, Size
  <2>2. CASE fde_pc_range # Nothing
    <3>1. register_jit_eh_frame(fde_pc_range[1], fde_pc_range[2])
      BY <1>2, <2>2 DEF register_jit_eh_frame_auto
    <3>2. fde_pc_range[1] \in Nat /\ fde_pc_range[2] \in Nat
      BY <2>2, RangeTyped DEF IndexInv
    <3> QED
      BY <3>1, <3>2, RegisterKeeps
  <2> QED
    BY <2>1, <2>2
<1>3. CASE UNCHANGED index_vars
  BY <1>3 DEF index_vars, IndexInv, try_new, fde_pc_range, Fdes, Begin, Size
<1> QED
  BY <1>1, <1>2, <1>3 DEF IndexNext

(* For every well-formed section and every range that includes its FDEs: the module
   has an index, and looking up an address of the range in it finds the FDE that
   covers the address, or none if none does (jit.rs:19, "for lookups to line up";
   DwarfCfiIndex::try_new and fde_offset_for_relative_address). *)
THEOREM JitLookupsLineUp == IndexSpec => []LookupsLineUp
<1>1. IndexInv => LookupsLineUp
  <2> SUFFICES ASSUME IndexInv, module # Nothing, WellFormed, module.lo <= fde_pc_range[1],
                      fde_pc_range[2] <= module.hi
               PROVE  /\ module.index # Nothing
                      /\ \A a \in module.lo .. module.hi - 1 :
                           {f \in fde_for_relative_address(module.index, a - module.lo) : Covers(f, a)}
                             = {f \in Fdes : Covers(f, a)}
    BY DEF LookupsLineUp
  <2>1. /\ section \in Sections /\ module.lo \in Nat /\ module.hi \in Nat
        /\ module.hi - module.lo <= U32_MAX /\ module.index = try_new(module.lo) /\ fde_pc_range # Nothing
    BY DEF IndexInv
  <2>2. \A f \in Fdes : /\ section.parses /\ Begin(f) \in Nat /\ Size(f) \in Nat /\ Size(f) > 0
                        /\ module.lo <= Begin(f) /\ Begin(f) + Size(f) <= module.hi
    <3> TAKE f \in Fdes
    <3>1. /\ section.parses /\ fde_pc_range[1] \in Nat /\ fde_pc_range[2] \in Nat
          /\ fde_pc_range[1] <= Begin(f) /\ Begin(f) + Size(f) <= fde_pc_range[2]
      BY <2>1, RangeIncludes
    <3>2. Begin(f) \in Nat /\ Size(f) \in Nat /\ Size(f) > 0
      BY <2>1, SectionTyped DEF WellFormed
    <3> QED
      BY <2>1, <3>1, <3>2
  <2>3. section.parses
    BY <2>1 DEF fde_pc_range
  <2>4. \A f \in Fdes : Begin(f) >= module.lo /\ Begin(f) - module.lo <= U32_MAX
    BY <2>1, <2>2, SectionTyped
  <2>5. module.index = [f \in Fdes |-> Begin(f) - module.lo]
    BY <2>1, <2>3, <2>4 DEF try_new
  <2>6. module.index # Nothing
    <3>1. module.index \in [Fdes -> 0 .. U32_MAX]
      BY <2>1, <2>2, <2>4, <2>5
    <3> QED
      BY <2>1, <3>1, IndexAssumption DEF Fdes
  <2>7. ASSUME NEW a \in module.lo .. module.hi - 1
        PROVE  {f \in fde_for_relative_address(module.index, a - module.lo) : Covers(f, a)}
                 = {f \in Fdes : Covers(f, a)}
    <3>1. a \in Nat /\ module.lo <= a
      BY <2>1
    <3> QED
      BY <2>1, <2>2, <2>5, <3>1, SearchFinds
  <2> QED
    BY <2>6, <2>7
<1> QED
  BY <1>1, InitIndex, NextIndex, PTL DEF IndexSpec

-----------------------------------------------------------------------------
(* Images                                                                  *)

(* What build_image made of an image goes by its last __TEXT segment. *)
AddedInv ==
  image \in MachO /\ built # Absent => Texts # {} /\ built.lo = Key(image.segs[Max(Texts)])

LEMMA BuildKeeps == ASSUME AddedInv, [ImagesNext]_images PROVE AddedInv'
<1>1. CASE build_image
  <2>1. image' = image /\ slide' = slide
    BY <1>1 DEF build_image
  <2>2. built' # Absent => Texts # {} /\ built'.lo = Key(image.segs[Max(Texts)])
    BY <1>1 DEF build_image, Module
  <2>3. Texts' = Texts /\ Key(image.segs[Max(Texts)])' = Key(image.segs[Max(Texts)])
    BY <2>1 DEF Texts, Key, Wrap
  <2> QED
    BY <2>1, <2>2, <2>3 DEF AddedInv
<1>2. CASE callback \/ build_pe_module
  <2>1. image' = image /\ image \in Elf \cup Pe
    BY <1>2 DEF callback, build_pe_module
  <2>2. image' \notin MachO
    BY <2>1, ImagesAssumption
  <2> QED
    BY <2>2 DEF AddedInv
<1>3. CASE UNCHANGED images
  BY <1>3 DEF images, AddedInv, Texts, Key, Wrap
<1> QED
  BY <1>1, <1>2, <1>3 DEF ImagesNext

(* macos_remove_image looks a module up by the key that image_key finds, the first
   __TEXT of the image, and build_image files it under the last: of an image with
   one __TEXT segment, whatever its other segments are and wherever it was loaded,
   they are the same (macho.rs:96). *)
THEOREM RemovedIsAdded == ImagesSpec => []RemoveNamesAdded
<1>1. ImagesInit => AddedInv
  BY DEF ImagesInit, AddedInv
<1>2. AddedInv => RemoveNamesAdded
  <2> SUFFICES ASSUME AddedInv, image \in MachO, built # Absent, Cardinality(Texts) = 1
               PROVE  image_key = built.lo
    BY DEF RemoveNamesAdded
  <2>1. DOMAIN image.segs = 1 .. Len(image.segs) /\ Len(image.segs) \in Nat
    BY SegmentsAssumption
  <2>2. IsFiniteSet(Texts)
    <3>1. IsFiniteSet(1 .. Len(image.segs))
      BY <2>1, FS_Interval
    <3>2. Texts \subseteq 1 .. Len(image.segs)
      BY <2>1 DEF Texts
    <3> QED
      BY <3>1, <3>2, FS_Subset
  <2>3. PICK t : Texts = {t}
    BY <2>2, FS_Singleton
  <2>4. t \in Nat
    BY <2>1, <2>3 DEF Texts
  <2>5. Min(Texts) = t /\ Max(Texts) = t
    BY <2>3, <2>4 DEF Min, Max
  <2> QED
    BY <2>3, <2>5 DEF AddedInv, image_key
<1> QED
  BY <1>1, <1>2, BuildKeeps, PTL DEF ImagesSpec

-----------------------------------------------------------------------------
(* The sections of images                                                  *)

(* Addresses that are the same once they wrap *)
Cong(a, b) == \E q \in Int : a - b = Space * q

LEMMA WrapType == ASSUME NEW a \in Int PROVE Wrap(a) \in 0 .. Space - 1
BY ImagesAssumption DEF Wrap

LEMMA WrapCong == ASSUME NEW a \in Int PROVE Cong(a, Wrap(a))
<1>1. a \div Space \in Int /\ a = Space * (a \div Space) + (a % Space)
  BY ImagesAssumption
<1>2. a % Space \in Int /\ Space * (a \div Space) \in Int
  BY <1>1, ImagesAssumption
<1>3. a - (a % Space) = Space * (a \div Space)
  BY <1>1, <1>2
<1> QED
  BY <1>1, <1>3, Zenon DEF Cong, Wrap

LEMMA CongAdds ==
  ASSUME NEW a \in Int, NEW b \in Int, NEW c \in Int, NEW d \in Int, Cong(a, b), Cong(c, d)
  PROVE  Cong(a + c, b + d) /\ Cong(a - c, b - d)
<1>1. PICK p \in Int : a - b = Space * p
  BY DEF Cong
<1>2. PICK q \in Int : c - d = Space * q
  BY DEF Cong
<1>3. (a + c) - (b + d) = Space * (p + q) /\ (a - c) - (b - d) = Space * (p - q)
  BY <1>1, <1>2, ImagesAssumption
<1> QED
  BY <1>3 DEF Cong

LEMMA CongTrans ==
  ASSUME NEW a \in Int, NEW b \in Int, NEW c \in Int, Cong(a, b), Cong(b, c)
  PROVE  Cong(a, c)
<1>1. PICK p \in Int : a - b = Space * p
  BY DEF Cong
<1>2. PICK q \in Int : b - c = Space * q
  BY DEF Cong
<1>3. a - c = Space * (p + q)
  BY <1>1, <1>2, ImagesAssumption
<1> QED
  BY <1>3 DEF Cong

LEMMA CongSym == ASSUME NEW a \in Int, NEW b \in Int, Cong(a, b) PROVE Cong(b, a)
<1>1. PICK p \in Int : a - b = Space * p
  BY DEF Cong
<1>2. b - a = Space * (0 - p)
  BY <1>1, ImagesAssumption
<1> QED
  BY <1>2 DEF Cong

LEMMA CongEqual ==
  ASSUME NEW a \in 0 .. Space - 1, NEW b \in 0 .. Space - 1, Cong(a, b)
  PROVE  a = b
<1>1. PICK q \in Int : a - b = Space * q
  BY DEF Cong
<1>2. Space \in Nat /\ Space > 0
  BY ImagesAssumption
<1>3. CASE q >= 1
  <2>1. Space * q >= Space
    BY <1>2, <1>3
  <2> QED
    BY <1>1, <1>2, <2>1
<1>4. CASE q <= -1
  <2>1. Space * q <= -Space
    BY <1>2, <1>4
  <2> QED
    BY <1>1, <1>2, <2>1
<1> QED
  BY <1>1, <1>2, <1>3, <1>4

LEMMA WrapEqual == ASSUME NEW a \in Int, NEW b \in Int, Cong(a, b) PROVE Wrap(a) = Wrap(b)
<1>1. Wrap(a) \in 0 .. Space - 1 /\ Wrap(b) \in 0 .. Space - 1
  BY WrapType
<1>2. Wrap(a) \in Int /\ Wrap(b) \in Int
  BY <1>1, ImagesAssumption
<1>3. Cong(a, Wrap(a)) /\ Cong(b, Wrap(b))
  BY WrapCong
<1>4. Cong(Wrap(a), a)
  BY <1>2, <1>3, CongSym
<1>5. Cong(Wrap(a), b)
  BY <1>2, <1>4, CongTrans
<1>6. Cong(Wrap(a), Wrap(b))
  BY <1>2, <1>3, <1>5, CongTrans
<1> QED
  BY <1>1, <1>6, CongEqual

LEMMA WrapSmall == ASSUME NEW a \in 0 .. Space - 1 PROVE Wrap(a) = a
<1>1. a \in Int /\ Wrap(a) \in 0 .. Space - 1 /\ Cong(a, Wrap(a))
  BY ImagesAssumption, WrapType, WrapCong
<1> QED
  BY <1>1, CongEqual

(* Sums and differences may wrap at any time, or at the end only. *)
LEMMA WrapLate ==
  ASSUME NEW a \in Int, NEW b \in Int
  PROVE  /\ Wrap(Wrap(a) + b) = Wrap(a + b)
         /\ Wrap(Wrap(a) - b) = Wrap(a - b)
         /\ Wrap(Wrap(a) - Wrap(b)) = Wrap(a - b)
<1>1. Wrap(a) \in Int /\ Wrap(b) \in Int
  BY WrapType, ImagesAssumption
<1>2. Cong(a, Wrap(a)) /\ Cong(b, Wrap(b)) /\ Cong(b, b)
  <2>1. b - b = Space * 0
    BY ImagesAssumption
  <2> QED
    BY <2>1, WrapCong DEF Cong
<1>3. /\ Cong(a + b, Wrap(a) + b) /\ Cong(a - b, Wrap(a) - b)
      /\ Cong(a - b, Wrap(a) - Wrap(b))
  BY <1>1, <1>2, CongAdds, Zenon
<1>4. /\ Wrap(a + b) = Wrap(Wrap(a) + b) /\ Wrap(a - b) = Wrap(Wrap(a) - b)
      /\ Wrap(a - b) = Wrap(Wrap(a) - Wrap(b))
  BY <1>1, <1>3, WrapEqual
<1> QED
  BY <1>4

(* What the fields of an image are *)
LEMMA SlideTyped == ASSUME Loaded PROVE slide \in Nat
BY ImagesAssumption DEF Loaded

LEMMA SegmentsTyped ==
  ASSUME image \in Elf \cup MachO
  PROVE  /\ Len(image.segs) \in Nat /\ DOMAIN image.segs = 1 .. Len(image.segs)
         /\ \A i \in DOMAIN image.segs :
              /\ image.segs[i].vaddr \in Nat /\ image.segs[i].memsz \in Nat
              /\ image.segs[i].vaddr + image.segs[i].memsz <= Space
              /\ Holds(image.segs[i], image.segs[i].vaddr, image.segs[i].memsz)
BY SegmentsAssumption DEF Holds

LEMMA ElfTyped ==
  ASSUME image \in Elf
  PROVE  /\ image.hdr # Absent => image.hdr.vaddr \in Nat /\ image.hdr.memsz \in Nat
         /\ image.eh_frame.vaddr \in 0 .. Space - 1 /\ image.eh_frame.vaddr \in Nat
         /\ image.eh_frame.memsz \in Nat
BY ElfAssumption, ImagesAssumption

LEMMA SectsTyped ==
  ASSUME image \in MachO, NEW i \in DOMAIN image.segs, NEW j \in DOMAIN image.segs[i].sects
  PROVE  LET s == image.segs[i].sects[j]
         IN  s.addr \in Nat /\ s.size \in Nat /\ Holds(image.segs[i], s.addr, s.size)
BY MachOAssumption

LEMMA FormatWidth == ASSUME NEW f \in DOMAIN Formats PROVE Width[Formats[f].size] \in Nat
<1>1. Formats[f].size \in {2, 4, 8}
  BY DEF Formats
<1> QED
  BY <1>1, ImagesAssumption

(* A part of a segment at link-time addresses is mapped where the slide puts it. *)
LEMMA HeldIsMapped ==
  ASSUME Loaded, image \in Elf \cup MachO, NEW s \in DOMAIN image.segs, NEW lo \in Int, NEW len \in Int,
         Holds(image.segs[s], lo, len)
  PROVE  \A i \in 0 .. len - 1 : Wrap(Wrap(lo + slide) + i) \in Mapped
<1> DEFINE v == image.segs[s].vaddr
           n == image.segs[s].memsz
<1>1. v \in Nat /\ n \in Nat /\ slide \in Int /\ v <= lo /\ lo + len <= v + n
  BY SegmentsTyped, SlideTyped DEF Holds
<1>2. image \notin Pe
  BY ImagesAssumption
<1> TAKE i \in 0 .. len - 1
<1>3. lo + slide + i = v + slide + (lo - v + i) /\ lo - v + i \in 0 .. n - 1
  BY <1>1
<1>4. Wrap(Wrap(lo + slide) + i) = Wrap(lo + slide + i)
  <2>1. lo + slide \in Int /\ i \in Int
    BY <1>1
  <2> QED
    BY <2>1, WrapLate
<1> QED
  BY <1>2, <1>3, <1>4 DEF Mapped

(* A section lies as far from one base as from the other if the bases, wrapped or
   not, are the slide apart. *)
LEMMA SlidLinesUp ==
  ASSUME NEW a \in Int, NEW d \in Int, NEW base \in Int
  PROVE  Wrap(Wrap(a + d) - Wrap(base + d)) = Wrap(Wrap(a) - base)
<1>1. a + d \in Int /\ base + d \in Int /\ (a + d) - (base + d) = a - base
  OBVIOUS
<1> QED
  BY <1>1, WrapLate

(* The header's field is decoded to what the linker encoded in it: whichever
   encoding it is in, the .eh_frame is found where the slide put it. *)
LEMMA DecodeFinds ==
  ASSUME Loaded, image \in Elf, image.hdr # Absent, decode_eh_frame_start(image.hdr) # Absent
  PROVE  decode_eh_frame_start(image.hdr) = Wrap(image.eh_frame.vaddr + slide)
<1> DEFINE hdr == image.hdr
           w == Width[Formats[hdr.fmt].size]
           d == Target(image)
<1>1. /\ hdr.app \in {"pcrel", "absptr"} /\ decode_value(hdr) # Absent
      /\ decode_eh_frame_start(hdr)
           = Wrap((IF hdr.app = "pcrel" THEN hdr.vaddr + slide + 4 ELSE 0) + decode_value(hdr))
  BY DEF decode_eh_frame_start
<1>2. /\ hdr.fmt \in DOMAIN Formats
      /\ decode_value(hdr) = IF Formats[hdr.fmt].signed /\ hdr.field >= w \div 2 THEN hdr.field - w ELSE hdr.field
  BY <1>1 DEF decode_value
<1>3. /\ IF Formats[hdr.fmt].signed THEN d \in -(w \div 2) .. w \div 2 - 1 ELSE d \in 0 .. w - 1
      /\ hdr.field = IF d < 0 THEN d + w ELSE d
  BY <1>1, <1>2, HeaderAssumption, Zenon
<1>4. w \in Nat
  BY <1>2, FormatWidth
<1>5. hdr.vaddr \in Nat /\ image.eh_frame.vaddr \in Nat /\ slide \in Nat
  BY ElfTyped, SlideTyped
<1>6. d \in Int
  BY <1>5 DEF Target
<1> HIDE DEF d, w
<1>7. decode_value(hdr) = d
  BY <1>2, <1>3, <1>4, <1>6
<1>8. CASE hdr.app = "pcrel"
  <2>1. d = image.eh_frame.vaddr - (hdr.vaddr + 4)
    BY <1>8 DEF d, Target
  <2>2. hdr.vaddr + slide + 4 + d = image.eh_frame.vaddr + slide
    BY <1>5, <2>1
  <2> QED
    BY <1>1, <1>7, <1>8, <2>2
<1>9. CASE hdr.app = "absptr"
  <2>1. d = image.eh_frame.vaddr /\ slide = 0
    BY <1>9 DEF d, Target, Loaded
  <2> QED
    BY <1>1, <1>5, <1>7, <1>9, <2>1
<1> QED
  BY <1>1, <1>8, <1>9

(* A segment that has the .eh_frame's start at run time has all of it at link
   time, and ends as far behind it. *)
LEMMA SegmentHolds ==
  ASSUME Loaded, image \in Elf, NEW s \in DOMAIN image.segs, NEW eh,
         eh = Wrap(image.eh_frame.vaddr + slide), eh >= SegLo(image.segs[s]), eh < SegHi(image.segs[s])
  PROVE  LET len == SegHi(image.segs[s]) - eh
         IN  /\ len \in Nat /\ len >= image.eh_frame.memsz
             /\ Holds(image.segs[s], image.eh_frame.vaddr, len)
<1> DEFINE seg == image.segs[s]
           v == seg.vaddr
           n == seg.memsz
           e == image.eh_frame.vaddr
           k == eh - SegLo(seg)
<1>1. /\ v \in Nat /\ n \in Nat /\ v + n <= Space /\ slide \in Nat /\ Space \in Nat \ {0}
      /\ e \in 0 .. Space - 1 /\ image.eh_frame.memsz \in Nat
  BY SegmentsTyped, ElfTyped, SlideTyped, ImagesAssumption
<1>2. SegLo(seg) \in 0 .. Space - 1 /\ eh \in 0 .. Space - 1
  BY <1>1, WrapType DEF SegLo
<1>3. SegLo(seg) + n < Space
  BY ImagesAssumption DEF Loaded
<1>4. SegHi(seg) = SegLo(seg) + n
  <2>1. Wrap(v + slide + n) = Wrap(Wrap(v + slide) + n)
    <3>1. v + slide \in Int /\ n \in Int
      BY <1>1
    <3> QED
      BY <3>1, WrapLate
  <2>2. Wrap(SegLo(seg) + n) = SegLo(seg) + n
    BY <1>1, <1>2, <1>3, WrapSmall
  <2> QED
    BY <2>1, <2>2 DEF SegHi, SegLo
<1>5. k \in 0 .. n - 1
  BY <1>1, <1>2, <1>4
<1>6. v + k = e
  <2>0. v + slide \in Int /\ e + slide \in Int /\ k \in Int /\ v + slide + k \in Int /\ slide \in Int
    BY <1>1, <1>5
  <2> HIDE DEF k
  <2>1. Wrap(Wrap(v + slide) + k) = Wrap(v + slide + k)
    BY <2>0, WrapLate, Zenon
  <2>2. Wrap(v + slide) + k = eh
    BY <1>1, <1>2 DEF SegLo, k
  <2>3. Wrap(eh) = eh
    BY <1>2, WrapSmall
  <2>4. Wrap(v + slide + k) = Wrap(e + slide)
    BY <2>1, <2>2, <2>3
  <2>5. Wrap(Wrap(v + slide + k) - slide) = Wrap(v + k) /\ Wrap(Wrap(e + slide) - slide) = Wrap(e)
    <3>1. (v + slide + k) - slide = v + k /\ (e + slide) - slide = e
      BY <1>1, <1>5
    <3>2. Wrap(Wrap(v + slide + k) - slide) = Wrap((v + slide + k) - slide)
      BY <2>0, WrapLate, Zenon
    <3>3. Wrap(Wrap(e + slide) - slide) = Wrap((e + slide) - slide)
      BY <2>0, WrapLate
    <3> QED
      BY <3>1, <3>2, <3>3
  <2>6. v + k \in 0 .. Space - 1
    BY <1>1, <1>5
  <2> QED
    BY <1>1, <2>4, <2>5, <2>6, WrapSmall
<1> HIDE DEF k
<1>7. Holds(seg, e, 1)
  BY <1>1, <1>5, <1>6 DEF Holds
<1>8. Holds(seg, e, image.eh_frame.memsz)
  BY <1>7, ElfAssumption
<1>9. SegHi(seg) - eh = n - k
  BY <1>1, <1>2, <1>4, <1>5 DEF k
<1> QED
  BY <1>1, <1>5, <1>6, <1>8, <1>9 DEF Holds

(* What SectionsAreMapped and SectionsLineUp say of one section of a module *)
ReadInPlace(s) == \A i \in 0 .. s.len - 1 : Wrap(s.at + i) \in Mapped
LinesUp(s, base_avma, base_svma) == Wrap(s.at - base_avma) = Wrap(s.svma - base_svma)

LEMMA SlidSection ==
  ASSUME Loaded, image \in Elf \cup MachO, NEW s \in DOMAIN image.segs, NEW a \in Int, NEW len \in Int,
         Holds(image.segs[s], a, len), NEW base \in Int
  PROVE  /\ ReadInPlace(Bytes(a + slide, a, len))
         /\ LinesUp(Bytes(a + slide, a, len), Wrap(base + slide), base)
<1>1. \A i \in 0 .. len - 1 : Wrap(Wrap(a + slide) + i) \in Mapped
  BY HeldIsMapped
<1>2. slide \in Int
  BY SlideTyped
<1>3. Wrap(Wrap(a + slide) - Wrap(base + slide)) = Wrap(Wrap(a) - base)
  BY <1>2, SlidLinesUp
<1>4. Bytes(a + slide, a, len).at = Wrap(a + slide) /\ Bytes(a + slide, a, len).svma = Wrap(a)
      /\ Bytes(a + slide, a, len).len = len
  BY DEF Bytes
<1> QED
  BY <1>1, <1>3, <1>4 DEF ReadInPlace, LinesUp

LEMMA CallbackSections ==
  ASSUME Loaded, callback, built' # Absent
  PROVE  /\ \A n \in DOMAIN built'.sections :
              /\ ReadInPlace(built'.sections[n])
              /\ LinesUp(built'.sections[n], built'.base_avma, built'.base_svma)
         /\ built'.sections.eh_frame.svma = image.eh_frame.vaddr
         /\ built'.sections.eh_frame.len >= image.eh_frame.memsz
<1> DEFINE hdr == image.hdr
           eh == decode_eh_frame_start(hdr)
           end == containing_segment_end(eh)
           at == {i \in DOMAIN image.segs : eh >= SegLo(image.segs[i]) /\ eh < SegHi(image.segs[i])}
           execs == {i \in DOMAIN image.segs : image.segs[i].exec}
           text == image.segs[Min(execs)]
           e == image.eh_frame.vaddr
           sections == [n \in {"eh_frame_hdr", "eh_frame"} \cup {"text" : i \in execs} |->
                          CASE n = "eh_frame_hdr" -> Bytes(hdr.vaddr + slide, hdr.vaddr, hdr.memsz)
                            [] n = "eh_frame" -> Bytes(eh, eh - slide, end - eh)
                            [] n = "text" -> Bytes(text.vaddr + slide, text.vaddr, text.memsz)]
<1>1. /\ image \in Elf /\ hdr # Absent /\ eh # Absent /\ end # Absent
      /\ built'.base_avma = slide /\ built'.base_svma = 0 /\ built'.sections = sections
  BY Zenon DEF callback, Module
<1> HIDE DEF sections
<1>2. eh = Wrap(e + slide)
  BY <1>1, DecodeFinds
<1>3. /\ DOMAIN image.segs \in SUBSET Nat /\ slide \in 0 .. Space - 1 /\ slide \in Int
      /\ e \in 0 .. Space - 1 /\ e \in Int /\ hdr.vaddr \in Int /\ hdr.memsz \in Int
  <2>1. DOMAIN image.segs \in SUBSET Nat
    BY <1>1, SegmentsTyped
  <2>2. e \in 0 .. Space - 1 /\ e \in Nat /\ hdr.vaddr \in Nat /\ hdr.memsz \in Nat /\ slide \in Nat
    BY <1>1, ElfTyped, SlideTyped
  <2>3. slide \in 0 .. Space - 1
    BY ImagesAssumption DEF Loaded
  <2> HIDE DEF e, hdr
  <2> QED
    BY <2>1, <2>2, <2>3
<1>4. PICK s \in at : end = SegHi(image.segs[s])
  <2>1. at # {} /\ end = SegHi(image.segs[Min(at)])
    BY <1>1 DEF containing_segment_end
  <2>2. at \in SUBSET Nat
    BY <1>3
  <2> HIDE DEF at
  <2>3. Min(at) \in at
    BY <2>1, <2>2, MinIsLeast
  <2> QED
    BY <2>1, <2>3
<1>5. /\ end - eh \in Nat /\ end - eh >= image.eh_frame.memsz
      /\ Holds(image.segs[s], e, end - eh)
  BY <1>1, <1>2, <1>4, SegmentHolds
<1> HIDE DEF eh, end, at, e
<1>6. eh \in Int /\ Wrap(eh) = eh /\ Wrap(eh - slide) = e /\ Wrap(e) = e
  <2>1. e + slide \in Int /\ (e + slide) - slide = e
    BY <1>3
  <2>2. eh \in 0 .. Space - 1
    BY <1>2, <2>1, WrapType
  <2>3. Wrap(eh - slide) = Wrap((e + slide) - slide)
    BY <1>2, <1>3, <2>1, WrapLate
  <2> QED
    BY <1>3, <2>1, <2>2, <2>3, WrapSmall, ImagesAssumption
<1>7. ASSUME NEW a \in Int, NEW len \in Int, NEW i \in DOMAIN image.segs, Holds(image.segs[i], a, len)
      PROVE  ReadInPlace(Bytes(a + slide, a, len)) /\ LinesUp(Bytes(a + slide, a, len), slide, 0)
  <2>1. Wrap(0 + slide) = slide
    <3>1. 0 + slide = slide
      BY <1>3
    <3> QED
      BY <1>3, <3>1, WrapSmall
  <2>2. 0 \in Int
    OBVIOUS
  <2> QED
    BY <1>1, <1>7, <2>1, <2>2, SlidSection, Zenon
<1>8. sections.eh_frame = Bytes(eh, eh - slide, end - eh)
  BY DEF sections
<1>9. Bytes(eh, eh - slide, end - eh) = Bytes(e + slide, e, end - eh)
  BY <1>2, <1>6 DEF Bytes
<1>10. ASSUME NEW n \in DOMAIN sections
       PROVE  ReadInPlace(sections[n]) /\ LinesUp(sections[n], slide, 0)
  <2>1. CASE n = "eh_frame_hdr"
    <3>1. sections[n] = Bytes(hdr.vaddr + slide, hdr.vaddr, hdr.memsz)
      BY <2>1 DEF sections
    <3>2. PICK i \in DOMAIN image.segs : Holds(image.segs[i], hdr.vaddr, hdr.memsz)
      BY <1>1, ElfAssumption
    <3> HIDE DEF hdr
    <3> QED
      BY <1>3, <1>7, <3>1, <3>2, Zenon
  <2>2. CASE n = "eh_frame"
    <3>1. sections[n] = Bytes(e + slide, e, end - eh)
      BY <1>8, <1>9, <2>2
    <3>2. s \in DOMAIN image.segs /\ end - eh \in Int
      BY <1>4, <1>5 DEF at
    <3> QED
      BY <1>3, <1>5, <1>7, <3>1, <3>2, Zenon
  <2>3. CASE n = "text"
    <3>1. execs # {} /\ sections[n] = Bytes(text.vaddr + slide, text.vaddr, text.memsz)
      BY <2>3 DEF sections
    <3>2. execs \in SUBSET Nat
      BY <1>3
    <3>3. Min(execs) \in execs
      <4> HIDE DEF execs
      <4> QED
        BY <3>1, <3>2, MinIsLeast
    <3>4. PICK t \in DOMAIN image.segs : text = image.segs[t]
      BY <3>3, Zenon
    <3> HIDE DEF text
    <3>5. /\ text.vaddr \in Int /\ text.memsz \in Int /\ Holds(text, text.vaddr, text.memsz)
      BY <1>1, <3>4, SegmentsTyped
    <3> QED
      BY <1>7, <3>1, <3>4, <3>5, Zenon
  <2> QED
    BY <2>1, <2>2, <2>3, Zenon DEF sections
<1>11. sections.eh_frame.svma = e /\ sections.eh_frame.len = end - eh
  BY <1>6, <1>8 DEF Bytes
<1> QED
  BY <1>1, <1>5, <1>10, <1>11 DEF e

(* The place of the last section of a name is one of its places. *)
LEMMA LastIsPlace ==
  ASSUME image \in MachO, NEW n, Places(n) # {}
  PROVE  \E i \in DOMAIN image.segs : \E j \in DOMAIN image.segs[i].sects : Last(Places(n)) = <<i, j>>
<1> DEFINE ps == Places(n)
           rows == {p[1] : p \in ps}
<1>1. /\ Len(image.segs) \in Nat /\ DOMAIN image.segs = 1 .. Len(image.segs)
      /\ \A i \in DOMAIN image.segs : /\ Len(image.segs[i].sects) \in Nat
                                      /\ DOMAIN image.segs[i].sects = 1 .. Len(image.segs[i].sects)
  BY SegmentsAssumption, MachOAssumption
<1>2. \A p \in ps : \E i \in DOMAIN image.segs : \E j \in DOMAIN image.segs[i].sects : p = <<i, j>>
  BY DEF Places
<1> HIDE DEF ps
<1>3. PICK i \in rows : \A m \in rows : m <= i
  <2>1. rows \in SUBSET (0 .. Len(image.segs)) /\ rows # {}
    BY <1>1, <1>2 DEF ps
  <2> HIDE DEF rows
  <2> QED
    BY <1>1, <2>1, MaxIsGreatest, Zenon
<1> DEFINE columns == {p[2] : p \in {q \in ps : q[1] = i}}
<1>4. PICK j \in columns : \A m \in columns : m <= j
  <2>1. i \in DOMAIN image.segs
    BY <1>2, <1>3
  <2>2. columns \in SUBSET (0 .. Len(image.segs[i].sects)) /\ columns # {}
    BY <1>1, <1>2, <1>3, <2>1
  <2> HIDE DEF columns
  <2> QED
    BY <1>1, <2>1, <2>2, MaxIsGreatest
<1>5. PICK p \in ps : p[1] = i /\ p[2] = j
  BY <1>4
<1>6. ASSUME NEW q \in ps PROVE q[1] < i \/ (q[1] = i /\ q[2] <= j)
  <2>1. q[1] \in Nat /\ q[2] \in Nat /\ i \in Nat
    BY <1>1, <1>2, <1>3
  <2>2. q[1] <= i
    BY <1>3
  <2>3. q[1] = i => q[2] <= j
    BY <1>4
  <2> QED
    BY <2>1, <2>2, <2>3
<1>7. Last(ps) \in ps
  BY <1>5, <1>6 DEF Last
<1> QED
  BY <1>2, <1>7 DEF ps

LEMMA BuildImageSections ==
  ASSUME Loaded, build_image, built' # Absent
  PROVE  \A n \in DOMAIN built'.sections :
           /\ ReadInPlace(built'.sections[n])
           /\ LinesUp(built'.sections[n], built'.base_avma, built'.base_svma)
<1> DEFINE text == image.segs[Max(Texts)]
           found == {n \in SectionNames : Places(n) # {}}
           sections == [n \in found \cup {"__TEXT"} |->
                          IF n = "__TEXT" THEN Bytes(Key(text), text.vaddr, text.memsz) ELSE Found(n)]
<1>1. /\ image \in MachO /\ Texts # {}
      /\ built'.base_avma = Key(text) /\ built'.base_svma = text.vaddr /\ built'.sections = sections
  BY DEF build_image, Module
<1> HIDE DEF sections
<1>2. PICK t \in DOMAIN image.segs : text = image.segs[t]
  <2>1. Len(image.segs) \in Nat /\ DOMAIN image.segs = 1 .. Len(image.segs)
    BY <1>1, SegmentsTyped
  <2>2. Texts \in SUBSET (0 .. Len(image.segs))
    BY <2>1 DEF Texts
  <2>3. Max(Texts) \in Texts
    BY <1>1, <2>1, <2>2, MaxIsGreatest
  <2> QED
    BY <2>3, Zenon DEF Texts
<1> HIDE DEF text
<1>3. /\ text.vaddr \in Int /\ text.memsz \in Int /\ slide \in Int
      /\ Holds(image.segs[t], text.vaddr, text.memsz)
  BY <1>1, <1>2, SegmentsTyped, SlideTyped
<1>4. Key(text) = Wrap(text.vaddr + slide)
  BY DEF Key
<1>5. ASSUME NEW a \in Int, NEW len \in Int, NEW i \in DOMAIN image.segs, Holds(image.segs[i], a, len)
      PROVE  /\ ReadInPlace(Bytes(a + slide, a, len))
             /\ LinesUp(Bytes(a + slide, a, len), Key(text), text.vaddr)
  BY <1>1, <1>3, <1>4, <1>5, SlidSection, Zenon
<1>6. ASSUME NEW n \in DOMAIN sections
      PROVE  ReadInPlace(sections[n]) /\ LinesUp(sections[n], Key(text), text.vaddr)
  <2>1. CASE n = "__TEXT"
    <3>1. Wrap(Key(text)) = Key(text)
      <4>1. text.vaddr + slide \in Int
        BY <1>3
      <4>2. Key(text) \in 0 .. Space - 1
        BY <1>4, <4>1, WrapType
      <4> QED
        BY <4>2, WrapSmall
    <3>2. sections[n] = Bytes(Key(text), text.vaddr, text.memsz)
      BY <2>1 DEF sections
    <3>3. sections[n] = Bytes(text.vaddr + slide, text.vaddr, text.memsz)
      BY <1>4, <3>1, <3>2 DEF Bytes
    <3> QED
      BY <1>2, <1>3, <1>5, <3>3, Zenon
  <2>2. CASE n # "__TEXT"
    <3>1. Places(n) # {} /\ sections[n] = Found(n)
      BY <2>2 DEF sections
    <3>2. PICK i \in DOMAIN image.segs : \E j \in DOMAIN image.segs[i].sects : Last(Places(n)) = <<i, j>>
      BY <1>1, <3>1, LastIsPlace
    <3>3. PICK j \in DOMAIN image.segs[i].sects : Last(Places(n)) = <<i, j>>
      BY <3>2
    <3> DEFINE sect == image.segs[i].sects[j]
    <3>4. sect.addr \in Int /\ sect.size \in Int /\ Holds(image.segs[i], sect.addr, sect.size)
      BY <1>1, SectsTyped
    <3>5. Found(n) = Bytes(sect.addr + slide, sect.addr, sect.size)
      BY <3>3 DEF Found
    <3> HIDE DEF sect
    <3> QED
      BY <1>5, <3>1, <3>4, <3>5, Zenon
  <2> QED
    BY <2>1, <2>2
<1> QED
  BY <1>1, <1>6

LEMMA BuildPeSections ==
  ASSUME Loaded, build_pe_module, built' # Absent
  PROVE  \A n \in DOMAIN built'.sections :
           /\ ReadInPlace(built'.sections[n])
           /\ LinesUp(built'.sections[n], built'.base_avma, built'.base_svma)
<1>1. /\ image \in Pe /\ built'.base_avma = slide /\ built'.base_svma = slide
      /\ built'.sections = [n \in {n \in PeNames : sec(n) # Absent} |-> sec(n)]
  BY DEF build_pe_module, Module
<1>2. slide \in Int /\ image.size \in Nat /\ Len(image.sects) \in Nat /\ DOMAIN image.sects = 1 .. Len(image.sects)
  BY <1>1, SlideTyped, PeAssumption
<1>3. ASSUME NEW n, sec(n) # Absent
      PROVE  ReadInPlace(sec(n)) /\ LinesUp(sec(n), slide, slide)
  <2> DEFINE at == {i \in DOMAIN image.sects : image.sects[i].name = n}
             s == image.sects[Min(at)]
             rest == IF s.rva > image.size THEN 0 ELSE image.size - s.rva
             len == Min({s.vsize, rest})
  <2>1. at # {} /\ len # 0 /\ sec(n) = Bytes(slide + s.rva, slide + s.rva, len)
    BY <1>3, Zenon DEF sec
  <2>2. s.rva \in Nat /\ s.vsize \in Nat
    <3>1. at \in SUBSET Nat
      BY <1>2
    <3>2. Min(at) \in at
      <4> HIDE DEF at
      <4> QED
        BY <2>1, <3>1, MinIsLeast
    <3>3. Min(at) \in DOMAIN image.sects
      BY <3>2
    <3> HIDE DEF at
    <3> QED
      BY <1>1, <3>3, PeAssumption
  <2> HIDE DEF s
  <2>3. len \in Nat /\ len <= rest
    <3>1. rest \in Nat /\ {s.vsize, rest} \in SUBSET Nat
      BY <1>2, <2>2
    <3> HIDE DEF rest
    <3>2. len \in {s.vsize, rest} /\ len <= rest
      BY <3>1, MinIsLeast
    <3> QED
      BY <3>1, <3>2
  <2> HIDE DEF len
  <2>4. ASSUME NEW i \in 0 .. len - 1 PROVE Wrap(Wrap(slide + s.rva) + i) \in Mapped
    <3>1. s.rva + i \in 0 .. image.size - 1 /\ slide + s.rva \in Int /\ i \in Int
      BY <1>2, <2>2, <2>3
    <3>2. Wrap(Wrap(slide + s.rva) + i) = Wrap(slide + s.rva + i)
      BY <3>1, WrapLate
    <3>3. slide + s.rva + i = slide + (s.rva + i)
      BY <1>2, <2>2, <3>1
    <3> QED
      BY <1>1, <3>1, <3>2, <3>3 DEF Mapped
  <2> QED
    BY <2>1, <2>4 DEF ReadInPlace, LinesUp, Bytes
<1> QED
  BY <1>1, <1>3

(* An image stays loaded where it is, and so do the sections of its module. *)
SectionsInv == Loaded /\ SectionsAreMapped /\ SectionsLineUp

LEMMA NextSections == SectionsInv /\ [ImagesNext]_images => SectionsInv'
<1> SUFFICES ASSUME SectionsInv, [ImagesNext]_images PROVE SectionsInv'
  OBVIOUS
<1>1. image' = image /\ slide' = slide
  BY DEF ImagesNext, callback, build_image, build_pe_module, images
<1>2. Loaded /\ Loaded'
  BY <1>1 DEF SectionsInv, Loaded, SegLo, Wrap
<1>3. Mapped' = Mapped
  BY <1>1 DEF Mapped, Wrap
<1>4. CASE UNCHANGED images
  <2>1. built' = built
    BY <1>4 DEF images
  <2>2. SectionsAreMapped' /\ SectionsLineUp'
    BY <1>1, <1>3, <2>1 DEF SectionsInv, SectionsAreMapped, SectionsLineUp, Wrap
  <2> QED
    BY <1>2, <2>2 DEF SectionsInv
<1>5. CASE ImagesNext
  <2>1. built' # Absent => \A n \in DOMAIN built'.sections :
                            /\ ReadInPlace(built'.sections[n])
                            /\ LinesUp(built'.sections[n], built'.base_avma, built'.base_svma)
    BY <1>2, <1>5, CallbackSections, BuildImageSections, BuildPeSections DEF ImagesNext
  <2>2. built' # Absent /\ image \in Elf => /\ built'.sections.eh_frame.svma = image.eh_frame.vaddr
                                           /\ built'.sections.eh_frame.len >= image.eh_frame.memsz
    <3>1. image \in Elf => callback
      BY <1>5, ImagesAssumption DEF ImagesNext, build_image, build_pe_module
    <3> QED
      BY <1>2, <3>1, CallbackSections
  <2>3. SectionsAreMapped'
    BY <1>3, <2>1 DEF SectionsAreMapped, ReadInPlace, Wrap
  <2>4. SectionsLineUp'
    BY <1>1, <2>1, <2>2 DEF SectionsLineUp, LinesUp, Wrap
  <2> QED
    BY <1>2, <2>3, <2>4 DEF SectionsInv
<1> QED
  BY <1>4, <1>5

LEMMA SectionsInvHolds == ImagesSpec => []SectionsInv
<1>1. ImagesInit => SectionsInv
  BY DEF ImagesInit, SectionsInv, SectionsAreMapped, SectionsLineUp
<1> QED
  BY <1>1, NextSections, PTL DEF ImagesSpec

(* For every address space, every image that a linker lays out as assumed and every
   place it is loaded at: the sections that callback, build_image and
   build_pe_module hand out are, to the last byte, in memory that is mapped for the
   image, for PE whatever its section headers say (elf.rs:167, pe.rs:161). *)
THEOREM SectionsMapped == ImagesSpec => []SectionsAreMapped
<1>1. SectionsInv => SectionsAreMapped
  BY DEF SectionsInv
<1> QED
  BY <1>1, SectionsInvHolds, PTL

(* For all of them, too: sections lie as far from base_avma in memory as their
   link-time addresses from base_svma, and the .eh_frame that callback finds by the
   header is the one it was written for, and all of it, in every encoding that
   decode_eh_frame_start understands (elf.rs:258). *)
THEOREM SectionsAligned == ImagesSpec => []SectionsLineUp
<1>1. SectionsInv => SectionsLineUp
  BY DEF SectionsInv
<1> QED
  BY <1>1, SectionsInvHolds, PTL

=============================================================================
