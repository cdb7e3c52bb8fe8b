---------------------------- MODULE RuleCaching -----------------------------
(***************************************************************************)
(* framehop's rule cache across module list changes (unwinder.rs           *)
(* with_cache and next_modules_generation, rule_cache.rs), as this crate   *)
(* uses it: every slot owns one cache for ever, walks of different         *)
(* snapshots follow one another on it, and nothing ever clears it.  An     *)
(* entry is valid while its generation is that of the walk's module list.  *)
(*                                                                         *)
(* A module list is an opaque value; RuleFor says what unwinding an        *)
(* address with it comes to: a cacheable rule, or Generic for a frame that *)
(* must be evaluated against the stack every time (a signal frame, or CFI  *)
(* that has no rule).  The writer's side is serialised by WRITER.          *)
(***************************************************************************)
EXTENDS Naturals

CONSTANTS
  Slots,
  Addrs,               \* lookup addresses
  CACHE_ENTRY_COUNT,
  Lists,               \* contents of module lists
  Empty,               \* the one UnwinderInternal::new makes
  Rules,
  Fallback,            \* UnwindRule::fallback_rule()
  Generic,
  RuleFor,             \* [Lists -> [Addrs -> Rules \cup {Generic}]]
  MaxGeneration,       \* u64::MAX
  None

ASSUME CachingAssumption ==
  /\ Addrs \subseteq Nat /\ CACHE_ENTRY_COUNT \in Nat \ {0} /\ MaxGeneration \in Nat
  /\ Empty \in Lists /\ Fallback \in Rules /\ Generic \notin Rules
  /\ RuleFor \in [Lists -> [Addrs -> Rules \cup {Generic}]]

Unwinders == [list : Lists, generation : Nat]
Entries   == [address : Addrs, generation : Nat, rule : Rules]
Indices   == 0 .. CACHE_ENTRY_COUNT - 1

(* None is a value of its own. *)
ASSUME NoneAssumption == None \notin Unwinders /\ None \notin Entries

VARIABLES
  counter,     \* GLOBAL_MODULES_GENERATION
  current,     \* the published unwinder, or None
  editing,     \* the writer's clone while its closure runs, or None
  walk,        \* [Slots -> the unwinder of the walk on the slot, or None]
  entries,     \* [Slots -> [Indices -> Entries or None]]: the slots' caches
  last         \* [Slots -> what the last step on the slot did, or None]

vars == <<counter, current, editing, walk, entries, last>>

Init ==
  /\ counter = 0 /\ current = None /\ editing = None
  /\ walk = [s \in Slots |-> None]
  /\ entries = [s \in Slots |-> [i \in Indices |-> None]]
  /\ last = [s \in Slots |-> None]

-----------------------------------------------------------------------------
(* The writer.                                                             *)

generation_Wraps(list) ==
  /\ editing' = [list |-> list, generation |-> counter]
  /\ counter' = (counter + 1) % MaxGeneration

(* next_modules_generation: "exhaustion fails on the mutation path". *)
with_next_generation(list) ==
  /\ counter < MaxGeneration
  /\ editing' = [list |-> list, generation |-> counter]
  /\ counter' = counter + 1

BeginUpdate ==
  /\ editing = None
  /\ IF current = None
     THEN with_next_generation(Empty)
     ELSE editing' = current /\ UNCHANGED counter
  /\ UNCHANGED <<current, walk, entries, last>>

(* add_module, or remove_module of a module that is there. *)
ChangeModules(list) ==
  /\ editing # None /\ list # editing.list
  /\ with_next_generation(list)
  /\ UNCHANGED <<current, walk, entries, last>>

Publish ==
  /\ editing # None
  /\ current' = editing /\ editing' = None
  /\ UNCHANGED <<counter, walk, entries, last>>

-----------------------------------------------------------------------------
(* Walks.  The slot pool and the hazard pointers are the modules SlotPool
   and Snapshots; here a walk is its slot and the unwinder it reads. *)

BeginWalk(s) ==
  /\ walk[s] = None /\ current # None
  /\ walk' = [walk EXCEPT ![s] = current]
  /\ UNCHANGED <<counter, current, editing, entries, last>>

EndWalk(s) ==
  /\ walk[s] # None
  /\ walk' = [walk EXCEPT ![s] = None]
  /\ UNCHANGED <<counter, current, editing, entries, last>>

cache_index(a) == a % CACHE_ENTRY_COUNT

lookup_NoGeneration(s, a) ==
  LET e == entries[s][cache_index(a)]
  IN  e # None /\ e.address = a

(* RuleCache::lookup *)
lookup_hits(s, a) ==
  LET e == entries[s][cache_index(a)]
  IN  e # None /\ e.generation = walk[s].generation /\ e.address = a

Did(s, a, rule, readable) ==
  last' = [last EXCEPT ![s] =
             [list |-> walk[s].list, address |-> a, rule |-> rule, readable |-> readable]]

StepHit(s, a, readable) ==
  /\ walk[s] # None /\ lookup_hits(s, a)
  /\ Did(s, a, entries[s][cache_index(a)].rule, readable)
  /\ UNCHANGED <<counter, current, editing, walk, entries>>

(* A miss: the module's unwind data gives a rule, which is cached; or the
   generic path succeeds and caches nothing; or it fails because the stack
   could not be read, and the fallback rule is cached. *)
StepMiss(s, a, readable) ==
  LET fresh == RuleFor[walk[s].list][a]
      rule  == IF fresh = Generic /\ ~readable THEN Fallback ELSE fresh
  IN  /\ walk[s] # None /\ ~lookup_hits(s, a)
      /\ Did(s, a, rule, readable)
      /\ entries' = IF rule = Generic THEN entries
                    ELSE [entries EXCEPT ![s][cache_index(a)] =
                            [address |-> a, generation |-> walk[s].generation, rule |-> rule]]
      /\ UNCHANGED <<counter, current, editing, walk>>

Step(s, a, readable) == StepHit(s, a, readable) \/ StepMiss(s, a, readable)

Next ==
  \/ BeginUpdate \/ Publish
  \/ \E list \in Lists : ChangeModules(list)
  \/ \E s \in Slots :
       \/ BeginWalk(s) \/ EndWalk(s)
       \/ \E a \in Addrs, readable \in BOOLEAN : Step(s, a, readable)

Spec == Init /\ [][Next]_vars

-----------------------------------------------------------------------------
(* Properties.                                                             *)

Done == [list : Lists, address : Addrs, rule : Rules \cup {Generic}, readable : BOOLEAN]

TypeOK ==
  /\ counter \in 0 .. MaxGeneration
  /\ current \in Unwinders \cup {None} /\ editing \in Unwinders \cup {None}
  /\ walk \in [Slots -> Unwinders \cup {None}]
  /\ entries \in [Slots -> [Indices -> Entries \cup {None}]]
  /\ last \in [Slots -> Done \cup {None}]

(* The rules that unwinding a with the module list can come to.  The fallback
   is one of them where the stack has to be read. *)
Possible(list, a) ==
  LET fresh == RuleFor[list][a]
  IN  IF fresh = Generic THEN {Generic, Fallback} ELSE {fresh}

(* However walks of old and new snapshots follow each other on a slot, no step
   applies a rule that its own module list does not give: a module registered
   or unloaded since the rule was cached cannot leak into a later walk, nor a
   later module into a walk still on the old snapshot. *)
NoStaleRule ==
  \A s \in Slots : last[s] # None => last[s].rule \in Possible(last[s].list, last[s].address)

(* "Generations must not be reused": two unwinders in use with the same
   generation have the same modules. *)
Live == ({current, editing} \cup {walk[s] : s \in Slots}) \ {None}
GenerationNamesList ==
  \A u, v \in Live : u.generation = v.generation => u.list = v.list

=============================================================================
