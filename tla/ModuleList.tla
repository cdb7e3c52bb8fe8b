---------------------------- MODULE ModuleList ------------------------------
(***************************************************************************)
(* The module list of framehop's unwinder (unwinder.rs): modules sorted by *)
(* start address, in non-empty chunks, found by two binary searches.       *)
(*                                                                         *)
(* A binary search that meets several equal keys may return any of them,   *)
(* so every search is the set of its possible results.  A module is its    *)
(* range, its base and an id that stands for its unwind data.  Chunks are  *)
(* shared between clones and copied when changed (Arc::make_mut), so they  *)
(* are values here.  Indices count from 1 where the code's count from 0.   *)
(***************************************************************************)
EXTENDS Naturals, FiniteSets, SequencesExt

CONSTANTS
  Modules,        \* records with start, end, base and id
  Addrs,          \* addresses looked up
  MODULE_CHUNK,
  U32_MAX         \* the greatest relative address

ASSUME ListAssumption ==
  /\ Modules \subseteq [start : Nat, end : Nat, base : Nat, id : Nat]
  /\ \A m \in Modules : m.start < m.end
  /\ Addrs \subseteq Nat /\ MODULE_CHUNK \in Nat \ {0} /\ U32_MAX \in Nat

VARIABLE chunks

Init == chunks = <<>>

-----------------------------------------------------------------------------
(* binary_search_by_key on a sorted sequence of addresses: Ok(i) for an equal
   key, otherwise Err of the insertion point. *)
Search(keys, a) ==
  LET equal == {i \in DOMAIN keys : keys[i] = a}
  IN  IF equal # {}
      THEN {[found |-> TRUE, at |-> i] : i \in equal}
      ELSE {[found |-> FALSE, at |-> 1 + Cardinality({i \in DOMAIN keys : keys[i] < a})]}

Starts(chunk) == [i \in DOMAIN chunk |-> chunk[i].start]
Firsts == [c \in DOMAIN chunks |-> chunks[c][1].start]

chunk_index_NoStepBack(a) ==
  {IF r.at > Len(chunks) THEN Len(chunks) ELSE r.at : r \in Search(Firsts, a)}

chunk_index_for(a) ==
  {IF r.found \/ r.at = 1 THEN r.at ELSE r.at - 1 : r \in Search(Firsts, a)}

(* Where the two searches may end up for an address, if there is a chunk. *)
Places(a) == UNION {{[c |-> c, r |-> r] : r \in Search(Starts(chunks[c]), a)} : c \in chunk_index_for(a)}

Present == UNION {ToSet(chunks[c]) : c \in DOMAIN chunks}

add_RepeatsOne(m) ==
  IF chunks = <<>>
  THEN chunks' = <<<<m>>>>
  ELSE \E p \in Places(m.start) :
         LET full == InsertAt(chunks[p.c], p.r.at, m)
         IN  chunks' =
               IF Len(full) > 2 * MODULE_CHUNK
               THEN InsertAt([chunks EXCEPT ![p.c] = SubSeq(full, 1, MODULE_CHUNK)],
                             p.c + 1, SubSeq(full, MODULE_CHUNK, Len(full)))
               ELSE [chunks EXCEPT ![p.c] = full]

add_TailFirst(m) ==
  IF chunks = <<>>
  THEN chunks' = <<<<m>>>>
  ELSE \E p \in Places(m.start) :
         LET full == InsertAt(chunks[p.c], p.r.at, m)
         IN  chunks' =
               IF Len(full) > 2 * MODULE_CHUNK
               THEN InsertAt([chunks EXCEPT ![p.c] = SubSeq(full, 1, MODULE_CHUNK)],
                             p.c, SubSeq(full, MODULE_CHUNK + 1, Len(full)))
               ELSE [chunks EXCEPT ![p.c] = full]

add_NoSplit(m) ==
  IF chunks = <<>>
  THEN chunks' = <<<<m>>>>
  ELSE \E p \in Places(m.start) : chunks' = [chunks EXCEPT ![p.c] = InsertAt(@, p.r.at, m)]

add_module(m) ==
  IF chunks = <<>>
  THEN chunks' = <<<<m>>>>
  ELSE \E p \in Places(m.start) :
         LET full == InsertAt(chunks[p.c], p.r.at, m)
         IN  chunks' =
               IF Len(full) > 2 * MODULE_CHUNK
               THEN InsertAt([chunks EXCEPT ![p.c] = SubSeq(full, 1, MODULE_CHUNK)],
                             p.c + 1, SubSeq(full, MODULE_CHUNK + 1, Len(full)))
               ELSE [chunks EXCEPT ![p.c] = full]

(* A start that is not found leaves the list alone. *)
remove_module(start) ==
  /\ chunks # <<>>
  /\ \E p \in Places(start) :
       LET rest == RemoveAt(chunks[p.c], p.r.at)
       IN  /\ p.r.found
           /\ chunks' = IF rest = <<>> THEN RemoveAt(chunks, p.c) ELSE [chunks EXCEPT ![p.c] = rest]

max_known_FirstChunk == IF chunks = <<>> THEN 0 ELSE Last(chunks[1]).end

max_known_code_address == IF chunks = <<>> THEN 0 ELSE Last(Last(chunks)).end

find_NoEnd(a) ==
  LET hits == {chunks[p.c][IF p.r.found THEN p.r.at ELSE p.r.at - 1] :
                 p \in {q \in Places(a) : q.r.found \/ q.r.at > 1}}
  IN  IF chunks = <<>> THEN {} ELSE {m \in hits : m.base <= a /\ a - m.base <= U32_MAX}

(* find_module_for_address: the modules it may return, none for None. *)
find_module_for_address(a) ==
  LET exact  == {chunks[p.c][p.r.at] : p \in {q \in Places(a) : q.r.found}}
      before == {chunks[p.c][p.r.at - 1] : p \in {q \in Places(a) : ~q.r.found /\ q.r.at > 1}}
      hits   == exact \cup {m \in before : a < m.end}
  IN  IF chunks = <<>> THEN {} ELSE {m \in hits : m.base <= a /\ a - m.base <= U32_MAX}

-----------------------------------------------------------------------------
(* The registry's calls. *)

AddModule(m) == m \notin Present /\ add_module(m)

Next ==
  \/ \E m \in Modules : AddModule(m)
  \/ \E m \in Modules : remove_module(m.start)

Spec == Init /\ [][Next]_chunks

-----------------------------------------------------------------------------
(* Properties.                                                             *)

(* "Non-empty chunks of up to 2 * MODULE_CHUNK modules." *)
TypeOK ==
  /\ chunks \in Seq(Seq(Modules))
  /\ \A c \in DOMAIN chunks : Len(chunks[c]) \in 1 .. 2 * MODULE_CHUNK

(* "Sorted by avma_range.start", through every insertion, split and removal,
   with several modules at one start address included. *)
Sorted ==
  /\ \A c \in DOMAIN chunks : \A i, j \in DOMAIN chunks[c] :
       i < j => chunks[c][i].start <= chunks[c][j].start
  /\ \A c, d \in DOMAIN chunks :
       c < d => \A m \in ToSet(chunks[c]), n \in ToSet(chunks[d]) : m.start <= n.start

(* remove_module finds a module if there is one with the address: no module
   can get stuck in the list. *)
RemoveFinds == \A m \in Present : \A p \in Places(m.start) : p.r.found

(* Every place of the list counts: a module has as many copies as places. *)
Entries(m) == UNION {{<<c, i>> : i \in {j \in DOMAIN chunks[c] : chunks[c][j] = m}} : c \in DOMAIN chunks}
Copies == [m \in Modules |-> Cardinality(Entries(m))]

(* The chunked list is a bag of modules: add_module puts in one copy of its
   module and remove_module takes out one copy of one, and neither an insertion
   nor a split nor the removal of an emptied chunk loses, repeats or takes out
   any other. *)
Abstract == INSTANCE ModuleBag WITH copies <- Copies
RefinesModuleBag == Abstract!Spec

(* No two modules overlap, as no two mappings of a process do. *)
Disjoint == \A m, n \in Present : m # n => m.end <= n.start \/ n.end <= m.start

(* The lookup finds exactly the module that contains the address and whose
   base is at most 32 bits below it, wherever the chunk boundaries fell. *)
LookupExact ==
  Disjoint => \A a \in Addrs :
    find_module_for_address(a) =
      {m \in Present : m.start <= a /\ a < m.end /\ m.base <= a /\ a - m.base <= U32_MAX}

(* max_known_code_address, from which the pointer authentication mask is
   made, is an upper bound of all code. *)
MaxCodeIsMax == Disjoint => \A m \in Present : m.end <= max_known_code_address

=============================================================================
