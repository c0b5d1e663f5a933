----------------------------- MODULE HashTable ------------------------------
(***************************************************************************)
(* The hash table of lib_hash.c and its iterators.  An entry an iterator   *)
(* sits on is not removed when it is deleted or replaced: it is marked,    *)
(* and goes when the last iterator leaves it.                              *)
(*                                                                         *)
(* Entries are numbered in the order of their allocation and a number is   *)
(* never used again, so that a pointer to freed memory can be told from    *)
(* one to a later entry.  A refused call (can_replace, can_delete, no      *)
(* memory, a key that is not there) changes nothing: it is a stutter.      *)
(*                                                                         *)
(* Keys are equal or not.  h_entry compares key_len bytes and never looks  *)
(* at the length of the stored key (lib_hash.c:79), which is the same for  *)
(* keys of one length and for strings with their zero, as hfinds passes    *)
(* them.  Left out are raw keys of several lengths: one that begins        *)
(* another key of its bucket would be taken for it.                        *)
(***************************************************************************)
EXTENDS Naturals, Sequences, FiniteSets, SequencesExt

CONSTANTS
  Keys,
  Buckets,
  HIndex,      \* h_index: the bucket of each key
  Iters,
  MaxEntries,  \* bound: entries ever allocated
  NULL

ASSUME HIndexAssumption == HIndex \in [Keys -> Buckets]
ASSUME ItersAssumption == IsFiniteSet(Iters)
ASSUME MaxEntriesAssumption == MaxEntries \in Nat
ASSUME NullAssumption == NULL \notin Nat

VARIABLES
  ht,          \* the table: hens (the memory of every entry), buckets,
               \* all_entries, and the destructor calls of each entry
  iter,        \* the entry each iterator sits on
  open,        \* the iterators between hiter_first and hiter_free
  began,       \* the entries found under their keys when hiter_first ran
  visits       \* the entries each iterator has shown, in order

vars == <<ht, iter, open, began, visits>>

Hens == 1 .. MaxEntries

Hen(key) == [key |-> key, is_deleted |-> FALSE, lock_count |-> 0]

Allocated == DOMAIN ht.hens

Init ==
  /\ ht = [hens |-> <<>>, buckets |-> [b \in Buckets |-> <<>>],
           all_entries |-> <<>>, destroyed |-> <<>>]
  /\ iter = [i \in Iters |-> NULL]
  /\ open = {}
  /\ began = [i \in Iters |-> {}]
  /\ visits = [i \in Iters |-> <<>>]

-----------------------------------------------------------------------------
(* The operations the functions are made of: each takes a table and        *)
(* returns what becomes of it.                                             *)

Live(t, h) == ~t.hens[h].is_deleted

(* h_entry: the first entry of the key's bucket that is not deleted.       *)
HEntry(t, key) ==
  LET bucket == t.buckets[HIndex[key]]
      found == {n \in DOMAIN bucket : Live(t, bucket[n]) /\ t.hens[bucket[n]].key = key}
  IN  IF found = {} THEN NULL ELSE bucket[Min(found)]

(* LIST_REMOVE of an entry that is in the list.                            *)
Without(list, h) == RemoveAt(list, CHOOSE n \in DOMAIN list : list[n] = h)

\* Seeded fault: the entry stays in its bucket.
HDoDeleteKeepsBucket(t, h) ==
  [t EXCEPT !.all_entries = Without(@, h), !.destroyed[h] = @ + 1]

HDoDelete(t, h) ==
  [t EXCEPT !.buckets[HIndex[t.hens[h].key]] = Without(@, h),
            !.all_entries = Without(@, h),
            !.destroyed[h] = @ + 1]

\* Seeded fault: an entry an iterator sits on is removed at once.
HTryDeleteNow(t, h) == HDoDelete(t, h)

HTryDelete(t, h) ==
  IF t.hens[h].lock_count = 0 THEN HDoDelete(t, h)
  ELSE [t EXCEPT !.hens[h].is_deleted = TRUE]

Lock(t, h) ==
  IF h = NULL THEN t ELSE [t EXCEPT !.hens[h].lock_count = @ + 1]

Unlock(t, h) ==
  IF h = NULL THEN t
  ELSE LET u == [t EXCEPT !.hens[h].lock_count = @ - 1]
       IN  IF u.hens[h].lock_count = 0 /\ ~Live(u, h) THEN HDoDelete(u, h) ELSE u

(* h_alloc_hen and the two LIST_INSERT_HEAD of hinsert.                    *)
InsertHead(t, key) ==
  LET h == Len(t.hens) + 1 IN
  [hens |-> Append(t.hens, Hen(key)),
   buckets |-> [t.buckets EXCEPT ![HIndex[key]] = <<h>> \o @],
   all_entries |-> <<h>> \o t.all_entries,
   destroyed |-> Append(t.destroyed, 0)]

First(t) == IF t.all_entries = <<>> THEN NULL ELSE Head(t.all_entries)

(* all_entries.le_next of an entry that is in the list.                    *)
LeNext(t, h) ==
  LET after == {n \in 2 .. Len(t.all_entries) : t.all_entries[n - 1] = h}
  IN  IF after = {} THEN NULL ELSE t.all_entries[CHOOSE n \in after : TRUE]

-----------------------------------------------------------------------------

\* Seeded fault: the entry that was found is not deleted.
HInsertBeside(key) ==
  /\ Len(ht.hens) < MaxEntries
  /\ ht' = InsertHead(ht, key)
  /\ UNCHANGED <<iter, open, began, visits>>

HInsert(key) ==
  LET old == HEntry(ht, key) IN
  /\ Len(ht.hens) < MaxEntries
  /\ ht' = InsertHead(IF old = NULL THEN ht ELSE HTryDelete(ht, old), key)
  /\ UNCHANGED <<iter, open, began, visits>>

HDelete(key) ==
  LET old == HEntry(ht, key) IN
  /\ old # NULL
  /\ ht' = HTryDelete(ht, old)
  /\ UNCHANGED <<iter, open, began, visits>>

Visit(h) == IF h = NULL THEN <<>> ELSE <<h>>

HIterFirst(i) ==
  /\ i \notin open
  /\ open' = open \union {i}
  /\ iter' = [iter EXCEPT ![i] = First(ht)]
  /\ ht' = Lock(ht, First(ht))
  /\ began' = [began EXCEPT ![i] = {h \in ToSet(ht.all_entries) : Live(ht, h)}]
  /\ visits' = [visits EXCEPT ![i] = Visit(First(ht))]

(* hiter_next: the next entry is read, and locked, before this one is let  *)
(* go, which may free it.                                                  *)
\* Seeded fault: the entry is let go first.
HIterNextLate(i) ==
  LET after == Unlock(ht, iter[i])
      next == IF iter[i] = NULL THEN NULL ELSE LeNext(after, iter[i])
  IN
  /\ i \in open
  /\ ht' = Lock(after, next)
  /\ iter' = [iter EXCEPT ![i] = next]
  /\ visits' = [visits EXCEPT ![i] = @ \o Visit(next)]
  /\ UNCHANGED <<open, began>>

HIterNext(i) ==
  LET next == IF iter[i] = NULL THEN NULL ELSE LeNext(ht, iter[i]) IN
  /\ i \in open
  /\ ht' = Unlock(Lock(ht, next), iter[i])
  /\ iter' = [iter EXCEPT ![i] = next]
  /\ visits' = [visits EXCEPT ![i] = @ \o Visit(next)]
  /\ UNCHANGED <<open, began>>

HIterFree(i) ==
  /\ i \in open
  /\ open' = open \ {i}
  /\ ht' = Unlock(ht, iter[i])
  /\ iter' = [iter EXCEPT ![i] = NULL]
  /\ began' = [began EXCEPT ![i] = {}]
  /\ visits' = [visits EXCEPT ![i] = <<>>]

Next ==
  \/ \E k \in Keys : HInsert(k) \/ HDelete(k)
  \/ \E i \in Iters : HIterFirst(i) \/ HIterNext(i) \/ HIterFree(i)

Spec == Init /\ [][Next]_vars
-----------------------------------------------------------------------------
(* Properties.                                                             *)

(* Every part of the table ranges over what lib_hash.c stores in it, and   *)
(* only entries of the table are linked.                                   *)
TypeOK ==
  /\ ht.hens \in Seq([key : Keys, is_deleted : BOOLEAN, lock_count : Nat])
  /\ Len(ht.hens) <= MaxEntries
  /\ ht.buckets \in [Buckets -> Seq(Allocated)]
  /\ ht.all_entries \in Seq(Allocated)
  /\ ht.destroyed \in [Allocated -> Nat]
  /\ iter \in [Iters -> Allocated \union {NULL}]
  /\ open \subseteq Iters
  /\ began \in [Iters -> SUBSET Allocated]
  /\ visits \in [Iters -> Seq(Allocated)]

InTable(h) == Contains(ht.all_entries, h)

(* lock_count is what keeps memory alive under an iterator: it is the      *)
(* number of iterators on the entry, and they are all on entries that are  *)
(* still in the table; a count below 0 is outside its type.                *)
LocksCountIterators ==
  /\ TypeOK
  /\ \A i \in Iters : iter[i] # NULL => InTable(iter[i])
  /\ \A h \in Allocated :
       InTable(h) =>
         ht.hens[h].lock_count = Cardinality({i \in Iters : iter[i] = h})

(* The destructor and do_delete of an entry run once, with its removal     *)
(* from both lists, and nothing that is deleted lingers after its last     *)
(* iterator has left.                                                      *)
DestroyedOnce ==
  \A h \in Allocated :
    /\ ht.destroyed[h] = IF InTable(h) THEN 0 ELSE 1
    /\ Contains(ht.buckets[HIndex[ht.hens[h].key]], h) <=> InTable(h)
    /\ InTable(h) /\ ~Live(ht, h) => \E i \in Iters : iter[i] = h

(* An iterator shows no entry twice, and one that has come to the end has  *)
(* shown every entry that was there when it started and is there still,    *)
(* whatever was inserted, replaced or deleted on the way, the entry it sat *)
(* on included.                                                            *)
IterationComplete ==
  \A i \in open :
    /\ IsInjective(visits[i])
    /\ iter[i] = NULL =>
         \A h \in began[i] :
           InTable(h) /\ Live(ht, h) => Contains(visits[i], h)

(* hfind sees a dictionary: a deferred deletion is already invisible to    *)
(* it, and the removal it ends in disturbs nobody else's entry.            *)
Found == [k \in Keys |-> HEntry(ht, k)]

D == INSTANCE Dict WITH Values <- Hens, dict <- Found,
                        given <- Allocated

ImplementsDict == D!Spec
=============================================================================
