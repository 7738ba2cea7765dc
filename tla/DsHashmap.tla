----------------------------- MODULE DsHashmap -----------------------------
(***************************************************************************)
(* The hash table ds_hashmap.c: buckets that hold chains of items, a mutex *)
(* for the table, one for the vector of all chains, and a spin lock per    *)
(* chain.                                                                  *)
(*                                                                         *)
(* What runs under the table's mutex is one step.  Whoever has a chain     *)
(* keeps its number from one section to the next, as the code keeps the    *)
(* pointer.  Chains are numbered in the order of chains_array.  Freeing,   *)
(* copying and the callbacks that free values are left out.                *)
(***************************************************************************)
EXTENDS Integers, Sequences, FiniteSets, FiniteSetsExt, SequencesExt

CONSTANTS
    Threads,
    Keys,
    Hash,       \* ht_hash_function
    Values,
    NULL,
    Absent,     \* what a lookup that finds nothing is worth
    Capacity,   \* rte_roundup_pow_of_two(initial_capacity)
    MaxCount    \* bound: no set begins above this count

ASSUME HashmapAssumption ==
    /\ Hash \in [Keys -> Nat] /\ Capacity \in Nat \ {0} /\ MaxCount \in Nat
    /\ NULL \notin Values \cup Threads /\ Absent \notin Values \cup {NULL}

VARIABLES
    count,      \* element_count
    size,       \* buckets_count
    buckets,    \* the chain of each bucket, 0 if there is none
    chains,     \* hash, items, what last_element points to, who has it locked
    iterator,   \* who has locked chains_array to go through it
    th          \* where each thread is in its call

(* History, for the properties only. *)
VARIABLES
    last,       \* what was last done to each key
    lost        \* keys of whose item the table has lost track

vars == <<count, size, buckets, chains, iterator, th, last, lost>>

AtHome == [at |-> "app", op |-> NULL, key |-> NULL, val |-> NULL, match |-> NULL,
           chain |-> 0, found |-> 0]

\* ht_set, ht_get_and_set and ht_set_copy; ht_set_if_not_exists and ht_get_or_set.
Setters == {"set", "set_if_not_exists"}

Init ==
    /\ count = 0 /\ size = Capacity
    /\ buckets = [i \in 0 .. Capacity - 1 |-> 0] /\ chains = <<>>
    /\ iterator = NULL /\ th = [t \in Threads |-> AtHome]
    /\ last = [k \in Keys |-> Absent] /\ lost = {}

\* A bug the checks look for: every size takes other bits of the hash.
SlotOfOtherBits(hash, n) == (hash \div n) % n

\* hashvalue & (buckets_count - 1)
Slot(hash, n) == hash % n

ChainOf(k) == buckets[Slot(Hash[k], size)]

\* Where a walk along the items stops: the first of the key, or 0.
Find(items, k) == SelectInSeq(items, LAMBDA item : item.key = k)

KeysOn(c) == {chains[c].items[j].key : j \in DOMAIN chains[c].items}

\* What a thread alone would get.
Lookup(k) ==
    IF ChainOf(k) = 0 THEN Absent
    ELSE LET items == chains[ChainOf(k)].items IN
         IF Find(items, k) = 0 THEN Absent ELSE items[Find(items, k)].val

Leaves(t) == th' = [th EXCEPT ![t] = AtHome]

-----------------------------------------------------------------------------
(***************************************************************************)
(* The table's mutex: finding, making and re-filing chains.                *)
(***************************************************************************)

\* A bug the checks look for: the chain is filed one bucket on.
NewChainMisfiled(k) ==
    /\ iterator = NULL
    /\ chains' = Append(chains, [hash |-> Hash[k], items |-> <<>>, tail |-> "end", by |-> NULL])
    /\ buckets' = [buckets EXCEPT ![(Hash[k] + 1) % size] = Len(chains) + 1]

\* ht_set_bucket: it keeps the hash of the key that it is made for.
NewChain(k) ==
    /\ iterator = NULL
    /\ chains' = Append(chains, [hash |-> Hash[k], items |-> <<>>, tail |-> "end", by |-> NULL])
    /\ buckets' = [buckets EXCEPT ![Slot(Hash[k], size)] = Len(chains) + 1]

\* ht_set_internal up to HT_UNLOCK; without memory for a chain it fails there.
SetBegin(t, op, k, v) ==
    /\ th[t].at = "app" /\ count <= MaxCount
    /\ IF ChainOf(k) # 0 THEN UNCHANGED <<chains, buckets>> ELSE NewChain(k)
    /\ th' = [th EXCEPT ![t] = [AtHome EXCEPT
                !.at = "chain", !.op = op, !.key = k, !.val = v,
                !.chain = IF ChainOf(k) # 0 THEN ChainOf(k) ELSE Len(chains) + 1]]
    /\ UNCHANGED <<count, size, iterator, last, lost>>

\* ht_call_internal up to HT_UNLOCK; without a chain it ends there.
CallBegin(t, op, k, v, match) ==
    /\ th[t].at = "app" /\ ChainOf(k) # 0
    /\ th' = [th EXCEPT ![t] = [AtHome EXCEPT !.at = "chain", !.op = op, !.key = k, !.val = v,
                                              !.match = match, !.chain = ChainOf(k)]]
    /\ UNCHANGED <<count, size, buckets, chains, iterator, last, lost>>

\* The look at the load, without a lock.
GrowCheck(t) ==
    /\ th[t].at = "check"
    /\ IF count > size + (size \div 3) THEN th' = [th EXCEPT ![t].at = "grow"] ELSE Leaves(t)
    /\ UNCHANGED <<count, size, buckets, chains, iterator, last, lost>>

\* A chain goes where the hash of its first key sends it, items and all.
Refiled(n) ==
    [i \in 0 .. n - 1 |->
        LET here == {c \in DOMAIN chains : Slot(chains[c].hash, n) = i}
        IN  IF here = {} THEN 0 ELSE Max(here)]

\* ht_grow_internal
Grow(t) ==
    /\ th[t].at = "grow" /\ iterator = NULL
    /\ size' = 2 * size
    /\ buckets' = Refiled(2 * size)
    /\ lost' = lost \cup {k \in Keys : /\ ChainOf(k) # 0 /\ k \in KeysOn(ChainOf(k))
                                       /\ Slot(Hash[k], 2 * size) # Slot(chains[ChainOf(k)].hash, 2 * size)}
    /\ Leaves(t)
    /\ UNCHANGED <<count, chains, iterator, last>>

-----------------------------------------------------------------------------
(***************************************************************************)
(* The lock of a chain: looking for the key and doing what was asked.      *)
(***************************************************************************)

\* A bug the checks look for: the chain is searched before it is locked.
LockChainLate(t) ==
    /\ th[t].at = "chain"
    /\ th' = [th EXCEPT ![t].at = "locked", ![t].found = Find(chains[th[t].chain].items, th[t].key)]
    /\ chains' = [chains EXCEPT ![th[t].chain].by = t]
    /\ UNCHANGED <<count, size, buckets, iterator, last, lost>>

\* CHAIN_LOCK and the search.
LockChain(t) ==
    LET c == th[t].chain IN
    /\ th[t].at = "chain" /\ chains[c].by = NULL
    /\ chains' = [chains EXCEPT ![c].by = t]
    /\ th' = [th EXCEPT ![t].at = "locked", ![t].found = Find(chains[c].items, th[t].key)]
    /\ UNCHANGED <<count, size, buckets, iterator, last, lost>>

\* CHAIN_UNLOCK of a chain whose record is now ch.
Unlock(c, ch) == chains' = [chains EXCEPT ![c] = [ch EXCEPT !.by = NULL]]

\* The key was written to on chain c: seen, unless the chain has been re-filed.
Wrote(k, v, c) ==
    /\ last' = [last EXCEPT ![k] = v]
    /\ lost' = IF ChainOf(k) = c THEN lost \ {k} ELSE lost \cup {k}

\* LINK_LIST_ADD_NODE_TO_TAIL: on a chain that has items but no last_element the
\* item is hung on to nothing, and what comes after it on to that.
Linked(ch, item) ==
    IF ch.items = <<>> \/ ch.tail = "end"
    THEN [ch EXCEPT !.items = Append(@, item), !.tail = "end"]
    ELSE [ch EXCEPT !.tail = "adrift"]

Insert(t) ==
    LET c == th[t].chain  k == th[t].key  v == th[t].val
        ch == Linked(chains[c], [key |-> k, val |-> v])
    IN
    /\ th[t].at = "locked" /\ th[t].op \in Setters /\ th[t].found = 0
    /\ Unlock(c, ch) /\ count' = count + 1
    /\ IF ch.tail = "end" THEN Wrote(k, v, c)
       ELSE last' = [last EXCEPT ![k] = v] /\ lost' = lost \cup {k}
    /\ th' = [th EXCEPT ![t] = [AtHome EXCEPT !.at = "check"]]
    /\ UNCHANGED <<size, buckets, iterator>>

\* No memory for an item, its key or its copy.
InsertFails(t) ==
    /\ th[t].at = "locked" /\ th[t].op \in Setters /\ th[t].found = 0
    /\ Unlock(th[t].chain, chains[th[t].chain])
    /\ Leaves(t)
    /\ UNCHANGED <<count, size, buckets, iterator, last, lost>>

\* A new value for an item that is there.
Revalue(t, v) ==
    /\ th[t].at = "locked" /\ th[t].found # 0
    /\ Unlock(th[t].chain, [chains[th[t].chain] EXCEPT !.items[th[t].found].val = v])
    /\ Wrote(th[t].key, v, th[t].chain)
    /\ UNCHANGED <<count, size, buckets, iterator>>

Replace(t) ==
    /\ th[t].op = "set"
    /\ Revalue(t, th[t].val)
    /\ th' = [th EXCEPT ![t] = [AtHome EXCEPT !.at = "check"]]

\* rte_realloc fails in ht_set_copy: the old value is gone as well.
ReplaceFails(t) == th[t].op = "set" /\ Revalue(t, NULL) /\ Leaves(t)

\* ht_unset, and ht_set_if_equals where the value is the one expected.
Unset(t) == th[t].op = "unset" /\ Revalue(t, NULL) /\ Leaves(t)

ReplaceIf(t) ==
    /\ th[t].op = "set_if_equals" /\ th[t].found # 0
    /\ chains[th[t].chain].items[th[t].found].val = th[t].match
    /\ Revalue(t, th[t].val) /\ Leaves(t)

\* Nothing to change: ht_get, and a key that is there or not against expectation.
JustLook(t) ==
    /\ th[t].at = "locked"
    /\ \/ th[t].op = "get"
       \/ th[t].op \notin Setters /\ th[t].found = 0
       \/ th[t].op = "set_if_not_exists" /\ th[t].found # 0
       \/ th[t].op = "set_if_equals" /\ th[t].found # 0
            /\ chains[th[t].chain].items[th[t].found].val # th[t].match
    /\ Unlock(th[t].chain, chains[th[t].chain])
    /\ Leaves(t)
    /\ UNCHANGED <<count, size, buckets, iterator, last, lost>>

\* LINK_LIST_RMV_NODE: with the first item goes the chain, with the last last_element.
Without(ch, j) ==
    IF j = 1 THEN [ch EXCEPT !.items = <<>>, !.tail = "end"]
    ELSE [ch EXCEPT !.items = RemoveAt(@, j),
                    !.tail = IF j = Len(ch.items) /\ @ = "end" THEN "none" ELSE @]

\* Item j of chain c is taken out and freed.
Take(c, j) ==
    LET k == chains[c].items[j].key
        others == KeysOn(c) \ {k}
    IN
    /\ Unlock(c, Without(chains[c], j))
    /\ count' = count - 1
    /\ last' = [last EXCEPT ![k] = Absent]
    /\ lost' = (IF ChainOf(k) = c THEN lost \ {k} ELSE lost \cup {k})
               \cup (IF j = 1 THEN {other \in others : ChainOf(other) = c} ELSE {})

\* ht_delete, and ht_delete_if_equals where the value is the one expected.
Delete(t) ==
    /\ th[t].at = "locked" /\ th[t].op = "delete" /\ th[t].found # 0
    /\ Take(th[t].chain, th[t].found)
    /\ Leaves(t)
    /\ UNCHANGED <<size, buckets, iterator>>

-----------------------------------------------------------------------------
(***************************************************************************)
(* ht_foreach_pair and ht_clear.                                           *)
(***************************************************************************)

EachBegin(t) ==
    /\ th[t].at = "app" /\ iterator = NULL
    /\ iterator' = t
    /\ th' = [th EXCEPT ![t].at = "each", ![t].chain = 1]
    /\ UNCHANGED <<count, size, buckets, chains, last, lost>>

EachStops(t) == iterator' = NULL /\ Leaves(t)
EachGoesOn(t) == th' = [th EXCEPT ![t].chain = @ + 1] /\ UNCHANGED iterator

\* The callback goes through the whole chain, or stops at an item of it.
EachChain(t) ==
    /\ th[t].at = "each" /\ th[t].chain <= Len(chains) /\ chains[th[t].chain].by = NULL
    /\ \/ EachGoesOn(t)
       \/ chains[th[t].chain].items # <<>> /\ EachStops(t)
    /\ UNCHANGED <<count, size, buckets, chains, last, lost>>

\* It removes item j: the rest of this chain is passed over.
EachRemoves(t, j) ==
    /\ th[t].at = "each" /\ th[t].chain <= Len(chains) /\ chains[th[t].chain].by = NULL
    /\ j \in DOMAIN chains[th[t].chain].items
    /\ Take(th[t].chain, j)
    /\ EachGoesOn(t) \/ EachStops(t)
    /\ UNCHANGED <<size, buckets>>

EachEnd(t) ==
    /\ th[t].at = "each" /\ th[t].chain > Len(chains)
    /\ EachStops(t)
    /\ UNCHANGED <<count, size, buckets, chains, last, lost>>

\* A bug the checks look for: the chains are freed, the buckets still hold them.
ClearKeepsBuckets(t) ==
    /\ \A u \in Threads : th[u].at = "app"
    /\ count' = 0 /\ chains' = <<>>
    /\ last' = [k \in Keys |-> Absent] /\ lost' = {}
    /\ UNCHANGED <<size, buckets, iterator, th>>

\* The caller sees to it that nobody else uses the table.
Clear(t) ==
    /\ \A u \in Threads : th[u].at = "app"
    /\ count' = 0 /\ chains' = <<>>
    /\ buckets' = [i \in DOMAIN buckets |-> 0]
    /\ last' = [k \in Keys |-> Absent] /\ lost' = {}
    /\ UNCHANGED <<size, iterator, th>>

Next == \E t \in Threads :
    \/ \E k \in Keys, v \in Values :
        \/ \E op \in Setters : SetBegin(t, op, k, v)
        \/ \E match \in Values : CallBegin(t, "set_if_equals", k, v, match)
    \/ \E k \in Keys, op \in {"get", "unset", "delete"} : CallBegin(t, op, k, NULL, NULL)
    \/ GrowCheck(t) \/ Grow(t)
    \/ LockChain(t) \/ Insert(t) \/ InsertFails(t) \/ Replace(t) \/ ReplaceFails(t)
    \/ Unset(t) \/ ReplaceIf(t) \/ JustLook(t) \/ Delete(t)
    \/ EachBegin(t) \/ EachChain(t) \/ EachEnd(t)
    \/ \E c \in DOMAIN chains : \E j \in DOMAIN chains[c].items : EachRemoves(t, j)
    \/ Clear(t)

Spec == Init /\ [][Next]_vars

-----------------------------------------------------------------------------
(***************************************************************************)
(* Properties.                                                             *)
(***************************************************************************)

TypeOK ==
    /\ count \in Nat /\ size \in Nat
    /\ buckets \in [0 .. size - 1 -> 0 .. Len(chains)]
    /\ \A c \in DOMAIN chains :
        /\ chains[c].hash \in Nat /\ chains[c].tail \in {"end", "none", "adrift"}
        /\ chains[c].by \in Threads \cup {NULL}
        /\ \A j \in DOMAIN chains[c].items :
            chains[c].items[j] \in [key : Keys, val : Values \cup {NULL}]
    /\ iterator \in Threads \cup {NULL}
    /\ \A t \in Threads : th[t].at = "locked" => chains[th[t].chain].by = t
    /\ last \in [Keys -> Values \cup {NULL, Absent}] /\ lost \subseteq Keys

\* The table is a map: a lookup finds what was last done to its key, whatever
\* other threads do to the same chain, except for keys that the table lost track
\* of.  There are four ways to that: growth moves the chain and leaves the key
\* behind; the first item of its chain is removed; the item is added after the
\* last one was removed; it was written to a chain that had been moved meanwhile.
IsAMap == \A k \in Keys \ lost : Lookup(k) = last[k]

\* Every chain is in the bucket of its hash and in no other, so that growth
\* never puts one chain over another and two threads never make the same one.
EveryChainIsFiled ==
    \A i \in DOMAIN buckets, c \in DOMAIN chains :
        buckets[i] = c <=> Slot(chains[c].hash, size) = i

\* A value that the table has lost never comes back by itself, at no later growth
\* either: only a write to the key makes it found again.
LostStaysLost ==
    [][\A k \in lost : Lookup(k) = Absent /\ k \in lost' => Lookup(k)' = Absent]_vars
=============================================================================
