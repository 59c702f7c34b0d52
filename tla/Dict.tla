---------------------------------- MODULE Dict ----------------------------------
(***************************************************************************)
(* The hash table (common/dict.c) with its iterator.  The buckets are a    *)
(* sequence of chains, a chain a sequence of entries.  The iterator holds  *)
(* the index of the next bucket and the rest of the chain it is in: the    *)
(* callers (load_registered_modules_unlocked, sys_C_CloseAllSessions,      *)
(* p11_parse_openssl_trusted_certificate) remove the entry they have just  *)
(* been given and go on.                                                   *)
(***************************************************************************)
EXTENDS Naturals, Sequences, FiniteSets, TLC

CONSTANTS
    DictKeys,     \* the keys
    DictValues,   \* the values
    Hash,         \* hash_func: a function on the keys
    FirstSize,    \* num_buckets of a new table
    NoValue       \* NULL

VARIABLES
    dict,      \* [buckets, num_items]
    iter,      \* the iterator: [on, index, next], next the rest of a chain
    model,     \* what was set and not removed: a function on some of the keys
    seen       \* the keys the iterator has returned, in order

vars == <<dict, iter, model, seen>>

p11_dict_new(size) == [buckets |-> [i \in 1..size |-> <<>>], num_items |-> 0]

Bucket(d, key) == (Hash[key] % Len(d.buckets)) + 1

\* The place of the key in its chain, 0 if it has none.
lookup_bucket(d, key) ==
    LET chain == d.buckets[Bucket(d, key)]
        at == {i \in DOMAIN chain : Hash[chain[i].key] = Hash[key] /\ chain[i].key = key}
    IN  IF at = {} THEN 0 ELSE CHOOSE i \in at : \A j \in at : i <= j

p11_dict_get(d, key) ==
    LET at == lookup_bucket(d, key)
    IN  IF at = 0 THEN NoValue ELSE d.buckets[Bucket(d, key)][at].value

\* next_entry: the iterator after it, and the entry in a set of at most one.
next_entry(d, it) ==
    LET used == {i \in it.index + 1..Len(d.buckets) : d.buckets[i] # <<>>}
        first == CHOOSE i \in used : \A j \in used : i <= j
        from == IF it.next # <<>> THEN it.next ELSE d.buckets[first]
    IN  IF it.next = <<>> /\ used = {}
        THEN [entry |-> {}, iter |-> [it EXCEPT !.index = Len(d.buckets)]]
        ELSE [entry |-> {from[1]},
              iter |-> [it EXCEPT !.index = IF it.next # <<>> THEN @ ELSE first,
                                  !.next = SubSeq(from, 2, Len(from))]]

\* All the entries in the order of the iterator.
Entries(d) ==
    LET all[i \in 0..Len(d.buckets)] ==
            IF i = 0 THEN <<>> ELSE all[i - 1] \o d.buckets[i]
    IN  all[Len(d.buckets)]

\* Mutant: an entry that collides takes the place of the chain.
RehashedMutant(d) ==
    LET size == Len(d.buckets) * 2 + 1
        all == Entries(d)
        moved[i \in 0..Len(all)] ==
            IF i = 0 THEN [j \in 1..size |-> <<>>]
            ELSE [moved[i - 1] EXCEPT ![(Hash[all[i].key] % size) + 1] = <<all[i]>>]
    IN  [d EXCEPT !.buckets = moved[Len(all)]]

\* The entries move to the front of their new chains, one after the other.
Rehashed(d) ==
    LET size == Len(d.buckets) * 2 + 1
        move(b, entry) ==
            LET i == (Hash[entry.key] % size) + 1 IN [b EXCEPT ![i] = <<entry>> \o @]
        all == Entries(d)
        moved[i \in 0..Len(all)] ==
            IF i = 0 THEN [j \in 1..size |-> <<>>] ELSE move(moved[i - 1], all[i])
    IN  [d EXCEPT !.buckets = moved[Len(all)]]

p11_dict_set(d, key, value) ==
    LET at == lookup_bucket(d, key)
        b == Bucket(d, key)
        entry == [key |-> key, value |-> value]
        set == IF at # 0 THEN [d EXCEPT !.buckets[b][at] = entry]
               ELSE [d EXCEPT !.buckets[b] = Append(@, entry), !.num_items = @ + 1]
    IN  IF set.num_items > Len(set.buckets) THEN Rehashed(set) ELSE set

p11_dict_steal(d, key) ==
    LET at == lookup_bucket(d, key)
    IN  IF at = 0 THEN d
        ELSE [d EXCEPT !.buckets[Bucket(d, key)] =
                           SubSeq(@, 1, at - 1) \o SubSeq(@, at + 1, Len(@)),
                       !.num_items = @ - 1]

p11_dict_remove(d, key) == p11_dict_steal(d, key)

p11_dict_clear(d) == p11_dict_new(Len(d.buckets))

p11_dict_iterate == [on |-> TRUE, index |-> 0, next |-> <<>>]

NotIterating == [on |-> FALSE, index |-> 0, next |-> <<>>]

Empty == [k \in {} |-> NoValue]

Init ==
    /\ dict = p11_dict_new(FirstSize)
    /\ iter = NotIterating
    /\ model = Empty
    /\ seen = <<>>

Set(key, value) ==
    /\ ~iter.on
    /\ dict' = p11_dict_set(dict, key, value)
    /\ model' = key :> value @@ model
    /\ UNCHANGED <<iter, seen>>

Remove(key) ==
    /\ ~iter.on
    /\ dict' = p11_dict_remove(dict, key)
    /\ model' = [k \in DOMAIN model \ {key} |-> model[k]]
    /\ UNCHANGED <<iter, seen>>

Clear ==
    /\ ~iter.on
    /\ dict' = p11_dict_clear(dict)
    /\ model' = Empty
    /\ UNCHANGED <<iter, seen>>

Iterate ==
    /\ ~iter.on
    /\ iter' = p11_dict_iterate
    /\ seen' = <<>>
    /\ UNCHANGED <<dict, model>>

\* p11_dict_next, and the caller's choice to remove the entry.
p11_dict_next ==
    LET result == next_entry(dict, iter)
    IN  /\ iter.on
        /\ IF result.entry = {}
           THEN /\ iter' = NotIterating
                /\ UNCHANGED <<dict, model, seen>>
           ELSE LET entry == CHOOSE e \in result.entry : TRUE
                IN  /\ iter' = result.iter
                    /\ seen' = Append(seen, entry.key)
                    /\ \/ UNCHANGED <<dict, model>>
                       \/ /\ dict' = p11_dict_remove(dict, entry.key)
                          /\ model' = [k \in DOMAIN model \ {entry.key} |-> model[k]]

Next ==
    \/ \E key \in DictKeys, value \in DictValues : Set(key, value)
    \/ \E key \in DictKeys : Remove(key)
    \/ Clear
    \/ Iterate
    \/ p11_dict_next

Spec == Init /\ [][Next]_vars

\* The table is the map that its callers set: every key has the value it was
\* last given, num_items counts the keys, and growing the table loses or
\* doubles no entry, whatever keys collide.
DictIsMap ==
    /\ dict.num_items = Cardinality(DOMAIN model)
    /\ Len(Entries(dict)) = dict.num_items
    /\ \A key \in DictKeys :
           p11_dict_get(dict, key) = IF key \in DOMAIN model THEN model[key] ELSE NoValue

\* p11_dict_next returns every key exactly once, also when the caller removes
\* the entries on the way: what is still in the table and not returned is
\* what is still ahead.
IterationSeesAll ==
    /\ \A i, j \in DOMAIN seen : seen[i] = seen[j] => i = j
    /\ iter.on =>
           LET rest == iter.next \o Entries([dict EXCEPT !.buckets = SubSeq(@, iter.index + 1, Len(@))])
           IN  {rest[i].key : i \in DOMAIN rest}
                 = DOMAIN model \ {seen[i] : i \in DOMAIN seen}
================================================================================
