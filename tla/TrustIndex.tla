------------------------------ MODULE TrustIndex ------------------------------
(***************************************************************************)
(* The object index of the trust module (trust/index.c): batches,          *)
(* notification and the changes to objects, with the callbacks the index   *)
(* is created with as operators.                                           *)
(***************************************************************************)
EXTENDS TrustObjects

CONSTANTS
    Build(_, _, _),     \* build: index, attributes, merge -> [rv, extra]
    Store(_, _, _),     \* store: index, handle, built -> [rv, w, built]
    Unstore(_, _),      \* remove: index, attributes -> [rv, w]
    Notify(_, _, _)     \* notify: index, handle, attributes -> index

(***************************************************************************)
(* Notification: dropped inside the callback, queued inside a batch.       *)
(***************************************************************************)
Notified(w, handle, attrs) ==
    IF attrs = NoAttrs THEN w
    ELSE [Notify([w EXCEPT !.notifying = TRUE], handle, attrs) EXCEPT !.notifying = FALSE]

call_notify(w, handle, removed) ==
    IF removed = NoAttrs THEN Notified(w, handle, p11_index_lookup(w, handle))
                         ELSE Notified(w, 0, removed)

index_notify(w, handle, removed) ==
    IF w.notifying THEN w
    ELSE IF ~w.loading THEN call_notify(w, handle, removed)
    ELSE [w EXCEPT !.changes = (handle :> removed) @@ @]

p11_index_finish(w) ==
    IF ~w.loading THEN w
    ELSE Accumulate(LAMBDA v, h : index_notify(v, h, w.changes[h]),
                    [w EXCEPT !.loading = FALSE,
                              !.changes = [h \in {} |-> NoAttrs]],
                    Iterate(w, DOMAIN w.changes))

(***************************************************************************)
(* Changing objects.  Every operation answers the index, a return value    *)
(* and the handle of the object.                                           *)
(***************************************************************************)
Answer(w, rv, handle) == [w |-> w, rv |-> rv, handle |-> handle]

\* The attributes built are the merged ones, then the current ones, then
\* those the builder adds; s is what the store made of them.
Stored(s, handle) ==
    IF s.rv # "OK" THEN [rv |-> s.rv, w |-> s.w]
    ELSE [rv |-> "OK",
          w |-> index_hash([s.w EXCEPT !.objects = (handle :> s.built) @@ @], handle)]

Built(w, handle, attrs, merge, b) ==
    IF b.rv # "OK" THEN [rv |-> b.rv, w |-> w]
    ELSE Stored(Store(w, handle,
                      p11_attrs_merge(p11_attrs_merge(merge, attrs, FALSE), b.extra, FALSE)),
                handle)

index_build(w, handle, attrs, merge) ==
    Built(w, handle, attrs, merge, Build(w, attrs, merge))

\* The answer after index_build
Taken(b, handle, failed) ==
    IF b.rv # "OK" THEN Answer(b.w, b.rv, failed)
    ELSE Answer(index_notify(b.w, handle, NoAttrs), "OK", handle)

p11_index_take(w, attrs) ==
    Taken(index_build([w EXCEPT !.next = @ + 1], w.next, NoAttrs, attrs), w.next, 0)

p11_index_add(w, attrs) == p11_index_take(w, p11_attrs_buildn(NoAttrs, attrs))

p11_index_update(w, handle, update) ==
    IF handle \notin DOMAIN w.objects
    THEN Answer(w, "OBJECT_HANDLE_INVALID", handle)
    ELSE Taken(index_build(w, handle, w.objects[handle], update), handle, handle)

p11_index_set(w, handle, attrs) ==
    p11_index_update(w, handle, p11_attrs_buildn(NoAttrs, attrs))

\* The object is taken out, and put back if the store cannot remove it.
Removed(w, handle, u) ==
    IF u.rv # "OK" THEN Answer([u.w EXCEPT !.objects = w.objects], u.rv, handle)
    ELSE Answer(index_notify(u.w, handle, w.objects[handle]), "OK", handle)

p11_index_remove(w, handle) ==
    IF handle \notin DOMAIN w.objects
    THEN Answer(w, "OBJECT_HANDLE_INVALID", handle)
    ELSE Removed(w, handle,
                 Unstore([w EXCEPT !.objects = [h \in DOMAIN @ \ {handle} |-> @[h]]],
                         w.objects[handle]))

(***************************************************************************)
(* Replacing the objects `handles' by those of `replace': an object that   *)
(* agrees with one of them on the attribute `key' takes its place under    *)
(* the same handle, the others are removed, and what is left is added.     *)
(***************************************************************************)
Agreeing(obj, key, replace, left) ==
    {j \in left : key \in DOMAIN obj /\ key \in DOMAIN replace[j]
                  /\ obj[key] = replace[j][key]}

\* The object h, after its place was given to j or it was removed
Placed(acc, h, j, r) ==
    IF r.rv # "OK" \/ j = 0 THEN [acc EXCEPT !.w = r.w, !.rv = r.rv]
    ELSE [acc EXCEPT !.w = index_notify(r.w, h, NoAttrs), !.left = @ \ {j}]
PlaceBy(acc, h, replace, j) ==
    Placed(acc, h, j, IF j = 0 THEN p11_index_remove(acc.w, h)
                      ELSE index_build(acc.w, h, NoAttrs, replace[j]))
Place(acc, h, key, replace) ==
    IF acc.rv # "OK" \/ p11_index_lookup(acc.w, h) = NoAttrs THEN acc
    ELSE PlaceBy(acc, h, replace,
                 Least(Agreeing(acc.w.objects[h], key, replace, acc.left)))

Added(acc, t) == [acc EXCEPT !.w = t.w, !.rv = t.rv]
Add(acc, j, replace) ==
    IF acc.rv # "OK" \/ j \notin acc.left THEN acc
    ELSE Added(acc, p11_index_take(acc.w, replace[j]))

index_replacev(w, handles, key, replace) ==
    Accumulate(LAMBDA acc, j : Add(acc, j, replace),
               Accumulate(LAMBDA acc, h : Place(acc, h, key, replace),
                          [w |-> w, rv |-> "OK", left |-> DOMAIN replace], handles),
               [j \in DOMAIN replace |-> j])

p11_index_replace_all(w, match, key, replace) ==
    index_replacev(w, Ascending(p11_index_find_all(w, match)), key, replace)

\* Taking and replacing in a batch of its own
Batched(r) == [w |-> p11_index_finish(r.w), rv |-> r.rv]
TakeInBatch(w, attrs) == p11_index_finish(p11_index_take(p11_index_load(w), attrs).w)

ReplaceInBatch(w, match, key, replace) ==
    Batched(p11_index_replace_all(p11_index_load(w), match, key, replace))
===============================================================================
