----------------------------- MODULE TrustObjects -----------------------------
(***************************************************************************)
(* The objects of the trust module: attribute arrays (common/attrs.c),     *)
(* certificates and extensions (trust/x509.c), and how objects are found   *)
(* in an index (trust/index.c).                                            *)
(*                                                                         *)
(* An array of CK_ATTRIBUTE terminated by CKA_INVALID is a function from   *)
(* attribute types to values, the NULL array the function with the empty   *)
(* domain.  A value is a string that stands for the bytes: "" is the zero  *)
(* length value, Booleans are "true" and "false", and Ulongs names the     *)
(* values that are as long as a CK_ULONG.  The ownership of the memory is  *)
(* left out.                                                               *)
(***************************************************************************)
EXTENDS Naturals, Sequences, FiniteSets, TLC

CONSTANTS
    Ulongs,        \* the values whose length is that of a CK_ULONG
    X509,          \* certificate -> [subject, issuer, serial, key, label,
                   \*    keyid, v1, start, end, ext: oid -> content]
    Extension,     \* extension -> [oid, content]
    PurposeNames,  \* the purposes of the instance, in a sequence
    BucketOf(_, _) \* the bucket an attribute type and value hash to

Booleans == {"true", "false"}

Bool(b) == IF b THEN "true" ELSE "false"

NoAttrs == [type \in {} |-> ""]

\* Left fold of an operator over a sequence.
Accumulate(op(_, _), base, s) ==
    LET f[i \in 0..Len(s)] == IF i = 0 THEN base ELSE op(f[i - 1], s[i])
    IN  f[Len(s)]

(***************************************************************************)
(* Building.  The template in `add' has no type twice.                     *)
(***************************************************************************)
attrs_build(attrs, add, override) ==
    IF override THEN add @@ attrs ELSE attrs @@ add

p11_attrs_build(attrs, add) == attrs_build(attrs, add, TRUE)

p11_attrs_buildn(attrs, add) == attrs_build(attrs, add, TRUE)

p11_attrs_take(attrs, type, value) ==
    attrs_build(attrs, type :> value, TRUE)

p11_attrs_merge(attrs, merge, replace) == attrs_build(attrs, merge, replace)

p11_attrs_dup(attrs) == p11_attrs_buildn(NoAttrs, attrs)

p11_attrs_remove(attrs, type) ==
    [t \in DOMAIN attrs \ {type} |-> attrs[t]]

(***************************************************************************)
(* Looking up: present at all, present with a value, as a Boolean or as an *)
(* unsigned long.  The value of an attribute that is absent is "".         *)
(***************************************************************************)
p11_attrs_find(attrs, type) == type \in DOMAIN attrs

p11_attrs_find_valid(attrs, type) ==
    type \in DOMAIN attrs /\ attrs[type] # ""

p11_attrs_find_value(attrs, type) ==
    IF p11_attrs_find_valid(attrs, type) THEN attrs[type] ELSE ""

p11_attrs_find_bool(attrs, type, value) ==
    type \in DOMAIN attrs /\ attrs[type] = value /\ value \in Booleans

p11_attrs_findn_bool(attrs, type, value) ==
    p11_attrs_find_bool(attrs, type, value)

p11_attrs_find_ulong(attrs, type) ==
    IF type \in DOMAIN attrs /\ attrs[type] \in Ulongs THEN attrs[type] ELSE ""

\* Those of the attributes of a template that are valid.
Valid(attrs, types) ==
    [t \in {u \in types : p11_attrs_find_valid(attrs, u)} |-> attrs[t]]

(***************************************************************************)
(* Matching.                                                               *)
(***************************************************************************)
p11_attr_equal(attrs, match, type) == attrs[type] = match[type]

p11_attrs_matchn(attrs, match) ==
    \A type \in DOMAIN match :
        p11_attrs_find(attrs, type) /\ p11_attr_equal(attrs, match, type)

p11_attrs_match(attrs, match) == p11_attrs_matchn(attrs, match)

(***************************************************************************)
(* Certificates and extensions.  DER is abstracted to tables: X509 gives   *)
(* the parts of every certificate that parses, Extension those of every    *)
(* extension that does.  What an extension says is its content             *)
(* [valid, ca, names].                                                     *)
(***************************************************************************)
\* The DER of an extension that says this.
p11_asn1_encode(oid, names) ==
    CHOOSE der \in DOMAIN Extension :
        /\ Extension[der].oid = oid
        /\ Extension[der].content.names = names

p11_x509_find_extension(der, oid) ==
    {X509[c].ext[o] : c \in {der} \cap DOMAIN X509,
                      o \in {oid} \cap UNION {DOMAIN X509[c].ext :
                                              c \in {der} \cap DOMAIN X509}}

\* The purposes of a valid extension, nothing (NULL) for an invalid one.
p11_x509_parse_extended_key_usage(ext) ==
    {SelectSeq(PurposeNames, LAMBDA p : p \in c.names) :
        c \in {d \in ext : d.valid}}

p11_x509_parse_key_usage(ext) == UNION {c.names : c \in {d \in ext : d.valid}}

(***************************************************************************)
(* An index is a record with at least the fields                           *)
(*                                                                         *)
(*   objects    handle -> attributes                                       *)
(*   buckets    the pairs <<bucket, handle>> hashed so far                 *)
(*   loading    whether `changes' is not NULL, a batch is open             *)
(*   changes    the queued changes, handle -> the attributes removed       *)
(*   notifying  whether the notify callback runs                           *)
(*   next       the next identifier of p11_module_next_id                  *)
(*   order      the order in which the dictionaries are iterated           *)
(*   token      whether its builder has P11_BUILDER_FLAG_TOKEN             *)
(*                                                                         *)
(* A bucket is sorted and keeps the handles of objects that are gone.      *)
(***************************************************************************)
MAX_SELECT == 3

p11_index_new(next, token, order) ==
    [objects |-> [h \in {} |-> NoAttrs], buckets |-> {}, loading |-> FALSE,
     changes |-> [h \in {} |-> NoAttrs], notifying |-> FALSE,
     next |-> next, order |-> order, token |-> token]

\* Handles in ascending order, as in a bucket.
Ascending(handles) ==
    [i \in 1..Cardinality(handles) |->
        CHOOSE h \in handles : Cardinality({g \in handles : g < h}) = i - 1]

\* p11_dict_next over handles: ascending unless the hash wraps around.
Down(up) == [i \in 1..Len(up) |-> up[Len(up) + 1 - i]]
Iterate(w, handles) ==
    IF w.order = "up" THEN Ascending(handles) ELSE Down(Ascending(handles))

is_indexable == <<"CLASS", "VALUE", "OBJECT_ID", "ID", "X_ORIGIN">>

\* The object identifier is left out.
IndexHashMutant(w, handle) ==
    [w EXCEPT !.buckets = @ \cup
        {<<BucketOf(type, w.objects[handle][type]), handle>> :
            type \in {"CLASS", "VALUE", "ID", "X_ORIGIN"}
                     \cap DOMAIN w.objects[handle]}]
index_hash(w, handle) ==
    [w EXCEPT !.buckets = @ \cup
        {<<BucketOf(type, w.objects[handle][type]), handle>> :
            type \in {is_indexable[i] : i \in DOMAIN is_indexable}
                     \cap DOMAIN w.objects[handle]}]

p11_index_lookup(w, handle) ==
    IF handle \in DOMAIN w.objects THEN w.objects[handle] ELSE NoAttrs

(***************************************************************************)
(* Finding.  The candidates are those of up to MAX_SELECT buckets of the   *)
(* indexable attributes asked for, or everything when there are none.      *)
(***************************************************************************)
Asked(match, i) == Cardinality({j \in 1..i : is_indexable[j] \in DOMAIN match})
index_select(w, match) ==
    {h \in DOMAIN w.objects :
        \A i \in DOMAIN is_indexable :
            is_indexable[i] \in DOMAIN match /\ Asked(match, i) <= MAX_SELECT
            => <<BucketOf(is_indexable[i], match[is_indexable[i]]), h>> \in w.buckets}

sink_one_match(w, match, handle) == p11_attrs_matchn(w.objects[handle], match)

p11_index_find_all(w, match) ==
    {h \in index_select(w, match) : sink_one_match(w, match, h)}

Least(handles) == IF handles = {} THEN 0 ELSE CHOOSE h \in handles : \A g \in handles : h <= g

p11_index_find(w, match) == Least(p11_index_find_all(w, match))

\* The handles whose attributes may match; C_FindObjects matches them later.
p11_index_snapshot(w, base, match) ==
    Ascending(index_select(w, match)) \o Ascending(index_select(base, match))

p11_index_loading(w) == w.loading

p11_index_load(w) ==
    IF w.loading THEN w
    ELSE [w EXCEPT !.loading = TRUE, !.changes = [h \in {} |-> NoAttrs]]
===============================================================================
