---------------------------------- MODULE Uri ----------------------------------
(***************************************************************************)
(* PKCS#11 URIs (p11-kit/uri.c): a P11KitUri, the operations that fill it  *)
(* in, its formatting, its parsing and what it matches.                    *)
(*                                                                         *)
(* A fixed size field of a CK_*_INFO is a sequence of FieldSize            *)
(* characters, padded with spaces; a field that starts with NUL is not     *)
(* set.  A pin source, a pin value and the module's name and path are sets *)
(* of at most one string.  (CK_SLOT_ID)-1 and the version 255.255 are what *)
(* the code uses for `not set'.                                            *)
(***************************************************************************)
EXTENDS Url, Integers
LOCAL INSTANCE SequencesExt

CONSTANTS
    FieldSize,    \* sizeof the fixed size fields, in characters
    NoSlotId,     \* (CK_SLOT_ID)-1
    Lowercase,    \* P11_KIT_URI_LOWERCASE is set
    Names,        \* the names a vendor query may have, in the order of strcmp
    Fields,       \* what the callers store in the fields
    Values,       \* and in attributes, pins and queries: sequences of characters
    Versions,     \* and as the version of the library
    SlotIds,      \* and as the slot id
    Texts,        \* the texts the callers parse, besides the formatted ones
    Types,        \* the P11KitUriTypes the callers use
    MaxSteps      \* bound: operations on one URI

VARIABLES
    uri,          \* the P11KitUri
    steps         \* how many operations it has seen

vars == <<uri, steps>>

NotSet == [i \in 1..FieldSize |-> "NUL"]

NoVersion == <<255, 255>>

Padded(value) ==
    [i \in 1..FieldSize |-> IF i <= Len(value) THEN value[i] ELSE " "]

ModuleInfo == [libraryDescription : Fields \cup {NotSet},
               manufacturerID : Fields \cup {NotSet},
               libraryVersion : Versions \cup {NoVersion}]

SlotInfo == [slotDescription : Fields \cup {NotSet},
             manufacturerID : Fields \cup {NotSet}]

TokenInfo == [label : Fields \cup {NotSet}, manufacturerID : Fields \cup {NotSet},
              model : Fields \cup {NotSet}, serialNumber : Fields \cup {NotSet}]

NoModuleInfo == [libraryDescription |-> NotSet, manufacturerID |-> NotSet,
                 libraryVersion |-> NoVersion]

NoSlotInfo == [slotDescription |-> NotSet, manufacturerID |-> NotSet]

NoTokenInfo == [label |-> NotSet, manufacturerID |-> NotSet, model |-> NotSet,
                serialNumber |-> NotSet]

NoAttrs == [type \in {} |-> <<>>]

p11_kit_uri_new ==
    [unrecognized |-> FALSE, module |-> NoModuleInfo, slot |-> NoSlotInfo,
     token |-> NoTokenInfo, attrs |-> NoAttrs, slot_id |-> NoSlotId,
     pin_source |-> {}, pin_value |-> {}, module_name |-> {},
     module_path |-> {}, qattrs |-> <<>>]

(***************************************************************************)
(* Matching.                                                               *)
(***************************************************************************)
match_struct_string(inuri, real) == inuri[1] = "NUL" \/ inuri = real

match_struct_version(inuri, real) == inuri = NoVersion \/ inuri = real

p11_match_uri_module_info(one, two) ==
    /\ match_struct_string(one.libraryDescription, two.libraryDescription)
    /\ match_struct_string(one.manufacturerID, two.manufacturerID)
    /\ match_struct_version(one.libraryVersion, two.libraryVersion)

p11_match_uri_slot_info(one, two) ==
    /\ match_struct_string(one.slotDescription, two.slotDescription)
    /\ match_struct_string(one.manufacturerID, two.manufacturerID)

p11_match_uri_token_info(one, two) ==
    \A field \in DOMAIN NoTokenInfo : match_struct_string(one[field], two[field])

p11_kit_uri_match_module_info(u, info) ==
    ~u.unrecognized /\ p11_match_uri_module_info(u.module, info)

p11_kit_uri_match_slot_info(u, info) ==
    ~u.unrecognized /\ p11_match_uri_slot_info(u.slot, info)

p11_kit_uri_match_token_info(u, info) ==
    ~u.unrecognized /\ p11_match_uri_token_info(u.token, info)

p11_kit_uri_match_attributes(u, attrs) ==
    /\ ~u.unrecognized
    /\ \A type \in {"CKA_CLASS", "CKA_LABEL", "CKA_ID"} :
           type \in DOMAIN attrs /\ type \in DOMAIN u.attrs
               => u.attrs[type] = attrs[type]

(***************************************************************************)
(* Attributes and vendor queries.                                          *)
(***************************************************************************)
p11_kit_uri_get_attribute(u, type) == {u.attrs[t] : t \in {type} \cap DOMAIN u.attrs}

p11_kit_uri_set_attribute(u, type, value) ==
    [u EXCEPT !.attrs = type :> value @@ @]

p11_kit_uri_clear_attribute(u, type) ==
    IF type \notin {"CKA_CLASS", "CKA_LABEL", "CKA_ID"} THEN u
    ELSE [u EXCEPT !.attrs = [t \in DOMAIN @ \ {type} |-> @[t]]]

p11_kit_uri_clear_attributes(u) == [u EXCEPT !.attrs = NoAttrs]

p11_kit_uri_set_attributes(u, attrs) ==
    [p11_kit_uri_clear_attributes(u) EXCEPT !.attrs = attrs]

\* strcmp (one, two) > 0
After(one, two) ==
    \E i, j \in DOMAIN Names : i > j /\ Names[i] = one /\ Names[j] = two

insert_attribute(qattrs, name, value) ==
    LET later == {i \in DOMAIN qattrs : After(qattrs[i].name, name)}
        at == IF later = {} THEN Len(qattrs) + 1
              ELSE CHOOSE i \in later : \A j \in later : i <= j
    IN  SubSeq(qattrs, 1, at - 1) \o <<[name |-> name, value |-> value]>>
            \o SubSeq(qattrs, at, Len(qattrs))

\* value is a set of at most one value: none removes the query.
p11_kit_uri_set_vendor_query(u, name, value) ==
    LET same == {i \in DOMAIN u.qattrs : u.qattrs[i].name = name}
        at == CHOOSE i \in same : \A j \in same : i <= j
    IN  IF same = {}
        THEN IF value = {} THEN u
             ELSE [u EXCEPT !.qattrs =
                      insert_attribute(@, name, CHOOSE v \in value : TRUE)]
        ELSE IF value = {}
        THEN [u EXCEPT !.qattrs = SubSeq(@, 1, at - 1) \o SubSeq(@, at + 1, Len(@))]
        ELSE [u EXCEPT !.qattrs[at].value = CHOOSE v \in value : TRUE]

(***************************************************************************)
(* Formatting.  A part is a name and the text of its value; Separated puts *)
(* them together.                                                          *)
(***************************************************************************)
Decimal ==
    LET digits == <<"0", "1", "2", "3", "4", "5", "6", "7", "8", "9">>
        dec[n \in Nat] == IF n < 10 THEN <<digits[n + 1]>>
                          ELSE dec[n \div 10] \o <<digits[(n % 10) + 1]>>
    IN  dec

format_raw_string(name, value) ==
    {[name |-> name, text |-> v] : v \in value}

format_encode_string(name, value, force) ==
    {[name |-> name,
      text |-> p11_url_encode(v, IF force THEN {} ELSE P11_URL_VERBATIM, Lowercase)]
        : v \in value}

\* p11_kit_space_strlen: the length without the trailing spaces.
p11_kit_space_strlen(field) ==
    LET used == {i \in DOMAIN field : field[i] # " "}
    IN  IF used = {} THEN 0 ELSE CHOOSE i \in used : \A j \in used : j <= i

format_struct_string(name, field) ==
    format_encode_string(name, IF field[1] = "NUL" THEN {}
                               ELSE {SubSeq(field, 1, p11_kit_space_strlen(field))}, FALSE)

format_attribute_string(name, value, force) == format_encode_string(name, value, force)

ClassNames ==
       <<"CKO_DATA">> :> <<"data">> @@ <<"CKO_SECRET_KEY">> :> <<"secret-key">>
    @@ <<"CKO_CERTIFICATE">> :> <<"cert">> @@ <<"CKO_PUBLIC_KEY">> :> <<"public">>
    @@ <<"CKO_PRIVATE_KEY">> :> <<"private">>

format_attribute_class(name, value) ==
    format_raw_string(name, {ClassNames[v] : v \in value \cap DOMAIN ClassNames})

format_struct_version(name, version) ==
    format_raw_string(name, IF version = NoVersion THEN {}
                            ELSE {Decimal[version[1]] \o <<".">> \o Decimal[version[2]]})

format_ulong(name, value) ==
    format_raw_string(name, IF value = NoSlotId THEN {} ELSE {Decimal[value]})

format_name_equals(parts, first, later) ==
    LET f[i \in 0..Len(parts)] ==
            IF i = 0 THEN <<>>
            ELSE LET sep == IF f[i - 1] = <<>> THEN first ELSE later
                 IN  IF parts[i] = {} THEN f[i - 1]
                     ELSE LET part == CHOOSE p \in parts[i] : TRUE
                          IN  f[i - 1] \o sep \o <<part.name, "=">> \o part.text
    IN  f[Len(parts)]

p11_kit_uri_format(u, type) ==
    LET in(bits, parts) == IF bits \subseteq type THEN parts ELSE <<>>
        module == <<format_struct_string("library-description", u.module.libraryDescription),
                    format_struct_string("library-manufacturer", u.module.manufacturerID)>>
        version == <<format_struct_version("library-version", u.module.libraryVersion)>>
        slot == <<format_struct_string("slot-description", u.slot.slotDescription),
                  format_struct_string("slot-manufacturer", u.slot.manufacturerID),
                  format_ulong("slot-id", u.slot_id)>>
        token == <<format_struct_string("model", u.token.model),
                   format_struct_string("manufacturer", u.token.manufacturerID),
                   format_struct_string("serial", u.token.serialNumber),
                   format_struct_string("token", u.token.label)>>
        object == <<format_attribute_string("id", p11_kit_uri_get_attribute(u, "CKA_ID"), TRUE),
                    format_attribute_string("object", p11_kit_uri_get_attribute(u, "CKA_LABEL"), FALSE),
                    format_attribute_class("type", p11_kit_uri_get_attribute(u, "CKA_CLASS"))>>
        query == <<format_encode_string("pin-source", u.pin_source, FALSE),
                   format_encode_string("pin-value", u.pin_value, FALSE),
                   format_encode_string("module-name", u.module_name, FALSE),
                   format_encode_string("module-path", u.module_path, FALSE)>>
                 \o [i \in DOMAIN u.qattrs |->
                        format_encode_string(u.qattrs[i].name, {u.qattrs[i].value}, FALSE)]
    IN  <<"pkcs11", ":">>
        \o format_name_equals(in({"module"}, module) \o in({"module", "version"}, version)
               \o in({"slot"}, slot) \o in({"token"}, token) \o in({"object"}, object),
               <<>>, <<";">>)
        \o format_name_equals(query, <<"?">>, <<"&">>)

(***************************************************************************)
(* Parsing.  Each parser takes the URI, the name and the text of a part    *)
(* and answers with the URI it leaves and "0" (not a part of mine), "1"    *)
(* (taken) or an error.                                                    *)
(***************************************************************************)
Result(ret, u) == [ret |-> ret, uri |-> u]

Else(result, next) == IF result.ret = "0" THEN next ELSE result

\* The URI with the value, or the error of a text that cannot be decoded.
Decode(u, decoded, Put(_)) ==
    IF decoded.ok THEN Put(decoded.value) ELSE Result("BAD_ENCODING", u)

parse_string_attribute(u, name, text) ==
    IF name \notin {<<"id">>, <<"object">>} THEN Result("0", u)
    ELSE Decode(u, p11_url_decode(text, P11_URL_WHITESPACE), LAMBDA value :
                Result("1", p11_kit_uri_set_attribute(
                                u, IF name = <<"id">> THEN "CKA_ID" ELSE "CKA_LABEL", value)))

parse_class_attribute(u, name, text) ==
    LET named == {c \in DOMAIN ClassNames : \/ ClassNames[c] = text
                                            \/ c = <<"CKO_SECRET_KEY">> /\ text = <<"secretkey">>}
    IN  IF name \notin {<<"objecttype">>, <<"object-type">>, <<"type">>} THEN Result("0", u)
        ELSE IF named = {} THEN Result("1", [u EXCEPT !.unrecognized = TRUE])
        ELSE Result("1", p11_kit_uri_set_attribute(u, "CKA_CLASS", CHOOSE c \in named : TRUE))

\* The field of one of the structures that the URI has.
parse_struct_info(u, text, info, field) ==
    Decode(u, p11_url_decode(text, P11_URL_WHITESPACE), LAMBDA value :
           IF Len(value) > FieldSize THEN Result("1", [u EXCEPT !.unrecognized = TRUE])
           ELSE Result("1", [u EXCEPT ![info][field] = Padded(value)]))

parse_token_info(u, name, text) ==
    LET where == <<"model">> :> "model" @@ <<"manufacturer">> :> "manufacturerID"
              @@ <<"serial">> :> "serialNumber" @@ <<"token">> :> "label"
    IN  IF name \notin DOMAIN where THEN Result("0", u)
        ELSE parse_struct_info(u, text, "token", where[name])

\* A number, or -1.
atoin(text) ==
    LET digits == [n \in {Decimal[i][1] : i \in 0..9} |-> CHOOSE i \in 0..9 : Decimal[i][1] = n]
        f[i \in 0..Len(text)] ==
            IF i = 0 THEN 0
            ELSE IF f[i - 1] < 0 \/ text[i] \notin DOMAIN digits THEN -1
            ELSE f[i - 1] * 10 + digits[text[i]]
    IN  f[Len(text)]

FirstOf(text, from, chars) ==
    LET at == {i \in from..Len(text) : text[i] \in chars}
    IN  IF at = {} THEN Len(text) + 1 ELSE CHOOSE i \in at : \A j \in at : i <= j

\* The version the bytes are left with: the major one is stored first.
WithVersion(u, major, minor) == [u EXCEPT !.module.libraryVersion = <<major, minor>>]
NotByte(n) == n < 0 \/ n >= 255
ParseMinor(u, major, minor) ==
    IF NotByte(minor) THEN Result("BAD_VERSION", WithVersion(u, major, 0))
    ELSE Result("1", WithVersion(u, major, minor))
ParseMajor(u, text, dot, major) ==
    IF dot = 1 \/ NotByte(major) THEN Result("BAD_VERSION", u)
    ELSE IF dot > Len(text) THEN Result("1", WithVersion(u, major, 0))
    ELSE ParseMinor(u, major, IF dot = Len(text) THEN -1 ELSE atoin(SubSeq(text, dot + 1, Len(text))))
VersionAt(u, text, dot) == ParseMajor(u, text, dot, atoin(SubSeq(text, 1, dot - 1)))
parse_struct_version(u, text) == VersionAt(u, text, FirstOf(text, 1, {"."}))

parse_slot_info(u, name, text) ==
    LET where == <<"slot-description">> :> "slotDescription"
              @@ <<"slot-manufacturer">> :> "manufacturerID"
    IN  IF name \notin DOMAIN where THEN Result("0", u)
        ELSE parse_struct_info(u, text, "slot", where[name])

parse_slot_id(u, name, text) ==
    IF name # <<"slot-id">> THEN Result("0", u)
    ELSE IF atoin(text) < 0 THEN Result("BAD_SYNTAX", u)
    ELSE Result("1", [u EXCEPT !.slot_id = atoin(text)])

parse_module_version_info(u, name, text) ==
    IF name = <<"library-version">> THEN parse_struct_version(u, text) ELSE Result("0", u)

parse_module_info(u, name, text) ==
    LET where == <<"library-description">> :> "libraryDescription"
              @@ <<"library-manufacturer">> :> "manufacturerID"
    IN  IF name \notin DOMAIN where THEN Result("0", u)
        ELSE parse_struct_info(u, text, "module", where[name])

\* A string that replaces the one the URI had.
parse_query(u, name, text, where) ==
    IF name \notin DOMAIN where THEN Result("0", u)
    ELSE Decode(u, p11_url_decode(text, P11_URL_WHITESPACE), LAMBDA value :
                Result("1", [u EXCEPT ![where[name]] = {value}]))

parse_pin_query(u, name, text) ==
    parse_query(u, name, text, <<"pinfile">> :> "pin_source" @@ <<"pin-source">> :> "pin_source"
                            @@ <<"pin-value">> :> "pin_value")

parse_module_query(u, name, text) ==
    parse_query(u, name, text, <<"module-name">> :> "module_name"
                            @@ <<"module-path">> :> "module_path")

\* Names holds the names made of the characters the specification allows.
\* Taken, and still answered with 0.
parse_vendor_query(u, name, text) ==
    IF \A i \in DOMAIN Names : name # <<Names[i]>> THEN Result("UNEXPECTED", u)
    ELSE Decode(u, p11_url_decode(text, P11_URL_WHITESPACE), LAMBDA value :
                Result("0", [u EXCEPT !.qattrs = insert_attribute(@, name[1], value)]))

\* A parser of parts that the type covers.
When(bits, type, u, result) == IF bits \subseteq type THEN result ELSE Result("0", u)

parse_path_part(u, type, name, text) ==
    Else(When({"object"}, type, u, parse_string_attribute(u, name, text)),
    Else(When({"object"}, type, u, parse_class_attribute(u, name, text)),
    Else(When({"token"}, type, u, parse_token_info(u, name, text)),
    Else(When({"slot"}, type, u, parse_slot_info(u, name, text)),
    Else(When({"slot"}, type, u, parse_slot_id(u, name, text)),
    Else(When({"module"}, type, u, parse_module_info(u, name, text)),
    Else(When({"module", "version"}, type, u, parse_module_version_info(u, name, text)),
    Else(parse_pin_query(u, name, text),
         Result("0", [u EXCEPT !.unrecognized = TRUE])))))))))

parse_query_part(u, name, text) ==
    Else(parse_pin_query(u, name, text),
    Else(parse_module_query(u, name, text),
         parse_vendor_query(u, name, text)))

\* The parts of the text, in order.  The path ends at a `?' or at the first
\* empty part, whose separator then stands for the `?'.
Parts(text) ==
    LET part(in, from, to) ==
            LET equals == FirstOf(text, from, {"="})
            IN  [in |-> IF equals > Len(text) \/ equals = from \/ equals >= to \/ to = from
                        THEN "nothing" ELSE in,
                 name |-> SubSeq(text, from, equals - 1),
                 text |-> SubSeq(text, equals + 1, to - 1)]
        query[at \in 1..Len(text) + 1] ==
            LET end == FirstOf(text, at + 1, {"&"})
            IN  IF at > Len(text) \/ (end = at + 1 /\ end > Len(text)) THEN <<>>
                ELSE <<part("query", at + 1, end)>> \o query[end]
        path[at \in 1..Len(text) + 1] ==
            LET end == FirstOf(text, at, {";", "?"})
            IN  IF end = at THEN query[at]
                ELSE <<part("path", at, end)>> \o
                     IF end > Len(text) THEN <<>>
                     ELSE IF text[end] = "?" THEN query[end] ELSE path[end + 1]
    IN  path[1]

strip_whitespace(text) == SelectSeq(text, LAMBDA c : c \notin P11_URL_WHITESPACE)

Cleared(u) ==
    [p11_kit_uri_new EXCEPT !.slot = u.slot]

\* The whole scheme is one token of the text.
ParsePart(r, type, p) ==
    IF r.ret \notin {"0", "1"} THEN r
    ELSE IF p.in = "nothing" THEN Result("BAD_SYNTAX", r.uri)
    ELSE IF p.in = "path" THEN parse_path_part(r.uri, type, p.name, p.text)
    ELSE parse_query_part(r.uri, p.name, p.text)
ParseEnd(r) == IF r.ret \in {"0", "1"} THEN Result("OK", r.uri) ELSE r
ParseText(text, type, u) ==
    IF Len(text) < 2 THEN Result("BAD_SCHEME", u)
    ELSE IF text[2] # ":" \/ p11_ascii_tolower(text[1]) # "pkcs11" THEN Result("BAD_SCHEME", u)
    ELSE ParseEnd(FoldLeft(LAMBDA r, p : ParsePart(r, type, p), Result("0", Cleared(u)),
                           Parts(SubSeq(text, 3, Len(text)))))
p11_kit_uri_parse(string, type, u) == ParseText(strip_whitespace(string), type, u)

(***************************************************************************)
(* The callers' operations on one URI.  They store in the structures the   *)
(* p11_kit_uri_get_*_info functions point at.                              *)
(***************************************************************************)
Init ==
    /\ uri = p11_kit_uri_new
    /\ steps = 0

Becomes(u) ==
    /\ steps < MaxSteps
    /\ uri' = u
    /\ steps' = steps + 1

p11_kit_uri_get_module_info ==
    \/ \E field \in {"libraryDescription", "manufacturerID"}, value \in Fields :
           Becomes([uri EXCEPT !.module[field] = value])
    \/ \E version \in Versions : Becomes([uri EXCEPT !.module.libraryVersion = version])

p11_kit_uri_get_slot_info ==
    \E field \in DOMAIN NoSlotInfo, value \in Fields :
        Becomes([uri EXCEPT !.slot[field] = value])

p11_kit_uri_set_slot_id ==
    \E id \in SlotIds : Becomes([uri EXCEPT !.slot_id = id])

p11_kit_uri_get_token_info ==
    \E field \in DOMAIN NoTokenInfo, value \in Fields :
        Becomes([uri EXCEPT !.token[field] = value])

SetAttribute ==
    \/ \E type \in {"CKA_LABEL", "CKA_ID"}, value \in Values :
           Becomes(p11_kit_uri_set_attribute(uri, type, value))
    \/ \E class \in DOMAIN ClassNames \cup {<<"CKO_VENDOR">>} :
           Becomes(p11_kit_uri_set_attributes(uri, "CKA_CLASS" :> class))

ClearAttribute ==
    \/ \E type \in DOMAIN uri.attrs : Becomes(p11_kit_uri_clear_attribute(uri, type))
    \/ Becomes(p11_kit_uri_clear_attributes(uri))

p11_kit_uri_set_unrecognized ==
    Becomes([uri EXCEPT !.unrecognized = ~@])

p11_kit_uri_set_pin_source ==
    \E value \in {{}} \cup {{v} : v \in Values} : Becomes([uri EXCEPT !.pin_source = value])

p11_kit_uri_set_pin_value ==
    \E value \in {{}} \cup {{v} : v \in Values} : Becomes([uri EXCEPT !.pin_value = value])

p11_kit_uri_set_module_name ==
    \E value \in {{}} \cup {{v} : v \in Values} : Becomes([uri EXCEPT !.module_name = value])

p11_kit_uri_set_module_path ==
    \E value \in {{}} \cup {{v} : v \in Values} : Becomes([uri EXCEPT !.module_path = value])

SetVendorQuery ==
    \E i \in DOMAIN Names, value \in {{}} \cup {{v} : v \in Values} :
        Becomes(p11_kit_uri_set_vendor_query(uri, Names[i], value))

Parse ==
    \E text \in Texts, type \in Types : Becomes(p11_kit_uri_parse(text, type, uri).uri)

Done == steps = MaxSteps /\ UNCHANGED vars

Next ==
    \/ p11_kit_uri_get_module_info \/ p11_kit_uri_get_slot_info
    \/ p11_kit_uri_set_slot_id \/ p11_kit_uri_get_token_info
    \/ SetAttribute \/ ClearAttribute \/ p11_kit_uri_set_unrecognized
    \/ p11_kit_uri_set_pin_source \/ p11_kit_uri_set_pin_value
    \/ p11_kit_uri_set_module_name \/ p11_kit_uri_set_module_path
    \/ SetVendorQuery \/ Parse \/ Done

Spec == Init /\ [][Next]_vars

(***************************************************************************)
(* What a URI of a type is about: the parts of the structure that the type *)
(* covers.  A class without a name in a URI and a version the parser       *)
(* refuses (a byte 255) are not among them.                                *)
(***************************************************************************)
About(u, type) ==
    [module |-> IF "module" \in type
                THEN <<u.module.libraryDescription, u.module.manufacturerID>> ELSE <<>>,
     version |-> IF {"module", "version"} \subseteq type THEN u.module.libraryVersion ELSE <<>>,
     slot |-> IF "slot" \in type THEN <<u.slot, u.slot_id>> ELSE <<>>,
     token |-> IF "token" \in type THEN u.token ELSE NoTokenInfo,
     attrs |-> IF "object" \notin type THEN NoAttrs
               ELSE [t \in {t \in DOMAIN u.attrs : t = "CKA_CLASS" => u.attrs[t] \in DOMAIN ClassNames}
                        |-> u.attrs[t]],
     query |-> <<u.pin_source, u.pin_value, u.module_name, u.module_path, u.qattrs>>]

Fresh(text, type) == p11_kit_uri_parse(text, type, p11_kit_uri_new)

SameParts(parsed, type) ==
    /\ parsed.ret = "OK"
    /\ ~parsed.uri.unrecognized
    /\ About(parsed.uri, type) = About(uri, type)

MatchesNothingMore(parsed, type) ==
    parsed.ret = "OK" =>
        \/ About(parsed.uri, type) = About(uri, type)
        \/ /\ ~p11_kit_uri_match_token_info(parsed.uri, uri.token)
           /\ ~p11_kit_uri_match_module_info(parsed.uri, uri.module)
           /\ ~p11_kit_uri_match_slot_info(parsed.uri, uri.slot)
           /\ ~p11_kit_uri_match_attributes(parsed.uri, uri.attrs)

\* p11_kit_uri_format and p11_kit_uri_parse are inverses: the text of a URI
\* parses, under the type it was written for, to a URI with the same parts,
\* whatever characters the values are made of, and recognizes all of them.
FormatParses ==
    \A type \in Types :
        SameParts(Fresh(p11_kit_uri_format(uri, type), type), type)

\* A part that the type of the parse does not cover is never dropped in
\* silence: p11_kit_uri_parse marks the URI, and then no p11_kit_uri_match_*
\* function accepts anything, so that a text that names more than the caller
\* looks at does not match more than it names.
UncoveredNeverMatches ==
    \A wide, narrow \in Types :
        MatchesNothingMore(Fresh(p11_kit_uri_format(uri, wide), narrow), wide)

\* p11_kit_uri_parse clears everything out: what a URI holds after a parse
\* depends on the text alone, not on what the P11KitUri held before.
ParseStartsClean ==
    \A text \in Texts, type \in Types :
        Fresh(text, type).ret = "OK" =>
            p11_kit_uri_parse(text, type, uri) = Fresh(text, type)
================================================================================
