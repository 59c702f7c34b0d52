----------------------------- MODULE TrustParser ------------------------------
(***************************************************************************)
(* The parser of the trust module (trust/parser.c): what objects a file    *)
(* holds.  A file is [generated, der, tokens]: whether it starts with the  *)
(* comment of files p11-kit writes, the certificate it is when it is DER   *)
(* ("" otherwise), and its text.  A PEM block "TRUSTED CERTIFICATE" has an *)
(* aux too: a set of at most one [alias, trust, reject, keyid], where      *)
(* trust is a set of purposes and reject a set of at most one such set.    *)
(*                                                                         *)
(* The text format objects are kept in (common/persist.c, common/lexer.c). *)
(* A file is a sequence of tokens as p11_lexer_next finds them:            *)
(*                                                                         *)
(*   [tok |-> "section", name]    [tok |-> "field", name, text]            *)
(*   [tok |-> "pem", type, der]   [tok |-> "broken"]  (the lexer gives up) *)
(*                                                                         *)
(* The text of a value is [form, of]: the notation and what it denotes.    *)
(***************************************************************************)
EXTENDS TrustObjects

CONSTANTS
    TypeOrder,       \* the attribute types of the instance, in a sequence
    Constants,       \* attribute type -> the values that have a nick
    OddOids          \* the OIDs whose dotted form parse_oid does not take

PERSIST_HEADER == "p11-kit-object-v1"

(***************************************************************************)
(* Values.                                                                 *)
(***************************************************************************)
BoolTypes ==
    {"TOKEN", "PRIVATE", "TRUSTED", "SENSITIVE", "ENCRYPT", "DECRYPT", "WRAP",
     "UNWRAP", "SIGN", "SIGN_RECOVER", "VERIFY", "VERIFY_RECOVER", "DERIVE",
     "EXTRACTABLE", "LOCAL", "NEVER_EXTRACTABLE", "ALWAYS_SENSITIVE",
     "MODIFIABLE", "SECONDARY_AUTH", "ALWAYS_AUTHENTICATE",
     "WRAP_WITH_TRUSTED", "RESET_ON_INIT", "HAS_RESET", "COLOR",
     "X_DISTRUSTED", "NSS_MOZILLA_CA_POLICY"}

TrustTypes ==
    {"TRUST_DIGITAL_SIGNATURE", "TRUST_NON_REPUDIATION",
     "TRUST_KEY_ENCIPHERMENT", "TRUST_DATA_ENCIPHERMENT",
     "TRUST_KEY_AGREEMENT", "TRUST_KEY_CERT_SIGN", "TRUST_CRL_SIGN",
     "TRUST_SERVER_AUTH", "TRUST_CLIENT_AUTH", "TRUST_CODE_SIGNING",
     "TRUST_EMAIL_PROTECTION", "TRUST_IPSEC_END_SYSTEM",
     "TRUST_IPSEC_TUNNEL", "TRUST_IPSEC_USER", "TRUST_TIME_STAMPING"}

UlongTypes == TrustTypes \cup
    {"CERTIFICATE_CATEGORY", "CERTIFICATE_TYPE", "CLASS",
     "JAVA_MIDP_SECURITY_DOMAIN", "KEY_GEN_MECHANISM", "KEY_TYPE",
     "MECHANISM_TYPE", "MODULUS_BITS", "PRIME_BITS", "SUB_PRIME_BITS",
     "VALUE_BITS", "VALUE_LEN", "TRUST_STEP_UP_APPROVED", "X_ASSERTION_TYPE",
     "AUTH_PIN_FLAGS", "HW_FEATURE_TYPE", "PIXEL_X", "PIXEL_Y", "RESOLUTION",
     "CHAR_ROWS", "CHAR_COLUMNS", "BITS_PER_PIXEL"}

Text(form, of) == [form |-> form, of |-> of]

format_bool(type, value) == type \in BoolTypes /\ value \in Booleans

format_constant(type, value) ==
    type \in DOMAIN Constants /\ value \in Ulongs /\ value \in Constants[type]

format_ulong(type, value) == type \in UlongTypes /\ value \in Ulongs

format_oid(type, value) == type = "OBJECT_ID" /\ value # ""

format_value(type, value) ==
    Text(IF format_bool(type, value) THEN "bool"
         ELSE IF format_constant(type, value) THEN "constant"
         ELSE IF format_ulong(type, value) THEN "ulong"
         ELSE IF format_oid(type, value) THEN "oid"
         ELSE "string", value)

parse_oid(text) == text.form = "oid" /\ text.of \notin OddOids

parse_value(text) ==
    text.form \in {"constant", "string", "bool", "ulong"} \/ parse_oid(text)

(***************************************************************************)
(* Reading.  A step of the reader is                                       *)
(* [objects, attrs (a set of at most one), skip, failed, stopped].         *)
(***************************************************************************)
Reading == [objects |-> <<>>, attrs |-> {}, skip |-> FALSE, failed |-> FALSE,
            stopped |-> FALSE]

\* CKA_WRAP_TEMPLATE and its like are arrays of attributes, left out.
ArrayTypes == {"WRAP_TEMPLATE", "UNWRAP_TEMPLATE", "DERIVE_TEMPLATE"}

field_to_attribute(attrs, token) ==
    IF token.name \in ArrayTypes THEN attrs
    ELSE p11_attrs_take(attrs, token.name, token.text.of)

certificate_to_attributes(der) ==
    [CLASS |-> "CERTIFICATE", CERTIFICATE_TYPE |-> "X_509", VALUE |-> der]

public_key_to_attributes(der) == [PUBLIC_KEY_INFO |-> der]

pem_to_attributes(attrs, token) ==
    p11_attrs_merge(attrs, IF token.type = "CERTIFICATE"
                           THEN certificate_to_attributes(token.der)
                           ELSE public_key_to_attributes(token.der), FALSE)

\* Whether a field or a PEM block of a section can be read.
Readable(token) ==
    CASE token.tok = "field" -> token.name # "" /\ parse_value(token.text)
      [] token.tok = "pem" -> token.type \in {"CERTIFICATE", "PUBLIC KEY"}
      [] OTHER -> FALSE

Contribution(attrs, token) ==
    IF token.tok = "field" THEN field_to_attribute(attrs, token)
                           ELSE pem_to_attributes(attrs, token)

\* The object of the section that ends.
Push(r) == [r EXCEPT !.objects = @ \o (IF r.attrs = {} THEN <<>>
                                       ELSE <<CHOOSE a \in r.attrs : TRUE>>),
                     !.attrs = {}]

ReadToken(r, t) ==
    IF r.failed THEN r
    ELSE IF t.tok = "broken" THEN [r EXCEPT !.failed = TRUE]
    ELSE IF t.tok = "section"
    THEN [Push(r) EXCEPT !.attrs = IF t.name = PERSIST_HEADER THEN {NoAttrs} ELSE @,
                         !.skip = t.name # PERSIST_HEADER]
    ELSE IF r.skip THEN r
    ELSE IF r.attrs = {} \/ ~Readable(t) THEN [r EXCEPT !.failed = TRUE]
    ELSE [r EXCEPT !.attrs = {Contribution(a, t) : a \in @}]

HasRead(end) == [ok |-> ~end.failed, objects |-> end.objects]
p11_persist_read(tokens) == HasRead(Push(Accumulate(ReadToken, Reading, tokens)))

\* Goes on after what it cannot read, but not past what the lexer refuses,
\* which it does not hear of, and reads the sections that are skipped.
p11_persist_check(tokens) ==
    LET step(r, t) ==
            IF r.stopped THEN r
            ELSE IF t.tok = "broken" THEN [r EXCEPT !.stopped = TRUE]
            ELSE IF t.tok = "section"
            THEN [r EXCEPT !.attrs = IF t.name = PERSIST_HEADER
                                     THEN {NoAttrs} ELSE {},
                           !.skip = t.name # PERSIST_HEADER]
            ELSE IF (~r.skip /\ r.attrs = {}) \/ ~Readable(t)
            THEN [r EXCEPT !.failed = TRUE]
            ELSE [r EXCEPT !.attrs = {Contribution(
                      IF @ = {} THEN NoAttrs ELSE CHOOSE a \in @ : TRUE, t)}]
    IN  ~Accumulate(step, Reading, tokens).failed

p11_persist_magic(tokens) ==
    \E i \in DOMAIN tokens : /\ tokens[i].tok = "section"
                             /\ tokens[i].name = PERSIST_HEADER

(***************************************************************************)
(* Writing an object.                                                      *)
(***************************************************************************)
NeverWritten == {"TOKEN", "X_ORIGIN", "X_GENERATED"}

find_certificate_value(attrs) ==
    IF /\ p11_attrs_find_ulong(attrs, "CLASS") = "CERTIFICATE"
       /\ p11_attrs_find_ulong(attrs, "CERTIFICATE_TYPE") = "X_509"
    THEN p11_attrs_find_value(attrs, "VALUE") ELSE ""

Field(name, value) == [tok |-> "field", name |-> name, text |-> format_value(name, value)]
Pem(type, der) == <<[tok |-> "pem", type |-> type, der |-> der]>>

Fields(attrs, types) == [i \in DOMAIN types |-> Field(types[i], attrs[types[i]])]

Section(attrs, cert, spki) ==
    <<[tok |-> "section", name |-> PERSIST_HEADER]>>
    \o Fields(attrs, SelectSeq(TypeOrder, LAMBDA t :
           /\ t \in DOMAIN attrs \ NeverWritten
           /\ cert # "" => t \notin {"CLASS", "CERTIFICATE_TYPE", "VALUE"}
           /\ spki # "" => t # "PUBLIC_KEY_INFO"))
    \o (IF cert # "" THEN Pem("CERTIFICATE", cert)
        ELSE IF spki # "" THEN Pem("PUBLIC KEY", spki) ELSE <<>>)

p11_persist_write(attrs) ==
    Section(attrs, find_certificate_value(attrs), p11_attrs_find_value(attrs, "PUBLIC_KEY_INFO"))

(***************************************************************************)
(* What the location adds: flags is "none", "anchor" or "blocklist".       *)
(***************************************************************************)
populate_trust(flags, attrs) ==
    IF flags = "anchor"
    THEN IF p11_attrs_find_bool(attrs, "X_DISTRUSTED", "true") THEN attrs
         ELSE [TRUSTED |-> "true", X_DISTRUSTED |-> "false"] @@ attrs
    ELSE IF flags = "blocklist"
    THEN [TRUSTED |-> "false", X_DISTRUSTED |-> "true"] @@ attrs
    ELSE Valid(attrs, {"TRUSTED", "X_DISTRUSTED"})
         @@ [TRUSTED |-> "false", X_DISTRUSTED |-> "false"] @@ attrs

sink_object(flags, attrs) ==
    IF p11_attrs_find_ulong(attrs, "CLASS") = "CERTIFICATE"
    THEN <<populate_trust(flags, attrs)>> ELSE <<attrs>>

certificate_attrs(der) ==
    [CLASS |-> "CERTIFICATE", MODIFIABLE |-> "false",
     CERTIFICATE_TYPE |-> "X_509", VALUE |-> der]

(***************************************************************************)
(* The formats.  Each answers [ret, parsed].                               *)
(***************************************************************************)
Parsed(ret, objects) == [ret |-> ret, parsed |-> objects]

p11_parser_format_x509(flags, der) ==
    IF der \notin DOMAIN X509 THEN Parsed("UNRECOGNIZED", <<>>)
    ELSE Parsed("SUCCESS", sink_object(flags, certificate_attrs(der)))

extension_attrs(key, oid, names) ==
    [PUBLIC_KEY_INFO |-> key, CLASS |-> "EXTENSION", MODIFIABLE |-> "false",
     OBJECT_ID |-> oid, VALUE |-> p11_asn1_encode(oid, names)]

\* No purpose at all is written as the reserved purpose, which is dropped
\* again when the extension is parsed.
attached_eku_attrs(key, oid, names) == extension_attrs(key, oid, names)

\* The extensions an OpenSSL trusted certificate carries, and its trust.
build_openssl_extensions(flags, cert, key, trust, reject, keyid) ==
    sink_object(flags, attached_eku_attrs(key, "EXTENDED_KEY_USAGE", trust))
    \o (IF reject = {} THEN <<>>
        ELSE sink_object(flags, attached_eku_attrs(key, "OPENSSL_REJECT", reject)))
    \o (IF keyid = "" THEN <<>>
        ELSE sink_object(flags, extension_attrs(key, "SUBJECT_KEY_IDENTIFIER", {keyid})))
    \o sink_object(flags, p11_attrs_merge(cert, [TRUSTED |-> Bool(trust # {}),
                                                X_DISTRUSTED |-> Bool(trust = {})], TRUE))

Auxiliary(flags, cert, key, aux) ==
    build_openssl_extensions(flags,
        IF aux.alias = "" THEN cert ELSE p11_attrs_take(cert, "LABEL", aux.alias),
        key, aux.trust \ UNION aux.reject, UNION aux.reject, aux.keyid)

parse_openssl_trusted_certificate(flags, token) ==
    IF token.der \notin DOMAIN X509 THEN Parsed("UNRECOGNIZED", <<>>)
    ELSE Parsed("SUCCESS",
             IF token.aux = {} THEN sink_object(flags, certificate_attrs(token.der))
             ELSE Auxiliary(flags, certificate_attrs(token.der), X509[token.der].key,
                            CHOOSE a \in token.aux : TRUE))

\* A block that cannot be parsed is left out.
on_pem_block(flags, token) ==
    CASE token.type = "CERTIFICATE" ->
            p11_parser_format_x509(flags, token.der).parsed
      [] token.type = "TRUSTED CERTIFICATE" ->
            parse_openssl_trusted_certificate(flags, token).parsed
      [] OTHER -> <<>>

Blocks(flags, pems) ==
    IF pems = <<>> THEN Parsed("UNRECOGNIZED", <<>>)
    ELSE Parsed("SUCCESS",
                Accumulate(LAMBDA p, t : p \o on_pem_block(flags, t), <<>>, pems))
p11_parser_format_pem(flags, tokens) ==
    Blocks(flags, SelectSeq(tokens, LAMBDA t : t.tok = "pem"))

Sections(flags, generated, read) ==
    IF ~read.ok THEN Parsed("UNRECOGNIZED", <<>>)
    ELSE Parsed("SUCCESS",
                Accumulate(LAMBDA p, a : p \o sink_object(flags,
                               [MODIFIABLE |-> Bool(generated)] @@ a),
                           <<>>, read.objects))
p11_parser_format_persist(flags, file) ==
    IF ~p11_persist_magic(file.tokens) THEN Parsed("UNRECOGNIZED", <<>>)
    ELSE Sections(flags, file.generated, p11_persist_read(file.tokens))

\* The formats in turn until one recognizes the file.
OrElse(parsed, next) == IF parsed.ret # "UNRECOGNIZED" THEN parsed ELSE next
p11_parse_file(flags, file) ==
    OrElse(p11_parser_format_persist(flags, file),
           OrElse(p11_parser_format_x509(flags, file.der),
                  p11_parser_format_pem(flags, file.tokens)))
===============================================================================
