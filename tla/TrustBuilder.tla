----------------------------- MODULE TrustBuilder -----------------------------
(***************************************************************************)
(* The builder of the trust module (trust/builder.c): it completes and     *)
(* checks the attributes of an object before the index takes it, and when  *)
(* a certificate or a stapled extension has changed it generates the NSS   *)
(* trust object and the trust assertions of the certificates concerned.    *)
(*                                                                         *)
(* A lookup that may find nothing answers a set of at most one element.    *)
(***************************************************************************)
EXTENDS TrustObjects

CONSTANTS
    Der,           \* the values that are DER of each structure
    NotUtf8,       \* the values that are no UTF-8
    Sha1(_),
    Md5(_)

\* What the extension object attached to the public key has
AttachedValue(w, key, oid) ==
    IF key = "" THEN ""
    ELSE p11_attrs_find_value(
             p11_index_lookup(w, p11_index_find(w, [PUBLIC_KEY_INFO |-> key,
                                                    OBJECT_ID |-> oid, CLASS |-> "EXTENSION"])),
             "VALUE")

AttachedOrOwn(value, cert, oid) ==
    IF value # "" THEN {Extension[v].content : v \in {value} \cap DOMAIN Extension}
    ELSE p11_x509_find_extension(p11_attrs_find_value(cert, "VALUE"), oid)

\* An extension attached to the public key comes before the certificate's.
lookup_extension(w, cert, key, oid) ==
    AttachedOrOwn(AttachedValue(w, IF key # "" THEN key
                                   ELSE p11_attrs_find_value(cert, "PUBLIC_KEY_INFO"), oid),
                  cert, oid)

lookup_related(w, class, type, value) ==
    p11_index_find_all(w, (type :> value) @@ [CLASS |-> class])

(***************************************************************************)
(* What an attribute may be set to.                                        *)
(***************************************************************************)
check_der_struct(struct, value) == value = "" \/ value \in Der[struct]

type_valid(type, value) ==
    CASE type = "any"   -> TRUE
      [] type = "bool"  -> value \in Booleans
      [] type = "ulong" -> value \in Ulongs
      [] type = "utf8"  -> value \notin NotUtf8
      [] type = "date"  -> value = "" \/ value \in Der["date"]
      [] type = "false_or_time" -> value = "false" \/ value \in Der["time"]
      [] OTHER -> check_der_struct(type, value)

(***************************************************************************)
(* What is filled in.                                                      *)
(***************************************************************************)
common_populate(w) ==
    [TOKEN |-> Bool(w.token), PRIVATE |-> "false",
     MODIFIABLE |-> Bool(~w.token), LABEL |-> "", X_GENERATED |-> "false"]

is_v1_x509_authority(cert) ==
    \E c \in {p11_attrs_find_value(cert, "VALUE")} \cap DOMAIN X509 :
        X509[c].v1 /\ X509[c].subject = X509[c].issuer

\* "" when the basic constraints are invalid, so that there is no answer.
CategoryFrom(constraints, cert) ==
    IF constraints # {}
    THEN CHOOSE r \in {IF ~c.valid THEN "" ELSE IF c.ca THEN "2" ELSE "3" : c \in constraints} : TRUE
    ELSE IF is_v1_x509_authority(cert) THEN "2"
    ELSE IF ~p11_attrs_find_valid(cert, "VALUE") THEN "0"
    ELSE "3"
calc_certificate_category(w, cert, key) ==
    CategoryFrom(lookup_extension(w, cert, key, "BASIC_CONSTRAINTS"), cert)

\* What a certificate that parses says
ParsedAttrs(c) ==
    [HASH_OF_SUBJECT_PUBLIC_KEY |-> Sha1(c.key), START_DATE |-> c.start, END_DATE |-> c.end,
     ID |-> IF c.keyid # "" THEN c.keyid ELSE Sha1(c.key),
     SUBJECT |-> c.subject, ISSUER |-> c.issuer,
     SERIAL_NUMBER |-> c.serial, PUBLIC_KEY_INFO |-> c.key]
    @@ IF c.label = "" THEN NoAttrs ELSE [LABEL |-> c.label]

\* Without a certificate there is only what needs no value.
certificate_value_attrs(der) ==
    [TRUSTED |-> "false", X_DISTRUSTED |-> "false", URL |-> "",
     HASH_OF_ISSUER_PUBLIC_KEY |-> "", JAVA_MIDP_SECURITY_DOMAIN |-> "0"]
    @@ (IF der = "" THEN NoAttrs ELSE [CHECK_VALUE |-> Sha1(der)])
    @@ IF der \in DOMAIN X509 THEN ParsedAttrs(X509[der])
       ELSE [HASH_OF_SUBJECT_PUBLIC_KEY |-> "", START_DATE |-> "", END_DATE |-> "",
             ID |-> "", ISSUER |-> "", SERIAL_NUMBER |-> ""]

KnownCategory(category) == IF category = "" THEN "0" ELSE category
WithCategory(w, cert, attrs) ==
    [CERTIFICATE_CATEGORY |-> KnownCategory(calc_certificate_category(w, cert,
                                  p11_attrs_find_value(attrs, "PUBLIC_KEY_INFO"))),
     VALUE |-> ""] @@ attrs
certificate_populate(w, cert) ==
    WithCategory(w, cert, certificate_value_attrs(p11_attrs_find_value(cert, "VALUE")))
    @@ common_populate(w)

extension_populate(w, ext) ==
    LET value == p11_attrs_find_value(ext, "VALUE")
    IN  [ID |-> Sha1(p11_attrs_find_value(ext, "PUBLIC_KEY_INFO"))]
        @@ (IF value \in DOMAIN Extension
            THEN [OBJECT_ID |-> Extension[value].oid] ELSE NoAttrs)
        @@ common_populate(w)

data_populate(w) ==
    [VALUE |-> "", APPLICATION |-> "", OBJECT_ID |-> ""] @@ common_populate(w)

(***************************************************************************)
(* The schemas: what may be created (C), modified (M), is required (R) or  *)
(* wanted (W), and the type of the value.                                  *)
(***************************************************************************)
Attr(flags, type) == [flags |-> flags, type |-> type]

COMMON_ATTRS ==
    [CLASS |-> Attr({"R", "C"}, "ulong"), TOKEN |-> Attr({"C", "W"}, "bool"),
     MODIFIABLE |-> Attr({"C", "W"}, "bool"), PRIVATE |-> Attr({"C"}, "bool"),
     LABEL |-> Attr({"C", "M", "W"}, "utf8"),
     X_GENERATED |-> Attr({"C"}, "any"), X_ORIGIN |-> Attr({}, "any")]

certificate_schema == COMMON_ATTRS @@
    [CERTIFICATE_TYPE |-> Attr({"R", "C"}, "ulong")]
    @@ [t \in {"TRUSTED", "X_DISTRUSTED", "NSS_MOZILLA_CA_POLICY"} |->
            Attr({"C", "W"}, "bool")]
    @@ [t \in {"NSS_SERVER_DISTRUST_AFTER", "NSS_EMAIL_DISTRUST_AFTER"} |->
            Attr({"C", "W"}, "false_or_time")]
    @@ [t \in {"START_DATE", "END_DATE"} |-> Attr({"C", "M", "W"}, "date")]
    @@ [CERTIFICATE_CATEGORY |-> Attr({"C", "W"}, "ulong"),
        CHECK_VALUE |-> Attr({"C", "W"}, "any"),
        SUBJECT |-> Attr({"C", "W"}, "name"),
        ID |-> Attr({"C", "M", "W"}, "any"),
        ISSUER |-> Attr({"C", "M", "W"}, "name"),
        SERIAL_NUMBER |-> Attr({"C", "M", "W"}, "serial"),
        VALUE |-> Attr({"C"}, "cert"), URL |-> Attr({"C"}, "utf8"),
        HASH_OF_SUBJECT_PUBLIC_KEY |-> Attr({"C"}, "any"),
        HASH_OF_ISSUER_PUBLIC_KEY |-> Attr({"C"}, "any"),
        JAVA_MIDP_SECURITY_DOMAIN |-> Attr({"C"}, "ulong"),
        PUBLIC_KEY_INFO |-> Attr({"W"}, "key")]

extension_schema == COMMON_ATTRS @@
    [VALUE |-> Attr({"R", "C"}, "ext"),
     PUBLIC_KEY_INFO |-> Attr({"R", "C"}, "key"),
     OBJECT_ID |-> Attr({"C", "W"}, "oid"), ID |-> Attr({"C", "M"}, "any")]

data_schema == COMMON_ATTRS @@
    [VALUE |-> Attr({"C", "M", "W"}, "any"),
     APPLICATION |-> Attr({"C", "M", "W"}, "utf8"),
     OBJECT_ID |-> Attr({"C", "M", "W"}, "oid")]

ku_attribute_map ==
    [DIGITAL_SIGNATURE |-> "TRUST_DIGITAL_SIGNATURE",
     NON_REPUDIATION |-> "TRUST_NON_REPUDIATION",
     KEY_ENCIPHERMENT |-> "TRUST_KEY_ENCIPHERMENT",
     DATA_ENCIPHERMENT |-> "TRUST_DATA_ENCIPHERMENT",
     KEY_AGREEMENT |-> "TRUST_KEY_AGREEMENT",
     KEY_CERT_SIGN |-> "TRUST_KEY_CERT_SIGN", CRL_SIGN |-> "TRUST_CRL_SIGN"]

eku_attribute_map ==
    [SERVER_AUTH |-> "TRUST_SERVER_AUTH", CLIENT_AUTH |-> "TRUST_CLIENT_AUTH",
     CODE_SIGNING |-> "TRUST_CODE_SIGNING",
     EMAIL_PROTECTION |-> "TRUST_EMAIL_PROTECTION",
     IPSEC_END_SYSTEM |-> "TRUST_IPSEC_END_SYSTEM",
     IPSEC_TUNNEL |-> "TRUST_IPSEC_TUNNEL",
     IPSEC_USER |-> "TRUST_IPSEC_USER",
     TIME_STAMPING |-> "TRUST_TIME_STAMPING"]

trust_schema == COMMON_ATTRS
    @@ [t \in {"CERT_SHA1_HASH", "CERT_MD5_HASH", "ISSUER", "SUBJECT",
               "SERIAL_NUMBER", "TRUST_STEP_UP_APPROVED", "ID"}
              \cup {eku_attribute_map[p] : p \in DOMAIN eku_attribute_map}
              \cup {ku_attribute_map[u] : u \in DOMAIN ku_attribute_map} |->
            Attr({"C"}, "any")]

assertion_schema == COMMON_ATTRS
    @@ [t \in {"X_PURPOSE", "X_ASSERTION_TYPE"} |-> Attr({"R", "C"}, "any")]
    @@ [t \in {"X_CERTIFICATE_VALUE", "ISSUER", "SERIAL_NUMBER", "X_PEER",
               "ID"} |-> Attr({"C"}, "any")]

builtin_schema == COMMON_ATTRS

Schemas ==
    [CERTIFICATE |-> certificate_schema, EXTENSION |-> extension_schema,
     DATA |-> data_schema, NSS_TRUST |-> trust_schema,
     BUILTIN |-> builtin_schema, ASSERTION |-> assertion_schema]

GENERATED_CLASS == {"NSS_TRUST", "BUILTIN", "ASSERTION"}

(***************************************************************************)
(* Building.  When several attributes of a template are refused the code   *)
(* reports the first, the model one of them.                               *)
(***************************************************************************)
have_attribute(attrs, merge, type) ==
    IF p11_attrs_find(attrs, type) THEN attrs[type] # ""
                                   ELSE p11_attrs_find_valid(merge, type)

certificate_validate(attrs, merge) ==
    IF have_attribute(attrs, merge, "URL")
       /\ ~have_attribute(attrs, merge, "HASH_OF_SUBJECT_PUBLIC_KEY")
    THEN "TEMPLATE_INCONSISTENT" ELSE "OK"

populate(w, class, merge) ==
    CASE class = "CERTIFICATE" -> certificate_populate(w, merge)
      [] class = "EXTENSION" -> extension_populate(w, merge)
      [] class = "DATA" -> data_populate(w)
      [] OTHER -> common_populate(w)

IsCreating(w, attrs) == attrs = NoAttrs /\ ~p11_index_loading(w)
IsModifying(w, attrs) == attrs # NoAttrs /\ ~p11_index_loading(w)

Fault(w, schema, attrs, merge, t) ==
    IF t \in DOMAIN attrs /\ p11_attr_equal(attrs, merge, t) THEN "OK"
    ELSE IF t \notin DOMAIN schema THEN "TEMPLATE_INCONSISTENT"
    ELSE IF \/ IsCreating(w, attrs) /\ "C" \notin schema[t].flags
            \/ IsModifying(w, attrs) /\ "M" \notin schema[t].flags
    THEN "ATTRIBUTE_READ_ONLY"
    ELSE IF ~p11_index_loading(w) /\ ~type_valid(schema[t].type, merge[t])
    THEN "ATTRIBUTE_VALUE_INVALID"
    ELSE "OK"

Missing(schema, attrs, merge, flag) ==
    attrs = NoAttrs /\ \E t \in DOMAIN schema \ DOMAIN merge : flag \in schema[t].flags

Verdict(w, class, schema, attrs, merge, faults) ==
    IF IsModifying(w, attrs) /\ ~p11_attrs_find_bool(attrs, "MODIFIABLE", "true")
    THEN "ATTRIBUTE_READ_ONLY"
    ELSE IF IsCreating(w, attrs) /\ w.token /\ class \in GENERATED_CLASS
    THEN "TEMPLATE_INCONSISTENT"
    ELSE IF faults # {} THEN CHOOSE f \in faults : TRUE
    ELSE IF Missing(schema, attrs, merge, "R") THEN "TEMPLATE_INCOMPLETE"
    ELSE IF ~p11_index_loading(w) /\ class = "CERTIFICATE"
    THEN certificate_validate(attrs, merge)
    ELSE "OK"

Completed(w, class, merge, rv, wanted) ==
    [rv |-> rv,
     extra |-> IF rv = "OK" /\ wanted THEN populate(w, class, merge) ELSE NoAttrs]

build_for_schema(w, class, schema, attrs, merge) ==
    Completed(w, class, merge,
              Verdict(w, class, schema, attrs, merge,
                      {Fault(w, schema, attrs, merge, t) : t \in DOMAIN merge} \ {"OK"}),
              Missing(schema, attrs, merge, "W"))

Refused(rv) == [rv |-> rv, extra |-> NoAttrs]
BuildClass(w, class, type, attrs, merge) ==
    IF class = "" THEN Refused("TEMPLATE_INCOMPLETE")
    ELSE IF attrs = NoAttrs /\ p11_attrs_find_bool(merge, "TOKEN", Bool(~w.token))
    THEN Refused("TEMPLATE_INCONSISTENT")
    ELSE IF class = "CERTIFICATE" /\ type = "" THEN Refused("TEMPLATE_INCOMPLETE")
    ELSE IF (class = "CERTIFICATE" /\ type # "X_509") \/ class \notin DOMAIN Schemas
    THEN Refused("TEMPLATE_INCONSISTENT")
    ELSE build_for_schema(w, class, Schemas[class], attrs, merge)

BuildFrom(w, from, attrs, merge) ==
    BuildClass(w, p11_attrs_find_ulong(from, "CLASS"),
               p11_attrs_find_ulong(from, "CERTIFICATE_TYPE"), attrs, merge)
p11_builder_build(w, attrs, merge) ==
    BuildFrom(w, IF attrs # NoAttrs THEN attrs ELSE merge, attrs, merge)

(***************************************************************************)
(* The index as p11_builder_changed uses it: it is notifying, so changes   *)
(* are not notified, and it is loading, so the callbacks of the token that *)
(* store and remove objects return at once.                                *)
(***************************************************************************)
KeepInMemory(w, handle, built) == [rv |-> "OK", w |-> w, built |-> built]

ForgetOnly(w, attrs) == [rv |-> "OK", w |-> w]

Unnotified(w, handle, attrs) == w

Silent == INSTANCE TrustIndex
    WITH Build <- p11_builder_build, Store <- KeepInMemory,
         Unstore <- ForgetOnly, Notify <- Unnotified

(***************************************************************************)
(* What is generated for a certificate is a sequence of replacements: the  *)
(* objects of the index that match are replaced by others, which take the  *)
(* places of those with the same value of the key.                         *)
(***************************************************************************)
Replacement(match, key, by) == [match |-> match, key |-> key, by |-> by]

Replace(w, replacements) ==
    Accumulate(LAMBDA v, r : Silent!p11_index_replace_all(v, r.match, r.key, r.by).w,
               w, replacements)

(***************************************************************************)
(* The NSS trust object of a certificate.  Purposes and rejects are sets   *)
(* of at most one sequence, the NULL list is {}.                           *)
(***************************************************************************)
UsageAttrs(data, present) ==
    [t \in {ku_attribute_map[u] : u \in DOMAIN ku_attribute_map} |->
        IF data = {} \/ \E u \in p11_x509_parse_key_usage(data) : ku_attribute_map[u] = t
        THEN present ELSE "TRUST_UNKNOWN"]
build_trust_object_ku(w, cert, present) ==
    UsageAttrs(IF present = "NOT_TRUSTED" THEN {}
               ELSE lookup_extension(w, cert, "", "KEY_USAGE"), present)

Names(lists) == UNION {{l[i] : i \in DOMAIN l} : l \in lists}

PurposeTrust(p, allow, neutral, purposes, rejects) ==
    IF p \in Names(rejects) THEN "NOT_TRUSTED"
    ELSE IF p \in Names(purposes) THEN allow ELSE neutral
build_trust_object_eku(allow, purposes, rejects) ==
    [t \in {eku_attribute_map[p] : p \in DOMAIN eku_attribute_map} |->
        PurposeTrust(CHOOSE p \in DOMAIN eku_attribute_map : eku_attribute_map[p] = t, allow,
                     IF allow = "NOT_TRUSTED" THEN "NOT_TRUSTED"
                     ELSE IF purposes # {} \/ rejects # {} THEN "TRUST_UNKNOWN" ELSE allow,
                     purposes, rejects)]

\* An object that was not generated is looked for first.  When there is one
\* nothing is generated, and `match' still asks for what is not generated.
NssTrust(w, cert, value, match, allow, purposes, rejects) ==
    IF p11_index_find(w, match) # 0 THEN Replacement(match, "INVALID", <<>>)
    ELSE Replacement([X_GENERATED |-> "true"] @@ match, "INVALID",
        <<[X_GENERATED |-> "true"] @@ match
          @@ [MODIFIABLE |-> "false", TRUST_STEP_UP_APPROVED |-> "false"]
          @@ Valid(cert, {"ID", "LABEL", "SUBJECT"})
          @@ (IF value = "" THEN NoAttrs ELSE [CERT_MD5_HASH |-> Md5(value)])
          @@ build_trust_object_ku(w, cert, allow)
          @@ build_trust_object_eku(allow, purposes, rejects)>>)

NssMatch(cert, value) ==
    Valid(cert, {"ISSUER", "SERIAL_NUMBER"})
    @@ (IF value = "" THEN NoAttrs ELSE [CERT_SHA1_HASH |-> Sha1(value)])
    @@ [X_GENERATED |-> "false", CLASS |-> "NSS_TRUST"]

Allowed(trust, distrust, authority) ==
    IF distrust THEN "NOT_TRUSTED"
    ELSE IF trust /\ authority THEN "TRUSTED_DELEGATOR"
    ELSE IF trust THEN "TRUSTED" ELSE "TRUST_UNKNOWN"

replace_nss_trust_object(w, cert, value, trust, distrust, authority, purposes, rejects) ==
    IF Valid(cert, {"ISSUER", "SERIAL_NUMBER", "VALUE"}) = NoAttrs THEN <<>>
    ELSE <<NssTrust(w, cert, value, NssMatch(cert, value), Allowed(trust, distrust, authority),
                    purposes, rejects)>>

(***************************************************************************)
(* The trust assertions of a certificate.                                  *)
(***************************************************************************)
all_purposes == SelectSeq(PurposeNames,
                          LAMBDA p : p \in DOMAIN eku_attribute_map)

build_assertions(cert, type, oids) ==
    LET needs == IF type = "DISTRUSTED_CERTIFICATE"
                 THEN {"ISSUER", "SERIAL_NUMBER"} ELSE {"VALUE"}
        named == IF type = "DISTRUSTED_CERTIFICATE" THEN Valid(cert, needs)
                 ELSE [X_CERTIFICATE_VALUE |-> cert["VALUE"]]
    IN  IF DOMAIN Valid(cert, needs) # needs THEN <<>>
        ELSE [i \in DOMAIN oids |->
                 [CLASS |-> "ASSERTION", PRIVATE |-> "false",
                  MODIFIABLE |-> "false", X_ASSERTION_TYPE |-> type,
                  X_PURPOSE |-> oids[i], X_GENERATED |-> "true"]
                 @@ named
                 @@ [t \in {"LABEL", "ID"} \cap DOMAIN cert |-> cert[t]]]

build_trust_assertions(cert, trust, distrust, authority, purposes, rejects) ==
    LET anchored(oids) ==
            build_assertions(cert, "ANCHORED_CERTIFICATE", oids)
        distrusted(oids) ==
            build_assertions(cert, "DISTRUSTED_CERTIFICATE", oids)
    IN  [positives |->
            IF ~(trust /\ authority) THEN <<>>
            ELSE anchored(IF purposes = {} THEN all_purposes
                          ELSE CHOOSE l \in purposes : TRUE),
         negatives |->
            (IF rejects = {} THEN <<>>
             ELSE distrusted(CHOOSE l \in rejects : TRUE))
            \o (IF distrust THEN distrusted(all_purposes) ELSE <<>>)]

GeneratedAssertions(named) == [CLASS |-> "ASSERTION", X_GENERATED |-> "true"] @@ named

replace_trust_assertions(value, who, built) ==
    (IF value = "" THEN <<>>
     ELSE <<Replacement(GeneratedAssertions([X_CERTIFICATE_VALUE |-> value]), "X_PURPOSE",
                        built.positives)>>)
    \o IF Cardinality(DOMAIN who) < 2 THEN <<>>
       ELSE <<Replacement(GeneratedAssertions(who), "X_PURPOSE", built.negatives)>>

TrustAndAssertions(w, cert, trust, distrust, authority, purposes, rejects) ==
    replace_nss_trust_object(w, cert, p11_attrs_find_value(cert, "VALUE"),
                             trust, distrust, authority, purposes, rejects)
    \o replace_trust_assertions(p11_attrs_find_value(cert, "VALUE"),
           Valid(cert, {"ISSUER", "SERIAL_NUMBER"}),
           build_trust_assertions(cert, trust, distrust, authority, purposes, rejects))

remove_trust_and_assertions(w, attrs) ==
    TrustAndAssertions(w, attrs, FALSE, FALSE, FALSE, {}, {})

UsageOf(w, cert, distrust, oid) ==
    IF distrust THEN {}
    ELSE p11_x509_parse_extended_key_usage(lookup_extension(w, cert, "", oid))

replace_trust_and_assertions(w, cert, distrust) ==
    TrustAndAssertions(w, cert, p11_attrs_find_bool(cert, "TRUSTED", "true"), distrust,
                       p11_attrs_find_ulong(cert, "CERTIFICATE_CATEGORY") = "2",
                       UsageOf(w, cert, distrust, "EXTENDED_KEY_USAGE"),
                       UsageOf(w, cert, distrust, "OPENSSL_REJECT"))

(***************************************************************************)
(* What a change entails: for which certificates trust is generated anew,  *)
(* in turn, or removed.  A certificate that goes away hands over to        *)
(* another with the same value.                                            *)
(***************************************************************************)
ForCert(cert) == [cert |-> cert, gone |-> FALSE]
WithoutCert(cert) == [cert |-> cert, gone |-> TRUE]

SameValue(w, value) ==
    IF value = "" THEN 0
    ELSE p11_index_find(w, [VALUE |-> value, CLASS |-> "CERTIFICATE",
                            CERTIFICATE_TYPE |-> "X_509"])
HandedOver(w, attrs, dup) ==
    IF dup # 0 THEN <<ForCert(p11_index_lookup(w, dup))>> ELSE <<WithoutCert(attrs)>>
replace_compat_for_cert(w, handle, attrs) ==
    IF handle # 0 THEN <<ForCert(attrs)>>
    ELSE HandedOver(w, attrs, SameValue(w, p11_attrs_find_value(attrs, "VALUE")))

\* The certificates of a public key
OfKey(w, key) ==
    IF key = "" THEN <<>>
    ELSE Ascending(lookup_related(w, "CERTIFICATE", "PUBLIC_KEY_INFO", key))

ForCerts(w, handles) == [i \in DOMAIN handles |-> ForCert(p11_index_lookup(w, handles[i]))]
replace_compat_for_ext(w, attrs) ==
    ForCerts(w, OfKey(w, p11_attrs_find_value(attrs, "PUBLIC_KEY_INFO")))

Regenerate(w, certs) ==
    Accumulate(LAMBDA v, c :
                   Replace(v, IF c.gone THEN remove_trust_and_assertions(v, c.cert)
                              ELSE replace_trust_and_assertions(v, c.cert,
                                       p11_attrs_find_bool(c.cert, "X_DISTRUSTED", "true"))),
               w, certs)

\* The category is computed from the object that changed, the extension.
SetCategory(w, h, category) ==
    IF category = "" THEN w
    ELSE Silent!p11_index_update(w, h, [CERTIFICATE_CATEGORY |-> category]).w
update_related_category(w, handle, key) ==
    Accumulate(LAMBDA v, h : SetCategory(v, h,
                   calc_certificate_category(v, p11_index_lookup(v, handle), key)),
               w, OfKey(w, key))

Concerned(w, handle, attrs) ==
    IF p11_attrs_match(attrs, [CLASS |-> "CERTIFICATE", CERTIFICATE_TYPE |-> "X_509"])
    THEN replace_compat_for_cert(w, handle, attrs)
    ELSE IF \E oid \in {"EXTENDED_KEY_USAGE", "KEY_USAGE"} :
                p11_attrs_match(attrs, [CLASS |-> "EXTENSION", OBJECT_ID |-> oid])
    THEN replace_compat_for_ext(w, attrs)
    ELSE <<>>

Changed(w, handle, attrs) ==
    IF p11_attrs_match(attrs, [CLASS |-> "EXTENSION", OBJECT_ID |-> "BASIC_CONSTRAINTS"])
    THEN update_related_category(w, handle, p11_attrs_find_value(attrs, "PUBLIC_KEY_INFO"))
    ELSE Regenerate(w, Concerned(w, handle, attrs))

p11_builder_changed(w, handle, attrs) ==
    Silent!p11_index_finish(Changed(p11_index_load(w), handle, attrs))
===============================================================================
