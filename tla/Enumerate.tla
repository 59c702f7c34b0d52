-------------------------------- MODULE Enumerate --------------------------------
(***************************************************************************)
(* How the commands of the trust tool select objects (trust/enumerate.c)   *)
(* and what the formats of `trust extract' make of a certificate.  An      *)
(* enumeration is [flags, match, uri, num_filters, purposes, seen,         *)
(* public_keys, issuer_serials].  An object's attributes are a function;   *)
(* of a certificate, "eku" stands for the purposes in the certificate      *)
(* itself, and CKA_VALUE is its DER ("broken" when it cannot be parsed).   *)
(* A stapled extension is [CKA_CLASS, CKA_PUBLIC_KEY_INFO, oid, purposes]. *)
(* Texts that are converted are sequences of characters.                   *)
(***************************************************************************)
EXTENDS Naturals, Sequences, TLC

CONSTANT INT16_MAX   \* the longest string of a Java keystore, 32767

Attr(attrs, name) == IF name \in DOMAIN attrs THEN {attrs[name]} ELSE {}
Holds(attrs, template) ==
    \A a \in DOMAIN template : Attr(attrs, a) = {template[a]}

p11_enumerate_init ==
    [flags |-> {}, match |-> <<>>, uri |-> {}, num_filters |-> 0, purposes |-> {},
     seen |-> {}, public_keys |-> {}, issuer_serials |-> {}]

(***************************************************************************)
(* Options.  A refused option leads to no enumeration.                     *)
(***************************************************************************)
X509 == [CKA_CLASS |-> "CKO_CERTIFICATE", CKA_CERTIFICATE_TYPE |-> "CKC_X_509"]

Filters == {"ca-anchors", "trust-policy", "blocklist", "certificates", "all"}
FilterFlags(option) ==
    CASE option = "ca-anchors" -> {"anchors", "collapse"}
      [] option = "trust-policy" -> {"anchors", "blocklist", "collapse"}
      [] option = "blocklist" -> {"blocklist", "collapse"}
      [] option = "certificates" -> {"collapse"}
      [] option = "all" -> {}
FilterMatch(option) ==
    CASE option = "ca-anchors" -> X509 @@ [CKA_CERTIFICATE_CATEGORY |-> "authority"]
      [] option = "all" -> <<>>
      [] OTHER -> X509

\* "uri" stands for a PKCS#11 URI that asks for the label of an object, "bad" for
\* an option that is refused.
UriMatch == [CKA_LABEL |-> <<"A">>]
p11_enumerate_opt_filter(ex, option) ==
    IF option = "uri"
    THEN IF ex.uri # {} THEN {}
         ELSE {[ex EXCEPT !.uri = {UriMatch}, !.match = UriMatch,
                          !.num_filters = @ + 1]}
    ELSE {[ex EXCEPT !.flags = @ \cup FilterFlags(option), !.match = FilterMatch(option) @@ @,
                     !.num_filters = @ + 1] : f \in Filters \cap {option}}

KnownPurposes == {"server-auth", "client-auth", "email-protection", "code-signing",
                  "ipsec-end-system", "ipsec-tunnel", "ipsec-user", "time-stamping"}
p11_enumerate_opt_purpose(ex, option) ==
    IF option \in KnownPurposes \cup {"1.2.3"} THEN {[ex EXCEPT !.purposes = @ \cup {option}]}
    ELSE {}

\* p11_enumerate_ready: the command's filter when the user gives none.
DefaultFilter(ex, def_filter) ==
    IF ex.num_filters > 0 THEN ex
    ELSE CHOOSE e \in p11_enumerate_opt_filter(ex, def_filter) : TRUE

blocklist_load(ex, attrs) ==
    [ex EXCEPT !.issuer_serials = @ \cup
                   (Attr(attrs, "CKA_ISSUER") \X Attr(attrs, "CKA_SERIAL_NUMBER")),
               !.public_keys = @ \cup Attr(attrs, "CKA_PUBLIC_KEY_INFO")]

Listed(ex, attrs) ==
    \/ Attr(attrs, "CKA_PUBLIC_KEY_INFO") \cap ex.public_keys # {}
    \/ (Attr(attrs, "CKA_ISSUER") \X Attr(attrs, "CKA_SERIAL_NUMBER")) \cap ex.issuer_serials # {}

TrustFlag(ex, attrs) ==
    CASE Attr(attrs, "CKA_X_DISTRUSTED") = {TRUE} -> {"blocklist"}
      [] Listed(ex, attrs) -> {}
      [] Attr(attrs, "CKA_TRUSTED") = {TRUE} -> {"anchors"}
      [] OTHER -> {}
check_trust_flags(ex, attrs) ==
    \/ ex.flags \cap {"anchors", "blocklist"} = {}
    \/ TrustFlag(ex, attrs) \cap ex.flags # {}

extract_certificate(ex, attrs) ==
    /\ Attr(attrs, "CKA_CERTIFICATE_TYPE") = {"CKC_X_509"}
    /\ Attr(attrs, "CKA_VALUE") # {}
    /\ "collapse" \in ex.flags => attrs["CKA_VALUE"] \notin ex.seen
    /\ check_trust_flags(ex, attrs)

\* What has been seen after an object, taken or not.
Seen(ex, attrs) ==
    IF "collapse" \in ex.flags /\ extract_certificate(ex, attrs)
    THEN [ex EXCEPT !.seen = @ \cup {attrs["CKA_VALUE"]}] ELSE ex

\* The extensions stapled to the certificate's public key on the same token, as
\* a function from "eku" and "reject" to purposes.
load_attached_extensions(attrs, objects) ==
    LET mine == {o \in objects :
                    /\ o["CKA_CLASS"] = "CKO_X_CERTIFICATE_EXTENSION"
                    /\ Attr(o, "CKA_PUBLIC_KEY_INFO") = Attr(attrs, "CKA_PUBLIC_KEY_INFO")
                    /\ Attr(attrs, "CKA_PUBLIC_KEY_INFO") # {}}
    IN  [k \in {o["oid"] : o \in mine} |-> (CHOOSE o \in mine : o["oid"] = k)["purposes"]]

\* No purposes at all match anything.
extract_purposes(attrs, attached) ==
    IF Attr(attached, "eku") # {} THEN Attr(attached, "eku") ELSE Attr(attrs, "eku")

InPurposesMutant(ex, purposes) == ex.purposes \cap purposes # {}
InPurposes(ex, purposes) == "any" \in purposes \/ ex.purposes \cap purposes # {}

\* on_iterate_load_filter, for an object whose attributes could be loaded.
Taken(ex, attrs, objects) ==
    "correlate" \in ex.flags =>
        /\ attrs["CKA_CLASS"] = "CKO_CERTIFICATE"
        /\ extract_certificate(ex, attrs)
        /\ attrs["CKA_VALUE"] # "broken"
        /\ \A purposes \in extract_purposes(attrs, load_attached_extensions(attrs, objects)) :
              ex.purposes # {} => InPurposes(ex, purposes)

(***************************************************************************)
(* What the formats write for a certificate                                *)
(***************************************************************************)
extract_label(attrs) ==
    IF Attr(attrs, "CKA_LABEL") \ {<<>>} # {} THEN attrs["CKA_LABEL"]
    ELSE IF attrs["CKA_CLASS"] = "CKO_CERTIFICATE" THEN <<"certificate">> ELSE <<"unknown">>

\* Purposes that may be absent.
write_trust_and_rejects(attrs, attached) ==
    LET distrust == Attr(attrs, "CKA_X_DISTRUSTED") = {TRUE}
        rejects == Attr(attached, "reject")
    IN  CASE distrust -> [trust |-> {}, reject |-> {KnownPurposes \cup UNION rejects}]
          [] ~distrust /\ Attr(attrs, "CKA_TRUSTED") = {TRUE} ->
                 [trust |-> Attr(attached, "eku"), reject |-> rejects]
          [] OTHER -> [trust |-> {{}}, reject |-> rejects]

prepare_pem_contents(attrs, attached) ==
    write_trust_and_rejects(attrs, attached)
        @@ [value |-> attrs["CKA_VALUE"], alias |-> Attr(attrs, "CKA_LABEL")]

IsSpace(c) == c \in {" ", "\t"}
Lower(c) == CASE c = "A" -> "a" [] c = "B" -> "b" [] OTHER -> c

\* Words in lower case with one space between them.
p11_openssl_canon_string(text) ==
    LET canon[i \in 0..Len(text)] ==
            IF i = 0 THEN [out |-> <<>>, sp |-> FALSE, nsp |-> FALSE]
            ELSE IF ~IsSpace(text[i])
                 THEN [out |-> canon[i - 1].out
                                 \o (IF canon[i - 1].sp THEN <<" ">> ELSE <<>>)
                                 \o <<Lower(text[i])>>,
                       sp |-> FALSE, nsp |-> TRUE]
            ELSE IF canon[i - 1].nsp THEN [canon[i - 1] EXCEPT !.sp = TRUE, !.nsp = FALSE]
            ELSE canon[i - 1]
    IN  canon[Len(text)].out

\* The names of the two links, by the canonical subject and by the subject; the
\* digests are taken to be different for different names.
symlink_for_subject_hash(attrs) ==
    {<<"sha1", p11_openssl_canon_string(s)>> : s \in Attr(attrs, "CKA_SUBJECT") \ {<<>>}}
symlink_for_subject_old_hash(attrs) == {<<"md5", s>> : s \in Attr(attrs, "CKA_SUBJECT")}
p11_openssl_symlink(attrs) ==
    symlink_for_subject_hash(attrs) \cup symlink_for_subject_old_hash(attrs)

convert_alias(text) ==
    LET kept == SelectSeq(text, LAMBDA c : ~IsSpace(c))
    IN  [i \in DOMAIN kept |-> Lower(kept[i])]

\* The first of alias, alias-1, alias-2, ... that is free.
Suffixed(alias, i) == IF i = 0 THEN alias ELSE alias \o <<"-", ToString(i)>>
AddAliasMutant(aliases, label) ==
    convert_alias(IF label = {} THEN <<"unlabeled">> ELSE CHOOSE l \in label : TRUE)
add_alias(aliases, label) ==
    LET alias == convert_alias(IF label = {} THEN <<"unlabeled">> ELSE CHOOSE l \in label : TRUE)
        free == {i \in 0..Len(aliases) : \A j \in DOMAIN aliases : aliases[j] # Suffixed(alias, i)}
    IN  Suffixed(alias, CHOOSE i \in free : \A j \in free : i <= j)

\* add_string: `truncating long string', then assert (value < INT16_MAX).
add_string(length) == IF length > INT16_MAX THEN INT16_MAX ELSE length
EncodesShort(length) == length < INT16_MAX

prepare_jks_buffer(aliases, attrs) ==
    [value |-> attrs["CKA_VALUE"], alias |-> add_alias(aliases, Attr(attrs, "CKA_LABEL"))]

\* One signature list for each certificate.
prepare_edk2_buffer(attrs) ==
    [type |-> "EFI_CERT_X509_GUID", owner |-> "agent", value |-> attrs["CKA_VALUE"]]

p11_enumerate_filename(attrs) ==
    LET label == extract_label(attrs)
    IN  [i \in DOMAIN label |-> IF label[i] \in {" ", "\t", "/"} THEN "_" ELSE label[i]]
===================================================================================
