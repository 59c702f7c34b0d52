---------------------------------- MODULE Tools ----------------------------------
(***************************************************************************)
(* The commands of the p11-kit tool that work on tokens: generate-keypair, *)
(* import-object, export-object, delete-object, add-profile,               *)
(* delete-profile, list-profiles, list-objects, list-tokens,               *)
(* list-mechanisms and list-modules.  Several processes each run one       *)
(* command on the same tokens.  A command parses its options, loads and    *)
(* initializes modules, iterates to a token or an object that matches the  *)
(* URI, does its work call by call (any call may fail), releases what it   *)
(* holds and exits.  Iterating is abstracted to one step for each token    *)
(* (see Iter for its detail).                                              *)
(*                                                                         *)
(* A token is [name, module, writable, mechanisms, keepsInfo, strips]: the *)
(* last two say whether it keeps CKA_PUBLIC_KEY_INFO and whether it drops  *)
(* the leading zeros of big integers.  A command line is [tool, opts,      *)
(* argc, uri, provider, login, args], its uri [ok, tokens, attrs]: whether *)
(* it parses, the names of the tokens it matches, the attributes it asks.  *)
(***************************************************************************)
EXTENDS Naturals, Sequences, FiniteSets, TLC

CONSTANTS
    Procs,        \* the processes
    Tokens,       \* the tokens, in the order of the iteration
    CommandLines, \* what the processes may run
    Stored        \* the objects at the start

VARIABLES
    job,      \* the command line of each process
    run,      \* where each process is, see Start
    objects   \* the objects on the tokens: [on, nr, attrs]

vars == <<job, run, objects>>

(***************************************************************************)
(* What the commands make of public keys and certificates.  An object's    *)
(* attributes are a function from names to values.  The ASN.1 structure of *)
(* a public key is [alg, params, point, unused, modulus, exponent]: alg is *)
(* the algorithm's OID ("broken": not the DER of a public key), point the  *)
(* octets of an elliptic curve point and unused the spare bits of the BIT  *)
(* STRING that holds them, modulus and exponent the contents of two        *)
(* INTEGERs.                                                               *)
(***************************************************************************)
Optional(name, value) == IF value = {} THEN <<>> ELSE name :> CHOOSE v \in value : TRUE

\* --- import-object.c

\* label and id are optional; an id that is no hexadecimal number is "xyz".
BadId(id) == id = {"xyz"}

LabelAndId(label, id) == Optional("CKA_LABEL", label) @@ Optional("CKA_ID", id)

\* der is a certificate's value, "broken" when it cannot be decoded.  The
\* attributes of C_CreateObject, none when the import fails before it.
import_x509_cert(der, label, id) ==
    IF der = "broken" \/ BadId(id) THEN {}
    ELSE {[CKA_CLASS |-> "CKO_CERTIFICATE", CKA_TOKEN |-> TRUE, CKA_PRIVATE |-> FALSE,
           CKA_CERTIFICATE_TYPE |-> "CKC_X_509", CKA_VALUE |-> der, CKA_SUBJECT |-> der]
              @@ LabelAndId(label, id)}

init_attrs_pubkey(der, label, id) ==
    [CKA_CLASS |-> "CKO_PUBLIC_KEY", CKA_TOKEN |-> TRUE, CKA_PRIVATE |-> FALSE,
     CKA_VERIFY |-> TRUE, CKA_PUBLIC_KEY_INFO |-> der] @@ LabelAndId(label, id)

add_attrs_pubkey_rsa(der) ==
    [CKA_KEY_TYPE |-> "CKK_RSA", CKA_ENCRYPT |-> TRUE,
     CKA_MODULUS |-> der.modulus, CKA_PUBLIC_EXPONENT |-> der.exponent]

\* The header of an OCTET STRING: one octet of length up to 127, then two.
OctetStringHeader(length) == IF length < 128 THEN <<4, length>> ELSE <<4, 129, length>>

add_attrs_pubkey_ec(der) ==
    [CKA_KEY_TYPE |-> "CKK_EC", CKA_EC_PARAMS |-> der.params,
     CKA_EC_POINT |-> OctetStringHeader(Len(der.point)) \o der.point]

import_pubkey(der, label, id) ==
    LET base == init_attrs_pubkey(der, label, id)
    IN  CASE BadId(id) -> {}
          [] der.alg = "rsa" -> {base @@ add_attrs_pubkey_rsa(der)}
          [] der.alg = "ec" /\ der.unused = 0 -> {base @@ add_attrs_pubkey_ec(der)}
          [] OTHER -> {}

\* A PEM block is [type, cert, key], cert or key being its DER.
import_pem(block, label, id) ==
    CASE block.type = "CERTIFICATE" -> import_x509_cert(block.cert, label, id)
      [] block.type = "PUBLIC KEY" -> import_pubkey(block.key, label, id)
      [] OTHER -> {}

\* --- export-object.c

NoKey == [alg |-> "none", params |-> "none", point |-> <<>>, unused |-> 0,
          modulus |-> <<>>, exponent |-> <<>>]

Has(attrs, name) == name \in DOMAIN attrs

PrependLeadingZeroMutant(octets) == octets
prepend_leading_zero(octets) == IF octets[1] >= 128 THEN <<0>> \o octets ELSE octets

export_pubkey_rsa(attrs) ==
    IF ~Has(attrs, "CKA_MODULUS") \/ ~Has(attrs, "CKA_PUBLIC_EXPONENT") THEN {}
    ELSE {[NoKey EXCEPT !.alg = "rsa", !.params = "NULL",
                        !.modulus = prepend_leading_zero(attrs["CKA_MODULUS"]),
                        !.exponent = prepend_leading_zero(attrs["CKA_PUBLIC_EXPONENT"])]}

\* `Strip the leading 2 octets (DER header) for OCTET STRING'
export_pubkey_ec(attrs) ==
    IF ~Has(attrs, "CKA_EC_PARAMS") \/ ~Has(attrs, "CKA_EC_POINT") THEN {}
    ELSE IF Len(attrs["CKA_EC_POINT"]) < 2 THEN {}
    ELSE {[NoKey EXCEPT !.alg = "ec", !.params = attrs["CKA_EC_PARAMS"],
                        !.point = SubSeq(attrs["CKA_EC_POINT"], 3,
                                         Len(attrs["CKA_EC_POINT"]))]}

export_pubkey_asn1(attrs) ==
    CASE attrs["CKA_KEY_TYPE"] = "CKK_RSA" -> export_pubkey_rsa(attrs)
      [] attrs["CKA_KEY_TYPE"] = "CKK_EC" -> export_pubkey_ec(attrs)
      [] OTHER -> {}

\* The PEM block, none when the export fails.
export_pubkey(attrs) ==
    LET keys == IF Has(attrs, "CKA_PUBLIC_KEY_INFO") THEN {attrs["CKA_PUBLIC_KEY_INFO"]}
                ELSE IF Has(attrs, "CKA_KEY_TYPE") THEN export_pubkey_asn1(attrs)
                ELSE {}
    IN  {[type |-> "PUBLIC KEY", cert |-> "none", key |-> k] : k \in keys}

export_certificate(attrs) ==
    IF ~Has(attrs, "CKA_CERTIFICATE_TYPE") \/ ~Has(attrs, "CKA_VALUE") THEN {}
    ELSE IF attrs["CKA_CERTIFICATE_TYPE"] # "CKC_X_509" THEN {}
    ELSE {[type |-> "CERTIFICATE", cert |-> attrs["CKA_VALUE"], key |-> NoKey]}

Exported(attrs) ==
    CASE attrs["CKA_CLASS"] = "CKO_CERTIFICATE" -> export_certificate(attrs)
      [] attrs["CKA_CLASS"] = "CKO_PUBLIC_KEY" -> export_pubkey(attrs)
      [] OTHER -> {}

\* --- generate-keypair.c

get_mechanism(type) ==
    CASE type = "rsa" -> {"CKM_RSA_PKCS_KEY_PAIR_GEN"}
      [] type = "ecdsa" -> {"CKM_ECDSA_KEY_PAIR_GEN"}
      [] type = "eddsa" -> {"CKM_EC_EDWARDS_KEY_PAIR_GEN"}
      [] OTHER -> {}

Curves == {"secp256r1", "secp384r1", "secp521r1", "ed25519", "ed448"}
get_ec_params(curve) == curve \cap Curves

\* bits and curve are optional.
check_args(type, bits, curve) ==
    /\ \/ type = "rsa" /\ bits # {}
       \/ type \in {"ecdsa", "eddsa"} /\ curve # {}
    /\ bits = {} \/ curve = {}

get_templates(args) ==
    LET common == [CKA_TOKEN |-> TRUE] @@ LabelAndId(args.label, args.id)
        rsa == args.type = "rsa"
    IN  [pub |-> [CKA_PRIVATE |-> FALSE, CKA_VERIFY |-> TRUE]
                 @@ common
                 @@ (IF rsa THEN [CKA_ENCRYPT |-> TRUE] ELSE <<>>)
                 @@ Optional("CKA_MODULUS_BITS", IF rsa THEN args.bits ELSE {})
                 @@ Optional("CKA_EC_PARAMS", IF rsa THEN {} ELSE args.curve),
         priv |-> [CKA_PRIVATE |-> TRUE, CKA_SIGN |-> TRUE]
                  @@ common
                  @@ (IF rsa THEN [CKA_DECRYPT |-> TRUE] ELSE <<>>)]
----------------------------------------------------------------------------------

TokenSet == {Tokens[i] : i \in DOMAIN Tokens}
ModulesOfTokens == {t.module : t \in TokenSet}
Matches(attrs, template) ==
    \A a \in DOMAIN template : Has(attrs, a) /\ attrs[a] = template[a]
OnToken(t, template) ==
    {o \in objects : o.on = t.name /\ Matches(o.attrs, template)}
NextNr == Cardinality(Stored) + 1
            + Cardinality(UNION {run[p].created : p \in Procs})

Start == [at |-> "start",
          modules |-> {},    \* loaded and initialized
          sessions |-> {},   \* open, by the token's name
          pin |-> FALSE,     \* the "tty" callback is registered
          left |-> <<>>,     \* the tokens to visit
          token |-> {},      \* the token visited
          found |-> {},      \* the objects found and not yet worked on
          blocks |-> <<>>,   \* the PEM blocks not yet imported
          mark |-> 0,        \* the objects below it existed at the search
          error |-> FALSE,   \* a block could not be imported
          out |-> {},        \* what is printed
          created |-> {}, removed |-> {}, ret |-> 2]

Init ==
    /\ job \in [Procs -> CommandLines]
    /\ run = [p \in Procs |-> Start]
    /\ objects = Stored

Set(p, r) == run' = [run EXCEPT ![p] = r]
Template(p) == [CKA_CLASS |-> "CKO_PROFILE", CKA_PROFILE_ID |-> job[p].args.profile]

(***************************************************************************)
(* The main functions.  The status the options alone lead to, none to go   *)
(* on.  opts: "fine", "help", "unknown".                                   *)
(***************************************************************************)
Parsed(j, bad) ==
    CASE j.opts = "help" -> {0}
      [] j.opts = "unknown" \/ j.argc # 1 \/ bad \/ ~j.uri.ok -> {2}
      [] OTHER -> {}

p11_kit_generate_keypair(j) ==
    Parsed(j, \/ get_mechanism(j.args.type) = {}
              \/ j.args.bits = {0}
              \/ j.args.curve # get_ec_params(j.args.curve)
              \/ ~check_args(j.args.type, j.args.bits, j.args.curve))

p11_kit_import_object(j) == Parsed(j, j.args.file = "none")
p11_kit_export_object(j) == Parsed(j, FALSE)
p11_kit_delete_object(j) == Parsed(j, FALSE)
p11_kit_add_profile(j) == Parsed(j, j.args.profile \in {"none", "unknown", "two"})
p11_kit_delete_profile(j) == Parsed(j, j.args.profile \in {"none", "unknown", "two"})
p11_kit_list_profiles(j) == Parsed(j, FALSE)
p11_kit_list_objects(j) == Parsed(j, FALSE)
p11_kit_list_tokens(j) == Parsed(j, FALSE)
p11_kit_list_mechanisms(j) == Parsed(j, FALSE)
p11_kit_list_modules(j) ==
    CASE j.opts = "help" -> {0}
      [] j.opts = "unknown" \/ j.argc # 0 -> {2}
      [] OTHER -> {}

Status(j) ==
    CASE j.tool = "generate-keypair" -> p11_kit_generate_keypair(j)
      [] j.tool = "import-object" -> p11_kit_import_object(j)
      [] j.tool = "export-object" -> p11_kit_export_object(j)
      [] j.tool = "delete-object" -> p11_kit_delete_object(j)
      [] j.tool = "add-profile" -> p11_kit_add_profile(j)
      [] j.tool = "delete-profile" -> p11_kit_delete_profile(j)
      [] j.tool = "list-profiles" -> p11_kit_list_profiles(j)
      [] j.tool = "list-objects" -> p11_kit_list_objects(j)
      [] j.tool = "list-tokens" -> p11_kit_list_tokens(j)
      [] j.tool = "list-mechanisms" -> p11_kit_list_mechanisms(j)
      [] j.tool = "list-modules" -> p11_kit_list_modules(j)

\* p11_tool_set_login comes last, when nothing can refuse the options any more.
p11_tool_set_login(r, login) == [r EXCEPT !.pin = login]

Parse(p) ==
    /\ run[p].at = "start"
    /\ IF Status(job[p]) # {}
       THEN Set(p, [run[p] EXCEPT !.at = "exit", !.ret = CHOOSE s \in Status(job[p]) : TRUE])
       ELSE Set(p, [p11_tool_set_login(run[p], job[p].login) EXCEPT !.at = "begin", !.ret = 1])
    /\ UNCHANGED <<job, objects>>

(***************************************************************************)
(* tool.c, and what the iterator does for a tool                           *)
(***************************************************************************)
\* generate_keypair makes its templates, and may give up, before it begins.
BeginIterFails(p) ==
    /\ run[p].at = "begin"
    /\ Set(p, [run[p] EXCEPT !.at = "free"])
    /\ UNCHANGED <<job, objects>>

p11_tool_begin_iter(p) ==
    LET loaded == IF job[p].provider = {} THEN ModulesOfTokens ELSE job[p].provider
    IN  /\ run[p].at = "begin"
        /\ ~(job[p].tool = "generate-keypair" /\ BadId(job[p].args.id))
        /\ Set(p, [run[p] EXCEPT
                     !.at = IF job[p].tool = "list-modules" THEN "modules" ELSE "next",
                     !.modules = loaded,
                     !.left = SelectSeq(Tokens, LAMBDA t :
                                 t.module \in loaded /\ t.name \in job[p].uri.tokens)])
        /\ UNCHANGED <<job, objects>>

\* list_objects and list_tokens end with 0 however the iteration ends.
ListsAll(p) == job[p].tool \in {"list-objects", "list-tokens"}
WithTokens(p) == job[p].tool \in {"list-tokens", "list-mechanisms"}
WithObjects(p) == job[p].tool \in {"delete-object", "export-object", "list-objects"}

\* finish_slot closes the session of the token that was visited.
Finished(p) ==
    [run[p] EXCEPT !.sessions = @ \ {t.name : t \in run[p].token}, !.token = {}]
Stops(p, r) == [r EXCEPT !.at = "end", !.ret = IF ListsAll(p) THEN 0 ELSE 1]

IterationEnds(p) ==
    /\ run[p].at = "next"
    /\ run[p].left = <<>>
    /\ Set(p, Stops(p, Finished(p)))
    /\ UNCHANGED <<job, objects>>

Visited(p) ==
    LET t == Head(run[p].left)
    IN  [Finished(p) EXCEPT !.left = Tail(@), !.token = {t},
            !.sessions = IF WithTokens(p) THEN @ ELSE @ \cup {t.name}]

\* C_OpenSession or, with the session open, C_Login fails.
VisitFails(p) ==
    /\ run[p].at = "next"
    /\ run[p].left # <<>>
    /\ ~WithTokens(p)
    /\ Set(p, Stops(p, Finished(p)))
    /\ UNCHANGED <<job, objects>>

\* request_pin returns nothing: the iterator goes on to the next token and
\* forgets the session it has just opened.
NoPin(p) ==
    /\ run[p].at = "next"
    /\ run[p].left # <<>>
    /\ ~WithTokens(p)
    /\ job[p].login
    /\ Set(p, [Visited(p) EXCEPT !.token = {}])
    /\ UNCHANGED <<job, objects>>

Visit(p) ==
    /\ run[p].at = "next"
    /\ run[p].left # <<>>
    /\ LET found == IF WithObjects(p)
                    THEN OnToken(Head(run[p].left), job[p].uri.attrs) ELSE {}
       IN  Set(p, [Visited(p) EXCEPT
                      !.found = found,
                      !.at = IF WithObjects(p) /\ found = {} THEN "next" ELSE job[p].tool])
    /\ UNCHANGED <<job, objects>>

EndIterMutant(r) == [r EXCEPT !.at = "free", !.modules = {}]
p11_tool_end_iter(r) == [r EXCEPT !.at = "free", !.modules = {}, !.sessions = {}, !.token = {}]

EndIter(p) ==
    /\ run[p].at = "end"
    /\ Set(p, p11_tool_end_iter(run[p]))
    /\ UNCHANGED <<job, objects>>

ToolFreeMutant(r) == [r EXCEPT !.at = "exit", !.modules = {}]
p11_tool_free(r) == [r EXCEPT !.at = "exit", !.modules = {}, !.pin = FALSE]

Free(p) ==
    /\ run[p].at = "free"
    /\ Set(p, p11_tool_free(run[p]))
    /\ UNCHANGED <<job, objects>>

(***************************************************************************)
(* The modules' calls, external                                            *)
(***************************************************************************)
TokenOf(p) == CHOOSE t \in run[p].token : TRUE

Stripped(octets) == IF octets[1] = 0 THEN Tail(octets) ELSE octets
Kept(t, attrs) ==
    [a \in DOMAIN attrs \ (IF t.keepsInfo THEN {} ELSE {"CKA_PUBLIC_KEY_INFO"}) |->
        IF t.strips /\ a \in {"CKA_MODULUS", "CKA_PUBLIC_EXPONENT"}
        THEN Stripped(attrs[a]) ELSE attrs[a]]

\* The objects made of a sequence of templates, on a writable token.
NewObjects(p, templates) ==
    {[on |-> TokenOf(p).name, nr |-> NextNr + i - 1,
      attrs |-> Kept(TokenOf(p), templates[i])] : i \in DOMAIN templates}
Creates(p, templates, r) ==
    /\ TokenOf(p).writable
    /\ objects' = objects \cup NewObjects(p, templates)
    /\ Set(p, [r EXCEPT !.created = @ \cup NewObjects(p, templates)])
    /\ UNCHANGED job
Destroys(p, o, r) ==
    /\ TokenOf(p).writable
    /\ o \in objects
    /\ objects' = objects \ {o}
    /\ Set(p, [r EXCEPT !.removed = @ \cup {o}])
    /\ UNCHANGED job

\* The tool reports an error and cleans up.
Fails(p, places) ==
    /\ run[p].at \in places
    /\ Set(p, [run[p] EXCEPT !.at = "end", !.ret = 1])
    /\ UNCHANGED <<job, objects>>
Succeeds(p) == [run[p] EXCEPT !.at = "end", !.ret = 0]

(***************************************************************************)
(* The commands                                                            *)
(***************************************************************************)
generate_keypair(p) ==
    LET templates == get_templates(job[p].args)
    IN  /\ run[p].at = "generate-keypair"
        /\ Creates(p, <<templates.pub @@ [CKA_CLASS |-> "CKO_PUBLIC_KEY"],
                        templates.priv @@ [CKA_CLASS |-> "CKO_PRIVATE_KEY"]>>, Succeeds(p))

\* The file is read and its blocks are imported one after the other; a file
\* that cannot be read, or that has no block, fails.
import_object(p) ==
    /\ run[p].at = "import-object"
    /\ job[p].args.blocks # <<>>
    /\ Set(p, [run[p] EXCEPT !.at = "block", !.blocks = job[p].args.blocks])
    /\ UNCHANGED <<job, objects>>

\* import_pem for one block: a block that fails does not stop the others.
ImportedMutant(p, ok) ==
    [run[p] EXCEPT !.blocks = Tail(@), !.error = ~ok]
Imported(p, ok) ==
    [run[p] EXCEPT !.blocks = Tail(@), !.error = @ \/ ~ok]

ImportBlock(p) ==
    /\ run[p].at = "block"
    /\ run[p].blocks # <<>>
    /\ \E attrs \in import_pem(Head(run[p].blocks), job[p].args.label, job[p].args.id) :
          Creates(p, <<attrs>>, Imported(p, TRUE))

ImportFails(p) ==
    /\ run[p].at = "block"
    /\ run[p].blocks # <<>>
    /\ Set(p, Imported(p, FALSE))
    /\ UNCHANGED <<job, objects>>

ImportEnds(p) ==
    /\ run[p].at = "block"
    /\ run[p].blocks = <<>>
    /\ Set(p, [Succeeds(p) EXCEPT !.ret = IF run[p].error THEN 1 ELSE 0])
    /\ UNCHANGED <<job, objects>>

\* The first object found; one that has gone meanwhile fails.
export_object(p) ==
    /\ run[p].at = "export-object"
    /\ \E o \in run[p].found :
          /\ o \in objects
          /\ Exported(o.attrs) # {}
          /\ Set(p, [Succeeds(p) EXCEPT !.out = Exported(o.attrs)])
    /\ UNCHANGED <<job, objects>>

delete_object(p) ==
    /\ run[p].at = "delete-object"
    /\ \E o \in run[p].found : Destroys(p, o, Succeeds(p))

FindProfiles(p, template) ==
    Set(p, [run[p] EXCEPT !.at = IF @ = "add-profile" THEN "create" ELSE "each",
                          !.found = OnToken(TokenOf(p), template), !.mark = NextNr])

add_profile(p) ==
    /\ run[p].at = "add-profile"
    /\ FindProfiles(p, Template(p) @@ [CKA_TOKEN |-> TRUE])
    /\ UNCHANGED <<job, objects>>

CreateProfile(p) ==
    /\ run[p].at = "create"
    /\ run[p].found = {}
    /\ Creates(p, <<Template(p) @@ [CKA_TOKEN |-> TRUE]>>, Succeeds(p))

delete_profile(p) ==
    /\ run[p].at = "delete-profile"
    /\ FindProfiles(p, Template(p))
    /\ UNCHANGED <<job, objects>>

list_profiles(p) ==
    /\ run[p].at = "list-profiles"
    /\ FindProfiles(p, [CKA_CLASS |-> "CKO_PROFILE"])
    /\ UNCHANGED <<job, objects>>

DeleteEach(p) ==
    /\ run[p].at = "each"
    /\ job[p].tool = "delete-profile"
    /\ \E o \in run[p].found : Destroys(p, o, [run[p] EXCEPT !.found = @ \ {o}])

ListEach(p) ==
    /\ run[p].at = "each"
    /\ job[p].tool = "list-profiles"
    /\ \E o \in run[p].found :
          /\ o \in objects
          /\ Set(p, [run[p] EXCEPT !.found = @ \ {o},
                                   !.out = @ \cup {o.attrs["CKA_PROFILE_ID"]}])
    /\ UNCHANGED <<job, objects>>

ProfilesDone(p) ==
    /\ run[p].at = "each"
    /\ run[p].found = {}
    /\ Set(p, Succeeds(p))
    /\ UNCHANGED <<job, objects>>

is_storage_object(class) ==
    class \in {"CKO_DATA", "CKO_CERTIFICATE", "CKO_PUBLIC_KEY", "CKO_PRIVATE_KEY",
               "CKO_SECRET_KEY"}
get_object_uri(o) ==
    [token |-> o.on, class |-> o.attrs["CKA_CLASS"],
     label |-> IF Has(o.attrs, "CKA_LABEL") THEN {o.attrs["CKA_LABEL"]} ELSE {}]
print_object(o) ==
    [nr |-> o.nr,
     uri |-> IF is_storage_object(o.attrs["CKA_CLASS"]) THEN {get_object_uri(o)} ELSE {},
     fields |-> DOMAIN o.attrs \cap
        {"CKA_CLASS", "CKA_CERTIFICATE_TYPE", "CKA_KEY_TYPE", "CKA_PROFILE_ID", "CKA_LABEL",
         "CKA_ID"},
     flags |-> {a \in DOMAIN o.attrs \cap {"CKA_TOKEN", "CKA_PRIVATE"} : o.attrs[a]}]

list_objects(p) ==
    /\ run[p].at = "list-objects"
    /\ \E o \in run[p].found :
          Set(p, [run[p] EXCEPT
                    !.found = @ \ {o},
                    !.at = IF run[p].found = {o} THEN "next" ELSE @,
                    !.out = @ \cup (IF o \in objects THEN {print_object(o)} ELSE {})])
    /\ UNCHANGED <<job, objects>>

list_tokens(p) ==
    /\ run[p].at = "list-tokens"
    /\ Set(p, [run[p] EXCEPT !.at = "next", !.out = @ \cup {TokenOf(p).name}])
    /\ UNCHANGED <<job, objects>>

\* A mechanism is [name, flags].
print_mechanism_with_info(m) ==
    [name |-> m.name,
     flags |-> (m.flags \ {"verify-recover"})
               \cup (IF "sign-recover" \in m.flags THEN {"verify-recover"} ELSE {})]

list_mechanisms(p) ==
    /\ run[p].at = "list-mechanisms"
    /\ Set(p, [Succeeds(p) EXCEPT
                 !.out = {print_mechanism_with_info(m) : m \in TokenOf(p).mechanisms}])
    /\ UNCHANGED <<job, objects>>

\* A module whose tokens cannot be listed is printed without them.
print_tokens(m) == {{}, {t.name : t \in {u \in TokenSet : u.module = m}}}
print_modules(p) ==
    /\ run[p].at = "modules"
    /\ \E shown \in [ModulesOfTokens -> UNION {print_tokens(m) : m \in ModulesOfTokens}] :
          /\ \A m \in ModulesOfTokens : shown[m] \in print_tokens(m)
          /\ Set(p, [Succeeds(p) EXCEPT !.out = {<<m, shown[m]>> : m \in ModulesOfTokens}])
    /\ UNCHANGED <<job, objects>>

CommandFails(p) ==
    Fails(p, {"generate-keypair", "import-object", "export-object", "delete-object",
              "add-profile", "create", "delete-profile", "list-profiles", "each",
              "list-mechanisms", "modules"})

Command(p) ==
    \/ generate_keypair(p)
    \/ import_object(p) \/ ImportBlock(p) \/ ImportFails(p) \/ ImportEnds(p)
    \/ export_object(p)
    \/ delete_object(p)
    \/ add_profile(p) \/ CreateProfile(p)
    \/ delete_profile(p) \/ list_profiles(p) \/ DeleteEach(p) \/ ListEach(p) \/ ProfilesDone(p)
    \/ list_objects(p) \/ list_tokens(p) \/ list_mechanisms(p) \/ print_modules(p)
    \/ CommandFails(p)

Next ==
    \E p \in Procs :
        \/ Parse(p)
        \/ BeginIterFails(p) \/ p11_tool_begin_iter(p)
        \/ IterationEnds(p) \/ VisitFails(p) \/ NoPin(p) \/ Visit(p)
        \/ Command(p)
        \/ EndIter(p) \/ Free(p)

Spec == Init /\ [][Next]_vars

-----------------------------------------------------------------------------
TypeOK ==
    /\ \A p \in Procs :
          /\ run[p].modules \subseteq ModulesOfTokens
          /\ run[p].ret \in 0..2
          /\ run[p].token \subseteq TokenSet
          /\ Cardinality(run[p].token) <= 1
    /\ \A o \in objects : o.nr < NextNr

\* The objects that a command may touch: those its URI or its profile names.
Named(p, o) ==
    IF WithObjects(p) THEN Matches(o.attrs, job[p].uri.attrs) ELSE Matches(o.attrs, Template(p))

\* What status 0 of a command stands for.
Promise(p) ==
    LET j == job[p]
        r == run[p]
    IN  CASE j.tool = "generate-keypair" ->
               {o.attrs["CKA_CLASS"] : o \in r.created} = {"CKO_PUBLIC_KEY", "CKO_PRIVATE_KEY"}
          [] j.tool = "import-object" ->
               UNION {Exported(o.attrs) : o \in r.created}
                   = {j.args.blocks[i] : i \in DOMAIN j.args.blocks}
          [] j.tool = "export-object" -> Cardinality(r.out) = 1
          [] j.tool = "delete-object" -> Cardinality(r.removed) = 1
          [] j.tool = "add-profile" -> Cardinality(r.created) = 1
          [] j.tool = "delete-profile" ->
               \E t \in TokenSet :
                  /\ t.name \in j.uri.tokens
                  /\ \A o \in OnToken(t, Template(p)) : o.nr >= r.mark
          [] OTHER -> r.created \cup r.removed = {}

\* A command changes one token, a writable one that its URI names, and removes
\* only objects that it names.  Status 0 says that its work is done: an imported
\* file can be exported again block by block, a deleted profile is gone whatever
\* other commands run.  Any other status leaves the tokens as they were, except
\* for a file imported, or a profile deleted, in part.
\* [generate-keypair.c to list-objects.c: `ret = 0' behind the last call that may
\* fail; import_pem's parse_error.]
StatusTellsResult ==
    \A p \in Procs :
        LET r == run[p]
            touched == r.created \cup r.removed
        IN  /\ Cardinality({o.on : o \in touched}) <= 1
            /\ \A o \in touched : \E t \in TokenSet :
                  t.name = o.on /\ t.writable /\ o.on \in job[p].uri.tokens
            /\ \A o \in r.removed : Named(p, o)
            /\ r.at = "exit" /\ r.ret = 0 /\ job[p].opts = "fine" => Promise(p)
            /\ r.at = "exit" /\ r.ret # 0 /\ job[p].tool \notin {"import-object", "delete-profile"}
                  => touched = {}

\* A command that has exited has closed its sessions, finalized and released its
\* modules and taken back its PIN callback, on every way out.  [p11_tool_end_iter,
\* p11_tool_free, behind every `goto cleanup' of the commands.]
NothingHeld ==
    \A p \in Procs : run[p].at = "exit" =>
        run[p].modules = {} /\ run[p].sessions = {} /\ ~run[p].pin

\* A public key that import-object has stored is what export-object writes.
\* [export_pubkey_ec: `Strip the leading 2 octets (DER header) for OCTET STRING';
\* add_attrs_pubkey_ec: `We need to DER encode this data as OCTET STRING.']
ExportGivesImport ==
    \A p \in Procs :
        run[p].at = "exit" /\ run[p].ret = 0 /\ job[p].tool = "import-object" => Promise(p)
===================================================================================
