------------------------------- MODULE MCTools -------------------------------
(* The iterator and what the commands do with it, side by side: the          *)
(* iterator, the commands of p11-kit, those of trust, and the files these    *)
(* write.  A behaviour is one of the part chosen at the start: the variables *)
(* of the iterator are as in Iter, and keep their first values in the other  *)
(* parts, whose variables share v1 to v3.                                    *)
EXTENDS Iter

CONSTANTS m1, m2, m3

VARIABLES part, v1, v2, v3

others == <<part, v1, v2, v3>>
Unused == "unused"

(* The iterator.                                                             *)

\* The second module does not match, one slot of the third does not, and one
\* of its tokens does not.
ModulesValue == <<m1, m2, m3>>
ModuleValue == [m \in {m1, m2, m3} |->
    CASE m = m1 -> [match |-> TRUE, slots |-> <<1, 2>>]
      [] m = m2 -> [match |-> FALSE, slots |-> <<1>>]
      [] m = m3 -> [match |-> TRUE, slots |-> <<3, 4, 5>>]]
SlotValue == <<
    [match |-> TRUE, token |-> TRUE, objects |-> <<11, 12, 13>>],
    [match |-> TRUE, token |-> TRUE, objects |-> <<>>],
    [match |-> FALSE, token |-> TRUE, objects |-> <<31>>],
    [match |-> TRUE, token |-> FALSE, objects |-> <<41>>],
    [match |-> TRUE, token |-> TRUE, objects |-> <<51, 52>>]>>
SkippedValue == {12, 51}

AllFlags == SUBSET {"modules", "slots", "tokens", "sessions", "objects"}
-----------------------------------------------------------------------------
(* The commands of p11-kit: two of them at a time.                           *)

NoPublicKey == [alg |-> "none", params |-> "none", point |-> <<>>, unused |-> 0,
                modulus |-> <<>>, exponent |-> <<>>]
EcKey == [NoPublicKey EXCEPT !.alg = "ec", !.params = "secp", !.point = <<4, 4, 4>>]
RsaKey == [NoPublicKey EXCEPT !.alg = "rsa", !.params = "NULL", !.modulus = <<0, 200, 1>>,
                              !.exponent = <<1, 0, 1>>]
Pem(type, cert, key) == [type |-> type, cert |-> cert, key |-> key]
KeyBlock(k) == Pem("PUBLIC KEY", "none", k)
CertBlock(c) == Pem("CERTIFICATE", c, NoPublicKey)
OtherBlock == Pem("X509 CRL", "none", NoPublicKey)

\* One token cannot be written, another leaves out some of what is stored on it.
Signs == [name |-> "CKM_RSA", flags |-> {"sign", "sign-recover"}]
Token(name, mod, writable, mechanisms, strips) ==
    [name |-> name, module |-> mod, writable |-> writable, mechanisms |-> mechanisms,
     keepsInfo |-> ~strips, strips |-> strips]
KitTokens == <<Token("rom", "m1", FALSE, {}, FALSE), Token("soft", "m1", TRUE, {Signs}, FALSE),
               Token("card", "m2", TRUE, {}, TRUE)>>
Profile(p) == [CKA_CLASS |-> "CKO_PROFILE", CKA_PROFILE_ID |-> p, CKA_TOKEN |-> TRUE]
Obj(on, nr, attrs) == [on |-> on, nr |-> nr, attrs |-> attrs]
KitStored ==
    {Obj("soft", 1, Profile("base")), Obj("card", 2, Profile("base")),
     Obj("card", 3, [CKA_CLASS |-> "CKO_CERTIFICATE", CKA_CERTIFICATE_TYPE |-> "CKC_X_509",
                     CKA_VALUE |-> "c1", CKA_LABEL |-> "l"]),
     Obj("rom", 4, [CKA_CLASS |-> "CKO_SECRET_KEY", CKA_LABEL |-> "l"])}

NoArgs == [label |-> {}, id |-> {}, type |-> "none", bits |-> {}, curve |-> {},
           profile |-> "none", file |-> "none", blocks |-> <<>>]
Command(tool) ==
    [tool |-> tool, opts |-> "fine", argc |-> 1, provider |-> {}, login |-> FALSE,
     uri |-> [ok |-> TRUE, tokens |-> {"soft", "card"}, attrs |-> <<>>], args |-> NoArgs]
Keygen(type, bits, curve) ==
    [Command("generate-keypair") EXCEPT !.args.type = type, !.args.bits = bits,
                                        !.args.curve = curve, !.args.label = {"l"}]
Import(tokens, blocks) ==
    [Command("import-object") EXCEPT !.args.file = "f", !.args.blocks = blocks,
                                     !.uri.tokens = tokens]
WithProfile(tool, p) == [Command(tool) EXCEPT !.args.profile = p]
Objects(tool, tokens, attrs) ==
    [Command(tool) EXCEPT !.uri.tokens = tokens, !.uri.attrs = attrs]
CommandLines ==
    {Keygen("rsa", {2048}, {}), Keygen("ecdsa", {}, {"secp256r1"}),
     Keygen("rsa", {2048}, {"secp256r1"}),
     [Keygen("eddsa", {}, {"ed448"}) EXCEPT !.args.id = {"xyz"}],
     Import({"soft"}, <<KeyBlock(RsaKey), CertBlock("c2")>>),
     Import({"card"}, <<CertBlock("broken"), KeyBlock(RsaKey)>>),
     Import({"card"}, <<KeyBlock(RsaKey), CertBlock("c2")>>),
     Import({"card"}, <<KeyBlock(EcKey), KeyBlock([EcKey EXCEPT !.unused = 4])>>),
     Import({"card"}, <<KeyBlock(EcKey)>>),
     Import({"soft"}, <<OtherBlock>>), Import({"rom"}, <<CertBlock("c2")>>),
     Import({"soft"}, <<>>),
     WithProfile("add-profile", "base"), WithProfile("add-profile", "extended"),
     WithProfile("add-profile", "two"),
     WithProfile("delete-profile", "base"), WithProfile("delete-profile", "extended"),
     [WithProfile("delete-profile", "base") EXCEPT !.login = TRUE],
     Command("list-profiles"), Command("list-tokens"), Command("list-mechanisms"),
     [Command("list-objects") EXCEPT !.provider = {"m2"}],
     [Command("list-modules") EXCEPT !.argc = 0],
     [Command("list-objects") EXCEPT !.opts = "help"],
     [Command("export-object") EXCEPT !.opts = "unknown"],
     Objects("delete-object", {"rom", "soft", "card"}, [CKA_LABEL |-> "l"]),
     Objects("delete-object", {"card"}, [CKA_CLASS |-> "CKO_CERTIFICATE"]),
     Objects("export-object", {"card"}, <<>>),
     [Objects("export-object", {"card"}, <<>>) EXCEPT !.uri.ok = FALSE],
     Objects("list-objects", {"rom", "soft", "card"}, <<>>)}
Kit == INSTANCE Tools WITH
    Procs <- {"p", "q"}, Tokens <- KitTokens, Stored <- KitStored,
    job <- v1, run <- v2, objects <- v3
-----------------------------------------------------------------------------
(* The commands of trust: one reads or writes while another writes.          *)

INT16_MAX == 32767
E == INSTANCE Enumerate
Cert(v, key, label, trusted, distrusted) ==
    [CKA_CLASS |-> "CKO_CERTIFICATE", CKA_CERTIFICATE_TYPE |-> "CKC_X_509", CKA_VALUE |-> v,
     CKA_PUBLIC_KEY_INFO |-> key, CKA_LABEL |-> label, CKA_TRUSTED |-> trusted,
     CKA_X_DISTRUSTED |-> distrusted, CKA_CERTIFICATE_CATEGORY |-> "authority",
     CKA_ISSUER |-> "i", CKA_SERIAL_NUMBER |-> v, CKA_SUBJECT |-> label]
EKU(attrs, purposes) == attrs @@ [eku |-> purposes]
BlockKey(key) == [CKA_CLASS |-> "CKO_CERTIFICATE", CKA_CERTIFICATE_TYPE |-> "CKC_X_509",
                  CKA_PUBLIC_KEY_INFO |-> key, CKA_X_DISTRUSTED |-> TRUE]
BlockSerial(v) == [CKA_CLASS |-> "CKO_CERTIFICATE", CKA_ISSUER |-> "i", CKA_SERIAL_NUMBER |-> v,
                   CKA_X_DISTRUSTED |-> TRUE]
Ext(key, oid, purposes) ==
    [CKA_CLASS |-> "CKO_X_CERTIFICATE_EXTENSION", CKA_PUBLIC_KEY_INFO |-> key, oid |-> oid,
     purposes |-> purposes, CKA_VALUE |-> oid]

TrustTokens == <<[name |-> "system", writable |-> FALSE], [name |-> "user", writable |-> TRUE]>>
TrustStored ==
    {Obj("system", 1, EKU(Cert("c1", "k1", <<"A">>, TRUE, FALSE), {"server-auth"})),
     Obj("system", 2, EKU(Cert("c2", "k2", <<"A", " ">>, TRUE, FALSE), {"any"})),
     Obj("system", 3, Cert("c3", "k3", <<"B">>, TRUE, FALSE)),
     Obj("system", 4, Ext("k3", "eku", {"client-auth"})),
     Obj("user", 5, Cert("c1", "k1", <<"A">>, TRUE, FALSE)),
     Obj("user", 6, BlockKey("k2")),
     Obj("user", 7, Cert("c4", "k4", <<"B">>, FALSE, TRUE)),
     Obj("user", 8, Cert("c5", "k5", <<"b">>, TRUE, FALSE))}

File(status, objs) == [status |-> status, objects |-> objs]
Files ==
    [c4 |-> File("ok", <<[Cert("c4", "k4", <<"B">>, TRUE, FALSE) EXCEPT !["CKA_LABEL"] = <<"A">>]>>),
     c5 |-> File("ok", <<Cert("c5", "k5", <<"b">>, TRUE, FALSE)>>),
     two |-> File("ok", <<Cert("c5", "k5", <<"b">>, TRUE, FALSE) @@ [CKA_MODIFIABLE |-> TRUE],
                          Cert("c6", "k6", <<"A">>, TRUE, FALSE)>>),
     block |-> File("ok", <<BlockSerial("c3")>>),
     ext |-> File("ok", <<Ext("k5", "eku", {"client-auth"})>>),
     bad |-> File("unrecognized", <<>>), missing |-> File("missing", <<>>),
     uri |-> File("ok", <<E!UriMatch>>), none |-> File("ok", <<>>)]

Line(tool, opts, args) == [tool |-> tool, opts |-> opts, args |-> args]
Extract(format, opts) == Line("extract", <<<<"format", format>>>> \o opts, <<"dest">>)
Filter(f) == <<"filter", f>>
Purpose(u) == <<"purpose", u>>
Readers ==
    {Extract(f, <<Filter("ca-anchors")>>) :
         f \in {"pem-bundle", "java-cacerts", "openssl-directory"}}
    \cup {Extract("x509-file", <<Filter("certificates")>>),
     Extract("pem-directory-hash", <<Filter("ca-anchors"), Purpose("client-auth"),
                                     Purpose("email-protection")>>),
     Extract("openssl-bundle", <<Filter("trust-policy")>>),
     Extract("edk2-cacerts", <<Filter("uri"), Purpose("1.2.3")>>),
     Extract("x509-directory", <<Filter("blocklist"), <<"overwrite", "">>>>),
     Line("list", <<Filter("certificates"), Purpose("server-auth")>>, <<>>),
     Line("dump", <<>>, <<>>)}
Writers ==
    {Line("anchor", <<>>, <<"c4">>), Line("anchor", <<<<"store", "">>>>, <<"two">>),
     Line("anchor", <<<<"store", "">>>>, <<"block", "ext">>),
     Line("anchor", <<<<"remove", "">>>>, <<"c5">>),
     Line("anchor", <<<<"remove", "">>>>, <<"two", "c4">>),
     Line("anchor", <<<<"remove", "">>>>, <<"uri">>)}
Others ==
    {Line("list", <<>>, <<>>),
     Extract("pem-bundle", <<Filter("trust-policy")>>),
     Extract("edk2-cacerts", <<Filter("uri"), Filter("uri")>>),
     Extract("pem-bundle", <<<<"format", "pem-bundle">>>>),
     Extract("java-cacerts", <<Filter("bad")>>),
     Extract("java-cacerts", <<Purpose("bad")>>),
     Line("extract", <<>>, <<"dest">>),
     Line("list", <<>>, <<"c4">>), Line("list", <<<<"help", "">>>>, <<>>),
     Line("dump", <<Purpose("server-auth")>>, <<>>),
     Line("anchor", <<<<"store", "">>>>, <<"none">>), Line("anchor", <<>>, <<"c4", "bad">>),
     Line("anchor", <<<<"store", "">>, <<"remove", "">>>>, <<"c4">>),
     Line("anchor", <<<<"remove", "">>>>, <<"bad">>),
     Line("anchor", <<<<"remove", "">>>>, <<"none">>),
     Line("check-format", <<>>, <<>>), Line("check-format", <<>>, <<"c4", "bad", "missing", "c5">>),
     Line("check-format", <<>>, <<"c4">>)}
\* Readers and writers at the same time; the rest beside one command.
TrustJobs ==
    {[p |-> a, q |-> b] : a \in Readers \cup Writers, b \in Writers}
    \cup {[p |-> a, q |-> Line("check-format", <<>>, <<"c4">>)] :
             a \in Others}
Trust == INSTANCE TrustTools WITH
    Procs <- {"p", "q"}, Tokens <- TrustTokens, Stored <- TrustStored, Jobs <- TrustJobs,
    job <- v1, run <- v2, objects <- v3
-----------------------------------------------------------------------------
(* Files: two processes save at the same time, or one a directory.           *)

ToFile(how) ==
    [flags |-> how, dir |-> FALSE,
     entries |-> <<[base |-> [bare |-> "a", ext |-> ".x"], link |-> FALSE]>>]
Entry(name, link) == [base |-> [bare |-> name, ext |-> ".0"], link |-> link]
ToDirectory(how) ==
    [flags |-> how, dir |-> TRUE,
     entries |-> <<Entry("a", FALSE), Entry("a", FALSE), Entry("b", TRUE)>>]
NoJob == [flags |-> "none", dir |-> TRUE, entries |-> <<>>]
SaveJobs ==
    {[p |-> ToFile(f), q |-> ToFile(g)] : f, g \in {"overwrite", "unique", "none"}}
    \cup {[p |-> ToDirectory(f), q |-> NoJob] : f \in {"overwrite", "none"}}
Temporary(p, i) == "temp" \o p \o ToString(i)
Saved == INSTANCE Save WITH
    Processes <- {"p", "q"}, Jobs <- SaveJobs, Old <- {"a.x", "a.0", "c"},
    Temp <- Temporary, Whole <- 2,
    job <- v1, disk <- v2, at <- v3
-----------------------------------------------------------------------------
\* The iterator is not used.
Resting == Init /\ with = {} /\ ~preload /\ ~login /\ ~no_pin

MCInit ==
    \/ part = "iter" /\ Init /\ v1 = Unused /\ v2 = Unused /\ v3 = Unused
    \/ part = "tools" /\ Resting /\ Kit!Init
    \/ part = "trust" /\ Resting /\ Trust!Init
    \/ part = "save" /\ Resting /\ Saved!Init

MCNext ==
    \/ part = "iter" /\ Next /\ UNCHANGED others
    \/ part = "tools" /\ Kit!Next /\ UNCHANGED <<vars, part>>
    \/ part = "trust" /\ Trust!Next /\ UNCHANGED <<vars, part>>
    \/ part = "save" /\ Saved!Next /\ UNCHANGED <<vars, part>>

\* The caller of the iterator goes on, see FairSpec of Iter.
MCSpec ==
    /\ MCInit /\ [][MCNext]_<<vars, others>>
    /\ WF_<<vars, others>>(part = "iter" /\ GoOn /\ UNCHANGED others)
-----------------------------------------------------------------------------
(* A command of p11-kit that exits with status 0 has done its work, on one   *)
(* token and to nothing but what it was to change, see Tools.                *)
StatusTellsResult == part = "tools" => Kit!TypeOK /\ Kit!StatusTellsResult


(* A session is closed when the iteration or the command that has opened it  *)
(* is over, and not before: NoSessionLeft and KeptStaysOpen of Iter,         *)
(* NothingHeld of Tools.                                                     *)
NothingLeftOpen ==
    /\ TypeOK /\ NoSessionLeft /\ KeptStaysOpen
    /\ part = "tools" => Kit!NothingHeld

(* What is found under a name is a whole file, and what was saved is there:  *)
(* NamesAreWhole, SavedIsThere, DirectoryIsJob and NothingOverwritten of     *)
(* Save.                                                                     *)
SavedIsWhole ==
    part = "save" => /\ Saved!NamesAreWhole /\ Saved!SavedIsThere
                     /\ Saved!DirectoryIsJob /\ Saved!NothingOverwritten
==============================================================================
