-------------------------------- MODULE MCTrust --------------------------------
(***************************************************************************)
(* Small tokens for TrustModule: a certificate authority, a certificate    *)
(* that is none, extensions stapled to their keys, and data objects.       *)
(***************************************************************************)
EXTENDS TrustModule

(***************************************************************************)
(* Values.                                                                 *)
(***************************************************************************)
MCUlongs == {"CERTIFICATE", "EXTENSION", "DATA", "NSS_TRUST", "BUILTIN",
             "ASSERTION", "X_509", "0", "2", "3"}

Content(ca, names) == [valid |-> TRUE, ca |-> ca, names |-> names]

MCX509 ==
    [ca |-> [subject |-> "nameA", issuer |-> "nameA", serial |-> "der:1",
             key |-> "keyA", label |-> "", keyid |-> "", v1 |-> FALSE,
             start |-> "", end |-> "",
             ext |-> [BASIC_CONSTRAINTS |-> Content(TRUE, {})]],
     ee |-> [subject |-> "nameB", issuer |-> "nameA", serial |-> "der:2",
             key |-> "keyB", label |-> "", keyid |-> "", v1 |-> FALSE,
             start |-> "", end |-> "", ext |-> [o \in {} |-> Content(FALSE, {})]]]

MCExtension ==
    [eku |-> [oid |-> "EXTENDED_KEY_USAGE",
              content |-> Content(FALSE, {"SERVER_AUTH"})],
     noeku |-> [oid |-> "EXTENDED_KEY_USAGE", content |-> Content(FALSE, {})],
     ku |-> [oid |-> "KEY_USAGE", content |-> Content(FALSE, {"CRL_SIGN"})],
     bc |-> [oid |-> "BASIC_CONSTRAINTS", content |-> Content(TRUE, {})],
     rej |-> [oid |-> "OPENSSL_REJECT",
              content |-> Content(FALSE, {"EMAIL_PROTECTION"})]]

MCPurposeNames == <<"CLIENT_AUTH", "EMAIL_PROTECTION", "SERVER_AUTH">>

MCDer == [name |-> {"nameA", "nameB"}, serial |-> {"der:1", "der:2"},
          oid |-> {"EXTENDED_KEY_USAGE", "KEY_USAGE", "BASIC_CONSTRAINTS",
                   "OPENSSL_REJECT", "oid8"},
          cert |-> {"ca", "ee"}, key |-> {"keyA", "keyB"},
          ext |-> {"eku", "noeku", "ku", "bc", "rej"}, date |-> {},
          time |-> {}]

MCSha1(value) == "sha1:" \o value
MCMd5(value) == "md5:" \o value

\* Two types that hash a value alike share a bucket.
MCBucketOf(type, value) == value

MCTypeOrder ==
    <<"CLASS", "CERTIFICATE_TYPE", "LABEL", "VALUE", "OBJECT_ID",
      "APPLICATION", "PUBLIC_KEY_INFO", "ID", "TRUSTED", "X_DISTRUSTED",
      "PRIVATE", "MODIFIABLE", "ISSUER", "SERIAL_NUMBER", "CERT_SHA1_HASH",
      "TRUST_SERVER_AUTH">>

MCConstants == [CLASS |-> MCUlongs, CERTIFICATE_TYPE |-> {"X_509"}]

(***************************************************************************)
(* Files.                                                                  *)
(***************************************************************************)
MCFiles == <<"anchor", "block", "m", "n", "temp1", "temp2", "temp3", "temp4",
             "x", "x.1", "x.2", "x.3">>

MCDirOf == [p \in {MCFiles[i] : i \in DOMAIN MCFiles} |->
               CASE p = "anchor" -> "anchors" [] p = "block" -> "blocklist"
                 [] OTHER -> "main"]

Candidates == <<"x", "x.1", "x.2", "x.3">>

MCNameFor == [n \in {"x", "DATA"} |-> Candidates]

MCTempNames == [main |-> <<"temp1", "temp2", "temp3", "temp4">>]

File(generated, objects) ==
    [Generated(objects) EXCEPT !.generated = generated]

DerFile(cert) == [generated |-> FALSE, der |-> cert, tokens |-> <<>>]

PemFile(pem) == [generated |-> FALSE, der |-> "", tokens |-> <<pem>>]

Data(label, value) == [CLASS |-> "DATA", LABEL |-> label, VALUE |-> value]

Certificate(cert) == [CLASS |-> "CERTIFICATE", CERTIFICATE_TYPE |-> "X_509",
                      VALUE |-> cert]

Stapled(ext, key) == [CLASS |-> "EXTENSION", VALUE |-> ext,
                      OBJECT_ID |-> MCExtension[ext].oid,
                      PUBLIC_KEY_INFO |-> key]

OpenSSL(cert) ==
    [tok |-> "pem", type |-> "TRUSTED CERTIFICATE", der |-> cert,
     aux |-> {[alias |-> "", trust |-> {"SERVER_AUTH"},
               reject |-> {{"EMAIL_PROTECTION"}}, keyid |-> ""]}]

Disk(files) == [disk |-> files, dirs |-> {"main", "anchors", "blocklist"},
                access |-> TRUE, fail |-> "none"]

Edit(path, file) == [path |-> path, file |-> file]

(***************************************************************************)
(* Scenes.                                                                 *)
(***************************************************************************)
Still ==
    [fs |-> Disk([p \in {} |-> 0]), protected |-> FALSE, order |-> "up",
     inits |-> {"good"}, modes |-> {"ro"}, offers |-> {}, creates |-> {},
     copies |-> {}, sets |-> {}, searches |-> {NoAttrs}, batches |-> {},
     fails |-> {"none"}, edits |-> {}, calls |-> 0, changes |-> 0,
     sessions |-> 1, holds |-> 1]

Policy == [Still EXCEPT
    !.fs = Disk("anchor" :> DerFile("ca")),
    !.edits = {Edit("anchor", {}), Edit("anchor", {DerFile("ca")}),
               Edit("block", {}), Edit("block", {DerFile("ca")}),
               Edit("m", {}), Edit("m", {DerFile("ca")}),
               Edit("m", {PemFile(OpenSSL("ca"))}),
               Edit("m", {File(FALSE, <<Stapled("eku", "keyA")>>)}),
               Edit("n", {File(FALSE, <<Stapled("ku", "keyA"),
                                        Certificate("ee")>>)}),
               Edit("n", {})},
    !.offers = {"close"}, !.calls = 9, !.changes = 3]

Twin == <<Data("x", "1"), Data("y", "2")>>

TokenData == [TOKEN |-> "true"] @@ Data("x", "3")

ObjectScene == [Still EXCEPT
    !.fs = Disk("m" :> File(TRUE, Twin)), !.modes = {"rw"},
    !.offers = {"destroy"}, !.creates = {TokenData},
    !.sets = {[LABEL |-> "z"], [VALUE |-> "2"]},
    !.fails = {"none", "open", "write", "close", "rename", "unlink"},
    !.edits = {Edit("m", {File(TRUE, <<Data("y", "2")>>)}), Edit("m", {}),
               Edit("x", {DerFile("ca")})},
    !.calls = 5, !.changes = 1]

\* The directory of the token is not there yet.
FirstScene == [ObjectScene EXCEPT
    !.fs = [Disk([p \in {} |-> 0]) EXCEPT !.dirs = {}],
    !.fails = {"none", "mkdir"}]

SearchScene == [Still EXCEPT
    !.fs = Disk([m |-> File(TRUE, <<Data("x", "1")>>),
                 n |-> File(FALSE, <<Stapled("eku", "keyA"),
                                     Stapled("noeku", "keyA")>>),
                 anchor |-> DerFile("ca")]),
    !.modes = {"rw"}, !.offers = {"destroy", "final"},
    !.creates = {Data("x", "3")}, !.sets = {[LABEL |-> "z"]},
    !.searches = {NoAttrs, [LABEL |-> "x"],
                  [CLASS |-> "EXTENSION", PUBLIC_KEY_INFO |-> "keyA"],
                  [CLASS |-> "NSS_TRUST", SERIAL_NUMBER |-> "1"]},
    !.batches = {1, 20}, !.calls = 6, !.sessions = 2]

CallScene == [Still EXCEPT
    !.fs = [Disk("m" :> File(TRUE, Twin)) EXCEPT !.access = FALSE],
    !.inits = {"good", "mutex", "locking"}, !.modes = {"ro", "rw", "parallel"},
    !.offers = {"invalid", "close", "all", "login", "logout", "destroy",
                "get", "final", "finalize"},
    !.creates = {TokenData, [CLASS |-> "DATA", LABEL |-> "bad"],
                 [LABEL |-> "x"], Certificate("ca"),
                 [URL |-> "u"] @@ Certificate("ca")},
    !.copies = {NoAttrs, [TOKEN |-> "true"], [TOKEN |-> "false"]},
    !.sets = {[LABEL |-> "z"], [CLASS |-> "DATA"]},
    !.searches = {NoAttrs, [TOKEN |-> "true"], [TOKEN |-> "false"]},
    !.batches = {1}, !.calls = 5, !.holds = 2]

\* One certificate takes the place of another in a file.
ReplacedScene == [replaced |-> [Still EXCEPT
    !.fs = Disk("anchor" :> DerFile("ca")),
    !.edits = {Edit("anchor", {DerFile("ee")}), Edit("anchor", {})},
    !.offers = {"close"}, !.calls = 6, !.changes = 1]]

\* A file gives the NSS trust of a certificate.
NssScene == [nss |-> [Still EXCEPT
    !.fs = Disk([anchor |-> DerFile("ca"),
                 m |-> File(FALSE, <<[CLASS |-> "NSS_TRUST",
                     ISSUER |-> "nameA", SERIAL_NUMBER |-> "der:1",
                     CERT_SHA1_HASH |-> "sha1:ca",
                     TRUST_SERVER_AUTH |-> "NOT_TRUSTED"]>>)]),
    !.calls = 4]]

\* The object identifier of an object has an 8 in it.
OidScene == [oid |-> [ObjectScene EXCEPT
    !.creates = {[TOKEN |-> "true", CLASS |-> "DATA", LABEL |-> "x",
                  OBJECT_ID |-> "oid8"]},
    !.fails = {"none"}]]

MCScene ==
    [policy |-> Policy, downwards |-> [Policy EXCEPT !.order = "down",
                                                     !.changes = 2],
     objects |-> ObjectScene, first |-> FirstScene, search |-> SearchScene,
     calls |-> CallScene]

(***************************************************************************)
(* Properties of the runs.                                                 *)
(***************************************************************************)
\* Lookups and searches find every object that matches: IndexFindsAll and
\* SearchComplete of TrustModule.
FindsAll == TypeOK /\ IndexFindsAll /\ SearchComplete

\* The objects of a token are those of its files, after a load and after an
\* object was stored: LoadedIsDisk and StoredIsRead of TrustModule.
TokenIsDisk == LoadedIsDisk /\ StoredIsRead
================================================================================
