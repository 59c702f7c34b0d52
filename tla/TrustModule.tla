------------------------------ MODULE TrustModule ------------------------------
(***************************************************************************)
(* The PKCS#11 calls of the trust module (trust/module.c, session.c) on    *)
(* one token, while other programs edit the files of the token.  Every     *)
(* call holds the library lock, C_Initialize once more for the             *)
(* C_Finalize it undoes a failure with.                                    *)
(*                                                                         *)
(* Scene gives what an instance does: the token it starts from, the edits  *)
(* of files, the templates of the calls, and how the file system fails.    *)
(***************************************************************************)
EXTENDS TrustToken

CONSTANTS
    Scene           \* name -> [fs, protected, order, inits, modes, offers,
                    \*    creates, copies, sets, searches, batches, fails,
                    \*    edits, calls, changes, sessions, holds]; the last
                    \*    four bound the calls, the edits of files, the open
                    \*    sessions and the initializations held

VARIABLES
    scene,          \* the scene of the behaviour
    initialized,    \* gl.initialized
    up,             \* gl.sessions and gl.tokens are not NULL
    failing,        \* calls of C_Initialize that are to call C_Finalize
    held,           \* initializations that succeeded and were not undone
    token,          \* the token, with the file system it is on
    sessions,       \* gl.sessions: handle -> [index, rw, loaded, find]
    calls, edits,
    last            \* the last call: [call, rv, session, object]

vars == <<scene, initialized, up, failing, held, token, sessions, calls,
          edits, last>>

S == Scene[scene]

NoSessions == [h \in {} |-> 0]

(***************************************************************************)
(* The index of a session: nothing is stored.                              *)
(***************************************************************************)
Memory == INSTANCE TrustIndex
    WITH Build <- p11_builder_build, Store <- KeepInMemory,
         Unstore <- ForgetOnly, Notify <- p11_builder_changed

p11_session_new(rw) ==
    [index |-> p11_index_new(0, FALSE, token.order), rw |-> rw,
     loaded |-> FALSE, find |-> {}]

lookup_session(h) ==
    IF ~up THEN "CRYPTOKI_NOT_INITIALIZED"
    ELSE IF h \notin DOMAIN sessions THEN "SESSION_HANDLE_INVALID" ELSE "OK"

lookup_slot_inlock == IF up THEN "OK" ELSE "CRYPTOKI_NOT_INITIALIZED"

\* Where an object is: "session", "token" or "none".
lookup_object_inlock(h, object) ==
    IF object \in DOMAIN sessions[h].index.objects THEN "session"
    ELSE IF object \in DOMAIN token.objects THEN "token" ELSE "none"

check_index_writable(h, where) ==
    IF where = "session" THEN "OK"
    ELSE IF ~p11_token_is_writable(token) THEN "TOKEN_WRITE_PROTECTED"
    ELSE IF ~sessions[h].rw THEN "SESSION_READ_ONLY" ELSE "OK"

\* The index to work on, p11_module_next_id being shared; and what it holds.
IndexAt(h, where, fail) ==
    IF where = "token" THEN [check_token_directory(token) EXCEPT !.fail = fail]
    ELSE [sessions[h].index EXCEPT !.next = token.next]

ObjectAt(h, where, object) ==
    IF where = "token" THEN token.objects[object]
                       ELSE sessions[h].index.objects[object]

PutBack(h, where, w) ==
    IF where = "token"
    THEN /\ token' = [w EXCEPT !.fail = "none"]
         /\ UNCHANGED sessions
    ELSE /\ token' = [token EXCEPT !.next = w.next]
         /\ sessions' = [sessions EXCEPT ![h].index = [w EXCEPT !.next = 0]]

Called(call, rv, h, object) ==
    /\ calls < S.calls
    /\ calls' = calls + 1
    /\ last' = [call |-> call, rv |-> rv, session |-> h, object |-> object]
    /\ UNCHANGED <<scene, edits>>

Kept == UNCHANGED <<initialized, up, failing, held>>

(***************************************************************************)
(* Initialization is counted.  A call that fails counts too, and undoes    *)
(* that with C_Finalize after it has let go of the lock.                   *)
(***************************************************************************)
Finalized ==
    IF initialized = 1
    THEN /\ initialized' = 0
         /\ up' = FALSE
         /\ sessions' = NoSessions
         /\ token' = p11_index_new(token.next, TRUE, token.order) @@ token
    ELSE /\ initialized' = initialized - 1
         /\ UNCHANGED <<up, sessions, token>>

sys_C_Finalize ==
    /\ UNCHANGED failing
    /\ \/ /\ initialized = 0
          /\ Called("C_Finalize", "CRYPTOKI_NOT_INITIALIZED", 0, 0)
          /\ UNCHANGED <<initialized, up, held, token, sessions>>
       \/ /\ held > 0
          /\ Called("C_Finalize", "OK", 0, 0)
          /\ held' = held - 1
          /\ Finalized

\* args is "good", or what is wrong with them.
sys_C_Initialize(args) ==
    LET rv == CASE args = "good" -> "OK"
                [] args = "mutex" -> "ARGUMENTS_BAD"
                [] args = "locking" -> "CANT_LOCK"
        doing == rv = "OK" /\ initialized = 0
    IN  /\ initialized < S.holds
        /\ Called("C_Initialize", rv, 0, 0)
        /\ initialized' = initialized + 1
        /\ held' = IF rv = "OK" THEN held + 1 ELSE held
        /\ failing' = IF rv = "OK" THEN failing ELSE failing + 1
        /\ up' = (up \/ doing)
        /\ token' = IF doing
                    THEN p11_token_new([f \in DOMAIN S.fs |-> token[f]],
                                       token.next, S.order, S.protected)
                    ELSE token
        /\ UNCHANGED sessions

FinalizeAfterFailure ==
    /\ failing > 0
    /\ failing' = failing - 1
    /\ Finalized
    /\ last' = [last EXCEPT !.call = "C_Finalize"]
    /\ UNCHANGED <<scene, held, calls, edits>>

(***************************************************************************)
(* Sessions.                                                               *)
(***************************************************************************)
sys_C_OpenSession(mode) ==
    LET rv == IF lookup_slot_inlock # "OK" THEN lookup_slot_inlock
              ELSE IF mode = "parallel" THEN "SESSION_PARALLEL_NOT_SUPPORTED"
              ELSE IF mode = "rw" /\ ~p11_token_is_writable(token)
              THEN "TOKEN_WRITE_PROTECTED" ELSE "OK"
        t == IF up /\ mode = "rw" THEN check_token_directory(token) ELSE token
    IN  /\ Cardinality(DOMAIN sessions) < S.sessions
        /\ Called("C_OpenSession", rv, 0, 0)
        /\ Kept
        /\ IF rv = "OK"
           THEN /\ sessions' = (token.next :> p11_session_new(mode = "rw"))
                               @@ sessions
                /\ token' = [t EXCEPT !.next = @ + 1]
           ELSE /\ token' = t
                /\ UNCHANGED sessions

sys_C_CloseSession(h) ==
    /\ Called("C_CloseSession", lookup_session(h), h, 0)
    /\ sessions' = [g \in DOMAIN sessions \ {h} |-> sessions[g]]
    /\ UNCHANGED token
    /\ Kept

sys_C_CloseAllSessions ==
    /\ Called("C_CloseAllSessions", lookup_slot_inlock, 0, 0)
    /\ sessions' = NoSessions
    /\ UNCHANGED token
    /\ Kept

\* No login is needed, and the tokens say so.
sys_C_Login(h) ==
    /\ Called("C_Login", IF lookup_session(h) # "OK" THEN lookup_session(h)
                         ELSE "USER_TYPE_INVALID", h, 0)
    /\ UNCHANGED <<token, sessions>>
    /\ Kept

sys_C_Logout(h) ==
    /\ Called("C_Logout", IF lookup_session(h) # "OK" THEN lookup_session(h)
                          ELSE "USER_NOT_LOGGED_IN", h, 0)
    /\ UNCHANGED <<token, sessions>>
    /\ Kept

(***************************************************************************)
(* Objects.  A call that gets past its checks answers r, the result of the *)
(* index `where'.                                                          *)
(***************************************************************************)
Modify(call, h, object, where, checks, r) ==
    /\ Called(call, IF checks # "OK" THEN checks ELSE r.rv, h, object)
    /\ Kept
    /\ IF checks = "OK" THEN PutBack(h, where, r.w)
       ELSE /\ token' = IF checks \in {"TOKEN_WRITE_PROTECTED", "SESSION_READ_ONLY"}
                        THEN check_token_directory(token) ELSE token
            /\ UNCHANGED sessions

Checks(h, where) ==
    IF lookup_session(h) # "OK" THEN lookup_session(h)
    ELSE IF where = "none" THEN "OBJECT_HANDLE_INVALID"
    ELSE check_index_writable(h, where)

CreateAt(h, where, template, fail) ==
    Modify("C_CreateObject", h, token.next, where, Checks(h, where),
           IF where = "token" THEN Token!p11_index_add(IndexAt(h, where, fail), template)
                              ELSE Memory!p11_index_add(IndexAt(h, where, fail), template))
sys_C_CreateObject(h, template, fail) ==
    CreateAt(h, IF p11_attrs_findn_bool(template, "TOKEN", "true") THEN "token" ELSE "session",
             template, fail)

CopyTo(h, at, where, attrs, fail) ==
    Modify("C_CopyObject", h, token.next, where,
           Checks(h, IF at = "none" THEN at ELSE where),
           IF where = "token" THEN Token!p11_index_take(IndexAt(h, where, fail), attrs)
                              ELSE Memory!p11_index_take(IndexAt(h, where, fail), attrs))
CopyFrom(h, at, object, template, fail) ==
    CopyTo(h, at, CASE p11_attrs_findn_bool(template, "TOKEN", "true") -> "token"
                    [] p11_attrs_findn_bool(template, "TOKEN", "false") -> "session"
                    [] OTHER -> at,
           p11_attrs_build(p11_attrs_buildn(p11_attrs_dup(ObjectAt(h, at, object)), template),
                           [TOKEN |-> "false"]), fail)
sys_C_CopyObject(h, object, template, fail) ==
    CopyFrom(h, lookup_object_inlock(h, object), object, template, fail)

ReadOnly(attrs) == p11_attrs_find_bool(attrs, "MODIFIABLE", "false")

DestroyAt(h, where, object, checks, fail) ==
    Modify("C_DestroyObject", h, object, where,
           IF checks = "OK" /\ ReadOnly(ObjectAt(h, where, object))
           THEN "ATTRIBUTE_READ_ONLY" ELSE checks,
           IF where = "token" THEN Token!p11_index_remove(IndexAt(h, where, fail), object)
                              ELSE Memory!p11_index_remove(IndexAt(h, where, fail), object))
DestroyFrom(h, where, object, fail) == DestroyAt(h, where, object, Checks(h, where), fail)
sys_C_DestroyObject(h, object, fail) ==
    DestroyFrom(h, lookup_object_inlock(h, object), object, fail)

\* A token object is loaded anew first if its file has changed.
SetAfter(where, object, template, r) ==
    IF r.ret /\ ReadOnly(p11_index_lookup(r.w, object))
    THEN [rv |-> "ATTRIBUTE_READ_ONLY", w |-> r.w]
    ELSE IF where = "token" THEN Token!p11_index_set(r.w, object, template)
    ELSE Memory!p11_index_set(r.w, object, template)
SetAt(h, where, object, template, w) ==
    Modify("C_SetAttributeValue", h, object, where,
           IF lookup_session(h) = "OK" /\ where # "none" /\ ReadOnly(ObjectAt(h, where, object))
           THEN "ATTRIBUTE_READ_ONLY" ELSE Checks(h, where),
           SetAfter(where, object, template,
                    IF where = "token" THEN p11_token_reload(w, token.objects[object])
                                       ELSE [w |-> w, ret |-> FALSE]))
SetFrom(h, where, object, template, fail) ==
    SetAt(h, where, object, template, IndexAt(h, where, fail))
sys_C_SetAttributeValue(h, object, template, fail) ==
    SetFrom(h, lookup_object_inlock(h, object), object, template, fail)

\* A read only call: what it returns for one attribute and a large buffer.
sys_C_GetAttributeValue(h, object, type) ==
    LET where == lookup_object_inlock(h, object)
    IN  /\ Called("C_GetAttributeValue",
               IF lookup_session(h) # "OK" THEN lookup_session(h)
               ELSE IF where = "none" THEN "OBJECT_HANDLE_INVALID"
               ELSE IF p11_attrs_find(ObjectAt(h, where, object), type)
               THEN "OK" ELSE "ATTRIBUTE_TYPE_INVALID", h, object)
        /\ UNCHANGED <<token, sessions>>
        /\ Kept

(***************************************************************************)
(* Searching.  A search is [match, left, seen, given, start]: the template, *)
(* the rest of the snapshot, the extensions returned, and of the property  *)
(* the handles returned and those that matched when it began.              *)
(***************************************************************************)
match_for_broken_nss_serial_number_lookups(value, match) ==
    match # "" /\ value = "der:" \o match

Attribute(attrs, find, type) ==
    \/ p11_attr_equal(attrs, find.match, type)
    \/ /\ type = "SERIAL_NUMBER"
       /\ p11_attrs_find_ulong(attrs, "CLASS") = "NSS_TRUST"
       /\ match_for_broken_nss_serial_number_lookups(attrs[type],
                                                     find.match[type])

Duplicate(attrs, find) ==
    /\ p11_attrs_find_ulong(find.match, "CLASS") = "EXTENSION"
    /\ p11_attrs_find(find.match, "PUBLIC_KEY_INFO")
    /\ p11_attrs_find_value(attrs, "OBJECT_ID") \in find.seen

find_objects_match(attrs, find) ==
    /\ \A type \in DOMAIN find.match :
           p11_attrs_find(attrs, type) /\ Attribute(attrs, find, type)
    /\ ~Duplicate(attrs, find)

Matching(index, template) ==
    {o \in DOMAIN index.objects :
        p11_attrs_matchn(index.objects[o], template)}

Search(template, first, second) ==
    [match |-> template, left |-> p11_index_snapshot(first, second, template),
     seen |-> {}, given |-> <<>>,
     start |-> Matching(first, template) \cup Matching(second, template)]

NoIndex == p11_index_new(0, FALSE, "up")

SearchIn(h, template, shared, t) ==
    /\ token' = t
    /\ sessions' = [sessions EXCEPT
           ![h].loaded = @ \/ shared,
           ![h].find = {Search(template,
               IF p11_attrs_findn_bool(template, "TOKEN", "true") THEN NoIndex
               ELSE sessions[h].index,
               IF shared THEN t ELSE NoIndex)}]

FindInit(h, template, rv, shared) ==
    /\ Called(IF rv = "OK" /\ shared /\ ~sessions[h].loaded THEN "load" ELSE "C_FindObjectsInit",
              rv, h, 0)
    /\ Kept
    /\ IF rv # "OK" THEN UNCHANGED <<token, sessions>>
       ELSE SearchIn(h, template, shared,
                     IF shared /\ ~sessions[h].loaded THEN p11_token_load(token) ELSE token)

sys_C_FindObjectsInit(h, template) ==
    FindInit(h, template, lookup_session(h), ~p11_attrs_findn_bool(template, "TOKEN", "false"))

sys_C_FindObjects(h, max) ==
    LET rv == IF lookup_session(h) # "OK" THEN lookup_session(h)
              ELSE IF sessions[h].find = {} THEN "OPERATION_NOT_INITIALIZED"
              ELSE "OK"
        step(acc, o) ==
            LET at == lookup_object_inlock(h, o)
                attrs == ObjectAt(h, at, o)
                next == [acc.find EXCEPT !.left = Tail(@)]
            IN  IF acc.n = max THEN acc
                ELSE IF at = "none" THEN [acc EXCEPT !.find = next]
                ELSE IF ~find_objects_match(attrs, acc.find)
                THEN [acc EXCEPT !.find = next]
                ELSE [n |-> acc.n + 1,
                      find |-> [next EXCEPT !.given = Append(@, o),
                          !.seen = @ \cup {p11_attrs_find_value(
                                               attrs, "OBJECT_ID")}]]
    IN  /\ Called("C_FindObjects", rv, h, 0)
        /\ UNCHANGED token
        /\ Kept
        /\ sessions' =
             IF rv # "OK" THEN sessions
             ELSE [sessions EXCEPT ![h].find =
                      {Accumulate(step, [n |-> 0, find |-> f], f.left).find :
                          f \in @}]

sys_C_FindObjectsFinal(h) ==
    LET rv == IF lookup_session(h) # "OK" THEN lookup_session(h)
              ELSE IF sessions[h].find = {} THEN "OPERATION_NOT_INITIALIZED"
              ELSE "OK"
    IN  /\ Called("C_FindObjectsFinal", rv, h, 0)
        /\ UNCHANGED token
        /\ Kept
        /\ sessions' = IF rv = "OK" THEN [sessions EXCEPT ![h].find = {}]
                                    ELSE sessions

(***************************************************************************)
(* Another program writes a file, removes it or lets the token's directory *)
(* be written to.  An edit is a path and a set of at most one file.        *)
(***************************************************************************)
EditFile(path, file) ==
    /\ edits < S.changes
    /\ edits' = edits + 1
    /\ DirOf[path] \in token.dirs
    /\ path \in DOMAIN token.disk \/ file # {}
    /\ token' = Touch([token EXCEPT !.disk =
           IF file = {} THEN [p \in DOMAIN @ \ {path} |-> @[p]]
                        ELSE (path :> CHOOSE f \in file : TRUE) @@ @], path)
    /\ last' = [call |-> "edit", rv |-> "OK", session |-> 0, object |-> 0]
    /\ UNCHANGED <<scene, sessions, calls>>
    /\ Kept

(***************************************************************************)
(* The module.  Handles come from the module; 0 is never one.              *)
(***************************************************************************)
Init ==
    /\ scene \in DOMAIN Scene
    /\ initialized = 0
    /\ up = FALSE
    /\ failing = 0
    /\ held = 0
    /\ token = [loaded |-> [p \in {} |-> ""], checked |-> FALSE,
                make |-> FALSE, writable |-> FALSE]
               @@ S.fs @@ p11_index_new(1, TRUE, S.order)
    /\ sessions = NoSessions
    /\ calls = 0
    /\ edits = 0
    /\ last = [call |-> "none", rv |-> "OK", session |-> 0, object |-> 0]

Handles == DOMAIN sessions \cup (IF "invalid" \in S.offers THEN {0} ELSE {})

Objects(h) ==
    {0} \cup (IF h \in DOMAIN sessions
              THEN DOMAIN token.objects
                   \cup DOMAIN sessions[h].index.objects ELSE {})

Next ==
    \/ \E args \in S.inits : sys_C_Initialize(args)
    \/ FinalizeAfterFailure
    \/ "finalize" \in S.offers /\ sys_C_Finalize
    \/ \E mode \in S.modes : sys_C_OpenSession(mode)
    \/ "close" \in S.offers /\ \E h \in Handles : sys_C_CloseSession(h)
    \/ "all" \in S.offers /\ sys_C_CloseAllSessions
    \/ "login" \in S.offers /\ \E h \in Handles : sys_C_Login(h)
    \/ "logout" \in S.offers /\ \E h \in Handles : sys_C_Logout(h)
    \/ \E h \in Handles, t \in S.creates, f \in S.fails :
           sys_C_CreateObject(h, t, f)
    \/ \E h \in Handles : \E o \in Objects(h), t \in S.copies, f \in S.fails :
           sys_C_CopyObject(h, o, t, f)
    \/ "destroy" \in S.offers /\ \E h \in Handles :
           \E o \in Objects(h), f \in S.fails : sys_C_DestroyObject(h, o, f)
    \/ \E h \in Handles : \E o \in Objects(h), t \in S.sets, f \in S.fails :
           sys_C_SetAttributeValue(h, o, t, f)
    \/ "get" \in S.offers /\ \E h \in Handles : \E o \in Objects(h) :
           sys_C_GetAttributeValue(h, o, "LABEL")
    \/ \E h \in Handles, t \in S.searches : sys_C_FindObjectsInit(h, t)
    \/ \E h \in Handles, max \in S.batches : sys_C_FindObjects(h, max)
    \/ "final" \in S.offers /\ \E h \in Handles : sys_C_FindObjectsFinal(h)
    \/ \E e \in S.edits : EditFile(e.path, e.file)

Spec == Init /\ [][Next]_vars

(***************************************************************************)
(* Properties.                                                             *)
(***************************************************************************)
\* Types, and the reference count: gl.initialized counts the calls of
\* C_Initialize that have not been undone, those that failed included.
TypeOK ==
    /\ initialized = held + failing
    /\ initialized = 0 => ~up /\ sessions = NoSessions
    /\ DOMAIN token.objects \subseteq 1..(token.next - 1)
    /\ DOMAIN sessions \subseteq (1..(token.next - 1)) \ DOMAIN token.objects
    /\ ~token.loading /\ ~token.notifying /\ token.fail = "none"

\* What the library asks its indexes for.
Queries ==
    {{"CLASS"}, {"VALUE", "CLASS"}, {"X_ORIGIN"}, {"LABEL", "ID"},
     {"OBJECT_ID", "CLASS", "PUBLIC_KEY_INFO"},
     {"CLASS", "X_GENERATED", "ISSUER", "SERIAL_NUMBER"},
     {"CLASS", "VALUE", "OBJECT_ID", "ID", "X_ORIGIN"}}

\* A lookup that starts from the hash buckets (index_select) finds what
\* going over all the objects finds, whatever was added, set, replaced and
\* removed before: no object is missing from a bucket.
IndexFindsAll ==
    \A w \in {token} \cup {sessions[h].index : h \in DOMAIN sessions} :
        \A h \in DOMAIN w.objects, q \in Queries :
            q \subseteq DOMAIN w.objects[h] =>
                h \in p11_index_find_all(w, [t \in q |-> w.objects[h][t]])

ParsedFrom(disk, path) == p11_parse_file(FlagsOf(path), disk[path]).parsed

From(w, path) == {h \in DOMAIN w.objects :
                     p11_attrs_find_value(w.objects[h], "X_ORIGIN") = path}

\* The objects of a path are those of the file, one for one.
SameObjects(w, path, parsed) ==
    LET like(h, i) == \A t \in DOMAIN parsed[i] \ {"MODIFIABLE"} :
                          /\ t \in DOMAIN w.objects[h]
                          /\ w.objects[h][t] = parsed[i][t]
    IN  /\ Cardinality(From(w, path)) = Len(parsed)
        /\ \A h \in From(w, path) : \E i \in DOMAIN parsed : like(h, i)
        /\ \A i \in DOMAIN parsed : \E h \in From(w, path) : like(h, i)

\* Once a session has loaded the token (p11_token_load) the objects are
\* those of the files: none of a file that is gone, changed or moved, none
\* missing, though only files whose stat changed are parsed again.
LoadedIsDisk ==
    last.call = "load" =>
        \A i \in DOMAIN Files :
            SameObjects(token, Files[i],
                IF Files[i] \in DOMAIN token.disk
                THEN ParsedFrom(token.disk, Files[i]) ELSE <<>>)

Certificates(w) ==
    {h \in DOMAIN w.objects :
        p11_attrs_match(w.objects[h], [CLASS |-> "CERTIFICATE"])}

IsGenerated(attrs) == p11_attrs_find_bool(attrs, "X_GENERATED", "true")

\* The generated objects that speak of a certificate.
About(w, cert) ==
    {w.objects[h] : h \in {g \in DOMAIN w.objects :
        /\ IsGenerated(w.objects[g])
        /\ \/ p11_attrs_match(w.objects[g],
                              [X_CERTIFICATE_VALUE |-> cert["VALUE"]])
           \/ p11_attrs_match(w.objects[g],
                              [ISSUER |-> cert["ISSUER"],
                               SERIAL_NUMBER |-> cert["SERIAL_NUMBER"]])}}

WithoutGenerated(w) ==
    [w EXCEPT !.loading = TRUE, !.notifying = TRUE,
              !.objects = [h \in {g \in DOMAIN @ : ~IsGenerated(@[g])} |->
                               @[h]]]

\* The NSS trust object and the trust assertions kept up to date by
\* p11_builder_changed, one change at a time, are those that would be made
\* from scratch for one of the certificates of that value; what is left of
\* the certificates that are gone trusts and distrusts nothing.
TrustFollows ==
    LET certs == Certificates(token)
        objects == token.objects
        about(c) == About(token, objects[c])
        fresh(c) == About(Regenerate(WithoutGenerated(token), <<ForCert(objects[c])>>),
                          objects[c])
    IN  /\ \A c \in certs : \E d \in certs :
               objects[d]["VALUE"] = objects[c]["VALUE"] /\ about(c) = fresh(d)
        /\ \A h \in DOMAIN objects :
               \/ ~IsGenerated(objects[h])
               \/ \E c \in certs : objects[h] \in about(c)
               \/ /\ objects[h]["CLASS"] = "NSS_TRUST"
                  /\ \A t \in DOMAIN objects[h] :
                        objects[h][t] \notin {"TRUSTED", "TRUSTED_DELEGATOR",
                                              "NOT_TRUSTED"}

Modifying == {"C_CreateObject", "C_CopyObject", "C_DestroyObject",
              "C_SetAttributeValue"}

\* A call that fails changes no file; a call that creates an object never
\* writes over a file that is there, under whatever name.
KeepsFiles ==
    /\ last'.call \in Modifying /\ calls' # calls
    /\ last'.rv # "OK" \/ last'.call = "C_CreateObject"
    => \A p \in DOMAIN token.disk :
          p \in DOMAIN token'.disk /\ token'.disk[p] = token.disk[p]

\* C_SetAttributeValue writes the file again with all the objects it has
\* now, also those another program put there since it was loaded.
SetKeepsOthers ==
    \A path \in DOMAIN token.disk :
        LET old == ParsedFrom(token.disk, path)
            new == ParsedFrom(token'.disk, path)
            lost(i) == \A j \in DOMAIN new : \E t \in DOMAIN old[i] :
                           ~p11_attrs_match(new[j], (t :> old[i][t]))
        IN  last'.call = "C_SetAttributeValue" /\ last'.rv = "OK"
            /\ calls' # calls /\ old # <<>> =>
                /\ path \in DOMAIN token'.disk
                /\ Len(new) = Len(old)
                /\ Cardinality({i \in DOMAIN old : lost(i)}) <= 1

\* What the calls that change objects leave of the files: KeepsFiles and
\* SetKeepsOthers.
FilesKept == [][KeepsFiles /\ SetKeepsOthers]_vars

\* An object that was created is what its file gives when it is read.
StoredIsRead ==
    last.call = "C_CreateObject" /\ last.rv = "OK"
    /\ last.object \in DOMAIN token.objects =>
        LET path == token.objects[last.object]["X_ORIGIN"]
        IN  path \in DOMAIN token.disk
            /\ SameObjects(token, path, ParsedFrom(token.disk, path))

\* A search that has come to its end has returned, once each, everything
\* that matched when it began and still does.
SearchComplete ==
    \A h \in DOMAIN sessions : \A f \in sessions[h].find :
        LET given == {f.given[i] : i \in DOMAIN f.given}
            index(o) == IF lookup_object_inlock(h, o) = "token" THEN token
                                                   ELSE sessions[h].index
        IN  /\ Cardinality(given) = Len(f.given)
            /\ f.left = <<>> =>
                 \A o \in f.start :
                    \/ lookup_object_inlock(h, o) = "none"
                    \/ ~p11_attrs_match(index(o).objects[o], f.match)
                    \/ o \in given
                    \/ Duplicate(index(o).objects[o], f)

\* Every caller whose C_Initialize succeeded has a module that is up.
InitializedIsUp == held > 0 => up

\* Trust an administrator gives in a file of their own is kept when trust
\* is generated for the certificate.
UserTrustKept ==
    last.call = "load" =>
        \A path \in DOMAIN token.disk :
            LET parsed == ParsedFrom(token.disk, path)
            IN  \A i \in DOMAIN parsed : parsed[i]["CLASS"] = "NSS_TRUST" =>
                    \E h \in From(token, path) :
                        token.objects[h]["CLASS"] = "NSS_TRUST"
===============================================================================
