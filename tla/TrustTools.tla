-------------------------------- MODULE TrustTools --------------------------------
(***************************************************************************)
(* The commands of the trust tool: extract, extract-compat, list, dump,    *)
(* anchor and check-format.  Several processes each run one command on the *)
(* same tokens.  Iterating is a step for each token, which finds the       *)
(* objects there are, and a step for each object, which may be gone by     *)
(* then (see Iter for the iterator, Save for how files are written).       *)
(*                                                                         *)
(* A command line is [tool, opts, args]: opts is a sequence of             *)
(* <<option, value>> pairs, args the arguments left, names of Files or     *)
(* "uri".  A file is [status, objects]: what parsing it comes to ("ok",    *)
(* "unrecognized", "failure" or, when it cannot be opened, "missing") and  *)
(* the attributes of its objects.                                          *)
(***************************************************************************)
EXTENDS Enumerate, FiniteSets

CONSTANTS
    Procs,
    Tokens,        \* [name, writable], in the order of the iteration
    Files,         \* name -> file
    Jobs,          \* the assignments of command lines to processes
    Stored         \* the objects at the start: [on, nr, attrs]

VARIABLES
    job,      \* the command line of each process
    run,      \* where each process is, see Start
    objects   \* the objects on the tokens

vars == <<job, run, objects>>

Start ==
    [at |-> "start", ret |-> 2,
     ex |-> p11_enumerate_init,
     modules |-> FALSE,   \* loaded and initialized
     left |-> <<>>,       \* the tokens to visit
     token |-> {},        \* the token visited
     found |-> {},        \* the objects found on it and not yet looked at
     dest |-> "none",     \* of the destination: none, open, kept, discarded
     out |-> <<>>,        \* what is written or printed
     todo |-> <<>>,       \* the anchors to store, or what to remove
     changed |-> FALSE, errors |-> 0,
     did |-> {}]          \* the objects made, changed or removed

Init ==
    /\ job \in Jobs
    /\ run = [p \in Procs |-> Start]
    /\ objects = Stored

Set(p, r) == run' = [run EXCEPT ![p] = r] /\ UNCHANGED job
Exits(r, status) == [r EXCEPT !.at = "exit", !.ret = status]
\* C_FindObjects returns the objects in the order of their handles.
First(found) == CHOOSE o \in found : \A q \in found : o.nr <= q.nr
NextNr == 1 + Cardinality(Stored) + Cardinality(UNION {run[p].did : p \in Procs})

(***************************************************************************)
(* The main functions: options in their order; the first that stops the    *)
(* command gives its status.                                               *)
(***************************************************************************)
\* The formats.  to: where a format writes, a "file" or a "directory" that it opens
\* first, a "buffer" that becomes a file when it is complete, or the "first"
\* certificate's file; links: does it link hashes to the files of a directory;
\* policy: does it write what a certificate is trusted for.
Extractor(to, links, policy) == [to |-> to, links |-> links, policy |-> policy]
p11_extract_x509_file == Extractor("first", FALSE, FALSE)
p11_extract_x509_directory == Extractor("directory", FALSE, FALSE)
p11_extract_pem_bundle == Extractor("file", FALSE, FALSE)
extract_pem_directory(hash) == Extractor("directory", hash, FALSE)
p11_extract_openssl_bundle == Extractor("file", FALSE, TRUE)
p11_extract_openssl_directory == Extractor("directory", TRUE, TRUE)
p11_extract_jks_cacerts == Extractor("buffer", FALSE, FALSE)
p11_extract_edk2_cacerts == Extractor("buffer", FALSE, FALSE)

Formats ==
    ("x509-file" :> p11_extract_x509_file) @@
    ("x509-directory" :> p11_extract_x509_directory) @@
    ("pem-bundle" :> p11_extract_pem_bundle) @@
    ("pem-directory" :> extract_pem_directory(FALSE)) @@
    ("pem-directory-hash" :> extract_pem_directory(TRUE)) @@
    ("openssl-bundle" :> p11_extract_openssl_bundle) @@
    ("openssl-directory" :> p11_extract_openssl_directory) @@
    ("java-cacerts" :> p11_extract_jks_cacerts) @@
    ("edk2-cacerts" :> p11_extract_edk2_cacerts)

format_argument(format, option) ==
    IF format # {} THEN {} ELSE {option} \cap DOMAIN Formats

Accepts(tool) ==
    CASE tool = "extract" -> {"filter", "format", "purpose", "overwrite", "comment", "verbose"}
      [] tool = "list" -> {"filter", "purpose", "details", "verbose"}
      [] tool = "dump" -> {"filter", "verbose"}
      [] tool = "anchor" -> {"store", "remove", "verbose"}
      [] tool = "check-format" -> {"verbose"}

\* ex: the enumeration, none once an option was refused; set: format or action.
Option(tool, st, o) ==
    CASE st.status # {} -> st
      [] o[1] = "help" -> [st EXCEPT !.status = {0}]
      [] o[1] \notin Accepts(tool) -> [st EXCEPT !.status = {2}]
      [] o[1] \in {"filter", "purpose"} ->
            LET made == IF o[1] = "filter" THEN p11_enumerate_opt_filter(st.ex, o[2])
                        ELSE p11_enumerate_opt_purpose(st.ex, o[2])
            IN  IF made = {} THEN [st EXCEPT !.status = {2}]
                ELSE [st EXCEPT !.ex = CHOOSE ex \in made : TRUE]
      [] o[1] = "format" ->
            LET made == format_argument(st.set, o[2])
            IN  IF made = {} THEN [st EXCEPT !.status = {2}] ELSE [st EXCEPT !.set = made]
      [] o[1] \in {"store", "remove"} ->
            IF st.set # {} THEN [st EXCEPT !.status = {2}] ELSE [st EXCEPT !.set = {o[1]}]
      [] OTHER -> st
Options(j) ==
    LET after[i \in 0..Len(j.opts)] ==
            IF i = 0 THEN [ex |-> p11_enumerate_init, set |-> {}, status |-> {}]
            ELSE Option(j.tool, after[i - 1], j.opts[i])
    IN  after[Len(j.opts)]
Format(p) == Options(job[p]).set
\* Does the format of an extract write to one of these?
To(p, kinds) ==
    job[p].tool = "extract" /\ \E f \in Format(p) : Formats[f].to \in kinds

\* The enumeration to go on with, if any.
validate_filter_and_format(ex, format) ==
    CASE Formats[format].policy -> {ex}
      [] ~Formats[format].policy /\ {"anchors", "blocklist"} \subseteq ex.flags -> {}
      [] /\ ~Formats[format].policy
         /\ ex.flags \cap {"anchors", "blocklist"} = {"anchors"}
         /\ Cardinality(ex.purposes) # 1 -> p11_enumerate_opt_purpose(ex, "server-auth")
      [] OTHER -> {ex}

p11_trust_extract(j, st, r) ==
    IF Len(j.args) # 1 \/ st.set = {} THEN Exits(r, 2)
    ELSE LET valid == validate_filter_and_format(st.ex, CHOOSE f \in st.set : TRUE)
         IN  IF valid = {} THEN Exits(r, 1)
             ELSE [r EXCEPT !.at = "ready",
                            !.ex = DefaultFilter(CHOOSE ex \in valid : TRUE, "ca-anchors")]

p11_trust_list(j, st, r) ==
    IF Len(j.args) # 0 THEN Exits(r, 2)
    ELSE [r EXCEPT !.at = "ready", !.ex = DefaultFilter(st.ex, "trust-policy")]

p11_trust_dump(j, st, r) ==
    IF Len(j.args) # 0 THEN Exits(r, 2)
    ELSE [r EXCEPT !.at = "ready", !.ex = DefaultFilter(st.ex, "all")]

p11_trust_anchor(j, st, r) == [r EXCEPT !.at = IF st.set = {"remove"} THEN "remove" ELSE "store"]

p11_trust_check_format(j, st, r) ==
    IF Len(j.args) = 0 THEN Exits(r, 2) ELSE [r EXCEPT !.at = "check"]

Main(p) ==
    LET j == job[p]
        st == Options(j)
        r == run[p]
    IN  /\ r.at = "start"
        /\ Set(p, CASE st.status # {} -> Exits(r, CHOOSE s \in st.status : TRUE)
                    [] st.status = {} /\ j.tool = "extract" -> p11_trust_extract(j, st, r)
                    [] st.status = {} /\ j.tool = "list" -> p11_trust_list(j, st, r)
                    [] st.status = {} /\ j.tool = "dump" -> p11_trust_dump(j, st, r)
                    [] st.status = {} /\ j.tool = "anchor" -> p11_trust_anchor(j, st, r)
                    [] st.status = {} /\ j.tool = "check-format" ->
                           p11_trust_check_format(j, st, r))
        /\ UNCHANGED objects

(***************************************************************************)
(* p11_enumerate_ready, and the iterator as the commands use it            *)
(***************************************************************************)
Begins(r, at) == [r EXCEPT !.at = at, !.left = Tokens, !.token = {}, !.found = {}]
\* What the search behind each place asks for.
Match(p) ==
    LET r == run[p]
    IN  CASE r.at = "blocklist" ->
               [CKA_X_DISTRUSTED |-> TRUE] @@ (IF r.ex.uri = {} THEN <<>> ELSE UriMatch)
          [] r.at = "objects" -> r.ex.match
          [] r.at = "removing" -> Head(r.todo)

Iterates(p, r) ==
    CASE job[p].tool = "extract" -> [Begins(r, IF To(p, {"file", "directory"}) THEN "open" ELSE "objects")
                                        EXCEPT !.ex.flags = @ \cup {"correlate"}]
      [] job[p].tool = "list" -> [Begins(r, "objects") EXCEPT !.ex.flags = @ \cup {"correlate"}]
      [] OTHER -> Begins(r, "objects")

p11_enumerate_ready(p) ==
    LET ready == [run[p] EXCEPT !.modules = TRUE]
    IN  /\ run[p].at = "ready"
        /\ Set(p, IF "anchors" \in ready.ex.flags THEN Begins(ready, "blocklist")
                  ELSE Iterates(p, ready))
        /\ UNCHANGED objects

\* The modules cannot be loaded.
ReadyFails(p) ==
    /\ run[p].at = "ready"
    /\ Set(p, Exits(run[p], 1))
    /\ UNCHANGED objects

Searching(p) == run[p].at \in {"blocklist", "objects", "removing"} /\ run[p].found = {}
Visit(p) ==
    /\ Searching(p)
    /\ run[p].left # <<>>
    /\ LET t == Head(run[p].left)
           found == {o \in objects : o.on = t.name /\ Holds(o.attrs, Match(p))}
       IN  Set(p, [run[p] EXCEPT !.left = Tail(@), !.token = {t}, !.found = found])
    /\ UNCHANGED objects

BlocklistObject(p) ==
    /\ run[p].at = "blocklist"
    /\ run[p].found # {}
    /\ LET o == First(run[p].found)
       IN Set(p, [run[p] EXCEPT !.found = @ \ {o},
                                !.ex = IF o \in objects THEN blocklist_load(@, o.attrs) ELSE @])
    /\ UNCHANGED objects

BlocklistLoaded(p) ==
    /\ Searching(p)
    /\ run[p].at = "blocklist"
    /\ run[p].left = <<>>
    /\ Set(p, Iterates(p, run[p]))
    /\ UNCHANGED objects

(***************************************************************************)
(* Extracting, listing and dumping                                         *)
(***************************************************************************)
\* p11_save_open_file or p11_save_open_directory.
OpenDestination(p) ==
    /\ run[p].at = "open"
    /\ \/ Set(p, [run[p] EXCEPT !.at = "objects", !.dest = "open"])
       \/ Set(p, [run[p] EXCEPT !.at = "cleanup", !.ret = 1])
    /\ UNCHANGED objects

OnToken(p) == {o.attrs : o \in {q \in objects : \E t \in run[p].token : q.on = t.name}}
Attached(p, attrs) == load_attached_extensions(attrs, OnToken(p))

list_iterate(attrs) ==
    [trust |-> CASE Attr(attrs, "CKA_X_DISTRUSTED") = {TRUE} -> "distrusted"
                 [] Attr(attrs, "CKA_TRUSTED") = {TRUE} -> "anchor"
                 [] OTHER -> "unspecified",
     label |-> Attr(attrs, "CKA_LABEL"), category |-> Attr(attrs, "CKA_CERTIFICATE_CATEGORY")]
dump_iterate(attrs) == attrs

Written(p, attrs) ==
    LET tool == job[p].tool
        format == Format(p)
        aliases == [i \in DOMAIN run[p].out |-> run[p].out[i].entry.alias]
    IN  CASE tool = "list" -> list_iterate(attrs)
          [] tool = "dump" -> dump_iterate(attrs)
          [] format = {"java-cacerts"} -> prepare_jks_buffer(aliases, attrs)
          [] format = {"edk2-cacerts"} -> prepare_edk2_buffer(attrs)
          [] \E f \in format : Formats[f].policy -> prepare_pem_contents(attrs, Attached(p, attrs))
          [] OTHER -> [value |-> attrs["CKA_VALUE"]]

\* In a directory: the name asked for and the links made to it.
Placed(p, attrs) ==
    IF ~To(p, {"directory"}) THEN {}
    ELSE {<<p11_enumerate_filename(attrs),
            IF \E f \in Format(p) : Formats[f].links
            THEN p11_openssl_symlink(attrs) ELSE {}>>}

\* assert (value < INT16_MAX) behind the alias.
Asserts(p, entry) ==
    Format(p) = {"java-cacerts"} => EncodesShort(add_string(Len(entry.alias)))

\* x509-file writes the first certificate when it finds it and stops at a second.
Takes(p, o, r) ==
    LET entry == Written(p, o.attrs)
        taken == [r EXCEPT !.out = Append(@, [obj |-> o, entry |-> entry,
                                             place |-> Placed(p, o.attrs)])]
    IN  CASE ~Asserts(p, entry) -> [r EXCEPT !.at = "abort"]
          [] To(p, {"first"}) /\ r.out # <<>> -> [r EXCEPT !.at = "finish", !.ret = 0]
          [] To(p, {"first"}) /\ r.out = <<>> -> [taken EXCEPT !.dest = "kept"]
          [] OTHER -> taken

Object(p) ==
    /\ run[p].at = "objects"
    /\ run[p].found # {}
    /\ LET o == First(run[p].found)
           r == [run[p] EXCEPT !.found = @ \ {o}, !.ex = IF "correlate" \in @.flags
                                                             THEN Seen(@, o.attrs) ELSE @]
          IN  IF o \in objects /\ Taken(run[p].ex, o.attrs, OnToken(p))
              THEN Set(p, Takes(p, o, r))
              ELSE Set(p, IF o \in objects THEN r ELSE [run[p] EXCEPT !.found = @ \ {o}])
    /\ UNCHANGED objects

\* A write, or the file of a directory, fails and ends the loop; formats that
\* build a buffer write only when it is complete.
WriteFails(p) ==
    /\ run[p].at = "objects"
    /\ run[p].found # {}
    /\ run[p].dest = "open" \/ (To(p, {"first"}) /\ run[p].out = <<>>)
    /\ \E o \in {First(run[p].found)} \cap objects :
          /\ Taken(run[p].ex, o.attrs, OnToken(p))
          /\ Set(p, [run[p] EXCEPT !.at = "finish", !.ret = 1])
    /\ UNCHANGED objects

\* The iteration is over, or fails: C_GetSlotList, C_OpenSession, C_FindObjects.
IterationEnds(p) ==
    /\ run[p].at = "objects"
    /\ \/ /\ Searching(p)
          /\ run[p].left = <<>>
          /\ Set(p, [run[p] EXCEPT !.at = "finish", !.ret =
                        IF To(p, {"first"}) /\ run[p].out = <<>> THEN 1 ELSE 0])
       \/ Searching(p) /\ Set(p, [run[p] EXCEPT !.at = "finish", !.ret = 1])
    /\ UNCHANGED objects

BlocklistFails(p) ==
    /\ run[p].at = "blocklist"
    /\ Searching(p)
    /\ Set(p, Exits(run[p], 1))
    /\ UNCHANGED objects

\* p11_save_finish_file keeps or discards what was written, and may fail;
\* p11_save_write_and_finish writes a buffer whole.  What p11_save_finish_directory
\* returns is not looked at.
FinishMutant(r) == [r EXCEPT !.at = "cleanup", !.dest = "kept"]
Finish(r) == [r EXCEPT !.at = "cleanup", !.dest = IF r.ret = 0 THEN "kept" ELSE "discarded"]

FinishDestination(p) ==
    LET r == run[p]
        saves == \/ r.dest = "open"
                 \/ r.ret = 0 /\ To(p, {"buffer"})
    IN  /\ r.at = "finish"
        /\ \/ Set(p, IF saves THEN Finish(r) ELSE [r EXCEPT !.at = "cleanup"])
           \/ /\ saves
              /\ ~To(p, {"directory"})
              /\ Set(p, Finish([r EXCEPT !.ret = 1]))
        /\ UNCHANGED objects

p11_enumerate_cleanup(p) ==
    /\ run[p].at = "cleanup"
    /\ Set(p, [run[p] EXCEPT !.at = "exit", !.modules = FALSE, !.token = {}, !.found = {}])
    /\ UNCHANGED objects

(***************************************************************************)
(* anchor.c.  Parsing marks the certificates of a file as anchors.         *)
(***************************************************************************)
ArgFiles(p) == [i \in DOMAIN job[p].args |-> Files[job[p].args[i]]]
Concat(seqs) ==
    LET upto[i \in 0..Len(seqs)] == IF i = 0 THEN <<>> ELSE upto[i - 1] \o seqs[i]
    IN  upto[Len(seqs)]

files_to_attrs(p) ==
    IF \E i \in DOMAIN job[p].args : ArgFiles(p)[i].status # "ok" THEN {}
    ELSE {Concat([i \in DOMAIN job[p].args |-> ArgFiles(p)[i].objects])}

\* The attributes an iterator for an object of a file searches for.
iter_match_anchor(attrs) ==
    [a \in DOMAIN attrs \cap (IF "CKA_CLASS" \in DOMAIN attrs
                              THEN {"CKA_CLASS", "CKA_VALUE"} ELSE {}) |-> attrs[a]]

uris_or_files_to_iters(p) ==
    IF \E i \in DOMAIN job[p].args : ArgFiles(p)[i].status # "ok" THEN {}
    ELSE {Concat([i \in DOMAIN job[p].args |->
                     [k \in DOMAIN ArgFiles(p)[i].objects |->
                         IF job[p].args[i] = "uri" THEN ArgFiles(p)[i].objects[k]
                         ELSE iter_match_anchor(ArgFiles(p)[i].objects[k])]])}

\* The first token that can be written to, of those a session can be opened on.
session_for_store_on_module ==
    {Tokens[i] : i \in {k \in DOMAIN Tokens : Tokens[k].writable}}

anchor_store(p) ==
    LET anchors == files_to_attrs(p)
    IN  /\ run[p].at = "store"
        /\ IF anchors = {} THEN Set(p, Exits(run[p], 1))
           ELSE IF anchors = {<<>>} THEN Set(p, Exits(run[p], 2))
           ELSE \/ \E t \in session_for_store_on_module :
                      Set(p, [run[p] EXCEPT !.at = "find", !.token = {t}, !.modules = TRUE,
                                            !.todo = CHOOSE a \in anchors : TRUE])
                \/ Set(p, Exits(run[p], 1))
        /\ UNCHANGED objects

\* The objects an anchor may be found as: none without a class and a value.
find_anchor(p, attrs) ==
    {o \in objects : /\ \E t \in run[p].token : o.on = t.name
                     /\ {"CKA_CLASS", "CKA_VALUE"} \subseteq DOMAIN attrs
                     /\ Holds(o.attrs, iter_match_anchor(attrs))}

FindAnchor(p) ==
    /\ run[p].at = "find"
    /\ run[p].todo # <<>>
    /\ LET there == find_anchor(p, Head(run[p].todo))
       IN  \/ \E o \in there : Set(p, [run[p] EXCEPT !.at = "put", !.found = {o}])
           \/ there = {} /\ Set(p, [run[p] EXCEPT !.at = "put", !.found = {}])
    /\ UNCHANGED objects

IsCertificate(attrs) == Attr(attrs, "CKA_CLASS") = {"CKO_CERTIFICATE"}
Basics(attrs) ==
    CASE IsCertificate(attrs) -> [CKA_TOKEN |-> TRUE, CKA_TRUSTED |-> TRUE]
      [] Attr(attrs, "CKA_CLASS") = {"CKO_X_CERTIFICATE_EXTENSION"} -> [CKA_TOKEN |-> TRUE]
      [] OTHER -> <<>>
create_anchor(attrs) ==
    LET all == Basics(attrs) @@ attrs
    IN  [a \in DOMAIN all \ {"CKA_MODIFIABLE"} |-> all[a]]

ModifyMutant(attrs) == [a \in DOMAIN attrs \cap {"CKA_LABEL"} |-> attrs[a]]
modify_anchor(attrs) ==
    [a \in DOMAIN attrs \cap {"CKA_LABEL"} |-> attrs[a]]
        @@ (IF IsCertificate(attrs) THEN [CKA_TRUSTED |-> TRUE] ELSE <<>>)

\* C_CreateObject or, when the anchor was found and is still there,
\* C_SetAttributeValue.
PutAnchor(p) ==
    LET r == run[p]
        attrs == Head(r.todo)
        stored(o, gone) ==
            /\ objects' = (objects \ gone) \cup {o}
            /\ Set(p, [r EXCEPT !.at = "find", !.todo = Tail(@), !.found = {}, !.changed = TRUE,
                                !.did = @ \cup {o}])
    IN  /\ r.at = "put"
        /\ \/ /\ r.found = {}
              /\ stored([on |-> (CHOOSE t \in r.token : TRUE).name, nr |-> NextNr,
                         attrs |-> create_anchor(attrs)], {})
           \/ \E o \in objects : /\ \E f \in r.found : f.nr = o.nr
                                 /\ stored([o EXCEPT !.attrs = modify_anchor(attrs) @@ @], {o})

PutFails(p) ==
    /\ run[p].at = "put"
    /\ Set(p, [run[p] EXCEPT !.at = "anchored", !.ret = 1, !.errors = 1])
    /\ UNCHANGED objects

StoreEnds(p) ==
    /\ run[p].at = "find"
    /\ run[p].todo = <<>>
    /\ Set(p, [run[p] EXCEPT !.at = "anchored", !.ret = 0])
    /\ UNCHANGED objects

anchor_remove(p) ==
    LET iters == uris_or_files_to_iters(p)
    IN  /\ run[p].at = "remove"
        /\ IF iters = {} THEN Set(p, Exits(run[p], 1))
           ELSE IF iters = {<<>>} THEN Set(p, Exits(run[p], 2))
           ELSE \/ Set(p, [Begins(run[p], "removing") EXCEPT
                             !.modules = TRUE, !.todo = CHOOSE i \in iters : TRUE])
                \/ Set(p, Exits(run[p], 1))
        /\ UNCHANGED objects

Writable(p) == \A t \in run[p].token : t.writable
RemoveObject(p) ==
    /\ run[p].at = "removing"
    /\ run[p].found # {}
    /\ Writable(p)
    /\ \E o \in {First(run[p].found)} \cap objects :
          /\ objects' = objects \ {o}
          /\ Set(p, [run[p] EXCEPT !.found = @ \ {o}, !.changed = TRUE, !.did = @ \cup {o}])

\* An object of a read-only token, one that is gone, or any other failure.
RemoveFails(p) ==
    /\ run[p].at = "removing"
    /\ run[p].found # {}
    /\ Set(p, [run[p] EXCEPT !.found = @ \ {First(@)}, !.errors = @ + 1])
    /\ UNCHANGED objects

\* remove_all returns: the next iterator begins unless there were errors.
remove_all(r) == [r EXCEPT !.todo = IF r.errors = 0 THEN Tail(@) ELSE <<>>,
                           !.ret = IF r.errors = 0 THEN 0 ELSE 1]
Removed(p) ==
    /\ Searching(p)
    /\ run[p].at = "removing"
    /\ \/ /\ run[p].left = <<>>
          /\ LET r == remove_all(run[p])
             IN  Set(p, IF r.todo = <<>> THEN [r EXCEPT !.at = "anchored"]
                        ELSE Begins(r, "removing"))
       \/ Set(p, [run[p] EXCEPT !.at = "anchored", !.ret = 1])
    /\ UNCHANGED objects

\* The modules are released; then p11_trust_extract_compat replaces the process by
\* the script that extracts the bundles, or fails.
Anchored(p) ==
    LET r == [run[p] EXCEPT !.modules = FALSE, !.token = {}, !.found = {}]
    IN  /\ run[p].at = "anchored"
        /\ Set(p, IF r.ret = 0 /\ r.changed THEN [r EXCEPT !.at = "compat"]
                  ELSE Exits(r, r.ret))
        /\ UNCHANGED objects

p11_trust_extract_compat(p) ==
    /\ run[p].at = "compat"
    /\ \E status \in {0, 2} : Set(p, Exits(run[p], status))
    /\ UNCHANGED objects

(***************************************************************************)
(* check-format.c                                                          *)
(***************************************************************************)
check_format(file) ==
    CASE file.status = "missing" -> "error"
      [] file.status = "ok" -> "ok"
      [] OTHER -> "fail"
CheckFormat(p) ==
    LET files == ArgFiles(p)
        i == Len(run[p].out) + 1
    IN  /\ run[p].at = "check"
        /\ IF i > Len(files) THEN Set(p, Exits(run[p], 0))
           ELSE LET r == [run[p] EXCEPT !.out = Append(@, check_format(files[i]))]
                IN  Set(p, IF check_format(files[i]) = "error" THEN Exits(r, 2) ELSE r)
        /\ UNCHANGED objects

Extracts(p) ==
    \/ p11_enumerate_ready(p) \/ ReadyFails(p)
    \/ BlocklistObject(p) \/ BlocklistLoaded(p) \/ BlocklistFails(p)
    \/ OpenDestination(p) \/ Object(p) \/ WriteFails(p) \/ IterationEnds(p)
    \/ FinishDestination(p) \/ p11_enumerate_cleanup(p)

Anchors(p) ==
    \/ anchor_store(p) \/ FindAnchor(p) \/ PutAnchor(p) \/ PutFails(p) \/ StoreEnds(p)
    \/ anchor_remove(p) \/ RemoveObject(p) \/ RemoveFails(p) \/ Removed(p)
    \/ Anchored(p) \/ p11_trust_extract_compat(p)

Next == \E p \in Procs : Main(p) \/ Visit(p) \/ Extracts(p) \/ Anchors(p) \/ CheckFormat(p)

Spec == Init /\ [][Next]_vars

-----------------------------------------------------------------------------
TypeOK ==
    /\ \A p \in Procs :
          /\ run[p].ret \in 0..2
          /\ run[p].dest \in {"none", "open", "kept", "discarded"}
          /\ \A o \in run[p].found \cup run[p].did : o.nr < NextNr
    /\ Cardinality({o.nr : o \in objects}) = Cardinality(objects)

\* What stays for as long as the processes run.
Lasting == Stored \cap objects

Ever == Stored \cup objects \cup UNION {run[p].did : p \in Procs}

\* Some object says that a certificate is not to be trusted.
Distrusted(attrs, among) ==
    \E o \in among :
        /\ Attr(o.attrs, "CKA_X_DISTRUSTED") = {TRUE}
        /\ \/ Attr(o.attrs, "CKA_PUBLIC_KEY_INFO") \cap Attr(attrs, "CKA_PUBLIC_KEY_INFO") # {}
           \/ /\ Attr(o.attrs, "CKA_ISSUER") \cap Attr(attrs, "CKA_ISSUER") # {}
              /\ Attr(o.attrs, "CKA_SERIAL_NUMBER") \cap Attr(attrs, "CKA_SERIAL_NUMBER") # {}

\* The purposes of a certificate: those stapled to it, or its own.
StapledTo(o) ==
    {e \in Ever : e.on = o.on /\ Attr(e.attrs, "oid") = {"eku"}
                  /\ Attr(e.attrs, "CKA_PUBLIC_KEY_INFO") = Attr(o.attrs, "CKA_PUBLIC_KEY_INFO")}
Purposes(o) ==
    IF StapledTo(o) = {} THEN Attr(o.attrs, "eku")
    ELSE {e.attrs["purposes"] : e \in StapledTo(o)}

\* What the filters and purposes of a command ask of a certificate.
Wanted(p, o, distrust) ==
    LET ex == run[p].ex
        flags == ex.flags \cap {"anchors", "blocklist"}
        distrusted == Attr(o.attrs, "CKA_X_DISTRUSTED") = {TRUE}
    IN  /\ Holds(o.attrs, ex.match)
        /\ IsCertificate(o.attrs) /\ Attr(o.attrs, "CKA_VALUE") \ {"broken"} # {}
        /\ flags # {} =>
              \/ "blocklist" \in flags /\ distrusted
              \/ /\ "anchors" \in flags /\ ~distrusted
                 /\ Attr(o.attrs, "CKA_TRUSTED") = {TRUE}
                 /\ ex.uri = {} => ~Distrusted(o.attrs, distrust)
        /\ ex.purposes # {} =>
              \A purposes \in Purposes(o) : purposes \cap (ex.purposes \cup {"any"}) # {}


\* The objects that the arguments of `trust anchor' name.
Named(p, o) ==
    \E i \in DOMAIN job[p].args : \E k \in DOMAIN ArgFiles(p)[i].objects :
        LET a == ArgFiles(p)[i].objects[k]
        IN  IF job[p].args[i] = "uri" THEN Holds(o.attrs, a)
            ELSE /\ Attr(o.attrs, "CKA_CLASS") = Attr(a, "CKA_CLASS")
                 /\ Attr(o.attrs, "CKA_VALUE") = Attr(a, "CKA_VALUE")

\* `trust anchor --remove' removes only objects that its arguments name.
\* [doc/manual/trust.xml: `Matching anchors will be removed.']
RemovesOnlyNamed ==
    \A p \in Procs : Options(job[p]).set = {"remove"} => \A o \in run[p].did : Named(p, o)

\* When `trust anchor' comes to extracting the bundles, or ends well, each anchor
\* it was to store is on the token, and trusted, unless another command has
\* changed or removed it, and none of the objects it was to remove is left of
\* those that were there before.  It only removes objects it was to remove.
\* [anchor.c: anchor_store, find_anchor, modify_anchor, anchor_remove, remove_all]
AnchorsFollow ==
    /\ RemovesOnlyNamed
    /\ \A p \in Procs :
          LET r == run[p]
              done == r.at = "compat" \/ (r.at = "exit" /\ r.ret = 0)
              others == {d.nr : d \in UNION {run[q].did : q \in Procs \ {p}}}
          IN  /\ job[p].tool = "anchor" /\ r.at \in {"compat", "exit"} => ~r.modules
              /\ job[p].tool = "anchor" /\ done /\ Options(job[p]).status = {} =>
                    IF Options(job[p]).set = {"remove"}
                    THEN \A o \in Lasting : ~Named(p, o)
                    ELSE \A i \in DOMAIN job[p].args :
                            \A k \in DOMAIN ArgFiles(p)[i].objects :
                               LET a == ArgFiles(p)[i].objects[k]
                               IN  \E o \in r.did :
                                      /\ Attr(o.attrs, "CKA_CLASS") = Attr(a, "CKA_CLASS")
                                      /\ Attr(o.attrs, "CKA_VALUE") = Attr(a, "CKA_VALUE")
                                      /\ IsCertificate(a) => Attr(o.attrs, "CKA_TRUSTED") = {TRUE}
                                      /\ o \in objects \/ o.nr \in others

\* Anchors are written in a format without trust information only for one
\* purpose.  [extract.c, validate_filter_and_format: `If we're extracting anchors,
\* then we must have either limited the purposes, or have a format that can
\* represent multiple purposes.']
AnchorsNeedPurpose ==
    \A p \in Procs :
        /\ job[p].tool = "extract"
        /\ run[p].dest = "kept"
        /\ "anchors" \in run[p].ex.flags
        /\ \A f \in Format(p) : ~Formats[f].policy
        => run[p].ex.purposes # {}
===================================================================================
