------------------------------ MODULE TrustToken ------------------------------
(***************************************************************************)
(* A token of the trust module (trust/token.c): the objects of an index    *)
(* loaded from, and stored to, the files below a directory.  To the fields *)
(* of an index a token adds                                                *)
(*                                                                         *)
(*   loaded     what was loaded: path -> "same", or "changed" once the     *)
(*              stat of the path is no longer the one kept                 *)
(*   checked, make, writable    the answer of check_directory              *)
(*                                                                         *)
(* and, of the file system, `disk' (path -> file, as in TrustParser),      *)
(* `dirs' (the directories there are), `access' (whether the directory may *)
(* be written to) and `fail', the operation of the file system that fails  *)
(* during the call.  An edit is taken to change the stat of a file.        *)
(***************************************************************************)
EXTENDS TrustBuilder, TrustParser

CONSTANTS
    Files,          \* the paths of files of the instance, sorted
    DirOf,          \* path -> "main", "anchors" or "blocklist"
    NameFor,        \* label or class -> the names make_unique_name tries
    TempNames       \* directory -> the names mkstemp comes up with

\* An entry of the directory was added, replaced or removed.
Touch(w, path) ==
    [w EXCEPT !.loaded = [p \in DOMAIN @ |->
        IF p \in {path, DirOf[path]} THEN "changed" ELSE @[p]]]

(***************************************************************************)
(* Writing: a temporary file is put in place of the old one, or under a    *)
(* name that is free.                                                      *)
(***************************************************************************)
check_directory(w) == [make |-> "main" \notin w.dirs, writable |-> w.access]

check_token_directory(w) ==
    IF w.checked THEN w
    ELSE [w EXCEPT !.checked = TRUE, !.make = check_directory(w).make,
                   !.writable = check_directory(w).writable]

mkdir_with_parents(w) ==
    IF w.fail = "mkdir" THEN {} ELSE {[w EXCEPT !.make = FALSE, !.dirs = @ \cup {"main"}]}

writer_suggest_name(attrs) ==
    IF p11_attrs_find_valid(attrs, "LABEL") THEN attrs["LABEL"]
                                            ELSE attrs["CLASS"]

FirstFree(w, names) ==
    names[CHOOSE i \in DOMAIN names :
              /\ names[i] \notin DOMAIN w.disk
              /\ \A j \in 1..(i - 1) : names[j] \in DOMAIN w.disk]

\* The first name, taken or not.
MakeUniqueNameMutant(w, name) == NameFor[name][1]
make_unique_name(w, name) == FirstFree(w, NameFor[name])

writer_put_object(tokens, object) == tokens \o p11_persist_write(object)

\* The header is a comment that says that the file is generated.
writer_put_header == [generated |-> TRUE, der |-> "", tokens |-> <<>>]

Generated(objects) ==
    [writer_put_header EXCEPT !.tokens = Accumulate(writer_put_object, @, objects)]

\* p11_save_open_file, p11_save_write, p11_save_finish_file: a temporary
\* file that cannot be closed or renamed is left behind.
Put(w, path, file) == Touch([w EXCEPT !.disk = (path :> file) @@ @], path)
SaveVia(w, temp, path, overwrite, file) ==
    IF w.fail = "open" THEN [rv |-> "GENERAL_ERROR", w |-> w]
    ELSE IF w.fail = "write" \/ (w.fail = "rename" /\ ~overwrite)
    THEN [rv |-> "FUNCTION_FAILED", w |-> Touch(w, temp)]
    ELSE IF w.fail \in {"close", "rename"}
    THEN [rv |-> "FUNCTION_FAILED", w |-> Put(w, temp, file)]
    ELSE [rv |-> "OK", w |-> Put(w, path, file)]
SaveFile(w, path, overwrite, file) ==
    SaveVia(w, FirstFree(w, TempNames[DirOf[path]]), path, overwrite, file)

AttrsOf(w, handles) == [i \in DOMAIN handles |-> w.objects[handles[i]]]
Others(w, origin, but) ==
    AttrsOf(w, Ascending(p11_index_find_all(w, [X_ORIGIN |-> origin]) \ {but}))

writer_create_origin(w, attrs) == make_unique_name(w, writer_suggest_name(attrs))

writer_overwrite_origin(attrs) == attrs["X_ORIGIN"]

writer_remove_origin(w, path) ==
    IF w.fail = "unlink" \/ path \notin DOMAIN w.disk
    THEN [rv |-> "FUNCTION_FAILED", w |-> w]
    ELSE [rv |-> "OK",
          w |-> Touch([w EXCEPT !.disk = [p \in DOMAIN @ \ {path} |-> @[p]]],
                      path)]

WithOrigin(s, built, path) ==
    [rv |-> s.rv, w |-> s.w,
     built |-> IF s.rv = "OK" THEN p11_attrs_take(built, "X_ORIGIN", path) ELSE built]
StoreIn(w, handle, built, path, creating) ==
    WithOrigin(SaveFile(w, path, ~creating,
                        Generated(<<built>> \o IF creating THEN <<>>
                                               ELSE Others(w, path, handle))),
               built, path)
Storing(w, handle, built, creating) ==
    StoreIn(w, handle, built, IF creating THEN writer_create_origin(w, built)
                              ELSE writer_overwrite_origin(built), creating)
StoreMade(w, handle, built, made) ==
    IF made = {} THEN [rv |-> "FUNCTION_FAILED", w |-> w, built |-> built]
    ELSE Storing(CHOOSE m \in made : TRUE, handle, built, ~p11_attrs_find(built, "X_ORIGIN"))
StoreChecked(w, handle, built) ==
    StoreMade(w, handle, built, IF w.make THEN mkdir_with_parents(w) ELSE {w})
on_index_store(w, handle, built) ==
    IF p11_index_loading(w) THEN [rv |-> "OK", w |-> w, built |-> built]
    ELSE StoreChecked(check_token_directory(w), handle, built)

Rewrite(w, path, others) ==
    IF others # <<>> THEN SaveFile(w, path, TRUE, Generated(others))
    ELSE writer_remove_origin(w, path)
on_index_remove(w, attrs) ==
    IF p11_index_loading(w) THEN [rv |-> "OK", w |-> w]
    ELSE IF ~p11_attrs_find(attrs, "X_ORIGIN")
    THEN [rv |-> "GENERAL_ERROR", w |-> check_token_directory(w)]
    ELSE Rewrite(check_token_directory(w), writer_overwrite_origin(attrs),
                 Others(w, attrs["X_ORIGIN"], 0))

Token == INSTANCE TrustIndex
    WITH Build <- p11_builder_build, Store <- on_index_store,
         Unstore <- on_index_remove, Notify <- p11_builder_changed

(***************************************************************************)
(* Loading.                                                                *)
(***************************************************************************)
\* What has been loaded once is not looked at again.
LoaderMutant(w, path) == path \notin DOMAIN w.loaded
loader_is_necessary(w, path) ==
    path \notin DOMAIN w.loaded \/ w.loaded[path] = "changed"

loader_was_loaded(w, path) == [w EXCEPT !.loaded = (path :> "same") @@ @]

loader_not_loaded(w, path) ==
    [w EXCEPT !.loaded = [p \in DOMAIN @ \ {path} |-> @[p]]]

\* Nothing takes the place of the objects of a file that is gone.
Gone == [ret |-> "GONE", parsed |-> <<>>]

FromFile(path, parsed) ==
    [i \in DOMAIN parsed |-> p11_attrs_take(parsed[i], "X_ORIGIN", path)]

FlagsOf(path) ==
    CASE DirOf[path] = "anchors" -> "anchor"
      [] DirOf[path] = "blocklist" -> "blocklist"
      [] OTHER -> "none"

\* Answers the token and the result: files loaded, or -1.
LoadDone(path, p, r) ==
    IF p.ret # "SUCCESS" THEN [w |-> loader_not_loaded(r.w, path), ret |-> 0]
    ELSE IF r.rv # "OK" THEN [w |-> r.w, ret |-> 0 - 1]
    ELSE [w |-> loader_was_loaded(r.w, path), ret |-> 1]
LoadParsed(w, path, p) ==
    LoadDone(path, p,
             Token!ReplaceInBatch(w, [X_ORIGIN |-> path],
                                  IF p.ret = "SUCCESS" THEN "CLASS" ELSE "INVALID",
                                  FromFile(path, p.parsed)))

loader_gone_file(w, path) == LoadParsed(w, path, Gone)

loader_load_file(w, path) ==
    IF ~loader_is_necessary(w, path) THEN [w |-> w, ret |-> 0]
    ELSE LoadParsed(w, path, p11_parse_file(FlagsOf(path), w.disk[path]))

loader_load_if_file(w, path) ==
    IF path \in DOMAIN w.disk THEN loader_load_file(w, path)
                              ELSE loader_gone_file(w, path)

Subdirectories == <<"anchors", "blocklist">>

\* The paths below a directory, and of these the entries of the directory
\* itself, in the order of strcmp.
Paths(dir) ==
    IF dir = "main" THEN Subdirectories \o Files
    ELSE SelectSeq(Files, LAMBDA p : DirOf[p] = dir)

Entries(w, dir) ==
    SelectSeq(Paths(dir), LAMBDA p :
        \/ p \in DOMAIN w.disk /\ DirOf[p] = dir
        \/ p \in w.dirs)

Step(path, gone) == [path |-> path, gone |-> gone]
Steps(paths, gone) == [i \in DOMAIN paths |-> Step(paths[i], gone)]

Take(w, step) ==
    IF step.gone THEN loader_gone_file(w, step.path).w ELSE loader_load_if_file(w, step.path).w

DirectorySteps(dir, present, entries) ==
    Steps(entries, FALSE)
    \o Steps(SelectSeq(Paths(dir), LAMBDA p :
                 p \in present /\ \A i \in DOMAIN entries : entries[i] # p), TRUE)
loader_load_directory(w, dir, present) == DirectorySteps(dir, present, Entries(w, dir))

Present(w, dir) ==
    {p \in DOMAIN w.loaded : \E i \in DOMAIN Paths(dir) : Paths(dir)[i] = p}

PathSteps(w, dir, present) ==
    IF dir \notin w.dirs THEN <<Step(dir, TRUE)>>
    ELSE IF loader_is_necessary(w, dir) THEN loader_load_directory(w, dir, present)
    ELSE Steps(SelectSeq(Paths(dir), LAMBDA p : p \in present), FALSE)

PathLoaded(w, dir) == IF dir \in w.dirs THEN loader_was_loaded(w, dir) ELSE w
loader_load_path(w, dir) ==
    PathLoaded(Accumulate(Take, w, PathSteps(w, dir, Present(w, dir))), dir)

load_builtin_objects(w) ==
    Token!TakeInBatch(w,
        [CLASS |-> "BUILTIN", TOKEN |-> "true", PRIVATE |-> "false",
         MODIFIABLE |-> "false", LABEL |-> "Trust Anchor Roots"])

p11_token_load(w) ==
    Accumulate(loader_load_path, w,
               IF "main" \in w.dirs THEN <<"main">> \o Subdirectories ELSE <<"main">>)

\* Answers the token and whether the file was loaded anew.
Reloaded(l) == [w |-> l.w, ret |-> l.ret > 0]
p11_token_reload(w, attrs) ==
    IF ~p11_attrs_find(attrs, "X_ORIGIN") THEN [w |-> w, ret |-> FALSE]
    ELSE Reloaded(loader_load_if_file(w, attrs["X_ORIGIN"]))

p11_token_is_writable(w) == check_token_directory(w).writable

p11_token_new(fs, next, order, protected) ==
    load_builtin_objects(
        [loaded |-> [p \in {} |-> ""], checked |-> protected,
         make |-> FALSE, writable |-> FALSE]
        @@ fs @@ p11_index_new(next, TRUE, order))
===============================================================================
