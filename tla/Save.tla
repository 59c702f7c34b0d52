---------------------------------- MODULE Save ----------------------------------
(***************************************************************************)
(* Files and directories written so that a reader finds a whole file or    *)
(* none (trust/save.c).  Processes write at the same time, each system     *)
(* call is a step, may fail, and a process may die between any two.        *)
(*                                                                         *)
(* A file is [by, len]: who wrote it, and how much; Whole is all of it.    *)
(* A job is what a process saves: its flags ("overwrite", "unique" or      *)
(* "none"), whether into a directory, and the entries [base, link].        *)
(***************************************************************************)
EXTENDS Naturals, Sequences, FiniteSets, TLC

CONSTANTS
    Processes,
    Jobs,            \* the assignments of jobs to processes
    Old,             \* the names there are to begin with
    Temp(_, _),      \* process and i -> the i-th name mkstemp makes for it
    Whole            \* the length of what is saved

VARIABLES
    job,             \* process -> its job
    disk,            \* name -> file
    at               \* process -> [pc, n, i, cache, out, ret, stale]

vars == <<job, disk, at>>

\* The entry being saved, its temporary file, and the name asked for.
Entry(p) == job[p].entries[at[p].n]

TempOf(p) == Temp(p, at[p].n)

Goto(p, pc) == at' = [at EXCEPT ![p].pc = pc]

Fails(p, pc) == at' = [at EXCEPT ![p].pc = pc, ![p].ret = FALSE]

Without(names) == [f \in DOMAIN disk \ names |-> disk[f]]

Mine(p, len) == [by |-> p, len |-> len]

(***************************************************************************)
(* The i-th name tried for a base [bare, ext].  Into a directory the first *)
(* name is taken that was not saved there before, for a file the first     *)
(* that link does not find taken.                                          *)
(***************************************************************************)
make_unique_name(base, i) ==
    IF i = 0 THEN base.bare \o base.ext
    ELSE base.bare \o "." \o ToString(i)
         \o IF base.ext = ".0" THEN "" ELSE base.ext

\* Every name is taken to be free.
CheckDirMutant(p, name) == TRUE
on_unique_check_dir(p, name) == name \notin at[p].cache

UniqueIn(p) ==
    LET name(i) == make_unique_name(Entry(p).base, i)
    IN  name(CHOOSE i \in 0..Len(job[p].entries) :
                 /\ on_unique_check_dir(p, name(i))
                 /\ \A j \in 0..(i - 1) : ~on_unique_check_dir(p, name(j)))

Path(p) == IF job[p].dir THEN at[p].out ELSE make_unique_name(Entry(p).base, 0)

(***************************************************************************)
(* A file.                                                                 *)
(***************************************************************************)
p11_save_open_file(p) ==
    /\ at[p].pc = "open"
    /\ \/ disk' = (TempOf(p) :> Mine(p, 0)) @@ disk /\ Goto(p, "write")
       \/ UNCHANGED disk /\ Fails(p, "closed")

\* As much as the system takes; on an error the file is abandoned.
p11_save_write(p) ==
    /\ at[p].pc = "write"
    /\ \/ /\ disk[TempOf(p)].len < Whole
          /\ \E len \in (disk[TempOf(p)].len + 1)..Whole :
                 disk' = [disk EXCEPT ![TempOf(p)].len = len]
          /\ UNCHANGED at
       \/ disk[TempOf(p)].len < Whole /\ Fails(p, "unlink") /\ UNCHANGED disk
       \/ disk[TempOf(p)].len = Whole /\ Goto(p, "close") /\ UNCHANGED disk

\* close, then chmod: when either fails the temporary file stays.
CloseFile(p) ==
    /\ at[p].pc \in {"close", "chmod"}
    /\ \/ Goto(p, IF at[p].pc = "close" THEN "chmod" ELSE "place")
       \/ Fails(p, "closed")
    /\ UNCHANGED disk

Placed(p, name, names) ==
    /\ disk' = (name :> disk[TempOf(p)]) @@ Without(names)
    /\ at' = [at EXCEPT ![p].pc = "unlink", ![p].out = name]

on_unique_try_link(p) ==
    LET name == make_unique_name(Entry(p).base, at[p].i)
    IN  IF name \in DOMAIN disk
        THEN at' = [at EXCEPT ![p].i = @ + 1] /\ UNCHANGED disk
        ELSE Placed(p, name, {})

\* Renames in every case.
FinishFileMutant(p) ==
    /\ at[p].pc = "place"
    /\ \/ Placed(p, Path(p), {TempOf(p)})
       \/ Fails(p, "closed") /\ UNCHANGED disk
\* Rename over the name, or link to one that is free.
p11_save_finish_file(p) ==
    /\ at[p].pc = "place"
    /\ \/ /\ job[p].flags = "overwrite"
          /\ \/ Placed(p, Path(p), {TempOf(p)})
             \/ Fails(p, "closed") /\ UNCHANGED disk
       \/ /\ job[p].flags = "unique"
          /\ \/ on_unique_try_link(p)
             \/ Fails(p, "unlink") /\ UNCHANGED disk
       \/ /\ job[p].flags = "none"
          /\ \/ Path(p) \notin DOMAIN disk /\ Placed(p, Path(p), {})
             \/ Fails(p, "unlink") /\ UNCHANGED disk

UnlinkTemp(p) ==
    /\ at[p].pc = "unlink"
    /\ disk' = Without({TempOf(p)})
    /\ Goto(p, "closed")

(***************************************************************************)
(* A directory: its files one after the other, then what is not of this    *)
(* job is removed.                                                         *)
(***************************************************************************)
p11_save_open_directory(p) ==
    /\ at[p].pc = "start"
    /\ IF job[p].dir /\ job[p].flags # "overwrite" /\ DOMAIN disk # {}
       THEN Fails(p, "done") ELSE Goto(p, "next")
    /\ UNCHANGED disk

p11_save_open_file_in(p) ==
    /\ at[p].pc = "next"
    /\ at[p].n <= Len(job[p].entries)
    /\ UNCHANGED disk
    /\ IF job[p].dir
       THEN at' = [at EXCEPT ![p].pc = IF Entry(p).link THEN "symlink"
                                                        ELSE "open",
                             ![p].out = UniqueIn(p)]
       ELSE Goto(p, "open")

\* What has the name is unlinked, then the link is made.
p11_save_symlink_in(p) ==
    \/ /\ at[p].pc = "symlink"
       /\ disk' = Without({at[p].out})
       /\ Goto(p, "link")
    \/ /\ at[p].pc = "link"
       /\ \/ disk' = (at[p].out :> Mine(p, Whole)) @@ disk /\ Goto(p, "closed")
          \/ UNCHANGED disk /\ Fails(p, "closed")

\* The name of a file is remembered when the file has been opened, that of
\* a link when it has been made.
EntryDone(p) ==
    /\ at[p].pc = "closed"
    /\ UNCHANGED disk
    /\ at' = [at EXCEPT
          ![p].cache = IF job[p].dir THEN @ \cup {at[p].out} ELSE @,
          ![p].n = @ + 1,
          ![p].pc = IF at[p].ret /\ at[p].n < Len(job[p].entries)
                    THEN "next"
                    ELSE IF job[p].dir THEN "finish" ELSE "done"]

cleanup_directory(p) ==
    /\ at[p].pc = "clean"
    /\ IF at[p].stale = {} THEN Goto(p, "done") /\ UNCHANGED disk
       ELSE \E f \in at[p].stale :
               \/ /\ disk' = Without({f})
                  /\ at' = [at EXCEPT ![p].stale = @ \ {f}]
               \/ Fails(p, "done") /\ UNCHANGED disk

\* Only what was saved without an error is committed.
p11_save_finish_directory(p) ==
    /\ at[p].pc = "finish"
    /\ UNCHANGED disk
    /\ IF at[p].ret /\ job[p].flags = "overwrite"
       THEN at' = [at EXCEPT ![p].pc = "clean",
                             ![p].stale = DOMAIN disk \ at[p].cache]
       ELSE Goto(p, "done")

Crash(p) ==
    /\ at[p].pc \notin {"done", "crashed"}
    /\ Goto(p, "crashed")
    /\ UNCHANGED disk

Init ==
    /\ job \in Jobs
    /\ disk = [f \in Old |-> Mine("old", Whole)]
    /\ at = [p \in Processes |-> [pc |-> "start", n |-> 1, i |-> 0,
                                  cache |-> {}, out |-> "", ret |-> TRUE,
                                  stale |-> {}]]

Step(p) ==
    /\ \/ p11_save_open_directory(p) \/ p11_save_open_file_in(p)
       \/ p11_save_open_file(p) \/ p11_save_write(p) \/ CloseFile(p)
       \/ p11_save_finish_file(p) \/ UnlinkTemp(p) \/ p11_save_symlink_in(p)
       \/ EntryDone(p) \/ p11_save_finish_directory(p) \/ cleanup_directory(p)
       \/ Crash(p)
    /\ UNCHANGED job

Next == \E p \in Processes : Step(p)

Spec == Init /\ [][Next]_vars

(***************************************************************************)
(* Properties.                                                             *)
(***************************************************************************)
Temps == {Temp(p, n) : p \in Processes, n \in 1..3}

\* Whoever dies and whatever fails, what a reader finds under a name that
\* is not temporary is a whole file, an old one or a new one.
NamesAreWhole == \A f \in DOMAIN disk \ Temps : disk[f].len = Whole

\* What was there before is only replaced or removed by a job that may
\* overwrite.
NothingOverwritten ==
    (\A p \in Processes : job[p].flags # "overwrite") =>
        \A f \in Old : f \in DOMAIN disk /\ disk[f] = Mine("old", Whole)

\* A job that reports success has its file under the name it reports,
\* unless another process may overwrite it; and its temporary is gone.
SavedIsThere ==
    \A p \in Processes :
        at[p].pc = "done" /\ at[p].ret /\ ~job[p].dir =>
            /\ \/ at[p].out \in DOMAIN disk /\ disk[at[p].out].by = p
               \/ \E q \in Processes \ {p} : job[q].flags = "overwrite"
            /\ Temp(p, 1) \notin DOMAIN disk

\* A directory saved with success holds the entries of the job, all of them
\* under names of their own, and nothing else.
DirectoryIsJob ==
    \A p \in Processes :
        at[p].pc = "done" /\ at[p].ret /\ job[p].dir =>
            /\ Cardinality(DOMAIN disk) = Len(job[p].entries)
            /\ \A f \in DOMAIN disk : disk[f] = Mine(p, Whole)
=================================================================================
