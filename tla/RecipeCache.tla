----------------------------- MODULE RecipeCache -----------------------------
(***************************************************************************)
(* The on-disk recipe cache (compile_cached, runtime.rs): processes that   *)
(* load a compiled recipe from the file named for the graph's digest, or   *)
(* compile it and store it for the next one.  A store writes a file of its *)
(* own (named for the key and the process id) and renames it; processes    *)
(* are killed between any two steps, and the power may fail.               *)
(*                                                                         *)
(* The file system is modelled by inodes: a rename moves a name, a writer  *)
(* keeps the inode it opened.  A file's content is the key of the graph    *)
(* whose whole recipe it holds, or Torn.  Process ids are those of the     *)
(* processes' own namespaces: two containers that share the directory may  *)
(* have the same one.                                                      *)
(***************************************************************************)
EXTENDS Integers, FiniteSets

CONSTANTS
    Proc,       \* the processes
    Pids,       \* the process ids the processes may have: a set of functions
    PidSet,
    Key,        \* digests of graphs, with the compiler's salt
    Inode,
    MaxBuilds   \* bound: the builds a process starts

CONSTANTS Torn, NoFile

ASSUME CacheAssumption ==
    /\ Torn \notin Key
    /\ NoFile \notin Inode
    /\ Pids \subseteq [Proc -> PidSet] /\ "recipe" \notin PidSet
    /\ MaxBuilds \in Nat

VARIABLES
    pid,    \* the process id of every process
    name,   \* the inode of every path, NoFile when there is none
    data,   \* the content of every inode
    pc,     \* where a process is
    key,    \* the graph it builds
    open,   \* the inode it writes
    got,    \* the recipe it holds
    builds, \* history: builds it started
    lost,   \* history: whether the power has failed
    killed  \* history: the temporary files of processes that were killed

vars == <<pid, name, data, pc, key, open, got, builds, lost, killed>>

\* The stored recipe of a key, and the file a process writes it to first.
Path(k) == <<k, "recipe">>
\* Mutant: the temporary name leaves the key out.
KeylessTmp(k, p) == <<CHOOSE o \in Key : TRUE, pid[p]>>
Tmp(k, p) == <<k, pid[p]>>
Paths == Key \X (PidSet \cup {"recipe"})

Content == Key \cup {Torn}
Pcs == {"idle", "lookup", "load", "compile", "store", "write", "rename", "remove", "dead"}

Init ==
    /\ pid \in Pids
    /\ name = [f \in Paths |-> NoFile]
    /\ data = [i \in Inode |-> Torn]
    /\ pc = [p \in Proc |-> "idle"]
    /\ key \in [Proc -> Key]
    /\ open = [p \in Proc |-> NoFile]
    /\ got = [p \in Proc |-> Torn]
    /\ builds = [p \in Proc |-> 0]
    /\ lost = FALSE
    /\ killed = {}

\* Inodes that have neither a name nor a writer.
Unused == {i \in Inode : (\A f \in Paths : name[f] # i) /\ (\A p \in Proc : open[p] # i)}
Writers(i) == {p \in Proc : open[p] = i}

Goto(p, l) == pc' = [pc EXCEPT ![p] = l]
Files == <<name, data>>
Holds == <<open, got>>
Past == <<pid, builds, lost, killed>>

Begin(p, k) ==
    /\ pc[p] = "idle" /\ builds[p] < MaxBuilds
    /\ builds' = [builds EXCEPT ![p] = @ + 1]
    /\ key' = [key EXCEPT ![p] = k]
    /\ got' = [got EXCEPT ![p] = Torn]
    /\ Goto(p, "lookup")
    /\ UNCHANGED <<pid, Files, open, lost, killed>>

\* p.is_file()
Lookup(p) ==
    /\ pc[p] = "lookup"
    /\ Goto(p, IF name[Path(key[p])] # NoFile THEN "load" ELSE "compile")
    /\ UNCHANGED <<Files, Holds, key, Past>>

\* synRecipeDeSerialize: a whole file may be refused too (an older library);
\* one that is torn always is.
Loads(p) ==
    /\ pc[p] = "load"
    /\ name[Path(key[p])] # NoFile
    /\ data[name[Path(key[p])]] # Torn
    /\ got' = [got EXCEPT ![p] = data[name[Path(key[p])]]]
    /\ Goto(p, "idle")
    /\ UNCHANGED <<Files, open, key, Past>>
LoadFails(p) ==
    /\ pc[p] = "load"
    /\ Goto(p, "compile")
    /\ UNCHANGED <<Files, Holds, key, Past>>

\* synGraphCompile
Compiles(p) ==
    /\ pc[p] = "compile"
    /\ got' = [got EXCEPT ![p] = key[p]]
    /\ Goto(p, "store")
    /\ UNCHANGED <<Files, open, key, Past>>
CompileFails(p) ==
    /\ pc[p] = "compile"
    /\ Goto(p, "idle")
    /\ UNCHANGED <<Files, Holds, key, Past>>

\* create_dir_all failed: the recipe is returned all the same.
NoDirectory(p) ==
    /\ pc[p] = "store"
    /\ Goto(p, "idle")
    /\ UNCHANGED <<Files, Holds, key, Past>>

\* synRecipeSerialize opens the file, which empties it, and writes it.
Opens(p, f) ==
    /\ pc[p] = "store"
    /\ \E i \in IF name[f] # NoFile THEN {name[f]} ELSE {CHOOSE n \in Inode : n \in Unused} :
        /\ name[f] # NoFile \/ Unused # {}
        /\ name' = [name EXCEPT ![f] = i]
        /\ data' = [data EXCEPT ![i] = Torn]
        /\ open' = [open EXCEPT ![p] = i]
    /\ Goto(p, "write")
    /\ UNCHANGED <<got, key, Past>>
\* Mutant: the recipe is written where it is stored.
OpenPath(p) == Opens(p, Path(key[p]))
Open(p) == Opens(p, Tmp(key[p], p))

\* Two writers of one file may leave either's bytes or a mixture.
Written(p) ==
    /\ pc[p] = "write"
    /\ \E c \in IF Writers(open[p]) = {p} THEN {got[p]} ELSE {got[p], Torn} :
        data' = [data EXCEPT ![open[p]] = c]
    /\ open' = [open EXCEPT ![p] = NoFile]
    /\ Goto(p, "rename")
    /\ UNCHANGED <<name, got, key, Past>>
\* Mutant: the status of synRecipeSerialize is not looked at.
WriteUnchecked(p) ==
    /\ pc[p] = "write"
    /\ open' = [open EXCEPT ![p] = NoFile]
    /\ Goto(p, "rename")
    /\ UNCHANGED <<Files, got, key, Past>>
WriteFails(p) ==
    /\ pc[p] = "write"
    /\ open' = [open EXCEPT ![p] = NoFile]
    /\ Goto(p, "remove")
    /\ UNCHANGED <<Files, got, key, Past>>

\* rename(tmp, p)
Renames(p) ==
    /\ pc[p] = "rename"
    /\ name[Tmp(key[p], p)] # NoFile
    /\ name' = [name EXCEPT ![Path(key[p])] = name[Tmp(key[p], p)], ![Tmp(key[p], p)] = NoFile]
    /\ Goto(p, "idle")
    /\ UNCHANGED <<data, Holds, key, Past>>
\* Mutant: a rename that failed leaves the temporary file.
RenameFailsLitters(p) ==
    /\ pc[p] = "rename"
    /\ Goto(p, "idle")
    /\ UNCHANGED <<Files, Holds, key, Past>>
RenameFails(p) ==
    /\ pc[p] = "rename"
    /\ Goto(p, "remove")
    /\ UNCHANGED <<Files, Holds, key, Past>>

\* remove_file(tmp); its error is ignored.
\* Mutant: the stored recipe goes with it.
RemovesBoth(p) ==
    /\ pc[p] = "remove"
    /\ name' = [name EXCEPT ![Tmp(key[p], p)] = NoFile, ![Path(key[p])] = NoFile]
    /\ Goto(p, "idle")
    /\ UNCHANGED <<data, Holds, key, Past>>
Removes(p) ==
    /\ pc[p] = "remove"
    /\ name' = [name EXCEPT ![Tmp(key[p], p)] = NoFile]
    /\ Goto(p, "idle")
    /\ UNCHANGED <<data, Holds, key, Past>>

\* A process is killed; another with its process id may start.
Kill(p) ==
    /\ pc[p] \notin {"idle", "dead"}
    /\ Goto(p, "dead")
    /\ killed' = killed \cup {Tmp(key[p], p)}
    /\ open' = [open EXCEPT ![p] = NoFile]
    /\ got' = [got EXCEPT ![p] = Torn]
    /\ UNCHANGED <<pid, Files, key, builds, lost>>
Restart(p) ==
    /\ pc[p] = "dead"
    /\ Goto(p, "idle")
    /\ UNCHANGED <<Files, Holds, key, Past>>

\* Names are kept by the file system's journal, unsynced data may be lost.
PowerLoss ==
    /\ ~lost /\ lost' = TRUE
    /\ \E gone \in SUBSET {i \in Inode : data[i] # Torn} :
        data' = [i \in Inode |-> IF i \in gone THEN Torn ELSE data[i]]
    /\ pc' = [p \in Proc |-> "dead"]
    /\ killed' = killed \cup {Tmp(key[p], p) : p \in Proc}
    /\ open' = [p \in Proc |-> NoFile]
    /\ got' = [p \in Proc |-> Torn]
    /\ UNCHANGED <<pid, name, key, builds>>

Step(p) ==
    \/ \E k \in Key : Begin(p, k)
    \/ Lookup(p) \/ Loads(p) \/ LoadFails(p) \/ Compiles(p) \/ CompileFails(p)
    \/ NoDirectory(p) \/ Open(p) \/ Written(p) \/ WriteFails(p)
    \/ Renames(p) \/ RenameFails(p) \/ Removes(p)
Next == PowerLoss \/ \E p \in Proc : Step(p) \/ Kill(p) \/ Restart(p)

Spec == Init /\ [][Next]_vars
-----------------------------------------------------------------------------
TypeOK ==
    /\ pid \in Pids
    /\ name \in [Paths -> Inode \cup {NoFile}]
    /\ data \in [Inode -> Content]
    /\ pc \in [Proc -> Pcs]
    /\ key \in [Proc -> Key]
    /\ open \in [Proc -> Inode \cup {NoFile}]
    /\ got \in [Proc -> Content]
    /\ builds \in [Proc -> 0..MaxBuilds]
    /\ lost \in BOOLEAN
    /\ killed \subseteq Paths

(***************************************************************************)
(* A build that gets a recipe gets its own graph's, whatever was killed,   *)
(* lost, or written at the same time under the same process id.            *)
(***************************************************************************)
OwnRecipe == \A p \in Proc : got[p] \in {Torn, key[p]}

\* No two processes have one process id.
Distinct == \A p, q \in Proc : pid[p] = pid[q] => p = q

(***************************************************************************)
(* While process ids differ and the power holds, a stored recipe is whole: *)
(* the file is renamed only once it has been written.                      *)
(***************************************************************************)
StoredWhole ==
    Distinct /\ ~lost => \A k \in Key : name[Path(k)] # NoFile => data[name[Path(k)]] # Torn

(***************************************************************************)
(* And no process takes a stored recipe away or spoils it: later builds    *)
(* find what an earlier one stored.                                        *)
(***************************************************************************)
StoredStays ==
    [][~lost' => \A k \in Key : name[Path(k)] # NoFile =>
        /\ name'[Path(k)] # NoFile
        /\ Distinct => data'[name'[Path(k)]] = data[name[Path(k)]]]_vars

(***************************************************************************)
(* Only a process on its way, or one that was killed, leaves a temporary   *)
(* file behind.                                                            *)
(***************************************************************************)
NoLitter ==
    \A f \in Paths : name[f] # NoFile /\ f[2] # "recipe" =>
        \/ f \in killed
        \/ \E p \in Proc : Tmp(key[p], p) = f /\ pc[p] \in {"write", "rename", "remove"}
-----------------------------------------------------------------------------
(* The inductive invariant: what every name, writer and step of a build    *)
(* holds, and what processes of different ids hold besides.                *)

OwnContent ==
    /\ \A f \in Paths : name[f] # NoFile => data[name[f]] \in {Torn, f[1]}
    /\ \A f, g \in Paths : name[f] # NoFile /\ name[f] = name[g] => f = g
Writing ==
    /\ \A p \in Proc : open[p] # NoFile <=> pc[p] = "write"
    /\ \A p \in Proc : pc[p] \in {"store", "write"} => got[p] = key[p]
    /\ \A p \in Proc, f \in Paths : open[p] # NoFile /\ name[f] = open[p] => f[1] = key[p]
    /\ \A p, q \in Proc : open[p] # NoFile /\ open[p] = open[q] => key[p] = key[q]
Alone ==
    Distinct =>
        /\ \A p \in Proc : pc[p] = "write" => name[Tmp(key[p], p)] = open[p]
        /\ \A p \in Proc : pc[p] = "rename" /\ ~lost /\ name[Tmp(key[p], p)] # NoFile =>
               data[name[Tmp(key[p], p)]] = key[p]
IInv == TypeOK /\ OwnContent /\ Writing /\ OwnRecipe /\ Alone /\ StoredWhole
=============================================================================
