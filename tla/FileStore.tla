------------------------------ MODULE FileStore ------------------------------
(***************************************************************************)
(* What the key store promises a caller that has it to itself, with no      *)
(* chunks, keys, locks or maps: a set of files that can be read, and a set  *)
(* of files on disk that a restart brings back.  A call changes the file it *)
(* stores and no other; a cleanup only takes away; rewriting the metadata   *)
(* saves what is known.                                                     *)
(***************************************************************************)
EXTENDS FiniteSets

CONSTANTS
    Files,          \* the files there are
    Callers,        \* who calls
    None            \* no file

VARIABLES
    known,          \* the files a read returns
    saved,          \* the files that are whole on disk
    up,             \* whether the process runs
    task,           \* what each caller is doing: "store", "commit", "read", "found",
                    \* "clean", "cleaned", "rewrite", "written", or "none"
    file            \* the file it stores or reads

Init ==
    /\ known = {} /\ saved = {} /\ up = TRUE
    /\ task = [g \in Callers |-> "none"]
    /\ file = [g \in Callers |-> None]

Become(g, what) == task' = [task EXCEPT ![g] = what] /\ UNCHANGED <<up, file>>

Return(g) ==
    /\ task' = [task EXCEPT ![g] = "none"]
    /\ file' = [file EXCEPT ![g] = None]
    /\ UNCHANGED up

Ask(g, what, f) ==
    /\ up /\ task[g] = "none"
    /\ task' = [task EXCEPT ![g] = what]
    /\ file' = [file EXCEPT ![g] = f]
    /\ UNCHANGED <<known, saved, up>>

\* Sets that differ in at most one member.
ButFor(S, T, f) == S \ {f} = T \ {f}

\* While a file is being stored it may come and go, and only it.
StoreOn(g) ==
    /\ task[g] \in {"store", "commit"} /\ Become(g, "store")
    /\ ButFor(known', known, file[g]) /\ ButFor(saved', saved, file[g])

\* All its chunks are there and memory knows them before its metadata is written.
Commit(g) ==
    /\ task[g] = "store" /\ Become(g, "commit")
    /\ known' = known \cup {file[g]} /\ ButFor(saved', saved, file[g])

Stored(g) ==
    /\ task[g] = "commit" /\ Return(g)
    /\ file[g] \in known /\ saved' = saved \cup {file[g]}
    /\ UNCHANGED known

StoreFails(g) == task[g] = "store" /\ Return(g) /\ UNCHANGED <<known, saved>>

\* A file is read when, and only when, it is known.
Find(g) ==
    /\ task[g] = "read" /\ file[g] \in known /\ Become(g, "found")
    /\ UNCHANGED <<known, saved>>

Deliver(g) == task[g] = "found" /\ file[g] \in known /\ Return(g) /\ UNCHANGED <<known, saved>>

Refuse(g) == task[g] = "read" /\ file[g] \notin known /\ Return(g) /\ UNCHANGED <<known, saved>>

\* A cleanup takes files away until it fails or nothing known would come back.  (A
\* file that is saved and not known may: a failed store can complete on disk what an
\* earlier cleanup left of it, and memory does not hear of that.)
Clean(g) ==
    /\ task[g] = "clean"
    /\ known' \subseteq known /\ saved' \subseteq saved
    /\ Become(g, "clean") \/ Return(g) \/ (known' \cap saved' = {} /\ Become(g, "cleaned"))

NothingToClean(g) == known \cap saved = {} /\ Ask(g, "cleaned", None)

Cleaned(g) == task[g] = "cleaned" /\ Return(g) /\ known' = {} /\ UNCHANGED saved

\* What rewriting does to the disk, one file at a time.
Resaved == \E f \in Files : ButFor(saved', saved, f)

\* When all metadata has been rewritten, all that is known is saved.
RewriteOn(g) ==
    /\ task[g] = "rewrite" /\ Resaved /\ UNCHANGED known
    /\ Become(g, "rewrite") \/ (known \subseteq saved' /\ Become(g, "written")) \/ Return(g)

NothingToRewrite(g) == known \subseteq saved /\ Ask(g, "written", None)

Rewritten(g) == task[g] = "written" /\ Return(g) /\ UNCHANGED <<known, saved>>

\* The process dies: what was being written is there or not, all else is as it was.
Crash ==
    /\ up /\ up' = FALSE
    /\ known' = {}
    /\ \/ UNCHANGED saved
       \/ \E g \in Callers : task[g] \in {"store", "commit"} /\ ButFor(saved', saved, file[g])
       \/ \E g \in Callers : task[g] = "rewrite" /\ Resaved
    /\ task' = [g \in Callers |-> "none"]
    /\ file' = [g \in Callers |-> None]

\* A restart knows what is on disk, all of it and nothing else.
Restart ==
    /\ ~up /\ up' = TRUE
    /\ known' = saved
    /\ UNCHANGED <<saved, task, file>>

Step(g) ==
    \/ \E f \in Files : Ask(g, "store", f) \/ Ask(g, "read", f)
    \/ Ask(g, "clean", None) \/ Ask(g, "rewrite", None)
    \/ StoreOn(g) \/ Commit(g) \/ Stored(g) \/ StoreFails(g)
    \/ Find(g) \/ Deliver(g) \/ Refuse(g)
    \/ Clean(g) \/ NothingToClean(g) \/ Cleaned(g)
    \/ RewriteOn(g) \/ NothingToRewrite(g) \/ Rewritten(g)

Next == Crash \/ Restart \/ \E g \in Callers : Step(g)

Spec == Init /\ [][Next]_<<known, saved, up, task, file>>

=============================================================================
