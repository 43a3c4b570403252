------------------------------ MODULE FileStore ------------------------------
(***************************************************************************)
(* Persistence of one tier of the reasoning cache: the fileStore of        *)
(* convert/reasoning_cache.go, its auto-save goroutine, Close, and the     *)
(* process being killed and started again.  What the entries are does not  *)
(* matter here: the memory is the NUMBER of mutations it has seen, a       *)
(* snapshot or a file holds the number it was taken at.                    *)
(*                                                                         *)
(* save writes <path>.tmp and renames it.  Nothing keeps two saves apart,  *)
(* and both use the same temporary name, so the model keeps the two names  *)
(* and the inodes they point to.                                           *)
(***************************************************************************)
EXTENDS Naturals, FiniteSets

CONSTANTS
    Writers,      \* goroutines that call Set or Delete
    Inodes,       \* inodes the directory can use
    CloseAllowed, \* somebody may call ReasoningCache.Close
    MaxMutations, \* bound on Set and Delete calls
    MaxFailures,  \* bound on file operations that fail
    MaxCrashes,   \* bound on kills of the process
    Nil, Empty, Mixed

ASSUME BoundsAssumption ==
    {MaxMutations, MaxFailures, MaxCrashes} \subseteq Nat
ASSUME SentinelAssumption == {Nil, Empty, Mixed} \cap (Nat \cup Inodes) = {}
ASSUME CloseAssumption == CloseAllowed \in BOOLEAN
(* A directory that has no inode left makes WriteFile fail (SaveFails); the*)
(* two names and the file one save has open never use them up.             *)
ASSUME InodesAssumption == \A i, j \in Inodes \cup {Nil} : Inodes \ {i, j} # {}

AutoSave == "autoSave"
Closer == "Close"
Savers == {AutoSave, Closer}

Gens == 0..MaxMutations

(* Inode contents: nothing yet, the JSON of one snapshot, or two writers'  *)
(* bytes over each other.                                                  *)
Contents == Gens \cup {Empty, Mixed}

VARIABLES
    mem,        \* mutations applied to the memoryStore
    dirty,      \* fs.dirty
    stopped,    \* fs.stopped, and closeCh closed
    writer,     \* per goroutine: between ms.Set and dirty = true, or not
    saver,      \* save calls: [pc, snap, fd]
    inode,      \* contents of each inode
    path, tmp,  \* inode the names point to, Nil when there is no such file
    closedAt,   \* the snapshot Close saved, once it has returned nil; else Nil
    overlap,    \* two saves have been under way at once (history)
    failures, crashes

fsVars == <<inode, path, tmp>>
vars == <<mem, dirty, stopped, writer, saver, inode, path, tmp, closedAt, overlap,
          failures, crashes>>

NotSaving == [pc |-> "idle", snap |-> 0, fd |-> Nil]

TypeOK ==
    /\ mem \in Gens
    /\ dirty \in BOOLEAN /\ stopped \in BOOLEAN
    /\ writer \in [Writers -> {"idle", "mark"}]
    /\ saver \in [Savers -> [pc : {"idle", "snapshot", "open", "write", "rename", "exit"},
                             snap : Gens, fd : Inodes \cup {Nil}]]
    /\ inode \in [Inodes -> Contents]
    /\ {path, tmp} \subseteq Inodes \cup {Nil}
    /\ closedAt \in Gens \cup {Nil} /\ overlap \in BOOLEAN
    /\ failures \in 0..MaxFailures /\ crashes \in 0..MaxCrashes

Init ==
    /\ mem = 0
    /\ dirty = FALSE /\ stopped = FALSE
    /\ writer = [w \in Writers |-> "idle"]
    /\ saver = [s \in Savers |-> NotSaving]
    /\ inode = [i \in Inodes |-> Empty]
    /\ path = Nil /\ tmp = Nil
    /\ closedAt = Nil /\ overlap = FALSE
    /\ failures = 0 /\ crashes = 0

-----------------------------------------------------------------------------
(* Set and Delete: the memory first, the dirty flag in a second step.      *)

Mutate(w) ==
    /\ writer[w] = "idle"
    /\ mem < MaxMutations
    /\ mem' = mem + 1
    /\ writer' = [writer EXCEPT ![w] = "mark"]
    /\ UNCHANGED <<dirty, stopped, saver, fsVars, closedAt, overlap, failures, crashes>>

(* Mutant: no flag is raised while a save is under way.                    *)
MarkDirtyUnlessSaving(w) ==
    /\ writer[w] = "mark"
    /\ dirty' = (dirty \/ saver[AutoSave].pc = "idle")
    /\ writer' = [writer EXCEPT ![w] = "idle"]
    /\ UNCHANGED <<mem, stopped, saver, fsVars, closedAt, overlap, failures, crashes>>

MarkDirty(w) ==
    /\ writer[w] = "mark"
    /\ dirty' = TRUE
    /\ writer' = [writer EXCEPT ![w] = "idle"]
    /\ UNCHANGED <<mem, stopped, saver, fsVars, closedAt, overlap, failures, crashes>>

-----------------------------------------------------------------------------
(* autoSave: a tick takes the flag down before anything is saved.          *)

Goto(s, pc) == saver' = [saver EXCEPT ![s].pc = pc]

AutoTick ==
    /\ saver[AutoSave].pc = "idle"
    /\ dirty
    /\ dirty' = FALSE
    /\ Goto(AutoSave, "snapshot")
    /\ UNCHANGED <<mem, stopped, writer, fsVars, closedAt, overlap, failures, crashes>>

AutoExit ==
    /\ saver[AutoSave].pc = "idle"
    /\ stopped
    /\ Goto(AutoSave, "exit")
    /\ UNCHANGED <<mem, dirty, stopped, writer, fsVars, closedAt, overlap, failures, crashes>>

(* Close: the first call sets the flag, stops the goroutine at its next    *)
(* select, and saves in the caller.                                        *)
BeginClose ==
    /\ CloseAllowed
    /\ ~ stopped
    /\ stopped' = TRUE
    /\ Goto(Closer, "snapshot")
    /\ UNCHANGED <<mem, dirty, writer, fsVars, closedAt, overlap, failures, crashes>>

-----------------------------------------------------------------------------
(* save.                                                                   *)

Writing(s) == saver[s].pc \in {"open", "write", "rename"}

Snapshot(s) ==
    /\ saver[s].pc = "snapshot"
    /\ saver' = [saver EXCEPT ![s] = [@ EXCEPT !.pc = "open", !.snap = mem]]
    /\ overlap' = (overlap \/ \E other \in Savers \ {s} : Writing(other))
    /\ UNCHANGED <<mem, dirty, stopped, writer, fsVars, closedAt, failures, crashes>>

Unused == Inodes \ ({path, tmp} \cup {saver[s].fd : s \in Savers})

(* Mutant: the file itself is opened and truncated.                        *)
OpenInPlace(s) ==
    /\ saver[s].pc = "open"
    /\ \E i \in (IF path = Nil THEN {CHOOSE i \in Unused : TRUE} ELSE {path}) :
          /\ path' = i
          /\ inode' = [inode EXCEPT ![i] = Empty]
          /\ saver' = [saver EXCEPT ![s] = [@ EXCEPT !.pc = "write", !.fd = i]]
    /\ UNCHANGED <<mem, dirty, stopped, writer, tmp, closedAt, overlap, failures, crashes>>

(* WriteFile opens the temporary file with O_CREATE and O_TRUNC ...        *)
Open(s) ==
    /\ saver[s].pc = "open"
    /\ \E i \in (IF tmp = Nil THEN {CHOOSE i \in Unused : TRUE} ELSE {tmp}) :
          /\ tmp' = i
          /\ inode' = [inode EXCEPT ![i] = Empty]
          /\ saver' = [saver EXCEPT ![s] = [@ EXCEPT !.pc = "write", !.fd = i]]
    /\ UNCHANGED <<mem, dirty, stopped, writer, path, closedAt, overlap, failures, crashes>>

(* ... and writes from the start of it: over the bytes of the other save,  *)
(* if it has written there since, of which a tail may remain.              *)
Write(s) ==
    /\ saver[s].pc = "write"
    /\ LET i == saver[s].fd IN
       \E c \in (IF inode[i] \in {Empty, saver[s].snap}
                 THEN {saver[s].snap} ELSE {saver[s].snap, Mixed}) :
          inode' = [inode EXCEPT ![i] = c]
    /\ saver' = [saver EXCEPT ![s] = [@ EXCEPT !.pc = "rename", !.fd = Nil]]
    /\ UNCHANGED <<mem, dirty, stopped, writer, path, tmp, closedAt, overlap, failures, crashes>>

Finish(s) == saver' = [saver EXCEPT ![s] =
                         [pc |-> IF s = Closer THEN "exit" ELSE "idle",
                          snap |-> 0, fd |-> Nil]]

Rename(s) ==
    /\ saver[s].pc = "rename"
    /\ tmp # Nil
    /\ path' = tmp /\ tmp' = Nil
    /\ Finish(s)
    /\ closedAt' = IF s = Closer THEN saver[s].snap ELSE closedAt
    /\ UNCHANGED <<mem, dirty, stopped, writer, inode, overlap, failures, crashes>>

(* The other save renamed the file away.                                   *)
RenameMissing(s) ==
    /\ saver[s].pc = "rename"
    /\ tmp = Nil
    /\ Finish(s)
    /\ UNCHANGED <<mem, dirty, stopped, writer, fsVars, closedAt, overlap, failures, crashes>>

(* Any of MkdirAll, WriteFile and Rename may fail; autoSave logs the error *)
(* and goes on to the next tick, Close returns it.                         *)
SaveFails(s) ==
    /\ Writing(s)
    /\ failures < MaxFailures
    /\ failures' = failures + 1
    /\ Finish(s)
    /\ UNCHANGED <<mem, dirty, stopped, writer, fsVars, closedAt, overlap, crashes>>

-----------------------------------------------------------------------------
(* The process is killed and started again: newFileStore loads what the    *)
(* file holds, or starts empty if it cannot be parsed.                     *)
OnDisk == IF path = Nil THEN Nil ELSE inode[path]

(* Mutants: what the file holds is taken as it is; it is not loaded.       *)
RestartUnchecked ==
    /\ crashes < MaxCrashes
    /\ crashes' = crashes + 1
    /\ mem' = OnDisk
    /\ dirty' = FALSE /\ stopped' = FALSE
    /\ writer' = [w \in Writers |-> "idle"]
    /\ saver' = [s \in Savers |-> NotSaving]
    /\ closedAt' = Nil
    /\ UNCHANGED <<fsVars, overlap, failures>>

RestartEmpty ==
    /\ crashes < MaxCrashes
    /\ crashes' = crashes + 1
    /\ mem' = 0
    /\ dirty' = FALSE /\ stopped' = FALSE
    /\ writer' = [w \in Writers |-> "idle"]
    /\ saver' = [s \in Savers |-> NotSaving]
    /\ closedAt' = Nil
    /\ UNCHANGED <<fsVars, overlap, failures>>

CrashAndRestart ==
    /\ crashes < MaxCrashes
    /\ crashes' = crashes + 1
    /\ mem' = IF OnDisk \in Gens THEN OnDisk ELSE 0
    /\ dirty' = FALSE /\ stopped' = FALSE
    /\ writer' = [w \in Writers |-> "idle"]
    /\ saver' = [s \in Savers |-> NotSaving]
    /\ closedAt' = Nil
    /\ UNCHANGED <<fsVars, overlap, failures>>

SaveStep(s) ==
    Snapshot(s) \/ Open(s) \/ Write(s) \/ Rename(s) \/ RenameMissing(s)

Next ==
    \/ \E w \in Writers : Mutate(w) \/ MarkDirty(w)
    \/ AutoTick \/ AutoExit \/ BeginClose
    \/ \E s \in Savers : SaveStep(s) \/ SaveFails(s)
    \/ CrashAndRestart

(* Go keeps running goroutines that can run, and the ticker keeps ticking; *)
(* nothing obliges anybody to mutate, to close, to fail or to crash.       *)
Fairness ==
    /\ WF_vars(AutoTick)
    /\ \A s \in Savers : WF_vars(SaveStep(s))
    /\ \A w \in Writers : WF_vars(MarkDirty(w))

Spec == Init /\ [][Next]_vars /\ Fairness
-----------------------------------------------------------------------------
(* Properties.                                                             *)

(* A restart finds a file it can parse, wherever the process was killed:   *)
(* WriteFile to a temporary name and Rename make one save atomic.  And what*)
(* Close saved stays saved.  Only when the save of Close and an automatic  *)
(* one are under way at once can either fail.                              *)
FileLoadable == path # Nil => OnDisk \in Gens
CloseIsFinal == closedAt # Nil => OnDisk \in Gens /\ OnDisk >= closedAt
OnlyOverlapDamages == ~ overlap => FileLoadable /\ CloseIsFinal

(* The file never goes back to an older state of the cache, across crashes *)
(* too, but for the same overlap.                                          *)
NeverBackwards ==
    [][(~ overlap' /\ OnDisk \in Gens /\ OnDisk' \in Gens) => (OnDisk' >= OnDisk)]_vars

Saved(n) == OnDisk \in Gens /\ OnDisk >= n

(* A mutation gets the cache into the file some time later, unless the     *)
(* process dies or the store is closed first ("JSON dump/load + auto-save  *)
(* goroutine (5s interval)", PLUGGABLE_CACHE_BACKEND.md:44), or a save     *)
(* fails from then on.  autoSave lowers the flag before it saves, and a    *)
(* failed save does not raise it again: what it was to save waits in memory*)
(* for the next mutation, and is then saved with it.                       *)
Told == dirty \/ \E w \in Writers : writer[w] = "mark"

SavedUnlessFailed ==
    \A n \in 1..MaxMutations, k \in 0..MaxFailures :
        (mem >= n /\ Told /\ failures = k)
            ~> (mem < n \/ Saved(n) \/ stopped \/ failures > k)
=============================================================================
