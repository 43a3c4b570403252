-------------------------- MODULE FileStoreProofs --------------------------
(***************************************************************************)
(* Proofs about the file-backed store, for any number of mutations, file   *)
(* operations that fail and kills of the process.  While no two saves have *)
(* been under way at once, the one save that is owns the temporary name,   *)
(* and what it is about to put in place is never older than what is there. *)
(***************************************************************************)
EXTENDS FileStore, TLAPS

(* A descriptor is held from Open to the end of Write only.                *)
OpenWhileWriting ==
    \A s \in Savers : saver[s].pc # "write" => saver[s].fd = Nil

(* Close has not saved before it has stopped the store.                    *)
CloseSavesOnce == ~ stopped => saver[Closer].pc = "idle"

(* At most one save is between its snapshot and its rename.                *)
OneSaveAtATime ==
    \A s, t \in Savers : Writing(s) /\ Writing(t) => s = t

(* It has truncated the temporary file, or has filled it with its snapshot.*)
TmpIsOwned ==
    \A s \in Savers :
        /\ saver[s].pc = "write" => saver[s].fd = tmp /\ tmp # Nil /\ inode[tmp] = Empty
        /\ saver[s].pc = "rename" => tmp # Nil /\ inode[tmp] = saver[s].snap

(* The file is another inode, and older than any snapshot and the memory,  *)
(* but not than what Close has saved.                                      *)
FileIsOlder ==
    /\ path # Nil => path # tmp /\ inode[path] \in Gens /\ inode[path] <= mem
    /\ \A s \in Savers : Writing(s) =>
          /\ saver[s].snap <= mem
          /\ path # Nil => inode[path] <= saver[s].snap
    /\ closedAt # Nil => path # Nil /\ closedAt <= inode[path]

Orderly == OneSaveAtATime /\ TmpIsOwned /\ FileIsOlder

(* The inductive invariant.  OnlyOverlapDamages says nothing of the        *)
(* temporary file, which the next rename makes the file.                   *)
IInv ==
    /\ TypeOK
    /\ OpenWhileWriting /\ CloseSavesOnce
    /\ ~ overlap => Orderly

-----------------------------------------------------------------------------
(* The sentinels are none of the values they stand apart from.             *)
LEMMA Sentinels ==
  /\ MaxMutations \in Nat /\ MaxFailures \in Nat /\ MaxCrashes \in Nat
  /\ Nil \notin Inodes /\ Nil \notin Gens /\ Empty \notin Gens /\ Mixed \notin Gens
BY BoundsAssumption, SentinelAssumption DEF Gens

(* When there is no temporary file, opening it takes an inode that neither *)
(* the file nor the other save has.                                        *)
LEMMA UnusedInode ==
  ASSUME TypeOK, OpenWhileWriting, NEW s \in Savers, saver[s].pc = "open", tmp = Nil
  PROVE  /\ (CHOOSE i \in Unused : TRUE) \in Inodes
         /\ (CHOOSE i \in Unused : TRUE) # path
<1>1. PICK t \in Savers : Savers = {s, t}
  BY DEF Savers, AutoSave, Closer
<1>2. saver[s].fd = Nil
  BY DEF OpenWhileWriting
<1>3. {saver[r].fd : r \in Savers} = {Nil, saver[t].fd}
  BY <1>1, <1>2
<1>4. path \in Inodes \cup {Nil} /\ saver[t].fd \in Inodes \cup {Nil}
  BY <1>1 DEF TypeOK
<1>5. Inodes \ {path, saver[t].fd} # {}
  BY <1>4, InodesAssumption
<1>6. Unused # {}
  BY <1>3, <1>5, Sentinels DEF Unused
<1> QED BY <1>6 DEF Unused

(* What Open makes of the temporary name.                                  *)
LEMMA OpenTakes ==
  ASSUME TypeOK, OpenWhileWriting, NEW s \in Savers, Open(s)
  PROVE  \E i \in Inodes :
            /\ i # path \/ (tmp # Nil /\ i = tmp)
            /\ tmp' = i /\ path' = path
            /\ inode' = [inode EXCEPT ![i] = Empty]
            /\ saver' = [saver EXCEPT ![s] = [@ EXCEPT !.pc = "write", !.fd = i]]
<1>1. CASE tmp = Nil
  <2>1. saver[s].pc = "open"
    BY DEF Open
  <2> QED BY <1>1, <2>1, UnusedInode DEF Open
<1>2. CASE tmp # Nil
  BY <1>2 DEF Open, TypeOK
<1> QED BY <1>1, <1>2

(* One save takes a step, the other stays where it is.                     *)
Saves == [pc : {"idle", "snapshot", "open", "write", "rename", "exit"},
          snap : Gens, fd : Inodes \cup {Nil}]

Moves(s, pc, snap, fd) ==
    /\ saver' \in [Savers -> Saves]
    /\ saver'[s].pc = pc /\ saver'[s].snap = snap /\ saver'[s].fd = fd
    /\ \A t \in Savers \ {s} : saver'[t] = saver[t]

LEMMA SaverStep ==
  ASSUME saver \in [Savers -> Saves], NEW s \in Savers,
         NEW pc \in {"idle", "snapshot", "open", "write", "rename", "exit"},
         NEW snap \in Gens, NEW fd \in Inodes \cup {Nil}
  PROVE  /\ saver' = [saver EXCEPT ![s].pc = pc] => Moves(s, pc, saver[s].snap, saver[s].fd)
         /\ saver' = [saver EXCEPT ![s] = [@ EXCEPT !.pc = pc, !.snap = snap]] =>
              Moves(s, pc, snap, saver[s].fd)
         /\ saver' = [saver EXCEPT ![s] = [@ EXCEPT !.pc = pc, !.fd = fd]] =>
              Moves(s, pc, saver[s].snap, fd)
         /\ saver' = [saver EXCEPT ![s] = [pc |-> pc, snap |-> snap, fd |-> fd]] =>
              Moves(s, pc, snap, fd)
<1>1. saver' = [saver EXCEPT ![s].pc = pc] => Moves(s, pc, saver[s].snap, saver[s].fd)
  BY DEF Moves, Saves
<1>2. saver' = [saver EXCEPT ![s] = [@ EXCEPT !.pc = pc, !.snap = snap]] => Moves(s, pc, snap, saver[s].fd)
  BY DEF Moves, Saves
<1>3. saver' = [saver EXCEPT ![s] = [@ EXCEPT !.pc = pc, !.fd = fd]] => Moves(s, pc, saver[s].snap, fd)
  BY DEF Moves, Saves
<1>4. saver' = [saver EXCEPT ![s] = [pc |-> pc, snap |-> snap, fd |-> fd]] =>
        Moves(s, pc, snap, fd)
  BY DEF Moves, Saves
<1> QED BY <1>1, <1>2, <1>3, <1>4

(* What each action does to the save it is about.                          *)
LEMMA Steps ==
  ASSUME TypeOK, OpenWhileWriting, NEW s \in Savers
  PROVE  /\ AutoTick => Moves(AutoSave, "snapshot", saver[AutoSave].snap, saver[AutoSave].fd)
         /\ AutoExit => Moves(AutoSave, "exit", saver[AutoSave].snap, saver[AutoSave].fd)
         /\ BeginClose => Moves(Closer, "snapshot", saver[Closer].snap, saver[Closer].fd)
         /\ Snapshot(s) => Moves(s, "open", mem, saver[s].fd)
         /\ Open(s) => Moves(s, "write", saver[s].snap, tmp')
         /\ Write(s) => Moves(s, "rename", saver[s].snap, Nil)
         /\ Finish(s) => Moves(s, IF s = Closer THEN "exit" ELSE "idle", 0, Nil)
<1>1. /\ saver \in [Savers -> Saves] /\ mem \in Gens /\ 0 \in Gens
      /\ AutoSave \in Savers /\ Closer \in Savers /\ Nil \in Inodes \cup {Nil}
  BY Sentinels DEF TypeOK, Saves, Savers, Gens
<1>2. ASSUME NEW t \in Savers
      PROVE  saver[t].snap \in Gens /\ saver[t].fd \in Inodes \cup {Nil}
  BY <1>1 DEF Saves
<1>3. ASSUME NEW t \in Savers, NEW pc \in {"snapshot", "exit"}, Goto(t, pc)
      PROVE  Moves(t, pc, saver[t].snap, saver[t].fd)
  BY <1>1, <1>2, <1>3, SaverStep DEF Goto
<1>4. Snapshot(s) => Moves(s, "open", mem, saver[s].fd)
  BY <1>1, <1>2, SaverStep DEF Snapshot
<1>5. ASSUME Open(s)
      PROVE  Moves(s, "write", saver[s].snap, tmp')
  <2>1. PICK i \in Inodes :
            /\ tmp' = i
            /\ saver' = [saver EXCEPT ![s] = [@ EXCEPT !.pc = "write", !.fd = i]]
    BY <1>5, OpenTakes
  <2> QED BY <1>1, <1>2, <2>1, SaverStep
<1>6. Write(s) => Moves(s, "rename", saver[s].snap, Nil)
  BY <1>1, <1>2, SaverStep DEF Write
<1>7. Finish(s) => Moves(s, IF s = Closer THEN "exit" ELSE "idle", 0, Nil)
  BY <1>1, <1>2, SaverStep DEF Finish
<1> QED BY <1>1, <1>3, <1>4, <1>5, <1>6, <1>7 DEF AutoTick, AutoExit, BeginClose

(* Types are kept by every step, and so are the first two rules.           *)
Steady == TypeOK /\ OpenWhileWriting /\ CloseSavesOnce

LEMMA TypeStep ==
  ASSUME Steady, [Next]_vars
  PROVE  Steady'
<1> USE DEF OpenWhileWriting, CloseSavesOnce
<1>1. ASSUME NEW w \in Writers, Mutate(w) \/ MarkDirty(w)
      PROVE  Steady'
  <2>1. mem' \in Gens
    BY <1>1, Sentinels DEF Steady, TypeOK, Mutate, MarkDirty, Gens
  <2>2. /\ writer' \in [Writers -> {"idle", "mark"}] /\ dirty' \in BOOLEAN
        /\ UNCHANGED <<stopped, saver, inode, path, tmp, closedAt, overlap, failures, crashes>>
    BY <1>1 DEF Steady, TypeOK, Mutate, MarkDirty, fsVars
  <2> QED BY <2>1, <2>2 DEF Steady, TypeOK
<1>2. ASSUME NEW s \in Savers, NEW pc, NEW snap, NEW fd, Moves(s, pc, snap, fd),
             pc # "write" => fd = Nil,
             s = Closer /\ ~ stopped' => pc = "idle", stopped => stopped',
             /\ dirty' \in BOOLEAN /\ stopped' \in BOOLEAN /\ overlap' \in BOOLEAN
             /\ inode' \in [Inodes -> Contents] /\ {path', tmp'} \subseteq Inodes \cup {Nil}
             /\ closedAt' \in Gens \cup {Nil} /\ failures' \in 0..MaxFailures
             /\ UNCHANGED <<mem, writer, crashes>>
      PROVE  Steady'
  <2>1. TypeOK'
    BY <1>2 DEF Steady, TypeOK, Moves, Saves
  <2>2. OpenWhileWriting'
    BY <1>2 DEF Steady, Moves
  <2>3. CloseSavesOnce'
    BY <1>2 DEF Steady, Moves, Savers
  <2> QED BY <2>1, <2>2, <2>3 DEF Steady
<1>3. CASE AutoTick \/ AutoExit
  <2>1. PICK pc \in {"snapshot", "exit"} :
          Moves(AutoSave, pc, saver[AutoSave].snap, saver[AutoSave].fd)
    BY <1>3, Steps DEF Steady, Savers
  <2>2. saver[AutoSave].fd = Nil /\ AutoSave # Closer /\ AutoSave \in Savers
    BY <1>3 DEF Steady, AutoTick, AutoExit, Savers, AutoSave, Closer
  <2> QED BY <1>2, <1>3, <2>1, <2>2 DEF Steady, TypeOK, AutoTick, AutoExit, fsVars
<1>4. CASE BeginClose
  <2>1. Moves(Closer, "snapshot", saver[Closer].snap, saver[Closer].fd)
    BY <1>4, Steps DEF Steady, Savers
  <2>2. saver[Closer].fd = Nil /\ Closer \in Savers
    BY <1>4 DEF Steady, BeginClose, Savers
  <2> QED BY <1>2, <1>4, <2>1, <2>2 DEF Steady, TypeOK, BeginClose, fsVars
<1>5. ASSUME NEW s \in Savers, SaveStep(s) \/ SaveFails(s)
      PROVE  Steady'
  <2>1. s = Closer => stopped
    BY <1>5 DEF Steady, SaveStep, SaveFails, Snapshot, Open, Write, Rename, RenameMissing, Writing
  <2>2. CASE Snapshot(s)
    <3>1. saver[s].fd = Nil /\ overlap' \in BOOLEAN
      BY <2>2 DEF Steady, Snapshot
    <3> QED BY <1>2, <2>1, <2>2, <3>1, Steps DEF Steady, TypeOK, Snapshot, fsVars
  <2>3. CASE Open(s)
    <3>1. PICK i \in Inodes : tmp' = i /\ inode' = [inode EXCEPT ![i] = Empty]
      BY <2>3, OpenTakes DEF Steady
    <3>2. inode' \in [Inodes -> Contents]
      BY <3>1 DEF Steady, TypeOK, Contents
    <3>3. /\ Moves(s, "write", saver[s].snap, tmp')
          /\ UNCHANGED <<mem, dirty, stopped, writer, path, closedAt, overlap, failures, crashes>>
      BY <2>3, Steps DEF Steady, Open
    <3> QED BY <1>2, <2>1, <3>1, <3>2, <3>3 DEF Steady, TypeOK
  <2>4. CASE Write(s)
    <3>1. PICK c \in Contents : inode' = [inode EXCEPT ![saver[s].fd] = c]
      BY <2>4 DEF Write, Steady, TypeOK, Contents
    <3> QED BY <1>2, <2>1, <2>4, <3>1, Steps DEF Steady, TypeOK, Write
  <2>5. CASE Rename(s) \/ RenameMissing(s) \/ SaveFails(s)
    <3>1. Moves(s, IF s = Closer THEN "exit" ELSE "idle", 0, Nil)
      BY <2>5, Steps DEF Steady, Rename, RenameMissing, SaveFails
    <3>2. closedAt' \in Gens \cup {Nil} /\ failures' \in 0..MaxFailures
      BY <2>5, Sentinels DEF Steady, TypeOK, Rename, RenameMissing, SaveFails
    <3>3. /\ UNCHANGED <<mem, dirty, stopped, writer, inode, overlap, crashes>>
          /\ {path', tmp'} \subseteq Inodes \cup {Nil}
      BY <2>5 DEF Steady, TypeOK, Rename, RenameMissing, SaveFails, fsVars
    <3> DEFINE pc == IF s = Closer THEN "exit" ELSE "idle"
    <3>4. pc # "write" /\ (s = Closer => stopped')
      BY <2>1, <3>3
    <3> HIDE DEF pc
    <3> QED BY <1>2, <3>1, <3>2, <3>3, <3>4 DEF Steady, TypeOK
  <2> QED BY <1>5, <2>2, <2>3, <2>4, <2>5 DEF SaveStep
<1>6. CASE CrashAndRestart
  <2>1. saver' = [s \in Savers |-> NotSaving] /\ Closer \in Savers
    BY <1>6 DEF CrashAndRestart, Savers
  <2>2. mem' \in Gens /\ NotSaving.snap \in Gens
    BY <1>6, Sentinels DEF CrashAndRestart, Gens, NotSaving
  <2>3. saver' \in [Savers -> [pc : {"idle", "snapshot", "open", "write", "rename", "exit"},
                               snap : Gens, fd : Inodes \cup {Nil}]]
    BY <2>1, <2>2 DEF NotSaving
  <2>4. writer' \in [Writers -> {"idle", "mark"}] /\ crashes' \in 0..MaxCrashes
    BY <1>6, Sentinels DEF Steady, TypeOK, CrashAndRestart
  <2>5. TypeOK'
    BY <1>6, <2>2, <2>3, <2>4 DEF Steady, TypeOK, CrashAndRestart, fsVars
  <2> QED BY <2>1, <2>5 DEF Steady, NotSaving
<1>7. CASE UNCHANGED vars
  BY <1>7 DEF Steady, TypeOK, vars, fsVars
<1> QED BY <1>1, <1>3, <1>4, <1>5, <1>6, <1>7 DEF Next

(* A state in which two saves have been under way is never left again.     *)
LEMMA OverlapStays ==
  ASSUME [Next]_vars, ~ overlap'
  PROVE  ~ overlap
<1>1. ASSUME NEW s \in Savers, SaveStep(s) \/ SaveFails(s)
      PROVE  ~ overlap
  BY <1>1 DEF SaveStep, Snapshot, Open, Write, Rename, RenameMissing, SaveFails
<1>2. ASSUME NEW w \in Writers, Mutate(w) \/ MarkDirty(w)
      PROVE  ~ overlap
  BY <1>2 DEF Mutate, MarkDirty
<1>3. CASE AutoTick \/ AutoExit \/ BeginClose \/ CrashAndRestart
  BY <1>3 DEF AutoTick, AutoExit, BeginClose, CrashAndRestart
<1>4. CASE UNCHANGED vars
  BY <1>4 DEF vars
<1> QED BY <1>1, <1>2, <1>3, <1>4 DEF Next

-----------------------------------------------------------------------------
(* While no two saves overlap.                                             *)

(* A save that is not under way neither owns nor promises anything.        *)
LEMMA QuietMove ==
  ASSUME Steady, Orderly, NEW s \in Savers, NEW pc, NEW snap, NEW fd, Moves(s, pc, snap, fd),
         pc \notin {"open", "write", "rename"},
         UNCHANGED <<mem, inode, path, tmp, closedAt>>
  PROVE  Orderly'
BY DEF Orderly, OneSaveAtATime, TmpIsOwned, FileIsOlder, Writing, Moves

LEMMA SnapshotOrderly ==
  ASSUME Steady, Orderly, NEW s \in Savers, Snapshot(s), ~ overlap'
  PROVE  Orderly'
<1>1. Moves(s, "open", mem, saver[s].fd) /\ UNCHANGED <<mem, inode, path, tmp, closedAt>>
  BY Steps DEF Steady, Snapshot, fsVars
<1>2. \A t \in Savers \ {s} : ~ Writing(t)
  BY DEF Snapshot
<1>3. mem \in Nat
  BY Sentinels DEF Steady, TypeOK, Gens
<1>4. OneSaveAtATime' /\ TmpIsOwned'
  BY <1>1, <1>2 DEF Orderly, OneSaveAtATime, TmpIsOwned, Writing, Moves
<1>5. FileIsOlder'
  BY <1>1, <1>2, <1>3 DEF Orderly, FileIsOlder, Writing, Moves
<1> QED BY <1>4, <1>5 DEF Orderly

(* The save that is under way moves on: what it owns is its own business.  *)
LEMMA WritingMove ==
  ASSUME Steady, Orderly, NEW s \in Savers, Writing(s),
         NEW pc \in {"open", "write", "rename"}, NEW fd, Moves(s, pc, saver[s].snap, fd),
         UNCHANGED <<mem, path, closedAt>>,
         path # Nil => path' # tmp' /\ inode'[path] = inode[path],
         pc = "write" => fd = tmp' /\ tmp' # Nil /\ inode'[tmp'] = Empty,
         pc = "rename" => tmp' # Nil /\ inode'[tmp'] = saver[s].snap
  PROVE  Orderly'
<1>1. \A t \in Savers \ {s} : ~ Writing(t)
  BY DEF Orderly, OneSaveAtATime
<1>2. OneSaveAtATime'
  BY <1>1 DEF OneSaveAtATime, Writing, Moves
<1>3. TmpIsOwned'
  BY <1>1 DEF TmpIsOwned, Writing, Moves
<1>4. FileIsOlder'
  BY <1>1 DEF Orderly, FileIsOlder, Writing, Moves
<1> QED BY <1>2, <1>3, <1>4 DEF Orderly

LEMMA OpenOrderly ==
  ASSUME Steady, Orderly, NEW s \in Savers, Open(s)
  PROVE  Orderly'
<1>1. PICK i \in Inodes :
        /\ i # path \/ (tmp # Nil /\ i = tmp)
        /\ tmp' = i /\ path' = path
        /\ inode' = [inode EXCEPT ![i] = Empty]
  BY OpenTakes DEF Steady
<1>2. i # Nil /\ i # path /\ path \in Inodes \cup {Nil} /\ inode \in [Inodes -> Contents]
  BY <1>1, Sentinels DEF Steady, TypeOK, Orderly, FileIsOlder
<1>3. Moves(s, "write", saver[s].snap, tmp') /\ Writing(s)
  BY Steps DEF Steady, Open, Writing
<1>4. path # Nil => inode'[path] = inode[path]
  BY <1>1, <1>2
<1>5. inode'[i] = Empty
  BY <1>1, <1>2
<1> QED BY <1>1, <1>2, <1>3, <1>4, <1>5, WritingMove DEF Open

LEMMA WriteOrderly ==
  ASSUME Steady, Orderly, NEW s \in Savers, Write(s)
  PROVE  Orderly'
<1>1. Moves(s, "rename", saver[s].snap, Nil) /\ Writing(s)
  BY Steps DEF Steady, Write, Writing
<1>2. saver[s].fd = tmp /\ tmp \in Inodes /\ inode[tmp] = Empty
  BY DEF Write, Orderly, TmpIsOwned, Steady, TypeOK
<1>3. inode' = [inode EXCEPT ![tmp] = saver[s].snap]
  BY <1>2 DEF Write
<1>4. tmp # Nil /\ path \in Inodes \cup {Nil} /\ inode \in [Inodes -> Contents]
  BY <1>2, Sentinels DEF Steady, TypeOK
<1>5. path # Nil => path # tmp
  BY DEF Orderly, FileIsOlder
<1>6. /\ path # Nil => inode'[path] = inode[path]
      /\ inode'[tmp] = saver[s].snap
  BY <1>2, <1>3, <1>4, <1>5
<1>7. UNCHANGED <<mem, path, tmp, closedAt>>
  BY DEF Write
<1> QED BY <1>1, <1>4, <1>5, <1>6, <1>7, WritingMove

(* The rename puts the snapshot in the place of an older one.              *)
LEMMA RenameOrderly ==
  ASSUME Steady, Orderly, NEW s \in Savers, Rename(s)
  PROVE  Orderly' /\ OnDisk' \in Gens /\ (OnDisk \in Gens => OnDisk <= OnDisk')
<1>1. /\ Moves(s, IF s = Closer THEN "exit" ELSE "idle", 0, Nil)
      /\ Writing(s) /\ UNCHANGED <<mem, inode>> /\ path' = tmp /\ tmp' = Nil /\ tmp # Nil
      /\ closedAt' = IF s = Closer THEN saver[s].snap ELSE closedAt
  BY Steps DEF Steady, Rename, Writing
<1>2. \A t \in Savers \ {s} : ~ Writing(t)
  BY <1>1 DEF Orderly, OneSaveAtATime
<1>3. \A t \in Savers : ~ Writing(t)'
  BY <1>1, <1>2 DEF Writing, Moves
<1>4. /\ inode[tmp] = saver[s].snap /\ saver[s].snap \in Gens /\ saver[s].snap <= mem
      /\ path # Nil => inode[path] <= saver[s].snap /\ inode[path] \in Gens
      /\ closedAt # Nil => path # Nil /\ closedAt <= inode[path] /\ closedAt \in Gens
  BY <1>1 DEF Rename, Orderly, TmpIsOwned, FileIsOlder, Steady, TypeOK
<1>5. OneSaveAtATime' /\ TmpIsOwned'
  BY <1>3 DEF OneSaveAtATime, TmpIsOwned, Writing
<1>6. inode'[path'] = saver[s].snap
  BY <1>1, <1>4
<1>7. closedAt' # Nil => closedAt' <= saver[s].snap
  BY <1>1, <1>4 DEF Gens
<1>8. FileIsOlder'
  BY <1>1, <1>3, <1>4, <1>6, <1>7 DEF FileIsOlder
<1>9. OnDisk' = saver[s].snap /\ (path # Nil => OnDisk = inode[path]) /\ (path = Nil => OnDisk = Nil)
  BY <1>1, <1>6 DEF OnDisk
<1> QED BY <1>4, <1>5, <1>8, <1>9, Sentinels DEF Orderly

LEMMA OrderlyStep ==
  ASSUME Steady, Orderly, [Next]_vars, ~ overlap'
  PROVE  Orderly'
<1>1. ASSUME NEW w \in Writers, Mutate(w) \/ MarkDirty(w)
      PROVE  Orderly'
  <2>1. /\ mem' \in Nat /\ mem \in Nat /\ mem <= mem'
        /\ UNCHANGED <<saver, inode, path, tmp, closedAt>>
    BY <1>1, Sentinels DEF Mutate, MarkDirty, fsVars, Steady, TypeOK, Gens
  <2>2. \A s \in Savers : saver[s].snap \in Nat
    BY Sentinels DEF Steady, TypeOK, Gens
  <2> QED BY <2>1, <2>2 DEF Orderly, OneSaveAtATime, TmpIsOwned, FileIsOlder, Writing, Gens
<1>2. CASE AutoTick \/ AutoExit
  <2>1. PICK pc \in {"snapshot", "exit"} :
          Moves(AutoSave, pc, saver[AutoSave].snap, saver[AutoSave].fd)
    BY <1>2, Steps DEF Steady, Savers
  <2>2. UNCHANGED <<mem, inode, path, tmp, closedAt>> /\ AutoSave \in Savers
    BY <1>2 DEF AutoTick, AutoExit, fsVars, Savers
  <2> QED BY <2>1, <2>2, QuietMove
<1>3. CASE BeginClose
  BY <1>3, Steps, QuietMove DEF Steady, BeginClose, fsVars, Savers
<1>4. ASSUME NEW s \in Savers, SaveStep(s) \/ SaveFails(s)
      PROVE  Orderly'
  <2>1. CASE RenameMissing(s) \/ SaveFails(s)
    <3> DEFINE pc == IF s = Closer THEN "exit" ELSE "idle"
    <3>1. Moves(s, pc, 0, Nil) /\ UNCHANGED <<mem, inode, path, tmp, closedAt>>
      BY <2>1, Steps DEF Steady, RenameMissing, SaveFails, fsVars
    <3>2. pc \notin {"open", "write", "rename"}
      OBVIOUS
    <3> HIDE DEF pc
    <3> QED BY <3>1, <3>2, QuietMove
  <2> QED BY <1>4, <2>1, SnapshotOrderly, OpenOrderly, WriteOrderly, RenameOrderly DEF SaveStep
<1>5. CASE CrashAndRestart
  <2>1. /\ \A s \in Savers : saver'[s].pc = "idle"
        /\ closedAt' = Nil /\ UNCHANGED <<inode, path, tmp>>
        /\ path # Nil => mem' = inode[path]
    BY <1>5 DEF CrashAndRestart, NotSaving, fsVars, OnDisk, Orderly, FileIsOlder
  <2>2. OneSaveAtATime' /\ TmpIsOwned'
    BY <2>1 DEF OneSaveAtATime, TmpIsOwned, Writing
  <2>3. FileIsOlder'
    BY <2>1, Sentinels DEF Orderly, FileIsOlder, Writing, Gens
  <2> QED BY <2>2, <2>3 DEF Orderly
<1>6. CASE UNCHANGED vars
  BY <1>6 DEF vars, fsVars, Orderly, OneSaveAtATime, TmpIsOwned, FileIsOlder, Writing
<1> QED BY <1>1, <1>2, <1>3, <1>4, <1>5, <1>6 DEF Next

-----------------------------------------------------------------------------
LEMMA InitIInv == Init => IInv
<1> SUFFICES ASSUME Init PROVE IInv
  OBVIOUS
<1>1. 0 \in Gens /\ \A s \in Savers : saver[s] = NotSaving
  BY Sentinels DEF Init, Gens
<1>2. saver \in [Savers -> [pc : {"idle", "snapshot", "open", "write", "rename", "exit"},
                            snap : Gens, fd : Inodes \cup {Nil}]]
  BY <1>1 DEF Init, NotSaving
<1>3. TypeOK
  <2>1. inode \in [Inodes -> Contents] /\ writer \in [Writers -> {"idle", "mark"}]
    BY DEF Init, Contents
  <2>2. failures \in 0..MaxFailures /\ crashes \in 0..MaxCrashes
    BY Sentinels DEF Init
  <2> QED BY <1>1, <1>2, <2>1, <2>2 DEF Init, TypeOK
<1>4. OpenWhileWriting /\ CloseSavesOnce
  BY <1>1 DEF OpenWhileWriting, CloseSavesOnce, NotSaving, Savers
<1>5. OneSaveAtATime /\ TmpIsOwned
  BY <1>1 DEF OneSaveAtATime, TmpIsOwned, Writing, NotSaving
<1>6. FileIsOlder
  BY <1>1 DEF Init, FileIsOlder, Writing, NotSaving
<1> QED BY <1>3, <1>4, <1>5, <1>6 DEF IInv, Orderly

LEMMA NextIInv == IInv /\ [Next]_vars => IInv'
<1> SUFFICES ASSUME IInv, [Next]_vars PROVE IInv'
  OBVIOUS
<1>1. Steady'
  BY TypeStep DEF IInv, Steady
<1>2. ~ overlap' => Orderly'
  BY OverlapStays, OrderlyStep DEF IInv, Steady
<1> QED BY <1>1, <1>2 DEF IInv, Steady

LEMMA SpecIInv == Spec => []IInv
BY InitIInv, NextIInv, PTL DEF Spec

(* Every variable keeps its type, whatever fails and whenever the process  *)
(* is killed; in particular there is always an inode for the next save.    *)
THEOREM TypeCorrect == Spec => []TypeOK
<1>1. IInv => TypeOK
  BY DEF IInv
<1> QED BY <1>1, SpecIInv, PTL

(* Wherever the process is killed, a restart finds a file it can parse, and*)
(* what Close saved stays saved, unless two saves have overlapped.         *)
THEOREM OverlapAloneDamages == Spec => []OnlyOverlapDamages
<1>1. IInv => OnlyOverlapDamages
  <2> SUFFICES ASSUME IInv, ~ overlap PROVE FileLoadable /\ CloseIsFinal
    BY DEF OnlyOverlapDamages
  <2> QED BY Sentinels
         DEF IInv, Orderly, FileIsOlder, FileLoadable, CloseIsFinal, OnDisk, TypeOK, Gens
<1> QED BY <1>1, SpecIInv, PTL

(* The file never goes back to an older state of the cache, across kills   *)
(* and failed saves too, unless two saves have overlapped.                 *)
THEOREM FileNeverBackwards == Spec => NeverBackwards
<1>1. ASSUME IInv, [Next]_vars, ~ overlap', OnDisk \in Gens, OnDisk' \in Gens
      PROVE  OnDisk' >= OnDisk
  <2>1. Steady /\ Orderly
    BY <1>1, OverlapStays DEF IInv, Steady
  <2>2. ASSUME NEW s \in Savers, Rename(s)
        PROVE  OnDisk' >= OnDisk
    BY <1>1, <2>1, <2>2, RenameOrderly DEF Gens
  <2>3. ASSUME UNCHANGED <<path, inode>>
        PROVE  OnDisk' >= OnDisk
    BY <1>1, <2>3 DEF OnDisk, Gens
  <2>4. ASSUME NEW s \in Savers, Open(s) \/ Write(s)
        PROVE  OnDisk' >= OnDisk
    <3>1. path' = path /\ path # Nil /\ path \in Inodes /\ inode \in [Inodes -> Contents]
      BY <1>1, <2>1, <2>4, Sentinels DEF Open, Write, OnDisk, Steady, TypeOK
    <3>2. PICK i, c : i # path /\ inode' = [inode EXCEPT ![i] = c]
      <4>1. CASE Open(s)
        BY <2>1, <3>1, <4>1, OpenTakes DEF Steady, Orderly, FileIsOlder
      <4>2. CASE Write(s)
        BY <2>1, <3>1, <4>2 DEF Write, Orderly, TmpIsOwned, FileIsOlder
      <4> QED BY <2>4, <4>1, <4>2
    <3> QED BY <1>1, <3>1, <3>2 DEF OnDisk, Gens
  <2>5. (\E s \in Savers : Open(s) \/ Write(s) \/ Rename(s)) \/ UNCHANGED <<path, inode>>
    BY <1>1 DEF Next, Mutate, MarkDirty, AutoTick, AutoExit, BeginClose, SaveStep, Snapshot,
                RenameMissing, SaveFails, CrashAndRestart, vars, fsVars
  <2> QED BY <2>2, <2>3, <2>4, <2>5
<1>2. IInv /\ [Next]_vars =>
        [(~ overlap' /\ OnDisk \in Gens /\ OnDisk' \in Gens) => (OnDisk' >= OnDisk)]_vars
  BY <1>1
<1> QED BY <1>2, SpecIInv, PTL DEF Spec, NeverBackwards
=============================================================================
