--------------------------- MODULE WalFilesProofs ---------------------------
(***************************************************************************)
(* Proofs about WalFiles, for any builds and any bounds.                   *)
(*                                                                         *)
(* What a snapshot is worth depends on its name: the primary always holds  *)
(* the last acknowledged generation, the backup the last but one, and the  *)
(* backup of a missing primary the last.  FileInv says so for every        *)
(* directory a power loss may leave; RunInv ties the process in the middle *)
(* of a Save to the directory it sees.                                     *)
(***************************************************************************)
EXTENDS WalFiles, TLAPS

Saving == pc \in {"write", "rotate", "publish", "sync"}
Undamaged == damaged.wal = 0 /\ damaged.bak = 0
OneFault == damaged.wal <= 1 /\ damaged.bak = 0 /\ stuck = 0

\* What the backup alone would give.
Fallback(d) == IF d.bak.kind = "ok" THEN d.bak.gen ELSE 0

Worth(d) ==
    /\ d.wal.kind = "ok" => d.wal.gen >= acked
    /\ d.bak.kind = "ok" => d.bak.gen >= prior
    /\ d.wal.kind = "none" /\ d.bak.kind = "ok" => d.bak.gen >= acked

Schemas(d) ==
    d.wal.kind = "ok" /\ d.bak.kind = "ok" => d.bak.schema <= d.wal.schema

Intact(d) ==
    Undamaged => d.wal.kind # "bad" /\ d.bak.kind # "bad" /\ Recoverable(d) >= acked

Damaged(d) ==
    OneFault =>
        /\ d.bak.kind # "bad" /\ Recoverable(d) >= prior
        /\ damaged.wal = 0 =>
             d.wal.kind # "bad" /\ (d.wal.kind = "ok" => Fallback(d) >= prior)

FileInv(d) == Worth(d) /\ Schemas(d) /\ Intact(d) /\ Damaged(d)

RunInv ==
    /\ acked >= prior
    /\ pc # "down" =>
         /\ mem >= acked
         /\ ~SchemaNewer(dir.wal, build) /\ ~SchemaNewer(dir.bak, build)
         /\ OneFault => dir.wal.kind # "bad"
    /\ Saving => /\ snap = Snapshot(snap.gen, build, epoch)
                 /\ snap.gen >= acked /\ snap.gen <= mem
    /\ pc = "publish" => dir.wal.kind = "none"
    /\ pc = "sync" =>
         /\ dir.wal = snap
         /\ dir.bak.kind = "ok" => dir.bak.gen >= acked
         /\ Undamaged => Fallback(dir) >= acked

IInv == TypeOK /\ RunInv /\ \A d \in Directories : FileInv(d)

-----------------------------------------------------------------------------
\* The initial states satisfy the invariant.
LEMMA InitIInv == Init => IInv
  <1> SUFFICES ASSUME Init PROVE IInv
    OBVIOUS
  <1>1. TypeOK
    <2>1. NoFile \in File /\ Snapshot(1, 1, 0) \in File
      BY DEF NoFile, Snapshot, File
    <2>2. PICK f \in {NoFile, Snapshot(1, 1, 0)} :
             dir = [wal |-> f, bak |-> NoFile] /\ mem = f.gen /\ acked = f.gen /\ prior = 0
      BY DEF Init
    <2>3. dir \in Directory /\ mem \in Nat /\ acked \in Nat /\ prior \in Nat
      BY <2>1, <2>2 DEF Directory, File
    <2>4. onDisk \subseteq Directory
      BY <2>3 DEF Init
    <2>5. /\ pc = "down" /\ epoch = 0 /\ snap \in File /\ boots = 0
          /\ damaged \in [wal : Nat, bak : Nat] /\ stuck \in Nat
      BY <2>1 DEF Init
    <2>6. leaving \in BOOLEAN /\ build \in Builds
      BY DEF Init
    <2>7. epoch \in Nat /\ tied \in BOOLEAN
      BY DEF Init
    <2> QED BY <2>3, <2>4, <2>5, <2>6, <2>7 DEF TypeOK
  <1>2. RunInv
    BY DEF Init, RunInv, Saving, NoFile, Snapshot
  <1>3. ASSUME NEW d \in Directories PROVE FileInv(d)
    BY DEF Init, Directories, FileInv, Worth, Schemas, Intact, Damaged, Recoverable,
           Fallback, NoFile, Snapshot
  <1> QED BY <1>1, <1>2, <1>3 DEF IInv

\* A directory keeps its worth while the clock runs and nothing is
\* acknowledged or damaged.
LEMMA Kept ==
    ASSUME IInv, NEW d \in Directories,
           boots' \in Nat, boots' >= boots, acked' \in Nat, prior' \in Nat,
           acked' <= acked, prior' <= prior,
           damaged' = damaged, stuck' \in Nat, stuck' >= stuck
    PROVE  FileInv(d)'
  <1>1. FileInv(d) /\ d \in Directory /\ boots \in Nat /\ acked \in Nat /\ prior \in Nat /\ stuck \in Nat
    BY DEF IInv, TypeOK, Directories
  <1>2. Worth(d)' /\ Schemas(d)'
    BY <1>1 DEF FileInv, Worth, Schemas, Directory, File
  <1>3. Intact(d)'
    BY <1>1 DEF FileInv, Intact, Undamaged, Recoverable, Directory, File
  <1>4. Damaged(d)'
    BY <1>1 DEF FileInv, Damaged, OneFault, Recoverable, Fallback, Directory, File
  <1> QED BY <1>2, <1>3, <1>4 DEF FileInv

\* A boot takes over what it found: nothing it has acknowledged is missing.
LEMMA SeedStep ==
    ASSUME IInv, NEW b \in Builds, NEW g \in Nat, NEW e \in Nat,
           Seed(b, g, e)
    PROVE  /\ build' \in Builds /\ mem' \in Nat /\ epoch' \in Nat /\ epoch' # 0 /\ tied' \in BOOLEAN
           /\ pc' \in {"up", "write"} /\ snap' \in File /\ leaving' \in BOOLEAN
           /\ boots' \in Nat /\ acked' \in Nat /\ prior' \in Nat
           /\ boots' >= boots /\ acked' <= acked /\ prior' <= prior
           /\ acked' >= prior' /\ mem' >= acked'
           /\ pc' = "write" => /\ snap' = Snapshot(snap'.gen, build', epoch')
                               /\ snap'.gen >= acked' /\ snap'.gen <= mem'
  <1>1. /\ boots \in Nat /\ acked \in Nat /\ prior \in Nat /\ acked >= prior
        /\ b \in Nat \ {0}
    BY WalAssumption DEF IInv, RunInv, TypeOK
  <1>2. /\ boots' = boots + 1 /\ build' = b /\ mem' = g /\ leaving' = FALSE
        /\ pc' = IF e = 0 THEN "write" ELSE "up"
        /\ snap' = IF e = 0 THEN Snapshot(g, b, epoch') ELSE NoFile
        /\ tied' = (e = 0 /\ epoch' = epoch)
    BY DEF Seed
  <1>3. /\ acked' \in Nat /\ prior' \in Nat /\ acked' <= acked /\ prior' <= prior
        /\ acked' >= prior' /\ g >= acked'
    BY <1>1 DEF Seed, Least
  <1>4. epoch' \in Nat /\ epoch' # 0
    <2>1. PICK now \in 1..MaxClock : epoch' = IF e = 0 THEN now ELSE e
      BY DEF Seed
    <2> QED BY <2>1, WalAssumption
  <1>5. snap' \in File
    BY <1>1, <1>2, <1>4 DEF Snapshot, NoFile, File
  <1>6. pc' = "write" => snap' = Snapshot(g, b, epoch') /\ snap'.gen = g
    BY <1>2 DEF Snapshot
  <1>7. leaving' \in BOOLEAN /\ tied' \in BOOLEAN
    BY <1>2
  <1>8. /\ build' \in Builds /\ mem' \in Nat /\ pc' \in {"up", "write"}
        /\ boots' \in Nat /\ boots' >= boots /\ mem' >= acked'
    BY <1>1, <1>2, <1>3
  <1>9. pc' = "write" => /\ snap' = Snapshot(snap'.gen, build', epoch')
                         /\ snap'.gen >= acked' /\ snap'.gen <= mem'
    BY <1>2, <1>3, <1>6
  <1> QED BY <1>3, <1>4, <1>5, <1>7, <1>8, <1>9

\* Restoring the primary.
LEMMA RestorePrimaryStep == ASSUME IInv, NEW b \in Builds, RestorePrimary(b) PROVE IInv'
  <1> USE DEF RestorePrimary
  <1>1. dir \in Directory /\ dir.wal.kind = "ok" /\ dir.wal.schema <= b /\ FileInv(dir)
    BY DEF Load, Readable, SchemaNewer, IInv, TypeOK, Directory, File, Directories
  <1>2. dir.wal.gen \in Nat /\ dir.wal.epoch \in Nat
    BY <1>1 DEF Directory, File, FileInv
  <1>3. Seed(b, dir.wal.gen, dir.wal.epoch) /\ UNCHANGED <<fileVars, faultVars>>
    OBVIOUS
  <1>4. TypeOK'
    BY <1>2, <1>3, SeedStep DEF IInv, TypeOK, fileVars, faultVars
  <1>5. RunInv'
    <2>1. build' = b
      BY <1>3 DEF Seed
    <2>2. ~SchemaNewer(dir.wal, build)' /\ ~SchemaNewer(dir.bak, build)'
      BY <1>1, <1>3, <2>1, WalAssumption
         DEF SchemaNewer, FileInv, Schemas, fileVars, Directory, File
    <2>3. OneFault' => dir'.wal.kind # "bad"
      BY <1>1, <1>3 DEF fileVars
    <2> QED BY <1>2, <1>3, <2>2, <2>3, SeedStep DEF RunInv, Saving
  <1>6. ASSUME NEW d \in Directories' PROVE FileInv(d)'
    BY <1>2, <1>3, SeedStep, Kept DEF Directories, fileVars, faultVars, IInv, TypeOK
  <1> QED BY <1>4, <1>5, <1>6 DEF IInv

\* Setting the primary aside takes nothing from what can be recovered.
LEMMA QuarantineStep ==
    ASSUME IInv, NEW moved \in BOOLEAN, Quarantine(moved), dir.wal.kind # "ok",
           boots' \in Nat, boots' >= boots, acked' \in Nat, prior' \in Nat,
           acked' <= acked, prior' <= prior,
           dir.bak.kind = "ok" => dir.bak.gen >= acked'
    PROVE  /\ dir' \in Directory /\ onDisk' \subseteq Directory
           /\ stuck' \in Nat /\ damaged' = damaged
           /\ dir'.bak = dir.bak /\ dir'.wal.kind # "ok"
           /\ OneFault' => dir'.wal.kind # "bad"
           /\ \A d \in Directories' : FileInv(d)'
  <1>1. dir \in Directory /\ onDisk \subseteq Directory /\ stuck \in Nat /\ FileInv(dir)
    BY DEF IInv, TypeOK, Directories
  <1>2. stuck' \in Nat /\ stuck' >= stuck /\ damaged' = damaged /\ (~moved => stuck' = stuck + 1)
    BY <1>1 DEF Quarantine
  <1>3. dir' = (IF moved THEN [dir EXCEPT !.wal = NoFile] ELSE dir) /\ onDisk' = onDisk \cup {dir'}
    BY DEF Quarantine
  <1>4. /\ dir' \in Directory /\ onDisk' \subseteq Directory
        /\ dir'.bak = dir.bak /\ dir'.wal.kind # "ok"
    BY <1>1, <1>3 DEF Directory, File, NoFile
  <1>5. OneFault' => dir'.wal.kind # "bad"
    BY <1>1, <1>2, <1>3 DEF OneFault, Directory, File, NoFile
  <1>6. ASSUME NEW d \in Directories' PROVE FileInv(d)'
    <2>1. CASE d \in Directories
      BY <1>2, <2>1, Kept
    <2>2. CASE d \notin Directories
      <3>1. moved /\ d = [dir EXCEPT !.wal = NoFile]
        BY <1>3, <2>2 DEF Directories
      <3>2. d.wal = NoFile /\ d.bak = dir.bak /\ d.bak \in File
        BY <1>1, <3>1 DEF Directory
      <3>3. /\ boots \in Nat /\ acked \in Nat /\ prior \in Nat
            /\ dir.bak.gen \in Nat /\ dir.bak.epoch \in Nat
        BY <1>1 DEF IInv, TypeOK, Directory, File
      <3>4. Worth(d)' /\ Schemas(d)'
        BY <1>1, <3>2, <3>3 DEF FileInv, Worth, Schemas, NoFile
      <3>5. Recoverable(d) = Recoverable(dir)
        BY <3>2 DEF Recoverable, NoFile
      <3>6. Recoverable(d)' = Recoverable(d) /\ Recoverable(dir) \in Nat /\ Fallback(d)' = Fallback(d)
        BY <3>3 DEF Recoverable, Fallback
      <3>7. Intact(d)'
        BY <1>1, <1>2, <3>2, <3>3, <3>5, <3>6 DEF FileInv, Intact, Undamaged, NoFile
      <3>8. Damaged(d)'
        BY <1>1, <1>2, <3>2, <3>3, <3>5, <3>6 DEF FileInv, Damaged, OneFault, NoFile
      <3> QED BY <3>4, <3>7, <3>8 DEF FileInv
    <2> QED BY <2>1, <2>2
  <1> QED BY <1>2, <1>4, <1>5, <1>6

\* Restoring the backup.
LEMMA RestoreBackupStep ==
    ASSUME IInv, NEW b \in Builds, NEW moved \in BOOLEAN, RestoreBackup(b, moved) PROVE IInv'
  <1> USE DEF RestoreBackup
  <1>1. /\ dir \in Directory /\ dir.wal.kind # "ok" /\ FileInv(dir)
        /\ dir.bak.kind = "ok" /\ dir.bak.schema <= b
    BY DEF Load, Readable, SchemaNewer, IInv, TypeOK, Directory, File, Directories
  <1>2. dir.bak.gen \in Nat /\ dir.bak.epoch \in Nat
    BY <1>1 DEF Directory, File, FileInv
  <1>3. Seed(b, dir.bak.gen, dir.bak.epoch) /\ Quarantine(moved)
    OBVIOUS
  <1>4. mem' = dir.bak.gen /\ build' = b
    BY <1>3 DEF Seed
  <1>5. TypeOK'
    BY <1>1, <1>2, <1>3, <1>4, SeedStep, QuarantineStep DEF IInv, TypeOK
  <1>6. RunInv'
    <2>1. ~SchemaNewer(dir.wal, build)' /\ ~SchemaNewer(dir.bak, build)'
      BY <1>1, <1>2, <1>3, <1>4, SeedStep, QuarantineStep, WalAssumption
         DEF SchemaNewer, Directory, File
    <2> QED BY <1>1, <1>2, <1>3, <1>4, <2>1, SeedStep, QuarantineStep DEF RunInv, Saving
  <1>7. \A d \in Directories' : FileInv(d)'
    BY <1>1, <1>2, <1>3, <1>4, SeedStep, QuarantineStep
  <1> QED BY <1>5, <1>6, <1>7 DEF IInv

\* The first boot.
LEMMA StartEmptyStep == ASSUME IInv, NEW b \in Builds, StartEmpty(b) PROVE IInv'
  <1> USE DEF StartEmpty
  <1>1. dir \in Directory /\ dir.wal.kind = "none" /\ dir.bak.kind = "none" /\ boots \in Nat
    BY DEF Load, Readable, SchemaNewer, IInv, TypeOK, Directory, File
  <1>2. Seed(b, 0, 0) /\ UNCHANGED <<fileVars, faultVars>>
    OBVIOUS
  <1>3. TypeOK'
    BY <1>1, <1>2, SeedStep DEF IInv, TypeOK, fileVars, faultVars
  <1>4. RunInv'
    <2>1. ~SchemaNewer(dir.wal, build)' /\ ~SchemaNewer(dir.bak, build)'
      BY <1>1, <1>2 DEF SchemaNewer, fileVars
    <2>2. OneFault' => dir'.wal.kind # "bad"
      BY <1>1, <1>2 DEF fileVars
    <2> QED BY <1>1, <1>2, <2>1, <2>2, SeedStep DEF RunInv, Saving
  <1>5. ASSUME NEW d \in Directories' PROVE FileInv(d)'
    BY <1>1, <1>2, SeedStep, Kept DEF Directories, fileVars, faultVars, IInv, TypeOK
  <1> QED BY <1>3, <1>4, <1>5 DEF IInv

\* Starting empty over unreadable files.
LEMMA RestoreFailedStep ==
    ASSUME IInv, NEW b \in Builds, NEW moved \in BOOLEAN, RestoreFailed(b, moved) PROVE IInv'
  <1> USE DEF RestoreFailed
  <1>1. dir \in Directory /\ dir.wal.kind # "ok" /\ dir.bak.kind # "ok" /\ boots \in Nat
    BY WalAssumption DEF Load, Readable, SchemaNewer, IInv, TypeOK, Directory, File
  <1>2. Seed(b, 0, 0) /\ Quarantine(moved)
    OBVIOUS
  <1>3. TypeOK'
    BY <1>1, <1>2, SeedStep, QuarantineStep DEF IInv, TypeOK
  <1>4. RunInv'
    <2>1. ~SchemaNewer(dir.wal, build)' /\ ~SchemaNewer(dir.bak, build)'
      BY <1>1, <1>2, SeedStep, QuarantineStep DEF SchemaNewer
    <2> QED BY <1>1, <1>2, <2>1, SeedStep, QuarantineStep DEF RunInv, Saving
  <1>5. \A d \in Directories' : FileInv(d)'
    BY <1>1, <1>2, SeedStep, QuarantineStep
  <1> QED BY <1>3, <1>4, <1>5 DEF IInv

\* Steps that leave the files, the acknowledgements and the faults alone.
LEMMA FilesAlone ==
    ASSUME IInv, UNCHANGED <<fileVars, boots, faultVars, ackVars>>
    PROVE  \A d \in Directories' : FileInv(d)'
  BY Kept DEF Directories, fileVars, faultVars, ackVars, IInv, TypeOK

\* The running agent outside the file calls.
LEMMA RunStep ==
    ASSUME IInv, Progress \/ WriteAndFsync \/ (\E final \in BOOLEAN : FlushWAL(final))
    PROVE  IInv'
  <1>1. \A d \in Directories' : FileInv(d)'
    BY FilesAlone DEF Progress, WriteAndFsync, FlushWAL
  <1>2. CASE Progress
    <2>1. TypeOK'
      BY <1>2 DEF Progress, IInv, TypeOK, fileVars, faultVars, ackVars
    <2>2. RunInv'
      <3>1. /\ UNCHANGED <<dir, build, epoch, pc, snap, acked, prior, damaged, stuck>>
            /\ mem \in Nat /\ mem' = mem + 1 /\ acked \in Nat /\ snap.gen \in Nat
        BY <1>2 DEF Progress, IInv, TypeOK, File, fileVars, faultVars, ackVars
      <3>2. RunInv
        BY DEF IInv
      <3> QED BY <3>1, <3>2 DEF RunInv, Saving, Undamaged, OneFault, Fallback, SchemaNewer,
                                Snapshot
    <2> QED BY <1>1, <2>1, <2>2 DEF IInv
  <1>3. CASE WriteAndFsync
    <2>1. TypeOK'
      BY <1>3 DEF WriteAndFsync, IInv, TypeOK, fileVars, faultVars, ackVars
    <2>2. RunInv'
      BY <1>3 DEF WriteAndFsync, IInv, TypeOK, RunInv, Saving, Undamaged, OneFault, Fallback,
                  SchemaNewer, Snapshot, fileVars, faultVars, ackVars
    <2> QED BY <1>1, <2>1, <2>2 DEF IInv
  <1>4. ASSUME NEW final \in BOOLEAN, FlushWAL(final) PROVE IInv'
    <2>1. snap' \in File /\ snap'.gen = mem
      BY <1>4, WalAssumption DEF FlushWAL, IInv, TypeOK, Snapshot, File
    <2>2. leaving' \in BOOLEAN
      BY <1>4 DEF FlushWAL
    <2>3. TypeOK'
      BY <1>4, <2>1, <2>2 DEF FlushWAL, IInv, TypeOK, fileVars, faultVars, ackVars
    <2>4. RunInv'
      <3>1. /\ pc = "up" /\ pc' = "write" /\ UNCHANGED <<dir, build, mem, epoch>>
            /\ acked' = acked /\ prior' = prior /\ (OneFault' => OneFault)
        BY <1>4 DEF FlushWAL, OneFault, fileVars, faultVars, ackVars
      <3>2. snap' = Snapshot(snap'.gen, build', epoch')
        BY <1>4, <2>1 DEF FlushWAL
      <3>3. mem \in Nat /\ acked \in Nat
        BY DEF IInv, TypeOK
      <3> QED BY <2>1, <3>1, <3>2, <3>3 DEF IInv, RunInv, Saving, SchemaNewer
    <2> QED BY <1>1, <2>3, <2>4 DEF IInv
  <1> QED BY <1>2, <1>3, <1>4

\* The rotation turns the primary into the backup, without a loss.
LEMMA RotateStep == ASSUME IInv, Rotate PROVE IInv'
  <1> USE DEF Rotate
  <1>1. /\ dir \in Directory /\ FileInv(dir) /\ pc = "rotate"
        /\ acked \in Nat /\ prior \in Nat /\ acked >= prior /\ boots \in Nat
        /\ NoFile \in File
    BY DEF IInv, TypeOK, Directories, RunInv, NoFile, File
  <1>2. /\ dir'.wal.kind = "none"
        /\ \/ dir' = dir /\ dir.wal.kind = "none"
           \/ dir'.bak = dir.wal /\ dir.wal.kind # "none" /\ dir'.wal = NoFile
    BY <1>1 DEF Directory, NoFile
  <1>3. dir' \in Directory
    BY <1>1 DEF Directory
  <1>4. TypeOK'
    BY <1>3 DEF IInv, TypeOK, faultVars, ackVars
  <1>5. RunInv'
    BY <1>1, <1>2 DEF IInv, RunInv, Saving, OneFault, SchemaNewer, Snapshot, faultVars, ackVars
  <1>6. ASSUME NEW d \in Directories' PROVE FileInv(d)'
    <2>1. CASE d \in Directories
      BY <2>1, Kept DEF IInv, TypeOK, faultVars, ackVars
    <2>2. CASE d \notin Directories
      <3>1. d = dir' /\ d.bak = dir.wal /\ dir.wal.kind # "none" /\ d.wal = NoFile
        BY <1>2, <2>2 DEF Directories
      <3>2. dir.wal \in File /\ dir.wal.gen \in Nat /\ dir.wal.epoch \in Nat /\ NoFile.kind = "none"
        BY <1>1 DEF Directory, File, NoFile
      <3>3. Worth(d)' /\ Schemas(d)'
        BY <1>1, <3>1, <3>2 DEF FileInv, Worth, Schemas, NoFile, ackVars
      <3>4. Recoverable(d)' = Fallback(d)' /\ (dir.wal.kind = "ok" => Fallback(d)' = Recoverable(dir))
        BY <3>1, <3>2 DEF Recoverable, Fallback
      <3>5. Intact(d)'
        BY <1>1, <3>1, <3>2, <3>4 DEF FileInv, Intact, Undamaged, faultVars, ackVars, Directory, File
      <3>6. Damaged(d)'
        <4>1. OneFault => dir.wal.kind = "ok"
          BY <1>1, <3>1 DEF IInv, RunInv, Directory, File
        <4> QED BY <1>1, <3>1, <3>2, <3>4, <4>1 DEF FileInv, Damaged, OneFault, faultVars, ackVars
      <3> QED BY <3>3, <3>5, <3>6 DEF FileInv
    <2> QED BY <2>1, <2>2
  <1> QED BY <1>4, <1>5, <1>6 DEF IInv

\* The new primary is worth what the agent will acknowledge.
LEMMA PublishStep == ASSUME IInv, Publish PROVE IInv'
  <1> USE DEF Publish
  <1>1. /\ dir \in Directory /\ FileInv(dir) /\ pc = "publish" /\ dir.wal.kind = "none"
        /\ snap \in File /\ snap = Snapshot(snap.gen, build, epoch) /\ snap.gen >= acked
        /\ snap.gen \in Nat /\ epoch \in Nat /\ build \in Nat
        /\ acked \in Nat /\ prior \in Nat /\ acked >= prior /\ boots \in Nat
    BY WalAssumption DEF IInv, TypeOK, Directories, RunInv, Saving, File
  <1>2. snap.kind = "ok" /\ snap.schema = build /\ snap.epoch = epoch
    BY <1>1 DEF Snapshot
  <1>3. dir' \in Directory /\ dir'.wal = snap /\ dir'.bak = dir.bak
    BY <1>1 DEF Directory
  <1>4. dir.bak \in File /\ dir.bak.gen \in Nat /\ dir.bak.schema \in Nat
    BY <1>1 DEF Directory, File
  <1>5. Fallback(dir) = Recoverable(dir) /\ Fallback(dir)' = Fallback(dir)
    BY <1>1, <1>3 DEF Fallback, Recoverable
  <1>6. TypeOK'
    BY <1>3 DEF IInv, TypeOK, faultVars, ackVars
  <1>7. RunInv'
    <2>1. ~SchemaNewer(dir.bak, build) /\ mem >= acked
      BY <1>1 DEF IInv, RunInv
    <2>2. Saving' => /\ snap' = Snapshot(snap'.gen, build', epoch')
                     /\ snap'.gen >= acked' /\ snap'.gen <= mem'
      BY <1>1 DEF IInv, RunInv, Saving, ackVars
    <2>3. (dir.bak.kind = "ok" => dir.bak.gen >= acked) /\ (Undamaged => Fallback(dir) >= acked)
      BY <1>1, <1>5 DEF FileInv, Worth, Intact
    <2>4. Undamaged' <=> Undamaged
      BY DEF Undamaged, faultVars
    <2> QED BY <1>1, <1>2, <1>3, <1>5, <2>1, <2>2, <2>3, <2>4 DEF RunInv, SchemaNewer, ackVars
  <1>8. ASSUME NEW d \in Directories' PROVE FileInv(d)'
    <2>1. CASE d \in Directories
      BY <2>1, Kept DEF IInv, TypeOK, faultVars, ackVars
    <2>2. CASE d \notin Directories
      <3>1. d = dir' /\ d.wal = snap /\ d.bak = dir.bak
        BY <1>3, <2>2 DEF Directories
      <3>2. Worth(d)' /\ Schemas(d)'
        <4>1. ~SchemaNewer(dir.bak, build)
          BY <1>1 DEF IInv, RunInv
        <4> QED BY <1>1, <1>2, <1>4, <3>1, <4>1
                DEF FileInv, Worth, Schemas, SchemaNewer, ackVars
      <3>3. Recoverable(d)' = snap.gen /\ Fallback(d)' = Fallback(dir)
        BY <1>2, <3>1 DEF Recoverable, Fallback
      <3>4. Intact(d)'
        BY <1>1, <1>2, <3>1, <3>3 DEF FileInv, Intact, Undamaged, faultVars, ackVars
      <3>5. Damaged(d)'
        BY <1>1, <1>2, <1>5, <3>1, <3>3 DEF FileInv, Damaged, OneFault, faultVars, ackVars
      <3> QED BY <3>2, <3>4, <3>5 DEF FileInv
    <2> QED BY <2>1, <2>2
  <1> QED BY <1>6, <1>7, <1>8 DEF IInv

\* The acknowledgement: the directory is the only one a power loss can leave.
LEMMA SyncDirStep == ASSUME IInv, SyncDir PROVE IInv'
  <1> USE DEF SyncDir, Return
  <1>1. /\ dir \in Directory /\ FileInv(dir) /\ pc = "sync"
        /\ snap = Snapshot(snap.gen, build, epoch) /\ snap.gen >= acked /\ snap.gen \in Nat
        /\ acked \in Nat /\ prior \in Nat /\ acked >= prior /\ boots \in Nat
        /\ mem \in Nat /\ mem >= snap.gen /\ dir.wal = snap
        /\ dir.bak.kind = "ok" => dir.bak.gen >= acked
        /\ Undamaged => Fallback(dir) >= acked
    BY DEF IInv, TypeOK, Directories, RunInv, Saving, File
  <1>2. dir.wal.kind = "ok" /\ NoFile \in File /\ dir.bak.gen \in Nat
    BY <1>1 DEF Snapshot, NoFile, File, Directory
  <1>3. TypeOK'
    <2>1. leaving' \in BOOLEAN
      OBVIOUS
    <2>2. pc' \in {"down", "up"}
      OBVIOUS
    <2> QED BY <1>1, <1>2, <2>1, <2>2 DEF IInv, TypeOK, faultVars
  <1>4. RunInv'
    <2>1. pc' \in {"down", "up"}
      OBVIOUS
    <2>2. (OneFault' => OneFault) /\ (OneFault => dir.wal.kind # "bad")
      BY <1>2 DEF OneFault, faultVars
    <2>3. ~SchemaNewer(dir.wal, build)' /\ ~SchemaNewer(dir.bak, build)'
      BY <1>1 DEF IInv, RunInv, SchemaNewer
    <2> QED BY <1>1, <2>1, <2>2, <2>3 DEF RunInv, Saving
  <1>5. ASSUME NEW d \in Directories' PROVE FileInv(d)'
    <2>1. d = dir
      BY DEF Directories
    <2>2. Worth(d)' /\ Schemas(d)'
      BY <1>1, <1>2, <2>1 DEF FileInv, Worth, Schemas
    <2>3. Recoverable(d)' = snap.gen /\ Fallback(d)' = Fallback(dir)
      BY <1>1, <1>2, <2>1 DEF Recoverable, Fallback
    <2>4. Intact(d)'
      BY <1>1, <1>2, <2>1, <2>3 DEF FileInv, Intact, Undamaged, faultVars
    <2>5. Damaged(d)'
      <3>1. OneFault /\ damaged.wal = 0 => Undamaged
        BY DEF OneFault, Undamaged
      <3> QED BY <1>1, <1>2, <2>1, <2>3, <3>1 DEF FileInv, Damaged, OneFault, faultVars
    <2> QED BY <2>2, <2>4, <2>5 DEF FileInv
  <1> QED BY <1>3, <1>4, <1>5 DEF IInv

\* The process stops, for whatever reason, and the files stay.
LEMMA StopStep ==
    ASSUME IInv, UNCHANGED <<fileVars, build, mem, epoch, boots, faultVars, ackVars>>,
           pc' \in {"down", "up"}, pc = "down" => pc' = "down",
           snap' = NoFile, leaving' = FALSE
    PROVE  IInv'
  <1>1. NoFile \in File
    BY DEF NoFile, File
  <1>2. leaving' \in BOOLEAN
    OBVIOUS
  <1>3. TypeOK'
    BY <1>1, <1>2 DEF IInv, TypeOK, fileVars, faultVars, ackVars
  <1>4. RunInv'
    BY DEF IInv, RunInv, Saving, OneFault, SchemaNewer, fileVars, faultVars, ackVars
  <1> QED BY <1>3, <1>4, FilesAlone DEF IInv

\* A save that returns an error at any of its calls, and a process killed at
\* any point of it, keep the invariant.
LEMMA CrashStep == ASSUME IInv, SaveFails \/ ProcessCrash PROVE IInv'
  <1>1. CASE SaveFails
    BY <1>1, StopStep DEF SaveFails, Return
  <1>2. CASE ProcessCrash
    BY <1>2, StopStep DEF ProcessCrash
  <1> QED BY <1>1, <1>2

\* A power loss leaves one of the directories the invariant covers.
LEMMA PowerLossStep == ASSUME IInv, PowerLoss PROVE IInv'
  <1>1. PICK d \in onDisk : dir' = d /\ onDisk' = {d}
    BY DEF PowerLoss
  <1>2. /\ pc' = "down" /\ snap' = NoFile /\ leaving' = FALSE
        /\ UNCHANGED <<build, mem, epoch, boots, faultVars, ackVars>>
    BY DEF PowerLoss
  <1>3. NoFile \in File
    BY DEF NoFile, File
  <1>4. leaving' \in BOOLEAN
    BY <1>2
  <1>5. TypeOK'
    BY <1>1, <1>2, <1>3, <1>4 DEF IInv, TypeOK, faultVars, ackVars
  <1>6. RunInv'
    BY <1>2 DEF IInv, RunInv, Saving, ackVars
  <1>7. ASSUME NEW e \in Directories' PROVE FileInv(e)'
    BY <1>1, <1>2, Kept DEF Directories, IInv, TypeOK, faultVars, ackVars
  <1> QED BY <1>5, <1>6, <1>7 DEF IInv

\* The file system's own journal commit keeps the invariant.
LEMMA CommitStep == ASSUME IInv, Commit PROVE IInv'
  <1> USE DEF Commit
  <1>1. TypeOK'
    BY DEF IInv, TypeOK, faultVars, ackVars
  <1>2. RunInv'
    BY DEF IInv, TypeOK, RunInv, Saving, Undamaged, OneFault, Fallback, SchemaNewer, Snapshot,
           faultVars, ackVars
  <1>3. ASSUME NEW d \in Directories' PROVE FileInv(d)'
    BY Kept DEF Directories, IInv, TypeOK, faultVars, ackVars
  <1> QED BY <1>1, <1>2, <1>3 DEF IInv

\* Damage to the primary leaves the backup's worth.
LEMMA DamagePrimaryStep == ASSUME IInv, DamagePrimary PROVE IInv'
  <1> USE DEF DamagePrimary
  <1>1. /\ dir \in Directory /\ FileInv(dir) /\ Garbage \in File /\ Garbage.kind = "bad"
        /\ Garbage.epoch = 0
        /\ acked \in Nat /\ prior \in Nat /\ boots \in Nat /\ damaged \in [wal : Nat, bak : Nat]
    BY DEF IInv, TypeOK, Directories, Garbage, NoFile, File
  <1>2. dir' \in Directory /\ dir'.wal = Garbage /\ dir'.bak = dir.bak
    BY <1>1 DEF Directory
  <1>3. damaged' \in [wal : Nat, bak : Nat] /\ damaged'.wal = damaged.wal + 1 /\ damaged'.bak = damaged.bak
    BY <1>1
  <1>4. TypeOK'
    BY <1>2, <1>3 DEF IInv, TypeOK, ackVars
  <1>5. RunInv'
    BY DEF IInv, RunInv, Saving, ackVars
  <1>6. ASSUME NEW d \in Directories' PROVE FileInv(d)'
    <2>1. d.wal = Garbage /\ d.bak = dir.bak /\ dir.bak \in File
      BY <1>1, <1>2 DEF Directories, Directory
    <2>2. Worth(d)' /\ Schemas(d)'
      BY <1>1, <2>1 DEF FileInv, Worth, Schemas, ackVars
    <2>3. Intact(d)'
      BY <1>1, <1>3 DEF Intact, Undamaged
    <2>4. Damaged(d)'
      <3>1. OneFault' => OneFault /\ damaged.wal = 0 /\ damaged'.wal # 0
        BY <1>1, <1>3 DEF OneFault
      <3>2. Recoverable(d)' = Fallback(dir)
        BY <1>1, <2>1 DEF Recoverable, Fallback
      <3> QED BY <1>1, <2>1, <3>1, <3>2 DEF FileInv, Damaged, ackVars
    <2> QED BY <2>2, <2>3, <2>4 DEF FileInv
  <1> QED BY <1>4, <1>5, <1>6 DEF IInv

\* A backup file that becomes unreadable keeps the invariant.
LEMMA DamageBackupStep == ASSUME IInv, DamageBackup PROVE IInv'
  <1> USE DEF DamageBackup
  <1>1. /\ dir \in Directory /\ FileInv(dir) /\ Garbage \in File /\ Garbage.kind = "bad"
        /\ Garbage.epoch = 0
        /\ acked \in Nat /\ prior \in Nat /\ boots \in Nat /\ damaged \in [wal : Nat, bak : Nat]
    BY DEF IInv, TypeOK, Directories, Garbage, NoFile, File
  <1>2. dir' \in Directory /\ dir'.wal = dir.wal /\ dir'.bak = Garbage
    BY <1>1 DEF Directory
  <1>3. damaged' \in [wal : Nat, bak : Nat] /\ damaged'.bak = damaged.bak + 1 /\ damaged'.bak # 0
    BY <1>1
  <1>4. TypeOK'
    BY <1>2, <1>3 DEF IInv, TypeOK, ackVars
  <1>5. RunInv'
    BY DEF IInv, RunInv, Saving, ackVars
  <1>6. ASSUME NEW d \in Directories' PROVE FileInv(d)'
    <2>1. d.wal = dir.wal /\ d.bak = Garbage
      BY <1>1, <1>2 DEF Directories, Directory
    <2>2. Worth(d)' /\ Schemas(d)'
      BY <1>1, <2>1 DEF FileInv, Worth, Schemas, ackVars
    <2>3. Intact(d)' /\ Damaged(d)'
      BY <1>3 DEF Intact, Undamaged, Damaged, OneFault
    <2> QED BY <2>2, <2>3 DEF FileInv
  <1> QED BY <1>4, <1>5, <1>6 DEF IInv

-----------------------------------------------------------------------------
\* Every step of the save, load, crash and damage actions keeps the invariant.
LEMMA NextIInv == IInv /\ [Next]_vars => IInv'
  <1> SUFFICES ASSUME IInv, [Next]_vars PROVE IInv'
    OBVIOUS
  <1>1. CASE RestoreFromWAL
    BY <1>1, RestorePrimaryStep, RestoreBackupStep, StartEmptyStep, RestoreFailedStep
       DEF RestoreFromWAL
  <1>2. CASE Progress \/ WriteAndFsync \/ (\E final \in BOOLEAN : FlushWAL(final))
    BY <1>2, RunStep
  <1>3. CASE Rotate \/ Publish \/ SyncDir \/ SaveFails
    BY <1>3, RotateStep, PublishStep, SyncDirStep, CrashStep
  <1>4. CASE Environment
    BY <1>4, CrashStep, PowerLossStep, CommitStep, DamagePrimaryStep, DamageBackupStep
       DEF Environment
  <1>5. CASE UNCHANGED vars
    <2>1. TypeOK'
      BY <1>5 DEF IInv, TypeOK, vars, fileVars, faultVars, ackVars
    <2>2. RunInv'
      BY <1>5 DEF IInv, RunInv, Saving, Undamaged, OneFault, Fallback, SchemaNewer, Snapshot,
                  vars, fileVars, faultVars, ackVars
    <2> QED BY <1>5, <2>1, <2>2, FilesAlone DEF IInv, vars
  <1> QED BY <1>1, <1>2, <1>3, <1>4, <1>5 DEF Next, Save

\* The inductive invariant of the rotation.
THEOREM RotationInvariant == Spec => []IInv
  BY InitIInv, NextIInv, PTL DEF Spec

\* Every variable keeps its type and a running agent has an epoch.
THEOREM TypeCorrect == Spec => []TypeOK
  <1>1. IInv => TypeOK
    BY DEF IInv
  <1> QED BY <1>1, RotationInvariant, PTL

\* Without damage, an acknowledged generation survives any crash and any
\* power loss, at every step of Save.
THEOREM Durability == Spec => []Durable
  <1>1. IInv => Durable
    BY DEF IInv, FileInv, Intact, Undamaged, Durable
  <1> QED BY <1>1, RotationInvariant, PTL

\* A damaged primary costs at most one generation.
THEOREM DamageBounded == Spec => []OneGenerationLost
  <1>1. IInv => OneGenerationLost
    BY DEF IInv, FileInv, Damaged, OneFault, OneGenerationLost
  <1> QED BY <1>1, RotationInvariant, PTL

\* No agent runs over a snapshot of a newer build.
THEOREM NewerRefused == Spec => []NeverOverNewer
  <1>1. IInv => NeverOverNewer
    BY DEF IInv, RunInv, NeverOverNewer
  <1> QED BY <1>1, RotationInvariant, PTL

\* Under any damage, a boot without the last but one acknowledged generation
\* has another epoch, or the clock repeated its second.
THEOREM LossAlwaysDeclared == Spec => LossDeclared
  <1>1. ASSUME IInv, [Next]_vars, pc = "down", pc' # "down"
        PROVE  mem' >= prior \/ epoch' # epoch \/ tied'
    <2>1. RestoreFromWAL
      BY <1>1 DEF Next, Progress, FlushWAL, Save, WriteAndFsync, Rotate, Publish, SyncDir,
                  SaveFails, Environment, ProcessCrash, PowerLoss, Commit, DamagePrimary,
                  DamageBackup, vars
    <2>2. /\ dir \in Directory /\ FileInv(dir) /\ epoch \in Nat /\ boots \in Nat
          /\ acked \in Nat /\ prior \in Nat /\ acked >= prior
      BY <1>1 DEF IInv, TypeOK, RunInv, Directories
    <2>3. ASSUME NEW b \in Builds, RestorePrimary(b) PROVE mem' >= prior
      <3>1. dir.wal.kind = "ok" /\ dir.wal.gen \in Nat
        BY <2>2, <2>3 DEF RestorePrimary, Load, Readable, SchemaNewer, Directory, File
      <3> QED BY <2>2, <2>3, <3>1 DEF RestorePrimary, Seed, FileInv, Worth
    <2>4. ASSUME NEW b \in Builds, NEW moved \in BOOLEAN, RestoreBackup(b, moved)
          PROVE  mem' >= prior
      <3>1. dir.bak.kind = "ok"
        BY <2>2, <2>4 DEF RestoreBackup, Load, Readable, SchemaNewer, Directory, File
      <3> QED BY <2>2, <2>4, <3>1 DEF RestoreBackup, Seed, FileInv, Worth
    <2>5. ASSUME NEW b \in Builds, Seed(b, 0, 0) PROVE epoch' # epoch \/ tied'
      BY <2>5 DEF Seed
    <2> QED BY <2>1, <2>3, <2>4, <2>5 DEF RestoreFromWAL, StartEmpty, RestoreFailed
  <1>2. IInv /\ [Next]_vars =>
          [pc = "down" /\ pc' # "down" => mem' >= prior \/ epoch' # epoch \/ tied']_vars
    BY <1>1
  <1> QED BY <1>2, RotationInvariant, PTL DEF Spec, LossDeclared

-----------------------------------------------------------------------------
(* WalFiles implements CheckpointStore.  The rotation's invariant says     *)
(* what a boot finds at least.  Ahead says what it finds at most while     *)
(* nothing is damaged: no directory a power loss may leave holds a         *)
(* generation beyond the one the present directory yields, and that one is *)
(* not beyond the run.                                                     *)

Gen(f) == IF f.kind = "ok" THEN f.gen ELSE 0

Behind(d) ==
    /\ Gen(d.wal) <= Recoverable(dir) /\ Gen(d.bak) <= Recoverable(dir)
    /\ Gen(d.bak) <= Recoverable(d)

Ahead ==
    Undamaged => /\ \A d \in Directories : Behind(d)
                 /\ Recoverable(dir) <= mem
                 /\ Saving => Recoverable(dir) <= snap.gen

\* What a directory of the right type yields is a generation.
LEMMA RecoverableNat ==
  ASSUME NEW d \in Directory
  PROVE  /\ Recoverable(d) \in Nat /\ Gen(d.wal) \in Nat /\ Gen(d.bak) \in Nat
         /\ Gen(d.wal) <= Recoverable(d)
  BY DEF Directory, File, Recoverable, Gen

\* A first directory has no backup.
LEMMA InitAhead == Init => Ahead
  <1> SUFFICES ASSUME Init PROVE Ahead
    OBVIOUS
  <1>1. dir.wal \in File /\ dir.bak = NoFile /\ onDisk = {dir} /\ mem = dir.wal.gen /\ pc = "down"
    BY DEF Init, NoFile, Snapshot, File
  <1>2. dir.bak.kind = "none"
    BY <1>1 DEF NoFile
  <1>3. Gen(dir.wal) \in Nat /\ Gen(dir.bak) = 0 /\ Recoverable(dir) = Gen(dir.wal)
    BY <1>1, <1>2 DEF Gen, Recoverable, File
  <1>4. Recoverable(dir) <= mem
    BY <1>1, <1>3 DEF Gen, File
  <1> QED BY <1>1, <1>3, <1>4 DEF Ahead, Directories, Behind, Saving

\* A boot without damage takes over what the directory yields.
LEMMA RestoreAhead ==
  ASSUME IInv, Ahead, RestoreFromWAL
  PROVE  Ahead'
  <1> USE DEF IInv
  <1> SUFFICES ASSUME Undamaged' PROVE Ahead'
    BY DEF Ahead
  <1>1. Undamaged
    BY DEF RestoreFromWAL, RestorePrimary, RestoreBackup, StartEmpty, RestoreFailed, Quarantine,
           faultVars, Undamaged
  <1>2. dir \in Directory /\ onDisk \subseteq Directory /\ dir.wal.kind # "bad" /\ dir.bak.kind # "bad"
    BY <1>1 DEF TypeOK, FileInv, Intact, Directories
  <1>3. dir.wal.kind \in {"none", "ok"} /\ dir.bak.kind \in {"none", "ok"}
    BY <1>2 DEF Directory, File
  <1>4. PICK b \in Builds : \/ RestorePrimary(b)
                            \/ \E moved \in BOOLEAN : RestoreBackup(b, moved)
                            \/ StartEmpty(b)
    <2>1. ASSUME NEW b \in Builds, NEW moved \in BOOLEAN, RestoreFailed(b, moved) PROVE FALSE
      <3>1. b \in Nat /\ dir.wal.schema \in Nat /\ dir.bak.schema \in Nat
        BY <1>2, WalAssumption DEF Directory, File
      <3> QED BY <1>3, <2>1, <3>1 DEF RestoreFailed, Load, Readable, SchemaNewer
    <2> QED BY <2>1 DEF RestoreFromWAL
  <1>5. /\ mem' = Recoverable(dir)
        /\ Recoverable(dir') = Recoverable(dir)
        /\ \A d \in Directories' : d \in Directories \/ d = dir'
        /\ dir' \in Directory /\ Gen(dir'.wal) <= Gen(dir.wal) /\ Gen(dir'.bak) = Gen(dir.bak)
    <2>1. CASE RestorePrimary(b)
      BY <1>2, <1>3, <2>1, RecoverableNat
         DEF RestorePrimary, Load, Readable, SchemaNewer, Seed, Recoverable, fileVars, Directories
    <2>2. CASE \E moved \in BOOLEAN : RestoreBackup(b, moved)
      <3>1. PICK moved \in BOOLEAN : RestoreBackup(b, moved)
        BY <2>2
      <3>2. dir.wal.kind = "none" /\ dir.bak.kind = "ok"
        BY <1>3, <3>1 DEF RestoreBackup, Load, Readable, SchemaNewer
      <3>3. dir'.bak = dir.bak /\ dir'.wal.kind = "none" /\ dir' \in Directory
        BY <1>2, <3>1, <3>2 DEF RestoreBackup, Quarantine, Directory, File, NoFile
      <3>4. onDisk' = onDisk \cup {dir'} /\ mem' = dir.bak.gen
        BY <3>1 DEF RestoreBackup, Quarantine, Seed
      <3> QED BY <3>2, <3>3, <3>4 DEF Recoverable, Gen, Directories
    <2>3. CASE StartEmpty(b)
      BY <1>2, <1>3, <2>3, RecoverableNat
         DEF StartEmpty, Load, Readable, SchemaNewer, Seed, Recoverable, fileVars, Directories
    <2> QED BY <1>4, <2>1, <2>2, <2>3
  <1>6. (Saving => snap.gen = mem)'
    BY <1>4 DEF RestorePrimary, RestoreBackup, StartEmpty, Seed, Saving, Snapshot
  <1>7. ASSUME NEW d \in Directories' PROVE Behind(d)'
    <2>1. d \in Directory /\ dir \in Directories
      BY <1>2, <1>5 DEF Directories
    <2>2. CASE d \in Directories
      BY <1>1, <1>5, <2>2 DEF Ahead, Behind, Recoverable, Gen
    <2>3. CASE d = dir'
      <3>1. Behind(dir)
        BY <1>1, <2>1 DEF Ahead
      <3> QED BY <1>2, <1>5, <2>3, <3>1, RecoverableNat DEF Behind
    <2> QED BY <1>5, <2>2, <2>3
  <1>8. (Recoverable(dir) <= mem)' /\ (Saving => Recoverable(dir) <= snap.gen)'
    BY <1>2, <1>5, <1>6, RecoverableNat
  <1> QED BY <1>7, <1>8 DEF Ahead

\* The rotation keeps what the directory yields; the published snapshot is not
\* behind it.
LEMMA SaveAhead ==
  ASSUME IInv, Ahead, Rotate \/ Publish
  PROVE  Ahead'
  <1> USE DEF IInv
  <1> SUFFICES ASSUME Undamaged' PROVE Ahead'
    BY DEF Ahead
  <1>1. Undamaged /\ mem' = mem /\ snap' = snap /\ Saving
    BY DEF Rotate, Publish, faultVars, Undamaged, Saving
  <1>2. /\ dir \in Directory /\ onDisk \subseteq Directory /\ snap \in File /\ mem \in Nat
        /\ snap = Snapshot(snap.gen, build, epoch) /\ snap.gen <= mem
    BY <1>1 DEF TypeOK, RunInv
  <1>3. dir.wal.kind \in {"none", "ok"} /\ dir.bak.kind \in {"none", "ok"}
    BY <1>1, <1>2 DEF FileInv, Intact, Directories, Directory, File
  <1>4. /\ Behind(dir) /\ Recoverable(dir) <= snap.gen /\ Recoverable(dir) <= mem
        /\ \A d \in Directories : Behind(d)
    BY <1>1 DEF Ahead, Directories
  <1>5. /\ dir' \in Directory /\ onDisk' = onDisk \cup {dir'}
        /\ Recoverable(dir) <= Recoverable(dir') /\ Recoverable(dir') <= snap.gen
        /\ Gen(dir'.bak) <= Recoverable(dir')
    <2>1. CASE Rotate
      <3>1. CASE dir.wal.kind = "none"
        <4>1. dir' = dir
          BY <2>1, <3>1 DEF Rotate
        <4> QED BY <1>2, <1>4, <2>1, <4>1, RecoverableNat DEF Rotate, Behind
      <3>2. CASE dir.wal.kind = "ok"
        <4>1. dir' = [wal |-> NoFile, bak |-> dir.wal]
          BY <2>1, <3>2 DEF Rotate
        <4>2. dir' \in Directory /\ Recoverable(dir') = dir.wal.gen /\ Gen(dir'.bak) = dir.wal.gen
          BY <1>2, <3>2, <4>1 DEF Directory, File, NoFile, Recoverable, Gen
        <4>3. Recoverable(dir) = dir.wal.gen
          BY <3>2 DEF Recoverable
        <4> QED BY <1>2, <1>4, <2>1, <4>2, <4>3, RecoverableNat DEF Rotate
      <3> QED BY <1>3, <3>1, <3>2
    <2>2. CASE Publish
      <3>1. dir' = [dir EXCEPT !.wal = snap] /\ snap.kind = "ok"
        BY <1>2, <2>2 DEF Publish, Snapshot
      <3>2. dir' \in Directory /\ dir'.wal = snap /\ dir'.bak = dir.bak
        BY <1>2, <3>1 DEF Directory
      <3>3. Recoverable(dir') = snap.gen /\ Gen(dir'.bak) = Gen(dir.bak)
        BY <3>1, <3>2 DEF Recoverable, Gen
      <3>4. snap.gen \in Nat
        BY <1>2 DEF File
      <3> QED BY <1>2, <1>4, <2>2, <3>2, <3>3, <3>4, RecoverableNat DEF Publish, Behind
    <2> QED BY <2>1, <2>2
  <1>6. ASSUME NEW d \in Directories' PROVE Behind(d)'
    <2>1. CASE d \in Directories
      <3>1. d \in Directory /\ Behind(d)
        BY <1>2, <1>4, <2>1 DEF Directories
      <3> QED BY <1>2, <1>5, <3>1, RecoverableNat DEF Behind, Recoverable, Gen
    <2>2. CASE d = dir'
      BY <1>5, <2>2, RecoverableNat DEF Behind, Recoverable, Gen
    <2> QED BY <1>5, <2>1, <2>2 DEF Directories
  <1>7. snap.gen \in Nat
    BY <1>2 DEF File
  <1> QED BY <1>1, <1>2, <1>5, <1>6, <1>7, RecoverableNat DEF Ahead

\* The other steps leave a subset of the directories.
LEMMA OtherAhead ==
  ASSUME IInv, Ahead,
         Progress \/ WriteAndFsync \/ (\E final \in BOOLEAN : FlushWAL(final))
           \/ SyncDir \/ SaveFails \/ ProcessCrash \/ Commit
  PROVE  Ahead'
  <1> USE DEF IInv
  <1> SUFFICES ASSUME Undamaged' PROVE Ahead'
    BY DEF Ahead
  <1>1. Undamaged /\ dir' = dir /\ onDisk' \subseteq Directories /\ mem' >= mem
    BY DEF Progress, WriteAndFsync, FlushWAL, SyncDir, SaveFails, ProcessCrash, Commit, Return,
           fileVars, faultVars, Undamaged, Directories, TypeOK
  <1>2. dir \in Directory /\ mem \in Nat /\ mem' \in Nat
    BY DEF Progress, WriteAndFsync, FlushWAL, SyncDir, SaveFails, ProcessCrash, Commit, Return,
           TypeOK
  <1>3. Saving' => (Saving /\ snap' = snap) \/ snap'.gen = mem
    BY DEF Progress, WriteAndFsync, FlushWAL, SyncDir, SaveFails, ProcessCrash, Commit, Return,
           Saving, Snapshot
  <1>4. Directories' \subseteq Directories
    BY <1>1 DEF Directories
  <1>5. ASSUME NEW d \in Directories' PROVE Behind(d)'
    BY <1>1, <1>4 DEF Ahead, Behind, Recoverable, Gen
  <1>6. Recoverable(dir)' = Recoverable(dir) /\ Recoverable(dir) \in Nat
    BY <1>1, <1>2, RecoverableNat DEF Recoverable
  <1> QED BY <1>1, <1>2, <1>3, <1>5, <1>6 DEF Ahead

\* A power loss leaves one of the directories, and none is ahead of the run.
LEMMA PowerLossAhead == ASSUME IInv, Ahead, PowerLoss PROVE Ahead'
  <1> USE DEF IInv
  <1> SUFFICES ASSUME Undamaged' PROVE Ahead'
    BY DEF Ahead
  <1>1. Undamaged /\ mem' = mem /\ pc' = "down"
    BY DEF PowerLoss, faultVars, Undamaged
  <1>2. PICK d \in onDisk : dir' = d /\ onDisk' = {d}
    BY DEF PowerLoss
  <1>3. Behind(d) /\ Recoverable(dir) <= mem
    BY <1>1 DEF Ahead, Directories
  <1>4. d \in Directory /\ dir \in Directory /\ mem \in Nat
    BY DEF TypeOK
  <1>5. Recoverable(d) <= mem
    <2>1. Recoverable(d) = Gen(d.wal) \/ Recoverable(d) = Gen(d.bak)
      BY DEF Recoverable, Gen
    <2> QED BY <1>3, <1>4, <2>1, RecoverableNat DEF Behind
  <1>6. ASSUME NEW e \in Directories' PROVE Behind(e)'
    <2>1. e = d
      BY <1>2 DEF Directories
    <2> QED BY <1>2, <1>3, <1>4, <2>1, RecoverableNat DEF Behind, Recoverable, Gen
  <1> QED BY <1>1, <1>2, <1>5, <1>6 DEF Ahead, Saving, Recoverable

\* Every step of the files keeps Ahead.
LEMMA NextAhead == IInv /\ Ahead /\ [Next]_vars => Ahead'
  <1> SUFFICES ASSUME IInv, Ahead, [Next]_vars PROVE Ahead'
    OBVIOUS
  <1>1. CASE RestoreFromWAL
    BY <1>1, RestoreAhead
  <1>2. CASE Rotate \/ Publish
    BY <1>2, SaveAhead
  <1>3. CASE Progress \/ WriteAndFsync \/ (\E final \in BOOLEAN : FlushWAL(final))
               \/ SyncDir \/ SaveFails \/ ProcessCrash \/ Commit
    BY <1>3, OtherAhead
  <1>4. CASE PowerLoss
    BY <1>4, PowerLossAhead
  <1>5. CASE DamagePrimary \/ DamageBackup
    <2>1. ~Undamaged'
      BY <1>5 DEF IInv, TypeOK, DamagePrimary, DamageBackup, Undamaged
    <2> QED BY <2>1 DEF Ahead
  <1>6. CASE UNCHANGED vars
    BY <1>6 DEF Ahead, Undamaged, Saving, Directories, Behind, Recoverable, Gen, vars, fileVars,
                faultVars
  <1> QED BY <1>1, <1>2, <1>3, <1>4, <1>5, <1>6 DEF Next, Save, Environment

-----------------------------------------------------------------------------
Harmed == damaged.wal + damaged.bak > 0

\* The store of a new host is a new store.
LEMMA InitStore == Init => Store!Init
  BY DEF Init, Store!Init, NoFile, Snapshot

\* A boot is a Restart: undamaged, it takes over at least the acknowledged
\* generation and none beyond the last run; damaged, one file is still worth
\* what its name says, or the epoch is another, or stamped again.
LEMMA RestartStep ==
  ASSUME IInv, Ahead, RestoreFromWAL
  PROVE  Store!Restart
  <1> USE DEF IInv
  <1>1. /\ dir \in Directory /\ FileInv(dir) /\ boots \in Nat /\ epoch \in Nat
        /\ acked \in Nat /\ prior \in Nat /\ acked >= prior /\ mem \in Nat
        /\ damaged \in [wal : Nat, bak : Nat]
    BY DEF TypeOK, RunInv, Directories
  <1>2. pc = "down" /\ pc' # "down" /\ damaged' = damaged
    BY DEF RestoreFromWAL, RestorePrimary, RestoreBackup, StartEmpty, RestoreFailed, Seed,
           Quarantine, faultVars
  <1>3. acked' = Store!Older(acked, mem') /\ prior' = Store!Older(prior, mem')
    BY DEF RestoreFromWAL, RestorePrimary, RestoreBackup, StartEmpty, RestoreFailed, Seed, Least,
           Store!Older
  <1>4. PICK b \in Builds : \/ RestorePrimary(b)
                            \/ \E moved \in BOOLEAN : RestoreBackup(b, moved)
                            \/ StartEmpty(b)
                            \/ \E moved \in BOOLEAN : RestoreFailed(b, moved)
    BY DEF RestoreFromWAL
  <1>8. tied' => epoch' = epoch
    BY <1>4 DEF RestorePrimary, RestoreBackup, StartEmpty, RestoreFailed, Seed
  <1>5. b \in Nat /\ dir.wal.schema \in Nat /\ dir.bak.schema \in Nat
    BY <1>1, WalAssumption DEF Directory, File
  <1>6. CASE Harmed
    <2>1. mem' >= prior \/ epoch' # epoch \/ tied'
      <3>1. CASE RestorePrimary(b)
        <4>1. dir.wal.kind = "ok" /\ dir.wal.gen \in Nat
          BY <1>1, <3>1 DEF RestorePrimary, Load, Readable, SchemaNewer, Directory, File
        <4> QED BY <1>1, <3>1, <4>1 DEF RestorePrimary, Seed, FileInv, Worth
      <3>2. ASSUME NEW moved \in BOOLEAN, RestoreBackup(b, moved) PROVE mem' >= prior
        <4>1. dir.bak.kind = "ok"
          BY <1>1, <3>2 DEF RestoreBackup, Load, Readable, SchemaNewer, Directory, File
        <4> QED BY <1>1, <3>2, <4>1 DEF RestoreBackup, Seed, FileInv, Worth
      <3>3. ASSUME Seed(b, 0, 0) PROVE epoch' # epoch \/ tied'
        BY <3>3 DEF Seed
      <3> QED BY <1>4, <3>1, <3>2, <3>3 DEF StartEmpty, RestoreFailed
    <2> QED BY <1>2, <1>3, <1>6, <1>8, <2>1 DEF Store!Restart, Harmed
  <1>7. CASE ~Harmed
    <2>1. Undamaged
      BY <1>1, <1>7 DEF Harmed, Undamaged
    <2>2. /\ dir.wal.kind \in {"none", "ok"} /\ dir.bak.kind \in {"none", "ok"}
          /\ Recoverable(dir) >= acked /\ Recoverable(dir) <= mem
      BY <1>1, <2>1 DEF FileInv, Intact, Ahead, Directory, File
    <2>3. mem' = Recoverable(dir)
      <3>1. ASSUME RestorePrimary(b) PROVE mem' = Recoverable(dir)
        BY <1>5, <2>2, <3>1 DEF RestorePrimary, Load, Readable, SchemaNewer, Seed, Recoverable
      <3>2. ASSUME NEW moved \in BOOLEAN, RestoreBackup(b, moved) PROVE mem' = Recoverable(dir)
        BY <1>5, <2>2, <3>2 DEF RestoreBackup, Load, Readable, SchemaNewer, Seed, Recoverable
      <3>3. ASSUME StartEmpty(b) PROVE mem' = Recoverable(dir)
        BY <1>5, <2>2, <3>3 DEF StartEmpty, Load, Readable, SchemaNewer, Seed, Recoverable
      <3>4. ASSUME NEW moved \in BOOLEAN, RestoreFailed(b, moved) PROVE FALSE
        BY <1>5, <2>2, <3>4 DEF RestoreFailed, Load, Readable, SchemaNewer
      <3> QED BY <1>4, <3>1, <3>2, <3>3, <3>4
    <2> QED BY <1>2, <1>3, <1>8, <2>2, <2>3 DEF Store!Restart
  <1> QED BY <1>6, <1>7

\* Every step of the files is a step of the store or leaves it unchanged.
LEMMA NextStore == IInv /\ Ahead /\ [Next]_vars => [Store!Next]_(Store!vars)
  <1> SUFFICES ASSUME IInv, Ahead, [Next]_vars
               PROVE  Store!Next \/ UNCHANGED Store!vars
    OBVIOUS
  <1>1. CASE RestoreFromWAL
    BY <1>1, RestartStep DEF Store!Next
  <1>2. CASE Progress
    BY <1>2 DEF Progress, Store!Next, Store!Advance, faultVars, ackVars
  <1>3. CASE SyncDir
    <2>1. snap.gen >= acked /\ snap.gen <= mem
      BY <1>3 DEF IInv, RunInv, Saving, SyncDir
    <2> QED BY <1>3, <2>1 DEF SyncDir, Return, Store!Next, Store!Acknowledge, faultVars
  <1>4. CASE SaveFails \/ ProcessCrash
    BY <1>4 DEF SaveFails, ProcessCrash, Return, Store!Next, Store!Stop, Store!vars, faultVars,
                ackVars
  <1>5. CASE PowerLoss
    BY <1>5 DEF PowerLoss, Store!Next, Store!Stop, Store!vars, faultVars, ackVars
  <1>6. CASE DamagePrimary \/ DamageBackup
    <2>1. damaged \in [wal : Nat, bak : Nat]
      BY DEF IInv, TypeOK
    <2>2. damaged'.wal + damaged'.bak > 0
      BY <1>6, <2>1 DEF DamagePrimary, DamageBackup
    <2> QED BY <1>6, <2>2 DEF DamagePrimary, DamageBackup, Store!Next, Store!Harm, ackVars
  <1>7. CASE \/ WriteAndFsync \/ Rotate \/ Publish \/ Commit \/ UNCHANGED vars
             \/ \E final \in BOOLEAN : FlushWAL(final)
    BY <1>7 DEF WriteAndFsync, Rotate, Publish, Commit, FlushWAL, Store!vars, vars, faultVars,
                ackVars
  <1> QED BY <1>1, <1>2, <1>3, <1>4, <1>5, <1>6, <1>7 DEF Next, Save, Environment

\* The snapshot files implement the store the agent relies on: save, rotate,
\* fall back, quarantine and restore, under crashes, power loss and damage.
THEOREM FilesImplementStore == Spec => ImplementsStore
  <1>1. Spec => []Ahead
    BY InitAhead, NextAhead, RotationInvariant, PTL DEF Spec
  <1> QED BY <1>1, InitStore, NextStore, RotationInvariant, PTL DEF Spec, ImplementsStore, Store!Spec
=============================================================================
