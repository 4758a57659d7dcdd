------------------------------ MODULE WalFiles ------------------------------
(***************************************************************************)
(* The snapshot files of one agent host: wal.Save's rotation, wal.Load's   *)
(* fallback and the boot-time restore, under process crashes, power loss,  *)
(* failing system calls, damaged files, upgrades and downgrades.           *)
(*                                                                         *)
(* A snapshot is the generation of GlobalState it holds, the schema of the *)
(* build that wrote it and its counters-reset epoch.  The temporary file   *)
(* and the quarantine slot are never read back, so what they hold is left  *)
(* out; a snapshot reaches a name only after its fsync.  The file system   *)
(* journals renames in order: a power loss keeps some prefix of those made *)
(* since the last commit.                                                  *)
(***************************************************************************)
EXTENDS Naturals

CONSTANTS
    Builds,      \* schema versions of the builds installed on this host
    MaxGen,      \* bound on the generations of GlobalState
    MaxBoots,    \* bound on the boots
    MaxDamage,   \* bound on damage per file, and on failed quarantines
    MaxClock     \* bound on the seconds the wall clock may show

ASSUME WalAssumption ==
    /\ Builds \subseteq Nat \ {0}
    /\ MaxGen \in Nat /\ MaxBoots \in Nat /\ MaxDamage \in Nat /\ MaxClock \in Nat

VARIABLES
    dir,       \* the directory as the processes see it: the path and its .bak
    onDisk,    \* the directories a power loss may leave
    pc,        \* down, up, or the next system call of Save
    build,     \* the running build
    mem,       \* the generation in GlobalState (of the last run, while down)
    epoch,     \* the counters-reset epoch (likewise)
    snap,      \* the snapshot Save is writing
    leaving,   \* whether that is the final flush of a shutdown
    boots,     \* boots so far
    damaged,   \* how often each file was damaged
    stuck,     \* how often a quarantine failed
    acked,     \* history: the generation of the last Save that returned nil
    prior,     \* history: the one before it
    tied       \* history: the last boot stamped the second of the epoch before it

fileVars == <<dir, onDisk>>
faultVars == <<damaged, stuck>>
ackVars == <<acked, prior, tied>>
vars == <<fileVars, pc, build, mem, epoch, snap, leaving, boots, faultVars, ackVars>>

NoFile == [kind |-> "none", gen |-> 0, schema |-> 0, epoch |-> 0]
Garbage == [NoFile EXCEPT !.kind = "bad"]
Snapshot(g, s, e) == [kind |-> "ok", gen |-> g, schema |-> s, epoch |-> e]

-----------------------------------------------------------------------------
(* Load.                                                                   *)

\* readAndParse of file f by build b.
Readable(f, b) == f.kind = "ok" /\ f.schema <= b
SchemaNewer(f, b) == f.kind = "ok" /\ f.schema > b

\* Fault: a newer primary is taken for an unparsable one.
LoadFallsBack(b) ==
    CASE Readable(dir.wal, b) -> "primary"
      [] ~Readable(dir.wal, b) /\ Readable(dir.bak, b) -> "backup"
      [] dir.wal.kind = "none" /\ dir.bak.kind = "none" -> "empty"
      [] OTHER -> "error"

\* The outcome of Load.  A newer snapshot is refused wherever it is the one
\* that would have been restored.
Load(b) ==
    CASE Readable(dir.wal, b) -> "primary"
      [] SchemaNewer(dir.wal, b) -> "newer"
      [] dir.wal.kind # "ok" /\ Readable(dir.bak, b) -> "backup"
      [] dir.wal.kind # "ok" /\ SchemaNewer(dir.bak, b) -> "newer"
      [] dir.wal.kind = "none" /\ dir.bak.kind = "none" -> "empty"
      [] OTHER -> "error"

\* The generation a boot would find in directory d.
Recoverable(d) == IF d.wal.kind = "ok" THEN d.wal.gen
                  ELSE IF d.bak.kind = "ok" THEN d.bak.gen ELSE 0

-----------------------------------------------------------------------------
(* Boot: restoreFromWAL.                                                   *)

Least(i, j) == IF i <= j THEN i ELSE j

\* The process takes over generation g with the stored epoch e; an unknown
\* epoch is stamped with the wall clock, which may stand still or go back
\* between two boots, and flushed at once (stampCountersReset).
Seed(b, g, e) ==
    /\ boots < MaxBoots
    /\ boots' = boots + 1
    /\ build' = b /\ mem' = g
    /\ \E now \in 1..MaxClock : epoch' = IF e = 0 THEN now ELSE e
    /\ pc' = IF e = 0 THEN "write" ELSE "up"
    /\ snap' = IF e = 0 THEN Snapshot(g, b, epoch') ELSE NoFile
    /\ tied' = (e = 0 /\ epoch' = epoch)
    /\ leaving' = FALSE
    /\ acked' = Least(acked, g) /\ prior' = Least(prior, g)

\* Fault: the unreadable primary stays in the rotation.
QuarantineSkipped(moved) == UNCHANGED <<fileVars, faultVars>>

\* quarantineWAL moves the primary away; a failure is only logged.
Quarantine(moved) ==
    /\ dir' = IF moved THEN [dir EXCEPT !.wal = NoFile] ELSE dir
    /\ onDisk' = onDisk \cup {dir'}
    /\ stuck' = IF moved THEN stuck ELSE stuck + 1
    /\ moved \/ (dir.wal.kind # "none" /\ stuck < MaxDamage)
    /\ UNCHANGED damaged

RestorePrimary(b) ==
    /\ pc = "down" /\ Load(b) = "primary"
    /\ Seed(b, dir.wal.gen, dir.wal.epoch)
    /\ UNCHANGED <<fileVars, faultVars>>

RestoreBackup(b, moved) ==
    /\ pc = "down" /\ Load(b) = "backup"
    /\ Seed(b, dir.bak.gen, dir.bak.epoch)
    /\ Quarantine(moved)

\* Both files missing: the first boot.
StartEmpty(b) ==
    /\ pc = "down" /\ Load(b) = "empty"
    /\ Seed(b, 0, 0)
    /\ UNCHANGED <<fileVars, faultVars>>

\* Fault: the empty start goes on under the epoch of the previous run.
RestoreFailedSilent(b, moved) ==
    /\ pc = "down" /\ Load(b) = "error"
    /\ Seed(b, 0, IF epoch = 0 THEN 1 ELSE epoch)
    /\ Quarantine(moved)

\* Nothing readable: the primary is set aside and the state starts empty.
RestoreFailed(b, moved) ==
    /\ pc = "down" /\ Load(b) = "error"
    /\ Seed(b, 0, 0)
    /\ Quarantine(moved)

-----------------------------------------------------------------------------
(* The running agent and its flush loop.                                   *)

\* A scrape tick changes GlobalState, also during a flush.
Progress ==
    /\ pc # "down" /\ mem < MaxGen
    /\ mem' = mem + 1
    /\ UNCHANGED <<fileVars, pc, build, epoch, snap, leaving, boots, faultVars, ackVars>>

\* flushWAL: periodic, or the final one of a shutdown.
FlushWAL(final) ==
    /\ pc = "up"
    /\ pc' = "write"
    /\ snap' = Snapshot(mem, build, epoch)
    /\ leaving' = final
    /\ UNCHANGED <<fileVars, build, mem, epoch, boots, faultVars, ackVars>>

\* writeAndFsync of the temporary file.
WriteAndFsync ==
    /\ pc = "write"
    /\ pc' = "rotate"
    /\ UNCHANGED <<fileVars, build, mem, epoch, snap, leaving, boots, faultVars, ackVars>>

\* Rename path to .bak; a missing path is the first run.
Rotate ==
    /\ pc = "rotate"
    /\ pc' = "publish"
    /\ dir' = IF dir.wal.kind = "none" THEN dir ELSE [wal |-> NoFile, bak |-> dir.wal]
    /\ onDisk' = onDisk \cup {dir'}
    /\ UNCHANGED <<build, mem, epoch, snap, leaving, boots, faultVars, ackVars>>

\* Rename the temporary file to path.
Publish ==
    /\ pc = "publish"
    /\ pc' = "sync"
    /\ dir' = [dir EXCEPT !.wal = snap]
    /\ onDisk' = onDisk \cup {dir'}
    /\ UNCHANGED <<build, mem, epoch, snap, leaving, boots, faultVars, ackVars>>

\* Save returns: to the loop, or to the end of the process.
Return == /\ pc' = IF leaving THEN "down" ELSE "up"
          /\ snap' = NoFile /\ leaving' = FALSE
          /\ UNCHANGED <<build, mem, epoch, boots, faultVars>>

\* Fault: Save returns nil without the fsync of the directory.
SyncDirSkipped ==
    /\ pc = "sync"
    /\ acked' = snap.gen /\ prior' = acked /\ tied' = tied
    /\ Return
    /\ UNCHANGED fileVars

\* syncDir, and with it the acknowledgement.
SyncDir ==
    /\ pc = "sync"
    /\ onDisk' = {dir}
    /\ acked' = snap.gen /\ prior' = acked /\ tied' = tied
    /\ Return
    /\ UNCHANGED dir

\* Any of the calls fails; Save gives up where it is.
SaveFails ==
    /\ pc \in {"write", "rotate", "publish", "sync"}
    /\ Return
    /\ UNCHANGED <<fileVars, ackVars>>

-----------------------------------------------------------------------------
(* The environment.                                                        *)

\* The process dies; the file system does not.
ProcessCrash ==
    /\ pc # "down"
    /\ pc' = "down" /\ snap' = NoFile /\ leaving' = FALSE
    /\ UNCHANGED <<fileVars, build, mem, epoch, boots, faultVars, ackVars>>

\* The host dies: some prefix of the uncommitted renames survives.
PowerLoss ==
    /\ \E d \in onDisk : dir' = d /\ onDisk' = {d}
    /\ pc' = "down" /\ snap' = NoFile /\ leaving' = FALSE
    /\ UNCHANGED <<build, mem, epoch, boots, faultVars, ackVars>>

\* The file system commits its journal by itself.
Commit ==
    /\ onDisk # {dir}
    /\ onDisk' = {dir}
    /\ UNCHANGED <<dir, pc, build, mem, epoch, snap, leaving, boots, faultVars, ackVars>>

\* A committed file becomes unreadable while the agent is down.
DamagePrimary ==
    /\ pc = "down" /\ onDisk = {dir}
    /\ dir.wal.kind = "ok" /\ damaged.wal < MaxDamage
    /\ dir' = [dir EXCEPT !.wal = Garbage]
    /\ onDisk' = {dir'}
    /\ damaged' = [damaged EXCEPT !.wal = damaged.wal + 1]
    /\ UNCHANGED <<pc, build, mem, epoch, snap, leaving, boots, stuck, ackVars>>

DamageBackup ==
    /\ pc = "down" /\ onDisk = {dir}
    /\ dir.bak.kind = "ok" /\ damaged.bak < MaxDamage
    /\ dir' = [dir EXCEPT !.bak = Garbage]
    /\ onDisk' = {dir'}
    /\ damaged' = [damaged EXCEPT !.bak = damaged.bak + 1]
    /\ UNCHANGED <<pc, build, mem, epoch, snap, leaving, boots, stuck, ackVars>>

-----------------------------------------------------------------------------
\* A new host, or one whose snapshot predates the epoch (schema v5).
Init ==
    /\ \E b \in Builds : build = b
    /\ \E f \in {NoFile, Snapshot(1, 1, 0)} :
         /\ f.kind = "ok" => MaxGen # 0
         /\ dir = [wal |-> f, bak |-> NoFile]
         /\ mem = f.gen /\ acked = f.gen /\ prior = 0
    /\ onDisk = {dir}
    /\ pc = "down" /\ epoch = 0 /\ snap = NoFile /\ leaving = FALSE /\ boots = 0
    /\ damaged = [wal |-> 0, bak |-> 0] /\ stuck = 0 /\ tied = FALSE

RestoreFromWAL ==
    \E b \in Builds : \/ RestorePrimary(b)
                      \/ \E moved \in BOOLEAN : RestoreBackup(b, moved)
                      \/ StartEmpty(b)
                      \/ \E moved \in BOOLEAN : RestoreFailed(b, moved)

Save == WriteAndFsync \/ Rotate \/ Publish \/ SyncDir \/ SaveFails

Environment == ProcessCrash \/ PowerLoss \/ Commit \/ DamagePrimary \/ DamageBackup

Next ==
    \/ RestoreFromWAL
    \/ Progress
    \/ \E final \in BOOLEAN : FlushWAL(final)
    \/ Save
    \/ Environment

Spec == Init /\ [][Next]_vars

-----------------------------------------------------------------------------
File == [kind : {"none", "ok", "bad"}, gen : Nat, schema : Nat, epoch : Nat]
Directory == [wal : File, bak : File]

\* Every variable has its type; a running agent has an epoch.
TypeOK ==
    /\ dir \in Directory /\ onDisk \subseteq Directory
    /\ pc \in {"down", "up", "write", "rotate", "publish", "sync"}
    /\ build \in Builds /\ mem \in Nat
    /\ epoch \in Nat /\ (pc # "down" => epoch # 0)
    /\ snap \in File /\ leaving \in BOOLEAN /\ boots \in Nat
    /\ damaged \in [wal : Nat, bak : Nat] /\ stuck \in Nat
    /\ acked \in Nat /\ prior \in Nat /\ tied \in BOOLEAN

Directories == onDisk \cup {dir}

\* Durability.  As long as no file is damaged, every generation a Save
\* acknowledged is recoverable from whatever directory a process crash or a
\* power loss leaves behind, at any step of a later Save, failing or not.
Durable ==
    damaged.wal = 0 /\ damaged.bak = 0 =>
        \A d \in Directories : Recoverable(d) >= acked

\* A damaged primary costs at most one generation: the rotation keeps the
\* previous acknowledged snapshot until the next is published, and the
\* quarantine keeps the damaged one out of the rotation.
OneGenerationLost ==
    damaged.wal <= 1 /\ damaged.bak = 0 /\ stuck = 0 =>
        \A d \in Directories : Recoverable(d) >= prior

\* An agent never runs over a snapshot of a newer build: its flushes would
\* rotate the only forward snapshot away (ErrSchemaNewer).
NeverOverNewer ==
    pc # "down" => ~SchemaNewer(dir.wal, build) /\ ~SchemaNewer(dir.bak, build)

\* Whatever is damaged, a boot that comes up without the last but one
\* acknowledged generation declares it with an epoch other than the last run's,
\* which is what the billing windows split at: a forgotten reset is a clamped
\* billing day (stampCountersReset).  Only a clock that shows the second of the
\* last epoch again hides the declaration it stamps (tied).
LossDeclared ==
    [][pc = "down" /\ pc' # "down" => mem' >= prior \/ epoch' # epoch \/ tied']_vars

\* The files of this module, seen as the store the agent relies on.
Store == INSTANCE CheckpointStore
         WITH up <- pc # "down", harmed <- damaged.wal + damaged.bak > 0

\* The rotation, the fallback, the quarantine and the restore implement the
\* store: a boot finds the last acknowledged generation; after damage at least
\* the one before it, or it declares the loss, unless the clock shows the last
\* epoch's second again (wal.Save, restoreFromWAL).
ImplementsStore == Store!Spec
=============================================================================
