------------------------------- MODULE Restore -------------------------------
(***************************************************************************)
(* Bringing a disk to a capture's manifest (sealant-capture/materialize.rs *)
(* Materializer, with gitpack.rs checkout_tree_changing and                *)
(* worktree_meta.rs DesiredInodes and apply_over): the git class moves     *)
(* from the tree last checked out, the chunked classes skip a file whose   *)
(* stat the index knows, names share an inode exactly where the capture    *)
(* says so.  A restore runs over whatever a session left on the disk, and  *)
(* stops anywhere: an error, or a crash.                                   *)
(*                                                                         *)
(* A value is a file's bytes and mtime; 0 is no file.  An index entry      *)
(* whose stat no longer matches any file is as good as none, so a change   *)
(* to an inode drops the entries that know it.                             *)
(***************************************************************************)
EXTENDS Integers, FiniteSets

CONSTANTS
    Tracked,        \* names of the git class
    Workspace,      \* names of the workspace class
    Bulk,           \* names of the bulk class
    Captures,       \* manifests [files, groups, pending, sealed]
    RestoreLimits   \* records [changes, restores, faults]

Names == Tracked \cup Workspace \cup Bulk
Chunked == Workspace \cup Bulk
Values == 1..2
\* Inodes by the name they were made for: more than the names can hold at once.
Spare == Cardinality(Names) + 1
Inodes == Names \X (1..Spare)
NoInode == <<"none", 0>>
NoEntry == [ino |-> NoInode, value |-> 0]
NoTree == [t \in Tracked |-> 0]

\* A group's names hold one file; a name is in one group at most.
RestoreAssumption ==
    /\ Tracked \cap Chunked = {} /\ Workspace \cap Bulk = {}
    /\ \A m \in Captures :
        /\ m.files \in [Names -> Values \cup {0}]
        /\ m.pending \in BOOLEAN /\ m.sealed \in BOOLEAN
        /\ \A g \in m.groups : g \subseteq Names /\ Cardinality({m.files[n] : n \in g}) = 1
        /\ \A g, h \in m.groups : g = h \/ g \cap h = {}
    /\ \A l \in RestoreLimits : {l.changes, l.restores, l.faults} \subseteq Nat

VARIABLES
    disk,       \* [ino: name -> inode or 0, bytes: inode -> value]
    saved,      \* the DiskState on disk: index entries and the tree last checked out
    state,      \* the DiskState in memory while a restore runs
    job,        \* the restore under way
    outcome,    \* the manifest the disk was just brought to, with the tracked names the
                \* checkout left as they were because both trees agree on them
    rleft

restoreVars == <<disk, saved, state, job, outcome, rleft>>

Idle == [pc |-> "idle"]
NoOutcome == [done |-> FALSE]
Empty == [files |-> [n \in Chunked |-> NoEntry], tree |-> NoTree, known |-> FALSE]

RestoreInit ==
    /\ disk = [ino |-> [n \in Names |-> NoInode], bytes |-> [i \in Inodes |-> 1]]
    /\ saved = Empty /\ state = Empty
    /\ job = Idle /\ outcome = NoOutcome
    /\ rleft \in RestoreLimits

----------------------------------------------------------------------------
\* The file system.

Held(n) == IF disk.ino[n] = NoInode THEN 0 ELSE disk.bytes[disk.ino[n]]
Used(ino) == {ino[n] : n \in Names}

\* A new inode for n: one no name has.
Fresh(n) == <<n, CHOOSE k \in 1..Spare :
                    /\ <<n, k>> \notin Used(disk.ino)
                    /\ \A j \in 1..(k - 1) : <<n, j>> \in Used(disk.ino)>>

\* Each name of S gets a file of its own (a new inode, renamed over the name), or none.
Replaced(d, S, want) ==
    LET new == [n \in S |-> IF want[n] = 0 THEN NoInode ELSE Fresh(n)]
    IN  [ino |-> [n \in Names |-> IF n \in S THEN new[n] ELSE d.ino[n]],
         bytes |-> [i \in Inodes |-> IF i[1] \in S /\ new[i[1]] = i THEN want[i[1]] ELSE d.bytes[i]]]

\* The names of S become names of n's inode.
Linked(d, S, n) == [d EXCEPT !.ino = [m \in Names |-> IF m \in S THEN @[n] ELSE @[m]]]

\* Inodes whose stat moved between two disks: bytes written, a name added or removed.
MovedIn(e) ==
    {i \in Inodes : \/ disk.bytes[i] # e.bytes[i]
                    \/ {n \in Names : disk.ino[n] = i} # {n \in Names : e.ino[n] = i}}
Forgets(index, e) ==
    [index EXCEPT !.files = [n \in Chunked |->
        IF @[n].ino \in MovedIn(e) THEN NoEntry ELSE @[n]]]

\* What is left of an inode without a name does not matter.
Settle(e) == [e EXCEPT !.bytes = [i \in Inodes |-> IF i \in Used(e.ino) THEN @[i] ELSE 1]]

----------------------------------------------------------------------------
\* A session uses the disk between restores.

Spends(field) == rleft[field] > 0 /\ rleft' = [rleft EXCEPT ![field] = @ - 1]

SessionLeaves(e) ==
    /\ job.pc = "idle" /\ Spends("changes")
    /\ disk' = Settle(e)
    /\ saved' = Forgets(saved, e)
    /\ outcome' = NoOutcome
    /\ UNCHANGED <<state, job>>

\* Written in place, saved through a new file, removed, linked.
SessionWrites(n, v) ==
    \/ disk.ino[n] # NoInode /\ SessionLeaves([disk EXCEPT !.bytes[disk.ino[n]] = v])
    \/ SessionLeaves(Replaced(disk, {n}, [m \in {n} |-> v]))
SessionRemoves(n) ==
    disk.ino[n] # NoInode /\ SessionLeaves([disk EXCEPT !.ino[n] = NoInode])
SessionLinks(n, m) ==
    disk.ino[m] \notin {NoInode, disk.ino[n]} /\ SessionLeaves(Linked(disk, {n}, m))

\* A build of the engine indexes what it read (TreeIndex, the same file the restore loads).
SessionCaptures ==
    /\ job.pc = "idle" /\ Spends("changes")
    /\ saved' = [saved EXCEPT !.files = [n \in Chunked |->
                    IF Held(n) = 0 THEN NoEntry ELSE [ino |-> disk.ino[n], value |-> Held(n)]]]
    /\ UNCHANGED <<disk, state, job, outcome>>

----------------------------------------------------------------------------
\* What a restore of the manifest job.m has to do.

M == job.m.files
\* The classes restored: bulk only where its section is there.
Restored == Workspace \cup (IF job.m.pending THEN {} ELSE Bulk)
\* Hardlink groups within a class: a canonical file, and names linked to it.
ClassGroups == {g \cap c : g \in job.m.groups, c \in {Workspace, Bulk} \cap SUBSET Restored} \ {{}}
Canonical(g) == CHOOSE n \in g : TRUE
LinkNames == UNION {g \ {Canonical(g)} : g \in ClassGroups}
\* The last checkout's tree still names the path with the same blob.
Agrees(t) == job.from /\ state.tree[t] = M[t]

\* checkout_tree_changing trusts the disk where the trees agree; checkout_tree writes every
\* path.  A path the tree does not name is removed (untracked_against).
CheckedOut ==
    LET written == {t \in Tracked : IF M[t] = 0 THEN Held(t) # 0 ELSE ~Agrees(t)}
    IN  Replaced(disk, written, M)

Stray == {t \in Tracked : M[t] # 0 /\ Agrees(t) /\ Held(t) # M[t]}

\* file_matches without the chunk list.
FileMatchesStat(n) ==
    /\ state.files[n].ino = disk.ino[n] /\ disk.ino[n] # NoInode

\* file_matches: the index knows the stat on disk, and the bytes the manifest wants.
FileMatches(n) ==
    /\ state.files[n].ino = disk.ino[n] /\ disk.ino[n] # NoInode
    /\ state.files[n].value = M[n]

\* write_dir's pending files, written by write_files.
PendingFiles == {n \in Restored \ LinkNames : M[n] # 0 /\ ~FileMatches(n)}
FilesWritten == Replaced(disk, PendingFiles, M)

\* link_all, then sweep: what the plan does not name is removed.
LinksMade ==
    [disk EXCEPT !.ino = [n \in Names |->
        IF n \in LinkNames THEN @[Canonical(CHOOSE g \in ClassGroups : n \in g)]
        ELSE IF n \in Restored /\ M[n] = 0 THEN NoInode ELSE @[n]]]

\* DesiredInodes: the names the restore answers for, and the ones that belong together.
Desired == {n \in Tracked \cup Restored : M[n] # 0} \cup UNION job.m.groups
Together(n) == {n} \cup UNION {g \in job.m.groups : n \in g}
On(i) == {n \in Desired : disk.ino[n] = i}
\* separate: of the groups found on one inode the largest keeps it.
Keeps(i) ==
    LET groups == {Together(n) \cap On(i) : n \in On(i)}
    IN  CHOOSE g \in groups : \A h \in groups : Cardinality(g) >= Cardinality(h)
Mixed == {i \in Used(disk.ino) \ {NoInode} : \E n, m \in On(i) : m \notin Together(n)}
Apart == UNION {On(i) \ Keeps(i) : i \in Mixed}
Touched == UNION {On(i) : i \in Mixed}

\* Nothing is copied apart.
NeverSeparated == disk

Separated ==
    LET head(n) == Canonical(Together(n) \cap On(disk.ino[n]))
        heads == {head(n) : n \in Apart}
        d == Replaced(disk, heads, [n \in heads |-> Held(n)])
    IN  [d EXCEPT !.ino = [n \in Names |-> IF n \in Apart THEN @[head(n)] ELSE @[n]]]

\* apply_over: every name of a group that holds the same bytes is linked to the first, a
\* tracked one if there is one.
First(g) == IF g \cap Tracked = {} THEN Canonical(g) ELSE Canonical(g \cap Tracked)
Relinks == {n \in UNION job.m.groups :
               LET f == First(Together(n)) IN Held(n) # 0 /\ Held(n) = Held(f)}
MetaApplied ==
    [disk EXCEPT !.ino = [n \in Names |-> IF n \in Relinks THEN @[First(Together(n))] ELSE @[n]]]

Target ==
    CASE job.pc = "git" -> CheckedOut
      [] job.pc = "files" -> FilesWritten
      [] job.pc = "links" -> LinksMade
      [] job.pc = "apart" -> Separated
      [] job.pc = "meta" -> MetaApplied

\* The index entries a step records for the names it wrote (write_files), linked
\* (refresh_linked), or relinked or found apart (after apply_over), the disk now being e.
Indexed(e) ==
    LET kept == IF job.pc = "apart" THEN state.files ELSE Forgets(state, e).files
        wrote == {n \in PendingFiles : e.ino[n] # disk.ino[n]}
    IN  [n \in Chunked |->
            CASE job.pc = "files" /\ n \in wrote -> [ino |-> e.ino[n], value |-> M[n]]
              [] job.pc = "links" /\ state.files[n].ino = e.ino[n] /\ M[n] # 0 -> state.files[n]
              [] job.pc = "meta" /\ state.files[n] # NoEntry /\ e.ino[n] # NoInode
                    /\ state.files[n].value = Held(n) -> [ino |-> e.ino[n], value |-> Held(n)]
              [] OTHER -> kept[n]]

----------------------------------------------------------------------------
\* A restore, step by step.

After == [git |-> "files", files |-> "links", links |-> "apart", apart |-> "meta", meta |-> "idle"]
Strict == job.m.sealed /\ ~job.m.pending

\* materialize and materialize_delta load the state; the tree it names is used if the
\* repository still has it (GitRepo::existing).
RestoreBegins(m, how) ==
    /\ job.pc = "idle" /\ Spends("restores")
    /\ state' = saved
    /\ \E from \in {saved.known, FALSE} :
        job' = [pc |-> "git", m |-> m, how |-> how, from |-> from, stray |-> {}, touched |-> {}]
    /\ outcome' = NoOutcome
    /\ UNCHANGED <<disk, saved>>

\* One step of materialize_with_state, done.  apply_over leaves a group it cannot fulfil
\* unlinked, unless the restore is strict.
RestoreStep ==
    /\ job.pc # "idle"
    /\ job.pc = "meta" /\ Strict => UNION job.m.groups = Relinks
    /\ LET e == Target
           now == [state EXCEPT !.files = Indexed(e),
                                !.tree = IF job.pc = "git" THEN [t \in Tracked |-> M[t]] ELSE @,
                                !.known = @ \/ job.pc = "git"]
       IN  /\ disk' = Settle(e)
           /\ state' = now
           \* DiskState::save when the last step is done
           /\ saved' = IF job.pc = "meta" THEN now ELSE Forgets(saved, e)
    /\ IF job.pc = "meta"
       THEN job' = Idle /\ outcome' = [done |-> TRUE, m |-> job.m, stray |-> job.stray]
       ELSE /\ job' = [job EXCEPT !.pc = After[job.pc],
                                  !.stray = IF job.pc = "git" THEN Stray ELSE @,
                                  !.touched = IF job.pc = "apart" THEN Touched ELSE @]
            /\ UNCHANGED outcome
    /\ UNCHANGED rleft

\* An error or a crash, part of the step's names written: a failed re-plan saves what its
\* indexes know (materialize_delta), a failed boot and a crash save nothing.
RestoreStops(crash) ==
    /\ job.pc # "idle"
    /\ \/ Spends("faults")
       \/ job.pc = "meta" /\ Strict /\ UNION job.m.groups # Relinks /\ ~crash /\ UNCHANGED rleft
    /\ \E names \in SUBSET {n \in Names : Target.ino[n] # disk.ino[n]} :
        LET e == [ino |-> [n \in Names |-> IF n \in names THEN Target.ino[n] ELSE disk.ino[n]],
                  bytes |-> Target.bytes]
            known == IF job.pc = "files" THEN Indexed(e) ELSE Forgets(state, e).files
        IN  /\ disk' = Settle(e)
            /\ saved' = IF job.how = "replan" /\ ~crash 
                        THEN [state EXCEPT !.files =
                                [n \in Chunked |-> IF n \in job.touched THEN NoEntry ELSE known[n]]]
                        ELSE Forgets(saved, e)
    /\ state' = Empty /\ job' = Idle
    /\ UNCHANGED outcome

RestoreNext ==
    \/ \E n \in Names : (\E v \in Values : SessionWrites(n, v)) \/ SessionRemoves(n)
    \/ \E n, m \in Names : SessionLinks(n, m)
    \/ SessionCaptures
    \/ \E m \in Captures, how \in {"boot", "replan"} : RestoreBegins(m, how)
    \/ RestoreStep
    \/ \E crash \in BOOLEAN : RestoreStops(crash)

RestoreSpec == RestoreInit /\ [][RestoreNext]_restoreVars

----------------------------------------------------------------------------
Entries == [ino : Inodes \cup {NoInode}, value : Values \cup {0}]
States == [files : [Chunked -> Entries], tree : [Tracked -> Values \cup {0}], known : BOOLEAN]

\* The type of every variable.
RestoreTypeOK ==
    /\ disk \in [ino : [Names -> Inodes \cup {NoInode}], bytes : [Inodes -> Values]]
    /\ saved \in States /\ state \in States
    /\ job = Idle \/ (job.pc \in DOMAIN After /\ job.m \in Captures)
    /\ outcome = NoOutcome \/ (outcome.m \in Captures /\ outcome.stray \subseteq Tracked)

\* The names a finished restore answers for.
Covered == Tracked \cup Workspace \cup (IF outcome.m.pending THEN {} ELSE Bulk)

\* A finished restore left every file as the capture has it, whatever a session or an
\* interrupted restore had left there: no name skipped on a stale index entry, none of the
\* plan missing, none beyond it, except tracked names the checkout was vouched for
\* (materialize.rs file_matches, write_files, sweep; gitpack.rs checkout_tree_changing).
RestoredUnlessVouched ==
    outcome.done => \A n \in Covered \ outcome.stray : Held(n) = outcome.m.files[n]

\* After a finished restore two names are one inode exactly where the capture says so: a
\* reused inode with a name the capture holds apart is copied, a group is linked
\* (worktree_meta.rs separate, apply_over).
InodesAreGroups ==
    outcome.done =>
        \A n, m \in {x \in Covered \ outcome.stray : Held(x) # 0} :
            n # m => (disk.ino[n] = disk.ino[m] <=> \E g \in outcome.m.groups : {n, m} \subseteq g)

\* A finished restore left every file as the capture has it ("bring a workspace to a
\* manifest", materialize.rs module doc).  It does not hold of a tracked file that changed since
\* the checkout the state vouches for: it is kept as it is (outcome.stray).
RestoreIsExact ==
    outcome.done => \A n \in Covered : Held(n) = outcome.m.files[n]

\* A finished restore gave the disk the capture's files and its groups of hard links.
RestoredRight == RestoredUnlessVouched /\ InodesAreGroups
==============================================================================
