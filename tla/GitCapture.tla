----------------------------- MODULE GitCapture -----------------------------
(***************************************************************************)
(* The git class of a small snap: gitpack.rs reads the closure of the      *)
(* repository in several steps while the user's git commands run, packs    *)
(* what the chain does not hold yet, reads the refs again and retries; the *)
(* engine (snap_staging) turns the pack into a capture, remembers its tips *)
(* as the negatives of the next pack, and rebuilds a capture whose pack    *)
(* the store lost.  A capture is whole when its own packs hold every       *)
(* object its refs, HEAD, index and worktree trees reach.                  *)
(*                                                                         *)
(* An object is <<"commit", c>> or <<"tree", v>>: a tree stands for all    *)
(* the trees and blobs of one content of the worktree (the raw tree, of    *)
(* the same content without filters, with it).  commits[c] is the tree and *)
(* the parent of commit c.  A pack is the set of objects in it.            *)
(***************************************************************************)
EXTENDS Integers, Sequences, FiniteSets

CONSTANT GitLimits      \* records [ops, snaps, errors, crashes, losses, moves, unstaged, kinds]

\* What the constants may be.
GitAssumption ==
    \A l \in GitLimits :
        /\ {l.ops, l.snaps, l.errors, l.crashes, l.losses, l.moves} \subseteq Nat
        /\ l.unstaged \in BOOLEAN
        /\ l.kinds \subseteq {"auto", "final"} /\ l.kinds # {}

\* PACK_ATTEMPTS is 3 in the code; two show every path of the retry loop.
PACK_ATTEMPTS == 2

VARIABLES
    repo,       \* the repository: work, index, ref, head, reflog, pending
    commits,    \* every commit made: its tree and its parent
    odb,        \* the objects in the object store
    build,      \* the snap in progress: its step and what it has read
    lastTips,   \* Engine::last_tips
    diskTips,   \* git-tips.json
    chain,      \* the captures staged, oldest first
    refused,    \* the capture the registrar refused, and the packs it misses
    gleft       \* what is left of the limits

gitVars == <<repo, commits, odb, build, lastTips, diskTips, chain, refused, gleft>>

Commit(c) == <<"commit", c>>
Tree(v) == <<"tree", v>>

\* Everything git reaches from a set of objects.
Reach(objects) ==
    LET up[c \in 0..Len(commits)] ==
            IF c = 0 THEN {}
            ELSE {Commit(c), Tree(commits[c].tree)} \cup up[commits[c].parent]
    IN  UNION {IF o[1] = "commit" THEN up[o[2]] ELSE {o} : o \in objects}

\* The commit HEAD names: through the branch (head 0), or itself when detached.
HeadCommit(r) == IF r.head = 0 THEN r.ref ELSE r.head

CommitsOf(s) == {Commit(c) : c \in s \ {0}}

NoBuild == [pc |-> "idle"]
Previous == chain[Len(chain)]
Holds(m) == UNION m.packs

\* Manifest::git_tips
GitTips(m) ==
    CommitsOf({m.ref, m.head}) \cup {Tree(m.index), Tree(m.work)}

GitInit ==
    /\ commits = <<[tree |-> 1, parent |-> 0]>>
    /\ repo = [work |-> 1, index |-> 1, ref |-> 1, head |-> 0,
               reflog |-> {1}, pending |-> 0]
    /\ odb = {Commit(1), Tree(1)}
    /\ build = NoBuild
    /\ lastTips = {} /\ diskTips = {}
    /\ chain = << >>
    /\ refused = [at |-> 0, packs |-> {}]
    /\ gleft \in GitLimits

----------------------------------------------------------------------------
\* The user's git commands, between any two steps of a snap.

Versions == {repo.work, repo.index} \cup {commits[c].tree : c \in 1..Len(commits)}
NewVersion == 1 + CHOOSE v \in Versions : \A w \in Versions : w <= v

User ==
    /\ gleft.ops > 0
    /\ gleft' = [gleft EXCEPT !.ops = @ - 1]
    /\ UNCHANGED <<build, lastTips, diskTips, chain, refused>>

Edit ==
    /\ User
    /\ repo' = [repo EXCEPT !.work = NewVersion]
    /\ UNCHANGED <<commits, odb>>

Add ==
    /\ User /\ repo.index # repo.work
    /\ repo' = [repo EXCEPT !.index = repo.work]
    /\ odb' = odb \cup {Tree(repo.work)}
    /\ UNCHANGED commits

MoveTo(c) ==
    [repo EXCEPT !.ref = IF repo.head = 0 THEN c ELSE @,
                 !.head = IF repo.head = 0 THEN @ ELSE c,
                 !.reflog = @ \cup {c, HeadCommit(repo)}]

MakeCommit ==
    /\ User /\ repo.index # commits[HeadCommit(repo)].tree
    /\ commits' = Append(commits, [tree |-> repo.index, parent |-> HeadCommit(repo)])
    /\ repo' = MoveTo(Len(commits'))
    /\ odb' = odb \cup {Commit(Len(commits')), Tree(repo.index)}

Rewind ==
    /\ User /\ commits[HeadCommit(repo)].parent # 0
    /\ repo' = MoveTo(commits[HeadCommit(repo)].parent)
    /\ UNCHANGED <<commits, odb>>

Detach ==
    /\ User
    /\ repo' = [repo EXCEPT !.head = IF @ = 0 THEN repo.ref ELSE 0]
    /\ UNCHANGED <<commits, odb>>

\* A cherry-pick stops: CHERRY_PICK_HEAD names a commit of the reflog.
StartPick ==
    /\ User /\ repo.pending = 0
    /\ \E c \in repo.reflog : repo' = [repo EXCEPT !.pending = c]
    /\ UNCHANGED <<commits, odb>>

\* The reflog expires and git gc prunes what no ref, HEAD, reflog or index reaches.
Gc ==
    /\ User
    /\ repo' = [repo EXCEPT !.reflog = {}]
    /\ odb' = odb \cap Reach({Commit(repo.ref), Commit(HeadCommit(repo)), Tree(repo.index)})
    /\ UNCHANGED commits

----------------------------------------------------------------------------
\* build_git_pack_with: the closure, the pack, the refs again.

NoClosure == [ref |-> 0, head |-> 0, index |-> 0, work |-> 0, pending |-> 0,
              unresolved |-> FALSE, tips |-> {}]

Engine(pc) == build.pc = pc
KeepUser == UNCHANGED <<repo, commits>>

\* GitRepo::root_ref_tips, reflog_tips, index_tree (written to the object store as it is read)
\* and operation_objects: the commit an operation in progress names.
RootRefTips == CommitsOf({HeadCommit(repo)})
ReflogTips == CommitsOf(repo.reflog)
IndexTree == Tree(repo.index)
OperationObjects == CommitsOf({repo.pending})

\* GitRepo::existing
Existing(tips) == tips \cap odb

\* snap_staging up to build_git_pack_with: a repair the registrar asked for drops the tips
\* (repair), and the pack then carries the whole closure.
SnapBegins(kind) ==
    LET repairing == refused.at > 0
        held == IF chain = << >> THEN {} ELSE GitTips(Previous)
        negatives == IF repairing THEN {} ELSE held \cup lastTips
    IN  /\ Engine("idle") /\ gleft.snaps > 0 /\ kind \in gleft.kinds
        /\ gleft' = [gleft EXCEPT !.snaps = @ - 1]
        /\ build' = [pc |-> "refs", kind |-> IF repairing THEN Previous.kind ELSE kind,
                     repairs |-> IF repairing THEN refused.at ELSE 0,
                     forget |-> IF repairing THEN refused.packs ELSE {},
                     negatives |-> Existing(negatives), attempt |-> 1,
                     closure |-> NoClosure, last |-> NoClosure, pack |-> {}, verified |-> FALSE]
        /\ lastTips' = IF repairing THEN {} ELSE lastTips
        /\ diskTips' = IF repairing THEN {} ELSE diskTips
        /\ KeepUser /\ UNCHANGED <<odb, chain, refused>>

\* A failed snap stages nothing.  A failed repair is only logged: the snap that began with it
\* goes on as itself, over no negatives and without the packs the store lost.
Failed ==
    IF build.repairs = 0 THEN NoBuild
    ELSE [build EXCEPT !.pc = "refs", !.repairs = 0, !.attempt = 1, !.pack = {},
                       !.closure = NoClosure, !.last = NoClosure]

EngineStep == KeepUser /\ UNCHANGED <<lastTips, diskTips, chain, refused, gleft>>

\* GitRepo::refs
ReadRefs ==
    /\ Engine("refs") /\ EngineStep /\ UNCHANGED odb
    /\ build' = [build EXCEPT !.pc = "head", !.closure.ref = repo.ref,
                              !.closure.tips = {Commit(repo.ref)}]

\* GitRepo::head_in and root_ref_tips
ReadHead ==
    /\ Engine("head") /\ EngineStep /\ UNCHANGED odb
    /\ build' = [build EXCEPT !.pc = "state", !.closure.head = repo.head,
                              !.closure.tips = @ \cup RootRefTips]

\* read_closure_with goes on: what an operation in progress names is a tip when it resolves and
\* is reported when it does not.
ReadState ==
    /\ Engine("state") /\ EngineStep
    /\ odb' = odb \cup {IndexTree}
    /\ build' = [build EXCEPT
           !.pc = "tree",
           !.closure.index = repo.index,
           !.closure.pending = repo.pending,
           !.closure.unresolved = ~(OperationObjects \subseteq odb),
           !.closure.tips = @ \cup {IndexTree} \cup Existing(ReflogTips \cup OperationObjects)]

\* worktree_tree_with
ReadWorktree ==
    /\ Engine("tree") /\ EngineStep
    /\ odb' = odb \cup {Tree(repo.work)}
    /\ build' = [build EXCEPT !.pc = "pack", !.closure.work = repo.work,
                              !.closure.tips = @ \cup {Tree(repo.work)}]

Packable(tips) == Reach(tips) \ Reach(build.negatives)

\* pack_once: pack-objects fails when an object it needs was pruned.
PackOnce ==
    LET objects == Packable(build.closure.tips)
        settled == build.attempt > PACK_ATTEMPTS
    IN  /\ Engine("pack") /\ EngineStep /\ UNCHANGED odb
        /\ build' =
             IF objects \subseteq odb
             THEN [build EXCEPT !.pc = IF settled THEN "built" ELSE "again", !.pack = objects,
                                !.verified = FALSE]
             ELSE IF settled THEN Failed
             ELSE [build EXCEPT !.attempt = @ + 1,
                       !.pc = IF build.attempt = PACK_ATTEMPTS /\ build.last # NoClosure
                              THEN "pack" ELSE "refs",
                       !.closure = IF build.attempt = PACK_ATTEMPTS /\ build.last # NoClosure
                                   THEN build.last ELSE NoClosure]

Moved == repo.ref # build.closure.ref \/ repo.head # build.closure.head

\* The refs and HEAD are read again: unmoved, the pack stands and fsck runs; moved, the pack is
\* removed and the closure read afresh, until the attempts are used and the last one read is
\* packed unverified.
Recheck ==
    /\ Engine("again") /\ EngineStep /\ UNCHANGED odb
    /\ build' =
         IF ~Moved THEN [build EXCEPT !.pc = "built", !.verified = TRUE]
         ELSE [build EXCEPT
                 !.attempt = @ + 1, !.last = build.closure, !.pack = {},
                 !.pc = IF build.attempt = PACK_ATTEMPTS THEN "pack" ELSE "refs",
                 !.closure = IF build.attempt = PACK_ATTEMPTS THEN @ ELSE NoClosure]

----------------------------------------------------------------------------
\* The rest of snap_staging.

\* As if the refused snap's tips were remembered.
SnapRefusedKeepingTips ==
    /\ Engine("built")
    /\ \/ build.kind = "final" /\ build.closure.unresolved /\ gleft' = gleft
       \/ gleft.errors > 0 /\ gleft' = [gleft EXCEPT !.errors = @ - 1]
    /\ lastTips' = build.closure.tips
    /\ build' = Failed
    /\ KeepUser /\ UNCHANGED <<odb, diskTips, chain, refused>>

\* A final snap refuses an operation it cannot resolve; any snap may fail while it reads the
\* workspace.  Nothing is staged and the tips stay as they were.
SnapRefused ==
    /\ Engine("built")
    /\ \/ build.kind = "final" /\ build.closure.unresolved /\ gleft' = gleft
       \/ gleft.errors > 0 /\ gleft' = [gleft EXCEPT !.errors = @ - 1]
    /\ build' = Failed
    /\ KeepUser /\ UNCHANGED <<odb, lastTips, diskTips, chain, refused>>

Capture ==
    [kind |-> build.kind, ref |-> build.closure.ref, head |-> build.closure.head,
     index |-> build.closure.index, work |-> build.closure.work,
     pending |-> build.closure.pending, log |-> repo.reflog,
     packs |-> ((IF chain = << >> THEN {} ELSE Previous.packs) \ build.forget)
                  \cup ({build.pack} \ {{}})]

\* The workspace class is built (.git/logs with it) and the tips become the next negatives.
RecordTips ==
    /\ Engine("built") /\ ~(build.kind = "final" /\ build.closure.unresolved)
    /\ lastTips' = build.closure.tips
    /\ build' = [pc |-> "staging", capture |-> Capture, repairs |-> build.repairs]
    /\ KeepUser /\ UNCHANGED <<odb, diskTips, chain, refused, gleft>>

\* The sections of both captures are equal (.git/logs and CHERRY_PICK_HEAD are files of the
\* workspace section).
AlreadyHeld ==
    /\ build.repairs = 0 /\ chain # << >>
    /\ build.capture.kind = "auto" \/ Previous.kind = "final"
    /\ [build.capture EXCEPT !.kind = Previous.kind] = Previous

\* An automatic capture of what the chain's newest already holds is not staged.
SnapUnchanged ==
    /\ Engine("staging") /\ AlreadyHeld
    /\ build' = NoBuild
    /\ KeepUser /\ UNCHANGED <<odb, lastTips, diskTips, chain, refused, gleft>>

\* Writing the manifest or queueing the capture fails (no space): the tips stay recorded.
StageFails ==
    /\ Engine("staging") /\ gleft.unstaged /\ gleft.errors > 0
    /\ gleft' = [gleft EXCEPT !.errors = @ - 1]
    /\ build' = NoBuild
    /\ KeepUser /\ UNCHANGED <<odb, lastTips, diskTips, chain, refused>>

\* The capture is queued: at the end of the chain, in place of the newest (an automatic capture
\* coalesces with one the shipper has not claimed), or in place of the refused one and of what
\* followed it.
Stage ==
    /\ Engine("staging") /\ ~AlreadyHeld
    /\ \/ /\ build.repairs = 0
          /\ chain' = Append(chain, build.capture)
       \/ /\ build.repairs = 0 /\ build.capture.kind = "auto"
          /\ chain # << >> /\ Previous.kind = "auto"
          /\ chain' = [chain EXCEPT ![Len(chain)] = build.capture]
       \/ /\ build.repairs > 0
          /\ chain' = Append(SubSeq(chain, 1, build.repairs - 1), build.capture)
    /\ refused' = IF build.repairs > 0 THEN [at |-> 0, packs |-> {}] ELSE refused
    /\ build' = [pc |-> "persist"]
    /\ KeepUser /\ UNCHANGED <<odb, lastTips, diskTips, gleft>>

Persist ==
    /\ Engine("persist")
    /\ diskTips' = lastTips
    /\ build' = NoBuild
    /\ KeepUser /\ UNCHANGED <<odb, lastTips, chain, refused, gleft>>

\* The daemon dies and opens the engine again over the same disk.
EngineCrash ==
    /\ gleft.crashes > 0
    /\ gleft' = [gleft EXCEPT !.crashes = @ - 1]
    /\ build' = NoBuild
    /\ lastTips' = diskTips
    /\ KeepUser /\ UNCHANGED <<odb, diskTips, chain, refused>>

\* The registrar refuses a capture: the store does not hold the pack it added.
PackLost(i) ==
    LET added == chain[i].packs \ (IF i = 1 THEN {} ELSE chain[i - 1].packs)
    IN  /\ Engine("idle") /\ gleft.losses > 0 /\ refused.at = 0 /\ added # {}
        /\ gleft' = [gleft EXCEPT !.losses = @ - 1]
        /\ refused' = [at |-> i, packs |-> added]
        /\ KeepUser /\ UNCHANGED <<odb, build, lastTips, diskTips, chain>>

\* Another executor materializes the newest capture onto an empty disk and takes what the
\* repository got from it as stored (seed_tips_from_repo): the refs, HEAD and the reflog, never
\* the index and worktree trees.
StoredTips(r, objects) ==
    (CommitsOf({r.ref, HeadCommit(r)}) \cup CommitsOf(r.reflog)) \cap objects

\* install_pack of every pack the capture lists; write_packed_refs and write_head, with the
\* worktree, the index and .git/logs restored beside them.
InstalledPacks(m) == Holds(m)
RestoredRepo(m) ==
    [work |-> m.work, index |-> m.index, ref |-> m.ref, head |-> m.head,
     reflog |-> m.log, pending |-> m.pending]

Takeover ==
    LET m == Previous
    IN  /\ Engine("idle") /\ gleft.moves > 0 /\ chain # << >> /\ refused.at = 0
        /\ gleft' = [gleft EXCEPT !.moves = @ - 1]
        /\ repo' = RestoredRepo(m)
        /\ odb' = InstalledPacks(m)
        /\ lastTips' = StoredTips(RestoredRepo(m), InstalledPacks(m))
        /\ diskTips' = lastTips'
        /\ UNCHANGED <<commits, build, chain, refused>>

GitNext ==
    \/ Edit \/ Add \/ MakeCommit \/ Rewind \/ Detach \/ StartPick \/ Gc
    \/ \E kind \in {"auto", "final"} : SnapBegins(kind)
    \/ ReadRefs \/ ReadHead \/ ReadState \/ ReadWorktree \/ PackOnce \/ Recheck
    \/ SnapRefused \/ RecordTips \/ SnapUnchanged \/ StageFails \/ Stage \/ Persist
    \/ EngineCrash \/ Takeover
    \/ \E i \in 1..Len(chain) : PackLost(i)

GitSpec == GitInit /\ [][GitNext]_gitVars

----------------------------------------------------------------------------
GitTypeOK ==
    /\ repo.ref \in 1..Len(commits)
    /\ repo.head \in 0..Len(commits)
    /\ repo.reflog \subseteq 1..Len(commits) /\ repo.pending \in 0..Len(commits)
    /\ build.pc \in {"idle", "refs", "head", "state", "tree", "pack", "again", "built",
                     "staging", "persist"}
    /\ refused.at \in 0..Len(chain)

\* Every capture of the chain can be restored from its own packs, whatever the user's git ran
\* between two steps of the snaps, however many attempts were retried, repaired, refused or cut
\* by a crash: what its refs, HEAD, index and worktree trees reach is in the packs it names; a
\* final one also holds what an operation in progress needs (build_git_pack_with, last_tips,
\* repair).
Needs(m) ==
    Reach(CommitsOf({m.ref, HeadCommit(m)} \cup (IF m.kind = "final" THEN {m.pending} ELSE {}))
            \cup {Tree(m.index), Tree(m.work)})

CaptureWhole ==
    \A i \in 1..Len(chain) :
        (refused.at = 0 \/ i < refused.at) => Needs(chain[i]) \subseteq Holds(chain[i])

\* engine.rs:2897, "Only a snap that goes on to stage its git pack makes that pack's tips the
\* next pack's negatives": between snaps, what the remembered tips reach is in the packs of the
\* newest capture.
OnlyStagedTipsAreNegatives ==
    (Engine("idle") /\ chain # << >> /\ refused.at = 0)
        => Reach(lastTips) \subseteq Holds(Previous)
=============================================================================
