--------------------------- MODULE ChangeDetection ---------------------------
(***************************************************************************)
(* Which files a build of a capture class reads again (index.rs            *)
(* TreeBuilder, engine.rs build_class): the stat key against the index,    *)
(* the racy mark for a read in the same timestamp tick as a write, the     *)
(* paths the watcher reported, the chunks already packed.  Files are       *)
(* written between any two steps of the build; a build may yield and       *)
(* resume (bulk), fail, or meet a directory it cannot list and carry what  *)
(* it read there last.                                                     *)
(*                                                                         *)
(* Time is the tick of the filesystem's clock: two writes in one tick      *)
(* leave the same stat.  A content is a number, fresh at every write; it   *)
(* stands for the file's chunks.  Content 0 is no file.                    *)
(***************************************************************************)
EXTENDS Integers, FiniteSets

CONSTANTS
    Files,          \* the files of the class
    Hidden,         \* those under a directory that may become unlistable
    DetectLimits    \* records [class, writes, ticks, builds, upsets, strict]

\* What the constants may be.
DetectAssumption ==
    /\ Hidden \subseteq Files
    /\ \A l \in DetectLimits :
        /\ l.class \in {"small", "bulk"}
        /\ {l.writes, l.ticks, l.builds, l.upsets} \subseteq Nat
        /\ l.strict \in BOOLEAN

\* RACY_WINDOW in ticks of the clock the stats are kept on: two seconds cover the coarsest.
RacyWindow == 1
\* READ_ATTEMPTS: the read after the first is one of them here.
ReadAttempts == 1

VARIABLES
    clock,      \* the current tick
    file,       \* file[f]: its content and the tick of its last change (ctime)
    listable,   \* whether the directory of the hidden files can be listed and stat'ed
    noted,      \* Invalidations: paths the watcher reported, not yet taken
    tindex,     \* TreeIndex: the stat and chunks of the last read, and the racy marks
    packed,     \* ChunkMap: contents whose chunks are in a pack of the chain
    work,       \* the build in progress (ClassWork with it)
    tree,       \* what the last completed build put in its tree
    had,        \* had[f]: the contents f has had since the build in progress began
    carriedOver,\* files carried by a completed build since they were last read
    dleft

detectVars == <<clock, file, listable, noted, tindex, packed, work, tree, had, carriedOver, dleft>>

Unindexed == [content |-> 0, ctime |-> -1]
NoWork == [pc |-> "none"]

DetectInit ==
    /\ clock = 1
    /\ file = [f \in Files |-> [content |-> 1, ctime |-> 0]]
    /\ listable = TRUE
    /\ noted = {}
    /\ tindex = [files |-> [f \in Files |-> Unindexed], racy |-> {}]
    /\ packed = {}
    /\ work = NoWork
    /\ tree = [f \in Files |-> [content |-> 0, how |-> "none"]]
    /\ had = [f \in Files |-> {}]
    /\ carriedOver = {}
    /\ dleft \in DetectLimits

----------------------------------------------------------------------------
\* What happens on the disk.

FileContents == {file[f].content : f \in Files}
Fresh == 1 + CHOOSE v \in FileContents \cup packed \cup {tindex.files[f].content : f \in Files} :
                 \A w \in FileContents \cup packed \cup {tindex.files[f].content : f \in Files} : w <= v

DiskOnly == UNCHANGED <<tindex, packed, work, tree, carriedOver>>

\* A write of the same size; the watcher reports it, or lags behind the build.
Write(f) ==
    /\ dleft.writes > 0
    /\ dleft' = [dleft EXCEPT !.writes = @ - 1]
    /\ file' = [file EXCEPT ![f] = [content |-> Fresh, ctime |-> clock]]
    /\ had' = [had EXCEPT ![f] = @ \cup {Fresh}]
    /\ \E report \in BOOLEAN : noted' = IF report THEN noted \cup {f} ELSE noted
    /\ DiskOnly /\ UNCHANGED <<clock, listable>>

Remove(f) ==
    /\ dleft.writes > 0 /\ file[f].content # 0
    /\ dleft' = [dleft EXCEPT !.writes = @ - 1]
    /\ file' = [file EXCEPT ![f] = [content |-> 0, ctime |-> clock]]
    /\ had' = [had EXCEPT ![f] = @ \cup {0}]
    /\ DiskOnly /\ UNCHANGED <<clock, listable, noted>>

Tick ==
    /\ clock < dleft.ticks
    /\ clock' = clock + 1
    /\ DiskOnly /\ UNCHANGED <<file, listable, noted, had, dleft>>

Relist ==
    /\ dleft.upsets > 0 /\ Hidden # {}
    /\ dleft' = [dleft EXCEPT !.upsets = @ - 1]
    /\ listable' = ~listable
    /\ DiskOnly /\ UNCHANGED <<clock, file, noted, had>>

----------------------------------------------------------------------------
\* build_class and TreeBuilder::build.

Engine(pc) == work.pc = pc
DiskKept == UNCHANGED <<clock, file, listable>>

\* Listing::mount: the paths a walk finds and can stat. What is under a directory that cannot be
\* listed is unknown, never absent.
Listing == {f \in Files : file[f].content # 0 /\ (listable \/ f \notin Hidden)}
Unreadable == IF listable THEN {} ELSE Hidden

\* The listing is taken (a stat per file), the work of a yielded bulk build is resumed, and the
\* reported paths become suspects.
BuildBegins(strict) ==
    LET resumed == Engine("yielded")
    IN  /\ work.pc \in {"none", "yielded"}
        /\ dleft.builds > 0
        /\ strict => dleft.strict
        /\ dleft' = [dleft EXCEPT !.builds = @ - 1]
        /\ work' = [pc |-> "next", strict |-> strict,
                    listed |-> [f \in Listing |-> file[f].ctime],
                    unlisted |-> Unreadable,
                    todo |-> Listing,
                    index |-> IF resumed THEN work.index ELSE tindex,
                    suspects |-> noted \cup (IF resumed THEN work.suspects ELSE {}),
                    chunks |-> IF resumed THEN work.chunks ELSE {},
                    made |-> {}, new |-> << >>, racy |-> {}, how |-> << >>, unread |-> {},
                    at |-> "", attempt |-> 0, before |-> -1, got |-> 0, started |-> 0]
        /\ noted' = {}
        /\ had' = [f \in Files |-> {file[f].content}]
        /\ DiskKept /\ UNCHANGED <<tindex, packed, tree, carriedOver>>

BuildStep == DiskKept /\ UNCHANGED <<noted, tindex, packed, tree, had, carriedOver, dleft>>

Without(f, x) == [g \in DOMAIN x \ {f} |-> x[g]]
With(f, v, x) == [g \in DOMAIN x \cup {f} |-> IF g = f THEN v ELSE x[g]]

\* TreeBuilder::reusable, without the racy mark.
ReusableByStat(f) ==
    /\ work.index.files[f].ctime = work.listed[f]
    /\ f \notin work.suspects
    /\ work.index.files[f].content \in packed \cup work.chunks \cup work.made

\* TreeBuilder::reusable, without asking for the chunks.
ReusableUnpacked(f) ==
    /\ work.index.files[f].ctime = work.listed[f]
    /\ f \notin work.index.racy
    /\ f \notin work.suspects

\* TreeBuilder::reusable
Reusable(f) ==
    /\ work.index.files[f].ctime = work.listed[f]
    /\ f \notin work.index.racy
    /\ f \notin work.suspects
    /\ work.index.files[f].content \in packed \cup work.chunks \cup work.made

Taken(f, content, ctime, racy, how) ==
    [work EXCEPT !.pc = "next", !.todo = @ \ {f}, !.at = "",
                 !.new = With(f, [content |-> content, ctime |-> ctime], @),
                 !.how = With(f, how, @),
                 !.racy = IF racy THEN @ \cup {f} ELSE @,
                 !.made = IF how = "reused" THEN @ ELSE @ \cup {content},
                 !.suspects = IF how = "reused" THEN @ ELSE @ \ {f}]

\* file_chunks: the index entry stands in for a read.
Reuse(f) ==
    /\ Engine("next") /\ f \in work.todo /\ Reusable(f)
    /\ work' = Taken(f, work.index.files[f].content, work.listed[f], FALSE, "reused")
    /\ BuildStep

\* read_file begins: now, and the stat before; a file that vanished is left out.
ReadBegins(f) ==
    /\ Engine("next") /\ f \in work.todo /\ ~Reusable(f)
    /\ work' = IF file[f].content = 0 THEN [work EXCEPT !.todo = @ \ {f}]
               ELSE [work EXCEPT !.pc = "read", !.at = f, !.attempt = 0, !.started = clock,
                                 !.before = file[f].ctime]
    /\ BuildStep

ReadContent ==
    /\ Engine("read")
    /\ work' = IF file[work.at].content = 0
               THEN [work EXCEPT !.pc = "next", !.todo = @ \ {work.at}, !.at = ""]
               ELSE [work EXCEPT !.pc = "check", !.got = file[work.at].content]
    /\ BuildStep

\* The stat after: equal, the read stands, racy when the file changed within the window of its
\* start; moved, the file is read again, and after the last attempt kept as torn and racy.
ReadEnds ==
    LET f == work.at
        after == file[f].ctime
    IN  /\ Engine("check")
        /\ work' =
             IF file[f].content = 0
             THEN [work EXCEPT !.pc = "next", !.todo = @ \ {f}, !.at = ""]
             ELSE IF after = work.before
             THEN Taken(f, work.got, after, work.started - after < RacyWindow, "read")
             ELSE IF work.attempt < ReadAttempts
             THEN [work EXCEPT !.pc = "read", !.attempt = @ + 1, !.before = after]
             ELSE Taken(f, work.got, after, TRUE, "torn")
        /\ BuildStep

\* A bulk build yields to a small snap: what was read so far is kept with its racy marks
\* (keep_progress), its packs are finished, its suspects stay.
Yield ==
    LET kept == DOMAIN work.new
    IN  /\ Engine("next") /\ dleft.class = "bulk" /\ ~work.strict
        /\ \E f \in work.todo : ~Reusable(f)
        /\ work' = [pc |-> "yielded",
                    index |-> [files |-> [f \in Files |->
                                  IF f \in kept THEN work.new[f] ELSE work.index.files[f]],
                               racy |-> (work.index.racy \ kept) \cup work.racy],
                    suspects |-> work.suspects,
                    chunks |-> work.chunks \cup work.made]
        /\ BuildStep

\* The work a failed build drops: a small build's index was lent to it and returns.
Fails ==
    /\ work' = NoWork
    /\ noted' = noted \cup work.suspects
    /\ tindex' = IF dleft.class = "small" THEN work.index ELSE tindex
    /\ DiskKept /\ UNCHANGED <<packed, tree, had, carriedOver>>

\* An I/O error in the build, or anything a strict build could not read.
BuildFails ==
    /\ work.pc \in {"next", "read", "check"}
    /\ \/ work.pc = "next" /\ work.todo = {} /\ work.strict /\ work.unlisted # {} /\ dleft' = dleft
       \/ dleft.upsets > 0 /\ dleft' = [dleft EXCEPT !.upsets = @ - 1]
    /\ Fails

\* The index of what was read, and of what could not be listed: its last content, carried.
Carried == {f \in work.unlisted : work.index.files[f].content # 0}

NewIndex ==
    [f \in Files |-> IF f \in DOMAIN work.new THEN work.new[f]
                     ELSE IF f \in Carried THEN work.index.files[f]
                     ELSE Unindexed]

\* The build is complete but its packs cannot be finished (no space): the index stands, the
\* chunks it names are in no pack.
PacksFail ==
    /\ Engine("next") /\ work.todo = {} /\ ~(work.strict /\ work.unlisted # {})
    /\ dleft.upsets > 0 /\ dleft' = [dleft EXCEPT !.upsets = @ - 1]
    /\ work' = NoWork
    /\ tindex' = IF dleft.class = "small" THEN [files |-> NewIndex, racy |-> work.racy] ELSE tindex
    /\ carriedOver' = IF dleft.class = "small" THEN (carriedOver \ DOMAIN work.new) \cup Carried
                      ELSE carriedOver
    /\ DiskKept /\ UNCHANGED <<noted, packed, tree, had>>

\* The build commits: index, racy marks, chunk map and tree; the suspects left are dropped.
BuildEnds ==
    /\ Engine("next") /\ work.todo = {} /\ ~(work.strict /\ work.unlisted # {})
    /\ tindex' = [files |-> NewIndex, racy |-> work.racy]
    /\ packed' = packed \cup work.chunks \cup work.made
    /\ tree' = [f \in Files |->
                  [content |-> NewIndex[f].content,
                   how |-> IF f \in DOMAIN work.how THEN work.how[f]
                           ELSE IF f \in Carried THEN "carried" ELSE "none"]]
    /\ carriedOver' = (carriedOver \ {f \in DOMAIN work.how : work.how[f] # "reused"}) \cup Carried
    /\ work' = NoWork
    /\ DiskKept /\ UNCHANGED <<noted, had, dleft>>

\* A repair or a new identity forgets the chunk locations.
Forget ==
    /\ work.pc \in {"none", "yielded"} /\ packed # {} /\ dleft.upsets > 0
    /\ dleft' = [dleft EXCEPT !.upsets = @ - 1]
    /\ packed' = {}
    /\ work' = NoWork
    /\ DiskKept /\ UNCHANGED <<noted, tindex, tree, had, carriedOver>>

DetectNext ==
    \/ \E f \in Files : Write(f) \/ Remove(f) \/ Reuse(f) \/ ReadBegins(f)
    \/ Tick \/ Relist
    \/ \E strict \in BOOLEAN : BuildBegins(strict)
    \/ ReadContent \/ ReadEnds \/ Yield \/ BuildFails \/ PacksFail \/ BuildEnds \/ Forget

DetectSpec == DetectInit /\ [][DetectNext]_detectVars

----------------------------------------------------------------------------
DetectTypeOK ==
    /\ \A f \in Files : file[f].ctime \in 0..clock
    /\ noted \subseteq Files /\ tindex.racy \subseteq Files
    /\ work.pc \in {"none", "next", "read", "check", "yielded"}
    /\ Engine("next") => work.todo \subseteq DOMAIN work.listed

\* index.rs:29, "A file is read again unless its stat key [...] matches the index *and* its last
\* read was not racy *and* the watcher has not reported a write to it since": a committed tree
\* holds, of every file, a content the file had while the build ran, whatever wrote it and when.
\* It does not hold of a file a build carried unread: the commit clears its racy mark and the
\* watcher's report with those of the files it read, and the next build takes the old content.
TreeIsCurrent ==
    [][\A f \in Files : (tree' # tree /\ tree'[f].how \in {"read", "reused"})
            => tree'[f].content \in had[f]]_detectVars

\* What a build that commits its tree may say of a file it read or took from the index.  A
\* content the file had while the build ran, unless a build carried the file unread since it
\* was last read: the racy mark and the suspects keep a write in the tick of a read from being
\* taken for no write, over yields, failed builds, lost packs and forgotten chunks.
CurrentUnlessCarried(f) ==
    tree'[f].how \in {"read", "reused"} => tree'[f].content \in had[f] \/ f \in carriedOver

\* And no content whose chunks are in no pack (build_class, "chunk referenced by tree but in no
\* pack").
Packed(f) == tree'[f].how \in {"read", "torn", "reused"} => tree'[f].content \in packed'

\* A committed tree is right and whole.
Rightly == tree' # tree => \A f \in Files : CurrentUnlessCarried(f) /\ Packed(f)
TreeIsRight == [][Rightly]_detectVars
=============================================================================
