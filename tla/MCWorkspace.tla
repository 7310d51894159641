------------------------------ MODULE MCWorkspace ------------------------------
(* The parts of the daemon that run processes in the workspace, read, keep *)
(* and restore it, for TLC: those of MCLifecycle and MCRunning, the spawn  *)
(* gate, which has its own variables, and the rest.                        *)
EXTENDS SpawnGate, MCLifecycle, MCRunning

CONSTANTS
  GitLimits, UnstagedLimits,                                         \* GitCapture
  Files, Hidden, DetectLimits,                                       \* ChangeDetection
  Readers, ReadLimits,                                               \* ReadAhead
  Tracked, Workspace, Bulk, Captures, RestoreLimits,                 \* Restore
  MaxPid, SweepLimits,                                               \* Sweep
  Members, MaxMembers, PerFile, Total,                               \* Archive
  Contents, FsLimits,                                                \* FsTelemetry
  Requests, DotLimits                                                \* Dotfiles

(* Model values of the profiles.                                           *)
CONSTANTS n1, n2, n3, n4,       \* files of a capture
          r1, r2                \* requests for dotfiles

workspaceVars == <<vars, partVars>>

-------------------------------------------------------------------------------
(* GitCapture: commits, resets and gcs between and during the packs of     *)
(* several snaps, with errors, crashes, refused packs, moved repositories. *)
GitProfile(o, s, e, x, l, m, k) ==
  [ops |-> o, snaps |-> s, errors |-> e, crashes |-> x, losses |-> l, moves |-> m,
   unstaged |-> FALSE, kinds |-> k]
GitProfiles ==
  {GitProfile(3, 3, 1, 1, 0, 0, {"auto"}), GitProfile(3, 3, 1, 0, 1, 0, {"auto"}),
   GitProfile(3, 2, 0, 0, 0, 1, {"auto", "final"}), GitProfile(4, 2, 0, 0, 0, 0, {"final"}),
   [GitProfile(1, 1, 1, 0, 0, 0, {"auto"}) EXCEPT !.unstaged = TRUE]}
Git == INSTANCE GitCapture WITH
  repo <- w1, commits <- w2, odb <- w3, build <- w4, lastTips <- w5, diskTips <- w6, chain <- w7,
  refused <- w8, gleft <- w9
(* Stages that fail after their pack was built.                            *)
UnstagedProfiles == {[GitProfile(2, 3, 1, 0, 0, 0, {"auto"}) EXCEPT !.unstaged = TRUE]}
Unstaged == INSTANCE GitCapture WITH
  repo <- w1, commits <- w2, odb <- w3, build <- w4, lastTips <- w5, diskTips <- w6, chain <- w7,
  refused <- w8, gleft <- w9,
  GitLimits <- UnstagedLimits

(* ChangeDetection: writes in the tick of a read, directories that become  *)
(* unlistable, yields, failed builds and lost packs.                       *)
DetectProfile(k, w, n, o, x, s) ==
  [class |-> k, writes |-> w, ticks |-> n, builds |-> o, upsets |-> x, strict |-> s]
DetectProfiles ==
  {DetectProfile("small", 2, 3, 3, 0, FALSE), DetectProfile("bulk", 2, 2, 3, 1, FALSE),
   DetectProfile("small", 2, 2, 3, 2, TRUE)}
Detect == INSTANCE ChangeDetection WITH
  clock <- w1, file <- w2, listable <- w3, noted <- w4, tindex <- w5, packed <- w6, work <- w7,
  tree <- w8, had <- w9, carriedOver <- w10, dleft <- w11

(* ReadAhead: results at the budget, a plan in another order, a write and *)
(* a fault under a read; a large file in more parts than are in flight, a *)
(* pool that could not be started.                                         *)
ReadProfile(o, q, l, e, n, k, w, f) ==
  [order |-> o, plan |-> q, large |-> l, budget |-> e, parts |-> n, crews |-> k, writes |-> w, faults |-> f,
   size |-> [x \in {"big", "one", "two"} |-> IF x = "big" THEN 2 ELSE 1]]
Crew == {"x", "y"}
ReadProfiles ==
  {ReadProfile(<<"big", "one", "two">>, <<"big", "one", "two">>, {}, 2, 0, {Crew}, 1, 1),
   ReadProfile(<<"one", "two", "big">>, <<"two", "one">>, {}, 1, 0, {Crew}, 1, 1),
   ReadProfile(<<"one", "big">>, <<"one">>, {"big"}, 1, 6, {Crew}, 0, 1),
   ReadProfile(<<"one", "big">>, <<"one">>, {"big"}, 1, 2, SUBSET Crew, 1, 1)}
Ahead == INSTANCE ReadAhead WITH
  ahead <- w1, crew <- w2, builder <- w3, pool <- w4, disk <- w5, rleft <- w6

(* Restore: three captures of four files with different hard links, one    *)
(* without its bulk, restored over each other with a fault and edits.      *)
Held(vt, vu, vc, vb) ==
  [n \in {n1, n2, n3, n4} |-> IF n = n1 THEN vt ELSE IF n = n2 THEN vu ELSE IF n = n3 THEN vc ELSE vb]
RestoreCaptures ==
  {[files |-> Held(1, 1, 1, 1), groups |-> {{n1, n3}}, pending |-> FALSE, sealed |-> TRUE],
   [files |-> Held(1, 0, 1, 1), groups |-> {{n3, n4}}, pending |-> FALSE, sealed |-> FALSE],
   [files |-> Held(2, 2, 2, 1), groups |-> {{n1, n2}}, pending |-> TRUE, sealed |-> FALSE]}
RestoreProfiles ==
  {[changes |-> 1, restores |-> 3, faults |-> 0], [changes |-> 2, restores |-> 2, faults |-> 1]}
Restores == INSTANCE Restore WITH
  disk <- w1, saved <- w2, state <- w3, job <- w4, outcome <- w5, rleft <- w6

(* Sweep: a helper and its child, a container's helper, a recovery's own   *)
(* processes, a pid table that is full, and no subreaper.  Of a table, the *)
(* daemon is 1, what started it 0.                                         *)
Runs(parent, group) == [state |-> "run", ppid |-> parent, pgid |-> group]
SweepProfile ==
  [table |-> <<>>, scope |-> "descendants", subreaper |-> TRUE, recovery |-> FALSE, gate |-> {},
   exempt |-> {}, trees |-> {}, listed |-> FALSE, hard |-> FALSE, forks |-> 1, exits |-> TRUE,
   docker |-> FALSE]
SweepProfiles ==
  {[SweepProfile EXCEPT !.table = (2 :> Runs(1, 1)) @@ (3 :> Runs(1, 3)) @@ (4 :> Runs(3, 3)),
                        !.gate = {2}],
   [SweepProfile EXCEPT !.table = (2 :> Runs(1, 1)) @@ (3 :> Runs(2, 1)) @@ (4 :> Runs(1, 4)),
                        !.scope = "namespace", !.gate = {2}, !.hard = TRUE, !.docker = TRUE],
   [SweepProfile EXCEPT !.table = (2 :> Runs(0, 2)) @@ (3 :> Runs(2, 2)) @@ (4 :> Runs(0, 4)) @@
                                  (5 :> Runs(1, 5)),
                        !.recovery = TRUE, !.exempt = {2}, !.trees = {2}, !.listed = TRUE, !.forks = 0],
   [SweepProfile EXCEPT !.table = (4 :> Runs(1, 4)) @@ (5 :> Runs(4, 4))],
   [SweepProfile EXCEPT !.table = (2 :> Runs(1, 2)) @@ (4 :> Runs(2, 2)),
                        !.subreaper = FALSE, !.forks = 0]}
Sweeper == INSTANCE Sweep WITH table <- w1, sweep <- w2, docker <- w3

(* Archive: every archive of up to three of these members.                 *)
Member(n, k, to, s) == [name |-> n, kind |-> k, target |-> to, size |-> s]
Named == {<<"a">>, <<"b">>, <<"a", "b">>, <<".", "a">>}
MemberProfiles ==
  {Member(n, "d", <<".">>, 0) : n \in Named \union {<<".">>}}
  \union {Member(n, "-", <<".">>, s) : n \in Named, s \in {1, 3}}
  \union {Member(n, "l", <<"b">>, 0) : n \in Named \union {<<".">>}}
  \union {Member(n, "h", to, 0) :
            n \in Named, to \in {<<"b">>, <<"a", "b">>, <<".", "a">>, <<"..", "a">>}}
  \union {Member(<<"..", "a">>, "-", <<".">>, 1), Member(<<"", "a">>, "-", <<".">>, 1),
          Member(<<"a">>, "c", <<".">>, 0), Member(<<"b">>, "-", <<".">>, 5)}
Archives == INSTANCE Archive WITH
  archive <- w1, result <- w2, tree <- w3, through <- w4

(* FsTelemetry: two files under every operation, a directory made after    *)
(* the start, an event queue that overflows, an editor's temp file.        *)
FsProfile(base, o, n, q, tmp) ==
  [baseline |-> base, ops |-> o, changes |-> n, queue |-> q, temp |-> tmp]
Entry == [c |-> 1, m |-> 1]
FsProfiles ==
  {FsProfile(("f" :> Entry) @@ ("g" :> Entry),
             {"create", "mkdir", "modify", "touch", "remove", "rename"}, 3, 9, FALSE),
   FsProfile(<<>>, {"create", "mkdir", "remove"}, 4, 9, FALSE),
   FsProfile("f" :> Entry, {"create", "remove", "modify"}, 4, 3, FALSE),
   FsProfile("f" :> Entry, {"create", "modify", "rename", "remove"}, 3, 9, TRUE)}
Fs == INSTANCE FsTelemetry WITH
  disk <- w1, fsw <- w2, backend <- w3, told <- w4

(* Dotfiles: trees with read-only directories, a repository, packages for  *)
(* stow and chezmoi, a person who replaces directories, crashes and        *)
(* faults, and two requests.                                               *)
Folder(m) == [kind |-> "dir", mode |-> m]
Plain == [kind |-> "file", mode |-> {}]
ReadOnly == (<<".d">> :> Folder({"x"})) @@ (<<".d", ".f">> :> Plain)
Nested == ReadOnly @@ (<<".d", ".e">> :> Folder({})) @@ (<<".d", ".e", ".f">> :> Plain)
Writable == (<<".d">> :> Folder({"w", "x"})) @@ (<<".d", ".f">> :> Plain)
Package == (<<"p">> :> Folder({"w", "x"})) @@ (<<"p", ".e">> :> Plain)
Mixed == Package @@ (<<".f">> :> Plain)
Source == <<"q">> :> Plain
Item(s, tr, m) == [slot |-> s, tree |-> tr, manager |-> m]
DotProfile(i, j, bin, own, sw, cr, ft, sy) ==
  [items |-> (r1 :> i) @@ (r2 :> j), binaries |-> bin, person |-> own, swaps |-> sw, crashes |-> cr,
   faults |-> ft, strays |-> sy]
DotProfiles ==
  {DotProfile(<<Item("one", Nested, "auto"), Item("two", Writable, "copy")>>,
              <<Item("one", ReadOnly, "auto")>>, {}, TRUE, 1, 1, 0, FALSE),
   DotProfile(<<Item("repo", Writable, "auto"), Item("one", Writable, "auto")>>,
              <<Item("one", ReadOnly, "auto")>>, {}, TRUE, 0, 0, 1, TRUE),
   DotProfile(<<Item("one", ReadOnly, "auto")>>, <<Item("one", Writable, "auto")>>,
              {}, TRUE, 1, 0, 0, TRUE),
   DotProfile(<<Item("one", Mixed, "stow"), Item("two", Source, "auto")>>,
              <<Item("one", Mixed, "auto")>>, {"stow", "chezmoi"}, FALSE, 0, 0, 1, FALSE),
   DotProfile(<<Item("one", Package, "auto")>>, <<Item("one", Source, "chezmoi")>>,
              {"stow"}, TRUE, 0, 1, 1, FALSE),
   DotProfile(<<Item("one", Package, "stow")>>, <<Item("two", Package, "stow")>>,
              {"stow"}, FALSE, 0, 0, 0, FALSE)}
Dots == INSTANCE Dotfiles WITH
  fs <- w1, shared <- w2, staging <- w3, dots <- w4, dotRun <- w5

ASSUME GitConstant == Git!GitAssumption /\ Unstaged!GitAssumption
ASSUME DetectConstant == Detect!DetectAssumption
ASSUME RestoreConstant == Restores!RestoreAssumption

-------------------------------------------------------------------------------
(* While another part runs, the gate is as it was started.                 *)
WorkspaceInit ==
  /\ Init
  /\ \/ part = "gate" /\ Idle1
     \/ LifecycleInit \/ RunningInit
     \/ part = "git" /\ Git!GitInit /\ Idle10
     \/ part = "detect" /\ Detect!DetectInit /\ Idle12
     \/ part = "ahead" /\ Ahead!ReadInit /\ Idle7
     \/ part = "restore" /\ Restores!RestoreInit /\ Idle7
     \/ part = "sweep" /\ Sweeper!SweepInit /\ Idle4
     \/ part = "archive" /\ Archives!ArchiveInit /\ Idle5
     \/ part = "fs" /\ Fs!FsInit /\ Idle5
     \/ part = "dotfiles" /\ Dots!DotInit /\ Idle6

OtherNext ==
  \/ part = "git" /\ Git!GitNext /\ UNCHANGED <<part, From10>>
  \/ part = "detect" /\ Detect!DetectNext /\ UNCHANGED <<part, From12>>
  \/ part = "ahead" /\ Ahead!ReadNext /\ UNCHANGED <<part, From7>>
  \/ part = "restore" /\ Restores!RestoreNext /\ UNCHANGED <<part, From7>>
  \/ part = "sweep" /\ Sweeper!SweepNext /\ UNCHANGED <<part, From4>>
  \/ part = "archive" /\ Archives!ArchiveNext /\ UNCHANGED <<part, From5>>
  \/ part = "fs" /\ Fs!FsNext /\ UNCHANGED <<part, From5>>
  \/ part = "dotfiles" /\ Dots!DotNext /\ UNCHANGED <<part, From6>>

WorkspaceNext ==
  \/ part = "gate" /\ Next /\ UNCHANGED partVars
  \/ (LifecycleNext \/ RunningNext \/ OtherNext) /\ UNCHANGED vars

WorkspaceSpec == WorkspaceInit /\ [][WorkspaceNext]_workspaceVars

(* The instance that shows where the code and what is said of it part.     *)
UnstagedInit == part = "git" /\ Init /\ Unstaged!GitInit /\ Idle10
UnstagedNext == UNCHANGED <<part, vars, From10>> /\ Unstaged!GitNext
UnstagedSpec == UnstagedInit /\ [][UnstagedNext]_workspaceVars

-------------------------------------------------------------------------------
(* The property of each part, of the behaviours that are about it; the     *)
(* gate's own are TypeOK, ReaperNeverSteals and WatchdogKillsOwn.          *)

(* Every capture the chain holds can be restored with its repository,      *)
(* whatever the agent's git did while the pack was built (gitpack.rs).     *)
CaptureWhole == part = "git" => Git!GitTypeOK /\ Git!CaptureWhole

(* A committed tree says what the files held during the build and names    *)
(* only packed chunks (index.rs, build_class); a build that reads on       *)
(* threads takes every file once and whole, a large one's parts in order   *)
(* (readahead.rs).                                                         *)
TreeIsRight ==
  [][/\ part = "detect" => Detect!Rightly
     /\ part = "ahead" => Ahead!ReadsAsAlone']_workspaceVars

(* A finished restore gives the disk the capture's files and hard links,   *)
(* whatever stood there (materialize.rs), but for a vouched checkout.      *)
RestoredRight == part = "restore" => Restores!RestoreTypeOK /\ Restores!RestoredRight

(* A sweep that says the writers are gone is right (sweep.rs).             *)
QuiesceIsTrue == part = "sweep" => Sweeper!QuiesceIsTrue

(* What an accepted archive unpacks is what its listing said, inside the   *)
(* home and within the limits (boot/dotfiles.rs).                          *)
UnpacksItsListing == part = "archive" => Archives!UnpacksItsListing

(* The final diff and the live view of the workspace are true              *)
(* (sealant-fs), but for a rename with a temp end.                         *)
ViewIsTrue == part = "fs" => Fs!ViewIsTrue

(* A request for dotfiles leaves the home as its trees say and works from  *)
(* its own staging (boot/dotfiles.rs, dotfiles_verb.rs).                   *)
AppliesItsOwn == part = "dotfiles" => Dots!AppliesItsOwn

(* "Only a snap that goes on to stage its git pack makes that pack's tips  *)
(* the next pack's negatives" (engine.rs): between snaps, what the         *)
(* remembered tips reach is in the packs of the newest capture.            *)
OnlyStagedTipsAreNegatives == Unstaged!OnlyStagedTipsAreNegatives
===============================================================================
