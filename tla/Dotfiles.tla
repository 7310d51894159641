------------------------------ MODULE Dotfiles ------------------------------
(***************************************************************************)
(* Applying dotfiles into a home (crates/sealantd/src/boot/dotfiles.rs and *)
(* dotfiles_verb.rs).  A request applies a repository, then archives in    *)
(* manifest order.  Each tree is first put in a place of the home that all *)
(* requests for that home share, then a manager is resolved for it and it  *)
(* is copied in, entry by entry.  A directory the copy makes keeps the     *)
(* mode mkdir gave it until the end, when it takes the tree's mode, found  *)
(* again by name and checked to be the inode that was made.  The person    *)
(* whose home it is may move directories meanwhile, requests may overlap,  *)
(* and the daemon may die and start again under the same pid.              *)
(*                                                                         *)
(* A directory's mode is the part of it that the copy meets: "w" and "x"   *)
(* for its owner.  chezmoi, stow, git and the bootstrap are external.      *)
(***************************************************************************)
EXTENDS Integers, FiniteSets, Sequences, SequencesExt

CONSTANTS Requests,    \* the requests
          DotLimits    \* a set of [items, binaries, person, swaps, crashes, faults, strays]

VARIABLES fs,        \* the home's inodes, the first its root
          shared,    \* what stands at each tree's place in the home
          staging,   \* root's staging directories: [run, req]
          dots,      \* the requests
          dotRun     \* the daemon's run, the counters, the limits

dotVars == <<fs, shared, staging, dots, dotRun>>

Fresh == {"w", "x"}
Names == {".d", ".e", ".f", "p", "q"}
Packages == {"p"}                 \* names of top-level package directories
Markers == {"q"}                  \* names only a chezmoi source has
NoKids == [n \in Names |-> 0]
Node(kind, mode, by) == [kind |-> kind, mode |-> mode, kids |-> NoKids, by |-> by, data |-> <<>>]
Root == 1
Limit == dotRun.limit

DotInit ==
    \E l \in DotLimits :
       /\ dotRun = [run |-> 1, swaps |-> 0, faults |-> 0, overlapped |-> FALSE, limit |-> l]
       /\ fs = <<Node("dir", Fresh, "person")>>
       /\ shared = [s \in {"repo", "one", "two"} |-> <<>>]
       /\ staging = {}
       /\ dots = [r \in Requests |->
             [pc |-> "new", at |-> 1, items |-> l.items[r], todo |-> <<>>, made |-> <<>>, set |-> {},
              left |-> FALSE, err |-> FALSE, pending |-> <<>>, making |-> <<>>, ended |-> "no"]]

----------------------------------------------------------------------------
(* The home.                                                               *)

Enter(at, n) ==
    IF at # 0 /\ fs[at].kind = "dir" /\ "x" \in fs[at].mode THEN fs[at].kids[n] ELSE 0

\* A walk from the home's root that follows no link; 0 when it cannot be made.
Walk(path) == FoldLeft(Enter, Root, path)

\* The directory a pathname's last name is in: links on the way are followed.
Follow(at) == IF at # 0 /\ fs[at].kind = "link" /\ fs[at].data # <<>> THEN fs[at].data[1] ELSE at
Parent(path) == FoldLeft(LAMBDA at, n : Follow(Enter(at, n)), Root, Front(path))

Linked(f, dir, name, ino) == [f EXCEPT ![dir].kids[name] = ino]
Added(dir, name, node) == Linked(Append(fs, node), dir, name, Len(fs) + 1)
Writable(dir) == dir # 0 /\ fs[dir].kind = "dir" /\ Fresh \subseteq fs[dir].mode

----------------------------------------------------------------------------
(* A request, step by step.                                                *)

Item(r) == dots[r].items[dots[r].at]
Tree(r) == LET s == shared[Item(r).slot] IN
           IF s = <<>> THEN <<>> ELSE dots[s[1]].items[s[2]].tree
Set(r, s) == dots' = [dots EXCEPT ![r] = s]
Live(r) == dots[r].pc \notin {"new", "done"}
Overlaps(r) == \E q \in Requests \ {r} : Live(q)
Spent == dotRun.faults < Limit.faults /\ dotRun' = [dotRun EXCEPT !.faults = @ + 1]

\* The first error ends the trees; the modes of what was made are still set.
Failed(r) == Set(r, [dots[r] EXCEPT !.err = TRUE, !.pc = "modes", !.todo = <<>>, !.making = <<>>])

\* apply: resolve the user; RootStaging::create takes away what an earlier run
\* with this pid left, and makes this request's own directory.
StaleOrNot(s) == TRUE
Stale(s) == s.run # dotRun.run
Create(r) ==
    /\ dots[r].pc \in {"new", "archives"}
    /\ dots[r].pc = "new" =>
          dotRun' = [dotRun EXCEPT !.overlapped = @ \/ Overlaps(r)]
    /\ dots[r].pc = "archives" => UNCHANGED dotRun
    /\ IF Item(r).slot # "repo" /\ Limit.person
       THEN staging' = {s \in staging : ~Stale(s)} \union {[run |-> dotRun.run, req |-> r]}
       ELSE UNCHANGED staging
    /\ Set(r, [dots[r] EXCEPT !.pc = "unpack"])
    /\ UNCHANGED <<fs, shared>>

\* unpack_checked: the archive's listing is refused, or it is unpacked as root.
\* A repository and root's own archives have nothing to unpack first.
Unpack(r) ==
    /\ dots[r].pc = "unpack"
    /\ \/ Set(r, [dots[r] EXCEPT !.pc = "clear"]) /\ UNCHANGED dotRun
       \/ Item(r).slot # "repo" /\ Spent /\ Failed(r)
    /\ UNCHANGED <<fs, shared, staging>>

\* remove_tree of the place the tree goes to, whoever's tree is there.
Clear(r) ==
    /\ dots[r].pc = "clear"
    /\ shared' = [shared EXCEPT ![Item(r).slot] = <<>>]
    /\ Set(r, [dots[r] EXCEPT !.pc = "mirror"])
    /\ UNCHANGED <<fs, staging, dotRun>>

\* git clone, tar or mirror_into_home: each fails on a tree that is there.
Put(r, slots) ==
    /\ dots[r].pc = "mirror" /\ Item(r).slot \in slots
    /\ \/ shared[Item(r).slot] = <<>>
          /\ shared' = [shared EXCEPT ![Item(r).slot] = <<r, dots[r].at>>]
          /\ Set(r, [dots[r] EXCEPT !.pc = "resolve"]) /\ UNCHANGED dotRun
       \/ shared[Item(r).slot] # <<>> /\ Failed(r) /\ UNCHANGED <<shared, dotRun>>
       \/ Spent /\ Failed(r) /\ UNCHANGED shared
    /\ UNCHANGED <<fs, staging>>
Clone(r) == Put(r, {"repo"})
Mirror(r) == Put(r, {"one", "two"})

TopsOf(tree) == {p \in DOMAIN tree : Len(p) = 1}
HomeEntries(tree) == {p \in TopsOf(tree) : p[1] \notin Packages \union Markers}
PackageDirs(tree) == {p \in TopsOf(tree) : p[1] \in Packages /\ tree[p].kind = "dir"}

\* resolve_manager, over the top level of the tree.
ResolveManager(asked, tree) ==
    IF asked # "auto" THEN asked
    ELSE IF \E p \in TopsOf(tree) : p[1] \in Markers
         THEN IF "chezmoi" \in Limit.binaries THEN "chezmoi" ELSE "copy"
    ELSE IF PackageDirs(tree) = {} \/ HomeEntries(tree) # {} \/ "stow" \notin Limit.binaries THEN "copy"
    ELSE "stow"

\* The entries of a directory of the tree, each with the directory it goes in.
Listing(tree, dir, dst) ==
    LET under == {p \in DOMAIN tree : Len(p) = Len(dir) + 1 /\ IsPrefix(dir, p)}
    IN  [i \in 1..Cardinality(under) |->
            [path |-> SetToSeq(under)[i], dst |-> dst]]

\* apply_tree's choice: what the copy has to do, and what comes after it.
Resolve(r) ==
    LET manager == ResolveManager(Item(r).manager, Tree(r))
        tops == Listing(Tree(r), <<>>, Root)
    IN  /\ dots[r].pc = "resolve"
        /\ Set(r, [dots[r] EXCEPT
              !.pc = CASE manager = "copy" -> "copy" [] OTHER -> manager,
              !.todo = CASE manager = "copy" -> tops
                         [] manager = "stow" ->
                              SelectSeq(tops, LAMBDA e : e.path \in HomeEntries(Tree(r)))
                         [] OTHER -> <<>>])
        /\ UNCHANGED <<fs, shared, staging, dotRun>>

Copying(r) == dots[r].pc \in {"copy", "stow"} /\ dots[r].todo # <<>>
Entry(r) == Head(dots[r].todo)
Here(r) == Last(Entry(r).path)
Missing(r) == Entry(r).path \notin DOMAIN Tree(r)
IsDir(r) == ~Missing(r) /\ Tree(r)[Entry(r).path].kind = "dir"
Entered(r, s, dir) ==
    [s EXCEPT !.todo = Listing(Tree(r), Entry(r).path, dir) \o Tail(dots[r].todo)]

\* copy_entry of a directory: made under the opened parent, or the one there is
\* entered; a link standing there is refused.
MakeDir(r) ==
    LET e == Entry(r)  there == fs[e.dst].kids[Here(r)] IN
    /\ Copying(r) /\ dots[r].making = <<>> /\ (IsDir(r) \/ Missing(r))
    /\ \/ IsDir(r) /\ there = 0 /\ Writable(e.dst)
          /\ fs' = Added(e.dst, Here(r), Node("dir", Fresh, "copy"))
          /\ Set(r, [dots[r] EXCEPT !.making = <<e.path>>])
       \/ IsDir(r) /\ there # 0 /\ fs[there].kind = "dir"
          /\ Set(r, Entered(r, dots[r], there)) /\ UNCHANGED fs
       \/ /\ \/ Missing(r)
             \/ there = 0 /\ ~Writable(e.dst)
             \/ there # 0 /\ fs[there].kind # "dir"
          /\ Failed(r) /\ UNCHANGED fs
    /\ UNCHANGED <<shared, staging, dotRun>>

\* ... and opened by its name: it must be a directory, and empty.  From here the
\* copy answers for it.
Opened(dir) == dir # 0 /\ fs[dir].kind = "dir" /\ fs[dir].kids = NoKids
Recorded(r, dir) ==
    Entered(r, [dots[r] EXCEPT
        !.making = <<>>,
        !.made = Append(@, [rel |-> Entry(r).path, ino |-> dir,
                            mode |-> Tree(r)[Entry(r).path].mode \intersect fs[dir].mode])], dir)
Opening(r, mode(_)) ==
    LET dir == fs[Entry(r).dst].kids[Here(r)] IN
    /\ Copying(r) /\ dots[r].making # <<>>
    /\ IF Opened(dir) /\ IsDir(r)
       THEN /\ Set(r, Recorded(r, dir))
            /\ fs' = [fs EXCEPT ![dir].by = "copy", ![dir].mode = mode(@)]
       ELSE Failed(r) /\ UNCHANGED fs
    /\ UNCHANGED <<shared, staging, dotRun>>
OpenMadeAtItsMode(r) == Opening(r, LAMBDA m : m \intersect Tree(r)[Entry(r).path].mode)
OpenMade(r) == Opening(r, LAMBDA m : m)

\* copy_entry of a file or a link, by pathname: what is there is replaced, but a
\* directory is not.
CopyFile(r) ==
    LET e == Entry(r)
        dir == Parent(e.path)
        there == IF Writable(dir) THEN fs[dir].kids[Here(r)] ELSE 0
        source == shared[Item(r).slot]
    IN  /\ Copying(r) /\ ~Missing(r) /\ ~IsDir(r)
        /\ IF Writable(dir) /\ (there = 0 \/ fs[there].kind # "dir")
           THEN /\ fs' = Added(dir, Here(r), [Node("file", {}, "copy") EXCEPT !.data = source])
                /\ Set(r, [dots[r] EXCEPT !.todo = Tail(@)])
           ELSE Failed(r) /\ UNCHANGED fs
        /\ UNCHANGED <<shared, staging, dotRun>>

\* stow of each package (external): links into the home, or a conflict.
PackageFiles(tree) ==
    {p \in DOMAIN tree : Len(p) = 2 /\ p[1] \in Packages /\ tree[p].kind # "dir"}
Stow(r) ==
    LET files == PackageFiles(Tree(r))
        clash == \E p \in files : fs[Root].kids[p[2]] # 0
    IN  /\ dots[r].pc = "stow" /\ dots[r].todo = <<>>
        /\ IF clash \/ ~Writable(Root) \/ "stow" \notin Limit.binaries
           THEN Failed(r) /\ UNCHANGED fs
           ELSE /\ fs' = FoldLeft(LAMBDA f, p :
                           Linked(Append(f, [Node("file", {}, "copy") EXCEPT
                                                !.data = shared[Item(r).slot]]),
                                  Root, p[2], Len(f) + 1), fs, SetToSeq(files))
                /\ Set(r, [dots[r] EXCEPT !.pc = "bootstrap"])
        /\ UNCHANGED <<shared, staging, dotRun>>

Chezmoi(r) ==
    /\ dots[r].pc = "chezmoi"
    /\ \/ "chezmoi" \in Limit.binaries /\ Set(r, [dots[r] EXCEPT !.pc = "bootstrap"])
          /\ UNCHANGED dotRun
       \/ "chezmoi" \notin Limit.binaries /\ Failed(r) /\ UNCHANGED dotRun
       \/ Spent /\ Failed(r)
    /\ UNCHANGED <<fs, shared, staging>>

Copied(r) ==
    /\ dots[r].pc = "copy" /\ dots[r].todo = <<>>
    /\ Set(r, [dots[r] EXCEPT !.pc = "bootstrap"])
    /\ UNCHANGED <<fs, shared, staging, dotRun>>

\* The bootstrap runs here for root, and is answered for a person; then the next
\* archive, or the end of the trees that share their modes' moment: a
\* repository's are set before the archives begin.
Bootstrap(r) ==
    LET s == dots[r]
        last == s.at = Len(s.items) \/ Item(r).slot = "repo"
    IN  /\ s.pc = "bootstrap"
        /\ \/ /\ Set(r, [s EXCEPT !.at = IF last THEN @ ELSE @ + 1,
                                  !.pc = IF last THEN "modes" ELSE "unpack",
                                  !.pending = IF Limit.person THEN Append(@, s.at) ELSE @])
              /\ UNCHANGED dotRun
           \/ ~Limit.person /\ Spent /\ Failed(r)
        /\ UNCHANGED <<fs, shared, staging>>

\* MadeDirs::apply, deepest first.
Unset(r) == DOMAIN dots[r].made \ dots[r].set
Deepest(r) == CHOOSE i \in Unset(r) :
                 \A j \in Unset(r) : Len(dots[r].made[i].rel) >= Len(dots[r].made[j].rel)
IsSomeDirectory(m) == Walk(m.rel) # 0 /\ fs[Walk(m.rel)].kind = "dir"
IsTheOne(m) == Walk(m.rel) = m.ino
SetMode(r) ==
    /\ dots[r].pc = "modes" /\ Unset(r) # {}
    /\ LET i == Deepest(r)  m == dots[r].made[i] IN
       IF IsTheOne(m)
       THEN /\ fs' = [fs EXCEPT ![Walk(m.rel)].mode = m.mode]
            /\ Set(r, [dots[r] EXCEPT !.set = @ \union {i}])
       ELSE /\ Set(r, [dots[r] EXCEPT !.set = @ \union {i}, !.left = TRUE])
            /\ UNCHANGED fs
    /\ UNCHANGED <<shared, staging, dotRun>>

\* finish_made_dirs: a directory left at its fresh mode is an error too.  A
\* repository that failed ends the request before its archives; the staging
\* goes with the request, failed or not.
Finish(r) ==
    LET s == dots[r]
        bad == s.err \/ s.left
        more == ~bad /\ s.at < Len(s.items)
    IN  /\ s.pc = "modes" /\ Unset(r) = {}
        /\ Set(r, IF more THEN [s EXCEPT !.pc = "archives", !.at = @ + 1]
                  ELSE [s EXCEPT !.pc = "done", !.ended = IF bad THEN "error" ELSE "ok"])
        /\ staging' = IF more THEN staging ELSE staging \ {[run |-> dotRun.run, req |-> r]}
        /\ UNCHANGED <<fs, shared, dotRun>>

----------------------------------------------------------------------------
(* The person, and the daemon's death.                                     *)

Swap(kind) ==
    LET put == Added(Root, ".d", Node(IF kind = "link" THEN "link" ELSE "dir", Fresh, "person"))
        next == Len(fs) + 1
    IN  /\ dotRun.swaps < Limit.swaps
        /\ dotRun' = [dotRun EXCEPT !.swaps = @ + 1]
        /\ fs' = CASE kind = "gone" -> Linked(fs, Root, ".d", 0)
                   [] kind = "empty" -> put
                   [] kind = "full" ->
                        Linked(Append(put, Node("file", {}, "person")), next, ".f", next + 1)
                   [] kind = "link" ->
                        [Append(put, Node("dir", Fresh, "person")) EXCEPT ![next].data = <<next + 1>>]
        /\ UNCHANGED <<shared, staging, dots>>

Die ==
    /\ dotRun.run <= Limit.crashes
    /\ dotRun' = [dotRun EXCEPT !.run = @ + 1]
    /\ dots' = [r \in Requests |->
          IF Live(r) THEN [dots[r] EXCEPT !.pc = "done", !.ended = "died"]
          ELSE dots[r]]
    /\ UNCHANGED <<fs, shared, staging>>

\* Requests overlap only where the profile lets them.
Starts(r) == dots[r].pc = "new" => (Limit.strays \/ ~Overlaps(r))

DotNext ==
    \/ \E r \in Requests : Starts(r) /\ Create(r)
    \/ \E r \in Requests : Unpack(r) \/ Clear(r) \/ Clone(r) \/ Mirror(r) \/ Resolve(r)
    \/ \E r \in Requests : MakeDir(r) \/ OpenMade(r) \/ CopyFile(r) \/ Copied(r)
    \/ \E r \in Requests : Stow(r) \/ Chezmoi(r) \/ Bootstrap(r)
    \/ \E r \in Requests : SetMode(r) \/ Finish(r)
    \/ \E kind \in {"gone", "empty", "full", "link"} : Swap(kind)
    \/ Die

DotSpec == DotInit /\ [][DotNext]_dotVars

----------------------------------------------------------------------------
(* Properties.                                                             *)

\* A request that answers ok has given every directory it made the mode its tree
\* has there, whatever a later archive wrote into it, and no request ever
\* changes the mode of a directory that was the person's, even one put where a
\* made one stood.
ModesAreTheTrees ==
    /\ \A i \in DOMAIN fs : fs[i].kind = "dir" /\ fs[i].by = "person" => fs[i].mode = Fresh
    /\ \A r \in Requests : dots[r].ended = "ok" =>
          \A m \in Range(dots[r].made) : fs[m.ino].mode = m.mode

Manager(r, i) == ResolveManager(dots[r].items[i].manager, dots[r].items[i].tree)

\* Every file of a tree that was applied, with the last tree that has it.
Promised(r) ==
    UNION {{<<p, i>> : p \in {q \in DOMAIN dots[r].items[i].tree :
                                  dots[r].items[i].tree[q].kind # "dir"}} :
              i \in {j \in DOMAIN dots[r].items : Manager(r, j) # "chezmoi"}}
LastOf(r, p) == CHOOSE i \in DOMAIN dots[r].items :
    <<p, i>> \in Promised(r) /\ \A j \in DOMAIN dots[r].items : <<p, j>> \in Promised(r) => j <= i
Undisturbed(r) ==
    /\ dotRun.swaps = 0 /\ dotRun.faults = 0
    /\ \A q \in Requests \ {r} : dots[q].pc = "new"
    /\ \A i \in DOMAIN dots[r].items : dots[r].items[i].manager \in {"auto", "copy"} \union Limit.binaries
Placed(r, p, i) ==
    IF Manager(r, i) = "stow" /\ p[1] \in Packages THEN Root
    ELSE FoldLeft(LAMBDA d, n : fs[d].kids[n], Root, Front(p))

\* A request that nothing disturbs, into a home with nothing in the way, answers
\* ok, and every file of its trees is in the home, the last tree's where several
\* have it: a tree with a read-only directory takes nothing from a later one.
\* (A package's file is linked without its package's name.)
UndisturbedApplies ==
    \A r \in Requests : Undisturbed(r) /\ dots[r].ended \in {"ok", "error"} =>
        /\ dots[r].ended = "ok"
        /\ \A e \in Promised(r) :
              LET i == LastOf(r, e[1])
                  ino == fs[Placed(r, e[1], i)].kids[Last(e[1])]
              IN  ino # 0 /\ fs[ino].data = <<r, i>>

\* A request's root staging stands as long as it works from it, whichever other
\* request starts, and what a dead daemon with this pid left is gone once the
\* new one has staged anything.
StagingIsOwn ==
    /\ \A r \in Requests :
          Limit.person /\ Live(r) /\ Item(r).slot # "repo" /\ dots[r].pc # "archives"
             => [run |-> dotRun.run, req |-> r] \in staging
    /\ ~\E s, t \in staging : s.run # dotRun.run /\ t.run = dotRun.run

\* A request leaves the home as its trees say and works from its own staging alone.
AppliesItsOwn == ModesAreTheTrees /\ UndisturbedApplies /\ StagingIsOwn
=============================================================================
