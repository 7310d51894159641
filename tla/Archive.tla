------------------------------- MODULE Archive -------------------------------
(***************************************************************************)
(* What a person's dotfiles archive has to be before it is unpacked        *)
(* (unpack_checked in crates/sealantd/src/boot/dotfiles.rs): the archive   *)
(* is copied once, listed, its members checked, extracted by tar, and what *)
(* tar made is checked again.  A member is [name, kind, target, size]; a   *)
(* name is its components.  tar is external: it takes the members in       *)
(* order, replaces what has a member's name, and writes through a link     *)
(* that stands on a member's path.                                         *)
(***************************************************************************)
EXTENDS Integers, FiniteSets, Sequences, SequencesExt

CONSTANTS Members,      \* the members an archive may have
          MaxMembers,   \* the most members of one archive
          PerFile,      \* UnpackLimits: the most bytes of one file
          Total         \* UnpackLimits: the most bytes of all

VARIABLES archive,   \* the members listed so far
          result,    \* "reading", "accepted", "refused", "unpacked", "failed"
          tree,      \* what tar made: a function from keys to [kind, of]
          through    \* whether tar wrote through a link
archiveVars == <<archive, result, tree, through>>

ArchiveInit == archive = <<>> /\ result = "reading" /\ tree = <<>> /\ through = FALSE

Listed(m) ==
    /\ result = "reading" /\ Len(archive) < MaxMembers
    /\ archive' = Append(archive, m)
    /\ UNCHANGED <<result, tree, through>>

----------------------------------------------------------------------------
(* check_members.                                                          *)

\* member_key: a name without its empty and "." components.
KeyAsWritten(name) == name
member_key(name) == SelectSeq(name, LAMBDA c : c # "" /\ c # ".")
Key(i) == member_key(archive[i].name)

Absolute(name) == name[1] = ""
Climbs(name) == ".." \in Range(name)
Kind(k) == {i \in DOMAIN archive : archive[i].kind = k}
Links == Kind("l") \union Kind("h")
LinkKeys == {Key(i) : i \in Links}
Seen(key) == Cardinality({i \in DOMAIN archive : Key(i) = key})
UnderALink(key) == \E n \in 1..(Len(key) - 1) : SubSeq(key, 1, n) \in LinkKeys
Bytes == FoldLeft(LAMBDA n, m : IF m.kind = "-" THEN n + m.size ELSE n, 0, archive)

check_members ==
    /\ \A i \in DOMAIN archive :
          /\ ~Absolute(archive[i].name) /\ ~Climbs(archive[i].name)
          /\ archive[i].kind \in {"d", "-", "l", "h"}
          /\ archive[i].kind = "-" => archive[i].size <= PerFile
          /\ i \in Links => Key(i) # <<>>
          /\ Key(i) \in LinkKeys => Seen(Key(i)) = 1
          /\ ~UnderALink(Key(i))
    /\ Bytes <= Total
    /\ \A i \in Kind("h") :
          LET target == archive[i].target IN
          /\ ~Absolute(target) /\ ~Climbs(target) /\ member_key(target) # <<>>
          /\ ~UnderALink(member_key(target))
          /\ Seen(member_key(target)) > 0

Check ==
    /\ result = "reading" /\ archive # <<>>
    /\ result' = IF check_members THEN "accepted" ELSE "refused"
    /\ UNCHANGED <<archive, tree, through>>

----------------------------------------------------------------------------
(* tar and the walk over what it made.                                     *)

\* Where tar puts a name.
Place(name) == SelectSeq(name, LAMBDA c : c \notin {"", "."})

\* A path that leads through something other than a directory.
IsLink(t, key) == \E n \in 1..(Len(key) - 1) :
                     SubSeq(key, 1, n) \in DOMAIN t /\ t[SubSeq(key, 1, n)].kind = "l"
Blocked(t, key) == \E n \in 1..(Len(key) - 1) :
                     SubSeq(key, 1, n) \in DOMAIN t /\ t[SubSeq(key, 1, n)].kind = "-"
Below(t, key) == {k \in DOMAIN t : IsStrictPrefix(key, k)}
Made(t, key, node) == [k \in DOMAIN t \union {key} |-> IF k = key THEN node ELSE t[k]]

\* One member: the tree after it, whether it went through a link, or a failure.
Extracted(s, i) ==
    LET m == archive[i]  key == Place(archive[i].name)  target == Place(m.target) IN
    IF s.failed \/ key = <<>> THEN s
    ELSE IF IsLink(s.tree, key) \/ (m.kind = "h" /\ IsLink(s.tree, target))
         THEN [s EXCEPT !.through = TRUE]
    ELSE IF \/ Blocked(s.tree, key)
            \/ m.kind # "d" /\ Below(s.tree, key) # {}
            \/ m.kind = "h" /\ (target \notin DOMAIN s.tree \/ target = key)
            \/ m.kind = "h" /\ target \in DOMAIN s.tree /\ s.tree[target].kind = "d"
         THEN [s EXCEPT !.failed = TRUE]
    ELSE [s EXCEPT !.tree = Made(@, key,
            CASE m.kind = "h" -> s.tree[target]
              [] m.kind = "d" -> [kind |-> "d", of |-> 0]
              [] OTHER -> [kind |-> m.kind, of |-> i])]

Extract ==
    LET s == FoldLeft(Extracted, [tree |-> <<>>, through |-> FALSE, failed |-> FALSE],
                      [i \in DOMAIN archive |-> i])
    IN  /\ result = "accepted"
        /\ tree' = s.tree /\ through' = s.through
        /\ result' = IF s.failed THEN "failed" ELSE "extracted"
        /\ UNCHANGED archive

\* check_unpacked: every link to a file tar made is among what it made.  (tar
\* starts in an empty directory, so a file's links are the members'.)
CheckUnpacked ==
    /\ result = "extracted"
    /\ result' = IF \A k \in DOMAIN tree : tree[k].kind \in {"d", "-", "l"} THEN "unpacked" ELSE "refused"
    /\ UNCHANGED <<archive, tree, through>>

ArchiveNext ==
    \/ \E m \in Members : Listed(m)
    \/ Check \/ Extract \/ CheckUnpacked

ArchiveSpec == ArchiveInit /\ [][ArchiveNext]_archiveVars

----------------------------------------------------------------------------
(* Properties.                                                             *)

\* An archive that is accepted unpacks to what its listing says, in its own
\* directory: nothing is written through one of its links, every member is there
\* under its key, a link as the link it was listed, a hard link as a file another
\* member brought, and the files' bytes stay within the limits.
UnpacksItsListing ==
    /\ result \in {"extracted", "unpacked", "failed"} => ~through /\ Bytes <= Total
    /\ result = "unpacked" =>
          \A i \in DOMAIN archive :
             LET key == Place(archive[i].name) IN key # <<>> =>
             /\ key \in DOMAIN tree
             /\ archive[i].kind = "l" => tree[key] = [kind |-> "l", of |-> i]
             /\ archive[i].kind = "h" => tree[key].of \in DOMAIN archive \ {i}
=============================================================================
