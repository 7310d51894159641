-------------------------------- MODULE RunAs --------------------------------
(***************************************************************************)
(* Starting a process (crates/sealant-process: identity.rs, secret_env.rs, *)
(* the descriptor rules of spawn.rs): which user a request may name, the   *)
(* environment the child gets, the person's private directory, the steps   *)
(* between fork and exec, the descriptors that go with it, and the threads *)
(* that act with a person's filesystem identity.                           *)
(*                                                                         *)
(* Several threads of the daemon start processes at once; each is a        *)
(* launcher.  An environment maps a name to where its value came from.  A  *)
(* person has one private directory; `gen` tells apart the directories     *)
(* that stood there.  The kernel and the passwd database are external.     *)
(***************************************************************************)
EXTENDS Integers, FiniteSets, Sequences

CONSTANTS Launchers,
          PERSON_GID, PERSON_UID_MIN, PERSON_UID_MAX,
          Fds,          \* descriptor numbers from 3 up
          RunLimits     \* a set of [asks, people, machine, image, opens, careless, stands]

\* A request carries what SpawnRequest does; a helper has no secrets to carry.
AskOk(ask) ==
    /\ {"kind", "user", "env", "secret"} \subseteq DOMAIN ask
    /\ ask.kind \in {"person", "daemon", "helper", "fs"}
    /\ ask.kind = "helper" => ask.secret = <<>>
RunConstants ==
    /\ IsFiniteSet(Launchers)
    /\ \A l \in RunLimits :
          /\ \A a \in l.asks : AskOk(a)
          /\ l.machine.dumpable \in BOOLEAN
          /\ {"kind", "uid", "private", "gen", "used"} \subseteq DOMAIN l.stands
          /\ l.stands.kind \in {"none", "dir", "file"} /\ l.stands.gen \in Nat

VARIABLES launch,    \* each launcher: what it was asked, where it is, the child it started
          private,   \* what stands at each person's TMPDIR
          fds,       \* the daemon's open descriptors from 3 up
          borrowed,  \* BORROWED, and the process's dumpable state
          machine    \* the executor: kernel, image, people, other threads' opens

runVars == <<launch, private, fds, borrowed, machine>>

Names == {"N", "IMG", "HOME", "PATH", "HTTP_PROXY", "SEALANT_X", "GH_TOKEN", "KEY", "NPM_TOKEN"}
IDENTITY_KEYS == {"HOME"}
RUNTIME_SET_NAMES == {"PATH"}
PROXY_ENV_KEYS == {"HTTP_PROXY"}
child_env == {"N", "PATH", "SEALANT_X", "GH_TOKEN", "KEY", "NPM_TOKEN"}
person_withheld == {"KEY"}
is_platform_name(n) == n = "SEALANT_X"
withheld_from_person(n) == is_platform_name(n) \/ n = "GH_TOKEN"
looks_secret(n) == n \in {"GH_TOKEN", "NPM_TOKEN"}

NoChild == [uid |-> -1, gid |-> -1, groups |-> {}, caps |-> {}, env |-> <<>>, fds |-> {}]

RunInit ==
    \E l \in RunLimits :
       /\ launch \in [Launchers -> {[ask |-> a, at |-> "asked", dir |-> 0, listed |-> {},
                                     swept |-> 0, on |-> FALSE, child |-> NoChild] : a \in l.asks}]
       /\ private = [u \in {k.user.uid : k \in l.asks} |-> l.stands]
       /\ fds = <<>>
       /\ borrowed = [threads |-> 0, before |-> l.machine.dumpable, dumpable |-> l.machine.dumpable]
       /\ machine = [limit |-> l, opened |-> 0]

Machine == machine.limit.machine
At(l, stage) == launch[l].at = stage
Goes(l, stage) == launch' = [launch EXCEPT ![l].at = stage]
Fails(l) == Goes(l, "failed")

----------------------------------------------------------------------------
(* The request: the secret environment, then the user.                     *)

\* SecretEnv::parse: whether an entry breaks a rule.
Rule(ask, i) ==
    LET e == ask.secret[i] IN
    \/ \E j \in 1..(i - 1) : ask.secret[j].name = e.name
    \/ e.name \in ask.env
    \/ is_platform_name(e.name)
    \/ e.name \in IDENTITY_KEYS \union RUNTIME_SET_NAMES \union PROXY_ENV_KEYS
    \/ e.value # "ok"

Reserved(uid, gid) == uid \in PERSON_UID_MIN..PERSON_UID_MAX /\ gid = PERSON_GID
admit(people, uid, gid) ==
    \/ Reserved(uid, gid)
    \/ people.listed /\ uid \in people.uids /\ gid = people.gid
Resolves(u) ==
    /\ u.uid # 0 /\ u.gid # 0 /\ 0 \notin u.groups
    /\ admit(machine.limit.people, u.uid, u.gid)

IsPerson(l) == launch[l].ask.kind = "person"
Uid(l) == launch[l].ask.user.uid
There(l) == private[Uid(l)]        \* what stands at the launcher's person's path
Ask(l) ==
    LET ask == launch[l].ask IN
    /\ At(l, "asked") /\ ask.kind \in {"person", "daemon"}
    /\ IF \E i \in DOMAIN ask.secret : Rule(ask, i) THEN Fails(l)
       ELSE IF ~IsPerson(l) THEN Goes(l, "fork")
       ELSE IF Resolves(ask.user) THEN Goes(l, "look") ELSE Fails(l)
    /\ UNCHANGED <<private, fds, borrowed, machine>>

----------------------------------------------------------------------------
(* private_dir.                                                            *)

Look(l) ==
    LET mine == There(l).kind = "dir" /\ There(l).uid = Uid(l) IN
    /\ At(l, "look")
    /\ Goes(l, IF mine /\ There(l).private THEN "fork"
               ELSE IF mine THEN "open"
               ELSE IF There(l).kind = "none" THEN "make"
               ELSE IF There(l).kind = "dir" THEN "remove_dir_all" ELSE "remove_file")
    /\ UNCHANGED <<private, fds, borrowed, machine>>

\* Neither asks again what it removes: a look may be old by now.
Clear(l) ==
    /\ launch[l].at \in {"remove_dir_all", "remove_file"}
    /\ IF \/ There(l).kind = "none"
          \/ There(l).kind = "dir" /\ At(l, "remove_file")
       THEN Fails(l) /\ UNCHANGED private
       ELSE private' = [private EXCEPT ![Uid(l)].kind = "none"] /\ Goes(l, "make")
    /\ UNCHANGED <<fds, borrowed, machine>>
\* One that is there by now is taken as made.
Make(l) ==
    /\ At(l, "make")
    /\ private' = IF There(l).kind # "none" THEN private
                  ELSE [private EXCEPT ![Uid(l)] = [kind |-> "dir", uid |-> 0, private |-> FALSE,
                                                    gen |-> There(l).gen + 1, used |-> FALSE]]
    /\ Goes(l, "open")
    /\ UNCHANGED <<fds, borrowed, machine>>
OpenDir(l) ==
    /\ At(l, "open")
    /\ launch' = [launch EXCEPT ![l].at = IF There(l).kind = "dir" THEN "chmod" ELSE "failed",
                                ![l].dir = There(l).gen]
    /\ UNCHANGED <<private, fds, borrowed, machine>>
\* Through the descriptor: a directory no longer at the path takes it unseen.
Stands(l) == There(l).kind = "dir" /\ There(l).gen = launch[l].dir
SetMode(l) ==
    /\ At(l, "chmod")
    /\ private' = IF Stands(l) THEN [private EXCEPT ![Uid(l)].private = TRUE] ELSE private
    /\ Goes(l, "chown")
    /\ UNCHANGED <<fds, borrowed, machine>>
Chown(l) ==
    /\ At(l, "chown")
    /\ private' = IF Stands(l) THEN [private EXCEPT ![Uid(l)].uid = Uid(l)] ELSE private
    /\ Goes(l, "fork")
    /\ UNCHANGED <<fds, borrowed, machine>>

----------------------------------------------------------------------------
(* The environment, and the steps between fork and exec.                   *)

From(names, origin) == [n \in names |-> origin]
Overlaid(env, more) == [n \in DOMAIN env \union DOMAIN more |-> IF n \in DOMAIN more THEN more[n] ELSE env[n]]
inherited(l, n) == IsPerson(l) => ~withheld_from_person(n) /\ n \notin person_withheld
person_env ==
    IF ~machine.limit.image.version THEN {}
    ELSE {n \in machine.limit.image.names :
             n \notin IDENTITY_KEYS \union {"PATH"} /\ ~withheld_from_person(n) /\ ~looks_secret(n)}
Secrets(ask) == {ask.secret[i].name : i \in DOMAIN ask.secret}
Env(l) ==
    LET ask == launch[l].ask
        base == From({n \in child_env : inherited(l, n)}, "daemon")
        person == IF IsPerson(l) THEN Overlaid(Overlaid(base, From(person_env, "image")), From(IDENTITY_KEYS, "identity"))
                  ELSE base
        asked == Overlaid(Overlaid(person, From(ask.env, "request")), From(Secrets(ask), "secret"))
    IN  Overlaid(asked, From({n \in PROXY_ENV_KEYS : inherited(l, n)}, "proxy"))

Daemon == [uid |-> 0, gid |-> 0, groups |-> {0}, caps |-> {"fowner", "setuid"}, keep |-> FALSE, ok |-> TRUE]
fowner == ~Machine.no_new_privs /\ Machine.bounded
KeepOnlyFowner(c, broken) ==
    IF ~fowner THEN c
    ELSE IF {"capset", "ambient"} \intersect broken = {} THEN [c EXCEPT !.caps = @ \intersect {"fowner"}]
    ELSE [c EXCEPT !.caps = {}, !.ok = @ /\ "clear" \notin broken]
Step(c, step, u, broken) ==
    IF ~c.ok \/ step \in broken THEN [c EXCEPT !.ok = FALSE]
    ELSE CASE step = "setgroups" -> [c EXCEPT !.ok = c.uid = 0, !.groups = u.groups]
           [] step = "setgid" -> [c EXCEPT !.ok = c.uid = 0, !.gid = u.gid]
           [] step = "keepcaps" -> [c EXCEPT !.keep = fowner]
           [] step = "setuid" -> [c EXCEPT !.uid = u.uid, !.caps = IF c.keep THEN @ ELSE {}]
           [] step = "keep_only_fowner" -> KeepOnlyFowner(c, broken)
\* One after the other; each leaves a child that failed as it is.
ApplySteps(u, broken) ==
    LET groups == Step(Daemon, "setgroups", u, broken)
        gid == Step(groups, "setgid", u, broken)
        keep == Step(gid, "keepcaps", u, broken)
        uid == Step(keep, "setuid", u, broken)
    IN  Step(uid, "keep_only_fowner", u, broken)
Apply(l, broken) == IF IsPerson(l) THEN ApplySteps(launch[l].ask.user, broken) ELSE Daemon

Open3 == DOMAIN fds
Inherited(marked) == {fds[fd].id : fd \in {f \in Open3 \ marked : ~fds[f].cloexec}}
Marks == Machine.close_range \/ Machine.proc      \* one of the two markings works
Exec(l) ==
    \E broken \in Machine.breaks :
       LET c == Apply(l, broken) IN
       /\ At(l, "fork")
       /\ IF ~c.ok \/ ~Marks THEN Fails(l)
          ELSE launch' = [launch EXCEPT ![l].at = "started",
                 ![l].child = [uid |-> c.uid, gid |-> c.gid, groups |-> c.groups, caps |-> c.caps,
                               env |-> Env(l), fds |-> Inherited(Open3)]]
       /\ private' = [private EXCEPT ![Uid(l)].used = @ \/ (IsPerson(l) /\ c.ok /\ Marks)]
       /\ UNCHANGED <<fds, borrowed, machine>>

----------------------------------------------------------------------------
(* A helper: the descriptors are marked in the parent, then posix_spawn.   *)

Sweep(l) ==
    /\ At(l, "asked") /\ launch[l].ask.kind = "helper"
    /\ IF Machine.close_range
       THEN /\ fds' = [fd \in Open3 |-> [fds[fd] EXCEPT !.cloexec = TRUE]]
            /\ launch' = [launch EXCEPT ![l].at = "spawn", ![l].swept = machine.opened]
       ELSE /\ IF Machine.proc
               THEN launch' = [launch EXCEPT ![l].at = "walk", ![l].listed = Open3, ![l].swept = machine.opened]
               ELSE Fails(l)
            /\ UNCHANGED fds
    /\ UNCHANGED <<private, borrowed, machine>>
\* One gone by then answers EBADF and is skipped.
Walk(l) ==
    /\ At(l, "walk")
    /\ \E fd \in launch[l].listed :
          /\ fds' = IF fd \in Open3 THEN [fds EXCEPT ![fd].cloexec = TRUE] ELSE fds
          /\ launch' = [launch EXCEPT ![l].listed = @ \ {fd}]
    /\ UNCHANGED <<private, borrowed, machine>>
Walked(l) ==
    /\ At(l, "walk") /\ launch[l].listed = {}
    /\ Goes(l, "spawn")
    /\ UNCHANGED <<private, fds, borrowed, machine>>
SpawnHelper(l) ==
    /\ At(l, "spawn")
    /\ launch' = [launch EXCEPT ![l].at = "started",
          ![l].child = [uid |-> 0, gid |-> 0, groups |-> {0}, caps |-> Daemon.caps,
                        env |-> From(child_env, "daemon"), fds |-> Inherited({})]]
    /\ UNCHANGED <<private, fds, borrowed, machine>>

\* The daemon's other threads: every open sets O_CLOEXEC, but one that does not.
OpenFd(fd, cloexec) ==
    /\ machine.opened < machine.limit.opens /\ fd \notin Open3
    /\ cloexec \/ machine.limit.careless
    /\ fds' = [f \in Open3 \union {fd} |->
                  IF f = fd THEN [cloexec |-> cloexec, id |-> machine.opened] ELSE fds[f]]
    /\ machine' = [machine EXCEPT !.opened = @ + 1]
    /\ UNCHANGED <<launch, private, borrowed>>
CloseFd(fd) ==
    /\ fd \in Open3
    /\ fds' = [f \in Open3 \ {fd} |-> fds[f]]
    /\ UNCHANGED <<launch, private, borrowed, machine>>

----------------------------------------------------------------------------
(* on_fs_thread: work as a person's filesystem identity.                   *)

BorrowReadingAlways(l) ==
    /\ At(l, "asked") /\ launch[l].ask.kind = "fs"
    /\ borrowed' = [borrowed EXCEPT !.threads = @ + 1, !.before = borrowed.dumpable]
    /\ Goes(l, "become")
    /\ UNCHANGED <<private, fds, machine>>
Borrow(l) ==
    /\ At(l, "asked") /\ launch[l].ask.kind = "fs"
    /\ borrowed' = [borrowed EXCEPT !.threads = @ + 1,
                                    !.before = IF borrowed.threads = 0 THEN borrowed.dumpable ELSE @]
    /\ Goes(l, "become")
    /\ UNCHANGED <<private, fds, machine>>
\* The switch makes the process non-dumpable, also when a later step fails.
Become(l) ==
    /\ At(l, "become")
    /\ borrowed' = [borrowed EXCEPT !.dumpable = FALSE]
    /\ \E stage \in {"work", "return"} :
          launch' = [launch EXCEPT ![l].at = stage, ![l].on = TRUE]
    /\ UNCHANGED <<private, fds, machine>>
\* Work that starts a process: its child would run as root.
refuse_on_fs_user_thread(l) == launch[l].on
Work(l) ==
    /\ At(l, "work")
    /\ Goes(l, IF refuse_on_fs_user_thread(l) THEN "refused" ELSE "fork")
    /\ UNCHANGED <<private, fds, borrowed, machine>>
Return(l) ==
    LET left == borrowed.threads - 1 IN
    /\ launch[l].at \in {"return", "refused"}
    /\ borrowed' = [borrowed EXCEPT !.threads = left,
                                    !.dumpable = IF left = 0 /\ borrowed.before THEN TRUE ELSE @]
    /\ Goes(l, "returned")
    /\ UNCHANGED <<private, fds, machine>>

Start(l) ==
    \/ Ask(l) \/ Look(l) \/ Clear(l) \/ Make(l) \/ OpenDir(l) \/ SetMode(l) \/ Chown(l) \/ Exec(l)
Helper(l) == Sweep(l) \/ Walk(l) \/ Walked(l) \/ SpawnHelper(l)
AsFsUser(l) == Borrow(l) \/ Become(l) \/ Work(l) \/ Return(l)
RunNext ==
    \/ \E l \in Launchers : Start(l) \/ Helper(l) \/ AsFsUser(l)
    \/ \E fd \in Fds : CloseFd(fd) \/ \E cloexec \in BOOLEAN : OpenFd(fd, cloexec)

RunSpec == RunInit /\ [][RunNext]_runVars

----------------------------------------------------------------------------
(* Properties.                                                             *)

\* A child is what its request asked and no more, whatever other launchers and
\* failing system calls did between: the user's ids and groups and never root's,
\* at most CAP_FOWNER and only where sudo could give it; nothing of the daemon's that
\* is withheld from a person, and no secret of the image's; each secret variable
\* as it was given; no descriptor beyond its stdio that was open before it was
\* marked.
ChildIsAsAsked ==
    \A l \in Launchers : At(l, "started") =>
        LET c == launch[l].child
            ask == launch[l].ask IN
        /\ IsPerson(l) =>
             /\ <<c.uid, c.gid, c.groups>> = <<ask.user.uid, ask.user.gid, ask.user.groups>>
             /\ 0 \notin {c.uid, c.gid} \union c.groups
             /\ c.caps \subseteq (IF fowner THEN {"fowner"} ELSE {})
             /\ \A n \in DOMAIN c.env :
                  /\ c.env[n] \in {"daemon", "proxy"} =>
                        ~withheld_from_person(n) /\ n \notin person_withheld
                  /\ c.env[n] = "image" => ~withheld_from_person(n) /\ ~looks_secret(n)
             /\ "HOME" \notin ask.env => c.env["HOME"] = "identity"
        /\ \A i \in DOMAIN ask.secret : c.env[ask.secret[i].name] = "secret"
        /\ ask.kind # "fs"
        /\ \A id \in c.fds : ask.kind = "helper" /\ id >= launch[l].swept

\* Once no launcher is in private_dir, a person's running process has a TMPDIR
\* that is theirs and private, and once no thread has a borrowed identity the
\* process is dumpable exactly as it was before the first took one.
Preparing(l) == launch[l].at \in {"look", "remove_dir_all", "remove_file", "make", "open", "chmod", "chown"}
LeftAsFound ==
    /\ borrowed.threads = 0 => borrowed.dumpable = Machine.dumpable
    /\ (\A l \in Launchers : ~Preparing(l)) =>
          \A l \in Launchers : At(l, "started") /\ IsPerson(l) =>
             There(l).kind = "dir" /\ There(l).uid = Uid(l) /\ There(l).private

\* What private_dir removes "someone else made": it is never a directory
\* sealantd made for this person and a process of theirs already uses.  It does
\* not hold of two first launches of one person: the second removes, as made by
\* somebody else, what the first made and has not yet given to the person.
OnlyOthersAreRemoved ==
    [][\A u \in DOMAIN private :
          private[u].kind = "dir" /\ private'[u].kind = "none" => ~private[u].used]_runVars

\* A launch gives the child what was asked and leaves the rest as it was.
LaunchedAsAsked == ChildIsAsAsked /\ LeftAsFound
=============================================================================
