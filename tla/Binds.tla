-------------------------------- MODULE Binds --------------------------------
(***************************************************************************)
(* Bindable mounts (crates/sealantd/src/binds.rs): the mount path is a     *)
(* symlink the daemon points at a directory under the mount's root.  A     *)
(* bind replaces the link, then records the binding in memory, under a     *)
(* lock, and in a file, outside it.  A daemon that restarts in the same    *)
(* container applies the orchestrator's binds and then, for the mounts     *)
(* those do not name, the ones its file held.                              *)
(***************************************************************************)
EXTENDS Integers, FiniteSets, Sequences, SequencesExt

CONSTANTS Mounts,      \* the bindable mounts
          Subpaths,    \* the directories under their roots
          BindLimits   \* a set of [initial, binds, overlap, restarts, faults, removals]

\* The orchestrator's list names mounts and directories of this workspace.
BindEntries == [mount : Mounts, to : Subpaths \cup {"nothing"}]
BindConstants == IsFiniteSet(Mounts) /\ \A l \in BindLimits : l.initial \in Seq(BindEntries)

VARIABLES link,    \* the disk: what each mount path is
          binds,   \* the record in memory
          file,    \* the record in the state file
          dirs,    \* the directories that exist
          bd       \* the requests in flight, the boot's list, the counters

bindVars == <<link, binds, file, dirs, bd>>

Nothing == "nothing"        \* no entry: never bound, or unbound
RealDir == "directory"      \* a real directory that is not empty
Slots == {"one", "two"}
Idle == [mount |-> Nothing, to |-> Nothing, pc |-> "idle", snapshot |-> <<>>]
NoBinds == [m \in Mounts |-> Nothing]

BindsInit ==
    /\ \E l \in BindLimits :
          bd = [stage |-> "boot", list |-> l.initial, slot |-> [s \in Slots |-> Idle],
                wanted |-> NoBinds, count |-> 0, boots |-> 0, faults |-> 0, lost |-> FALSE,
                limit |-> l]
    /\ link \in [Mounts -> {Nothing, RealDir}]
    /\ Cardinality({m \in Mounts : link[m] = RealDir}) <= bd.limit.faults
    /\ binds = NoBinds /\ file = NoBinds
    /\ dirs = Subpaths

Limit == bd.limit
At(s) == bd.slot[s].pc
Put(s, r) == bd' = [bd EXCEPT !.slot[s] = r]
Named(list) == {list[i].mount : i \in DOMAIN list}

----------------------------------------------------------------------------
(* bind, step by step.                                                     *)

\* The subpath is empty (unbind), or its target is a directory.
Accepted(to) == to = Nothing \/ to \in dirs

\* unlink_binding: a link goes; a real directory that is not empty is refused.
Unlink(s) ==
    LET r == bd.slot[s] IN
    /\ r.pc = "check"
    /\ \/ Accepted(r.to) /\ link[r.mount] # RealDir
          /\ link' = [link EXCEPT ![r.mount] = Nothing]
          /\ Put(s, [r EXCEPT !.pc = IF r.to = Nothing THEN "record" ELSE "link"])
       \/ (~Accepted(r.to) \/ link[r.mount] = RealDir)
          /\ UNCHANGED link
          /\ Put(s, [r EXCEPT !.pc = "failed"])
    /\ UNCHANGED <<binds, file, dirs>>

\* symlink: fails where another bind made the link meanwhile.
Symlink(s) ==
    LET r == bd.slot[s] IN
    /\ r.pc = "link"
    /\ IF link[r.mount] = Nothing
       THEN /\ link' = [link EXCEPT ![r.mount] = r.to]
            /\ Put(s, [r EXCEPT !.pc = "record"])
       ELSE Put(s, [r EXCEPT !.pc = "failed"]) /\ UNCHANGED link
    /\ UNCHANGED <<binds, file, dirs>>

\* record: the memory under its lock, and the copy the file is to hold.
Record(s) ==
    LET r == bd.slot[s] IN
    /\ r.pc = "record"
    /\ binds' = [binds EXCEPT ![r.mount] = r.to]
    /\ Put(s, [r EXCEPT !.pc = "write", !.snapshot = binds'])
    /\ UNCHANGED <<link, file, dirs>>

\* The file, after the lock is gone; a failed write is only logged.
Write(s) ==
    LET r == bd.slot[s] IN
    /\ r.pc = "write"
    /\ \/ file' = r.snapshot /\ Put(s, [r EXCEPT !.pc = "done"])
       \/ /\ bd.faults < Limit.faults
          /\ bd' = [bd EXCEPT !.slot[s].pc = "done", !.faults = @ + 1, !.lost = TRUE]
          /\ UNCHANGED file
    /\ UNCHANGED <<link, binds, dirs>>

----------------------------------------------------------------------------
(* Commands and the boot.                                                  *)

InFlight == {s \in Slots : At(s) # "idle"}

BindMount(s) ==
    /\ bd.stage = "serving" /\ At(s) = "idle" /\ bd.count < Limit.binds
    /\ Limit.overlap \/ InFlight = {}
    /\ \E m \in Mounts, to \in Subpaths \cup {Nothing} :
          bd' = [bd EXCEPT !.count = @ + 1,
                           !.slot[s] = [Idle EXCEPT !.mount = m, !.to = to, !.pc = "check"]]
    /\ UNCHANGED <<link, binds, file, dirs>>

\* The answer; what the client now counts on.
Answer(s) ==
    /\ bd.stage = "serving" /\ At(s) \in {"done", "failed"}
    /\ bd' = [bd EXCEPT !.slot[s] = Idle,
                        !.wanted = IF At(s) = "done"
                                   THEN [@ EXCEPT ![bd.slot[s].mount] = bd.slot[s].to] ELSE @]
    /\ UNCHANGED <<link, binds, file, dirs>>

\* apply_initial, one bind after the other, under no other command.
ApplyNext ==
    /\ bd.stage = "boot" /\ bd.list # <<>> /\ InFlight = {}
    /\ bd' = [bd EXCEPT !.slot["one"] = [Idle EXCEPT !.mount = Head(bd.list).mount,
                                                     !.to = Head(bd.list).to, !.pc = "check"],
                        !.list = Tail(@)]
    /\ UNCHANGED <<link, binds, file, dirs>>

\* A bind that fails at boot is fatal.
Applied ==
    /\ bd.stage = "boot" /\ At("one") \in {"done", "failed"}
    /\ bd' = [bd EXCEPT !.slot["one"] = Idle,
                        !.stage = IF At("one") = "failed" THEN "dead" ELSE @,
                        !.wanted = [@ EXCEPT ![bd.slot["one"].mount] = bd.slot["one"].to]]
    /\ UNCHANGED <<link, binds, file, dirs>>

Serve ==
    /\ bd.stage = "boot" /\ bd.list = <<>> /\ InFlight = {}
    /\ bd' = [bd EXCEPT !.stage = "serving"]
    /\ UNCHANGED <<link, binds, file, dirs>>

\* read_state, before the first bind: the record the boot works from.
Recorded(f) == {m \in Mounts : f[m] # Nothing}
AsBinds(f, ms) ==
    LET order == SetToSeq(ms) IN [i \in DOMAIN order |-> [mount |-> order[i], to |-> f[order[i]]]]

BootListOfOrchestrator(f) == Limit.initial

BootList(f) == Limit.initial \o AsBinds(f, Recorded(f) \ Named(Limit.initial))

\* The daemon restarts inside its container, between two commands.
Restart ==
    /\ bd.stage = "serving" /\ InFlight = {} /\ bd.boots < Limit.restarts
    /\ bd' = [bd EXCEPT !.stage = "boot", !.list = BootList(file), !.boots = @ + 1]
    /\ binds' = NoBinds
    /\ UNCHANGED <<link, file, dirs>>

\* Somebody deletes a worktree.
RemoveDirectory ==
    /\ Limit.removals /\ bd.stage = "serving"
    /\ \E d \in dirs : dirs' = dirs \ {d}
    /\ UNCHANGED <<link, binds, file, bd>>

BindsNext ==
    \/ \E s \in Slots : Unlink(s) \/ Symlink(s) \/ Record(s) \/ Write(s) \/ BindMount(s) \/ Answer(s)
    \/ ApplyNext \/ Applied \/ Serve \/ Restart \/ RemoveDirectory

BindsSpec == BindsInit /\ [][BindsNext]_bindVars

----------------------------------------------------------------------------
Settled == bd.stage = "serving" /\ InFlight = {} /\ ~bd.lost

\* Where binds do not overlap and the state file can be written, the link on
\* the disk, the record in memory and the record in the file say the same of
\* every mount between two commands, over any restarts; it is what the last
\* answered bind asked for (ADR 14: "Every bind is recorded ... and re-applied
\* when the daemon restarts inside the same container").
BindsAgree ==
    Settled /\ ~Limit.overlap =>
        \A m \in Mounts :
            /\ binds[m] = bd.wanted[m] /\ file[m] = bd.wanted[m]
            /\ link[m] = bd.wanted[m] \/ (bd.wanted[m] = Nothing /\ link[m] = RealDir)
=============================================================================
