------------------------------- MODULE Listener -------------------------------
(***************************************************************************)
(* The control frontends of one daemon: the Unix socket (server.rs         *)
(* serve_unix) and the secure WebSocket (wss.rs), from bind to the join of *)
(* their last connection, under one handle (control_frontends.rs).  What   *)
(* happens on a connection is ControlConnection; here it answers, flushes  *)
(* its reply and ends, or its peer stops reading.                          *)
(*                                                                         *)
(* TLS and the HTTP upgrade are external: a peer is admitted, is a         *)
(* stranger to the certificate authority or to the socket's users, asks    *)
(* for another path, or says nothing.                                      *)
(***************************************************************************)
EXTENDS Integers, FiniteSets

CONSTANTS Peers,          \* who may connect
          MaxConnections, \* the permits of the WebSocket frontend
          ListenLimits    \* records [wss, on, how, faults]: on[p] a frontend, how[p] as above

\* What the constants may be: only a handshake of the WebSocket frontend meets a peer that is silent
\* or on another path.
ListenConstants ==
    /\ IsFiniteSet(Peers) /\ MaxConnections \in Nat
    /\ ListenLimits \subseteq [wss : BOOLEAN, on : [Peers -> {"unix", "wss"}],
                                how : [Peers -> {"admitted", "stuck", "stranger", "silent", "elsewhere"}],
                                faults : Nat]
    /\ \A l \in ListenLimits : \A p \in Peers : l.how[p] \in {"silent", "elsewhere"} => l.on[p] = "wss"

VARIABLES front,    \* front[f]: "off", "bind", "accept", "drain", "failed", "closed"
          task,     \* task[p]: where the peer's connection is
          fate,     \* fate[p]: how it ended
          reply,    \* reply[p]: "none", "queued" or "sent"
          signal,   \* whether shutdown was signalled, and whether the handle resolved
          nleft

listenVars == <<front, task, fate, reply, signal, nleft>>

Frontends == {"unix", "wss"}
Live == {"handshake", "serving", "unwind"}
On(p) == nleft.on[p]
Tasks(f) == {p \in Peers : On(p) = f /\ task[p] \in Live}

\* The WebSocket listener is bound before the frontends are spawned, the socket by its own task.
ListenInit ==
    /\ nleft \in ListenLimits
    /\ front = [unix |-> "bind", wss |-> IF nleft.wss THEN "accept" ELSE "off"]
    /\ task = [p \in Peers |-> "away"]
    /\ fate = [p \in Peers |-> "none"]
    /\ reply = [p \in Peers |-> "none"]
    /\ signal = [shutdown |-> FALSE, resolved |-> FALSE]

End(ps, how) ==
    /\ task' = [p \in Peers |-> IF p \in ps THEN "ended" ELSE task[p]]
    /\ fate' = [p \in Peers |-> IF p \in ps THEN how ELSE fate[p]]
Moves(p, to) == task' = [task EXCEPT ![p] = to] /\ UNCHANGED fate
Faults == nleft.faults > 0 /\ nleft' = [nleft EXCEPT !.faults = @ - 1]

\* prepare_socket_path and bind: the path is occupied, or another daemon listens on it.
BindUnix ==
    /\ front.unix = "bind"
    /\ \/ front' = [front EXCEPT !.unix = "accept"] /\ UNCHANGED nleft
       \/ front' = [front EXCEPT !.unix = "failed"] /\ Faults
    /\ UNCHANGED <<task, fate, reply, signal>>

Connects(p) ==
    /\ task[p] = "away" /\ front[On(p)] = "accept"
    /\ Moves(p, "backlog")
    /\ UNCHANGED <<front, reply, signal, nleft>>
AcceptFails(p) ==
    /\ task[p] = "backlog" /\ front[On(p)] = "accept" /\ Faults
    /\ End({p}, "refused")
    /\ UNCHANGED <<front, reply, signal>>
\* The peer's user is checked before its connection has a task.
AcceptUnix(p) ==
    /\ task[p] = "backlog" /\ On(p) = "unix" /\ front.unix = "accept"
    /\ IF nleft.how[p] = "stranger" THEN End({p}, "rejected") ELSE Moves(p, "serving")
    /\ UNCHANGED <<front, reply, signal, nleft>>
\* A connection takes a permit before its handshake and has it until its task ends.
AcceptWss(p) ==
    /\ task[p] = "backlog" /\ On(p) = "wss" /\ front.wss = "accept"
    /\ IF Cardinality(Tasks("wss")) >= MaxConnections THEN End({p}, "refused") ELSE Moves(p, "handshake")
    /\ UNCHANGED <<front, reply, signal, nleft>>
\* accept_control_socket
Handshake(p) ==
    /\ task[p] = "handshake" /\ nleft.how[p] # "silent"
    /\ IF nleft.how[p] \in {"stranger", "elsewhere"} THEN End({p}, "rejected") ELSE Moves(p, "serving")
    /\ UNCHANGED <<front, reply, signal, nleft>>
HandshakeTimeout(p) ==
    /\ task[p] = "handshake"
    /\ End({p}, "timedout")
    /\ UNCHANGED <<front, reply, signal, nleft>>

----------------------------------------------------------------------------
(* A connection.                                                           *)

\* The request that asks for the shutdown, or any other; its reply is queued.
Answers(p) ==
    /\ task[p] = "serving" /\ reply[p] = "none"
    /\ reply' = [reply EXCEPT ![p] = "queued"]
    /\ \E asks \in BOOLEAN : signal' = [signal EXCEPT !.shutdown = @ \/ asks]
    /\ UNCHANGED <<front, task, fate, nleft>>
Sends(p) ==
    /\ task[p] \in {"serving", "unwind"} /\ reply[p] = "queued" /\ nleft.how[p] # "stuck"
    /\ reply' = [reply EXCEPT ![p] = "sent"]
    /\ UNCHANGED <<front, task, fate, signal, nleft>>
PeerLeaves(p) ==
    /\ task[p] = "serving"
    /\ End({p}, "left")
    /\ UNCHANGED <<front, reply, signal, nleft>>
\* It sees the shutdown, even when it began after it, and ends once its writer has drained.
Unwinds(p) ==
    /\ task[p] = "serving" /\ signal.shutdown
    /\ Moves(p, "unwind")
    /\ UNCHANGED <<front, reply, signal, nleft>>
Unwound(p) ==
    /\ task[p] = "unwind" /\ reply[p] # "queued"
    /\ End({p}, "closed")
    /\ UNCHANGED <<front, reply, signal, nleft>>

----------------------------------------------------------------------------
(* Shutdown.                                                               *)

Signal ==
    /\ ~signal.shutdown
    /\ signal' = [signal EXCEPT !.shutdown = TRUE]
    /\ UNCHANGED <<front, task, fate, reply, nleft>>
\* Accepting stops; who was not accepted yet is reset.
Drain(f) ==
    /\ front[f] = "accept" /\ signal.shutdown
    /\ front' = [front EXCEPT ![f] = "drain"]
    /\ End({p \in Peers : On(p) = f /\ task[p] = "backlog"}, "refused")
    /\ UNCHANGED <<reply, signal, nleft>>
Drained(f) ==
    /\ front[f] = "drain" /\ Tasks(f) = {}
    /\ front' = [front EXCEPT ![f] = "closed"]
    /\ UNCHANGED <<task, fate, reply, signal, nleft>>
GraceEnds(f) ==
    /\ front[f] = "drain" /\ Tasks(f) # {}
    /\ End(Tasks(f), "aborted")
    /\ front' = [front EXCEPT ![f] = "closed"]
    /\ UNCHANGED <<reply, signal, nleft>>
\* spawn_control_frontends: the socket's result is kept until the WebSocket frontend returned too; the
\* daemon that finds the handle resolved shuts down.
Resolves ==
    /\ ~signal.resolved /\ front.unix \in {"closed", "failed"} /\ front.wss \in {"closed", "off"}
    /\ signal' = [shutdown |-> TRUE, resolved |-> TRUE]
    /\ UNCHANGED <<front, task, fate, reply, nleft>>

Served(p) ==
    \/ AcceptFails(p) \/ AcceptUnix(p) \/ AcceptWss(p) \/ Handshake(p) \/ HandshakeTimeout(p)
    \/ Sends(p) \/ Unwinds(p) \/ Unwound(p)
Serve(f) == Drain(f) \/ Drained(f) \/ GraceEnds(f)
ListenNext ==
    \/ BindUnix \/ Signal \/ Resolves
    \/ \E f \in Frontends : Serve(f)
    \/ \E p \in Peers : Served(p) \/ Connects(p) \/ Answers(p) \/ PeerLeaves(p)

ListenSpec ==
    /\ ListenInit /\ [][ListenNext]_listenVars
    /\ WF_listenVars(BindUnix) /\ WF_listenVars(Resolves)
    /\ \A f \in Frontends : WF_listenVars(Serve(f))
    /\ \A p \in Peers : WF_listenVars(Served(p))

\* No more connections than permits, none served to a peer that was not admitted, none after its
\* frontend closed; a reply that was queued is lost only with its peer or at the end of the grace, so
\* the answer to the request that asked for the shutdown is out before the daemon exits.
ListenerHolds ==
    /\ Cardinality(Tasks("wss")) <= MaxConnections
    /\ \A p \in Peers :
         /\ task[p] \in {"serving", "unwind"} => nleft.how[p] \in {"admitted", "stuck"}
         /\ task[p] \in Live => front[On(p)] \in {"accept", "drain"}
         /\ task[p] = "ended" /\ reply[p] = "queued" => fate[p] \in {"left", "aborted"}
    /\ signal.resolved => \A p \in Peers : task[p] \notin Live

\* A shutdown ends the frontends, whatever their peers do; no handshake keeps its permit for ever.
FrontendsEnd == signal.shutdown ~> signal.resolved
HandshakeEnds == \A p \in Peers : task[p] = "handshake" ~> task[p] # "handshake"

\* The handle resolves when the socket's serve returned (control_frontends.rs:19).  It does not hold:
\* with a WebSocket frontend, a socket that could not be bound is seen only after the shutdown.
SocketEndIsSeen == front.unix = "failed" ~> signal.resolved
=============================================================================
