------------------------------- MODULE MCControl -------------------------------
(* The control side of the daemon for TLC: the event bus, the frontends,   *)
(* one connection, the gates in front of its commands, a forward it opens, *)
(* what is put on the wire and what is taken out of recorded output.  They *)
(* share no state, so one run takes them one beside the other: "part" says *)
(* which one a behaviour is about.  The bus has its own variables; c1..c22 *)
(* are those of the other part, in the order its module declares them, and *)
(* those it does not need stay 0.  The parts' constants are this module's; *)
(* the sets of values TLC takes for them (profiles) stand beside each part *)
(* and are chosen by the configuration.                                    *)
EXTENDS EventBus, TLC

CONSTANTS
  Kinds, Splits, Reads, Escapes, Mismatched, OutCapacity, InCapacity, MaxFrames,
  MaxOutput,                                               \* ControlConnection
  Requests, Executions, AdmissionLimits,                   \* Admission
  Procs, ForwardCapacity, LOOKS_WITHOUT_HOLDER, ForwardLimits,  \* Forward
  Peers, MaxConnections, ListenLimits,                     \* Listener
  Ages,                                                    \* Wire
  TOKEN_PREFIXES, MIN_TOKEN_LEN, MIN_LITERAL_LEN, TokenBytes, Alphabet, MaxStream,
  Secrets                                                  \* Redactor

(* Model values of the profiles.                                           *)
CONSTANTS r1, r2        \* processes that hold a forward's far end

VARIABLES part, c1, c2, c3, c4, c5, c6, c7, c8, c9, c10, c11, c12, c13, c14, c15, c16, c17, c18,
          c19, c20, c21, c22

From7 == <<c7, c8, c9, c10, c11, c12, c13, c14, c15, c16, c17, c18, c19, c20, c21, c22>>
From5 == <<c5, c6, From7>>
From3 == <<c3, c4, From5>>
From2 == <<c2, From3>>
From1 == <<c1, From2>>
controlVars == <<vars, part, From1>>

Idle7 ==
  /\ c7 = 0 /\ c8 = 0 /\ c9 = 0 /\ c10 = 0 /\ c11 = 0 /\ c12 = 0
  /\ c13 = 0 /\ c14 = 0 /\ c15 = 0 /\ c16 = 0 /\ c17 = 0 /\ c18 = 0 /\ c19 = 0 /\ c20 = 0 /\ c21 = 0
  /\ c22 = 0
Idle5 == c5 = 0 /\ c6 = 0 /\ Idle7
Idle3 == c3 = 0 /\ c4 = 0 /\ Idle5
Idle2 == c2 = 0 /\ Idle3
Idle1 == c1 = 0 /\ Idle2

-------------------------------------------------------------------------------
(* One connection: every kind of command, frames that arrive in two parts, *)
(* a peer that closes or goes.                                             *)
AllKinds == {"plain", "shutdown", "forward", "sftp", "attach", "detachSession", "exec", "closeForward",
             "closeSftp", "data", "end"}
Connection == INSTANCE ControlConnection WITH
  peer <- c1, wire <- c2, pc <- c3, cur <- c4, partial <- c5, opened <- c6, beside <- c7, entries <- c8,
  pumps <- c9, sinks <- c10, closers <- c11, inbound <- c12, killed <- c13, outq <- c14, writer <- c15,
  forwarder <- c16, stopEvents <- c17, output <- c18, phase <- c19, received <- c20, written <- c21,
  desynced <- c22

(* Two commands at once out of each group, on a claimed daemon, a standby  *)
(* and one without an engine.                                              *)
AdmissionProfile(k, e, s, x) == [commands |-> k, engine |-> e, standby |-> s, crash |-> x]
AdmissionProfiles ==
    {AdmissionProfile({"Exec", "ExecAttached", "OpenSftp", "WriteStdin", "DotfilesApply"}, TRUE, TRUE, FALSE),
     AdmissionProfile({"OpenSession", "AttachSession", "BindMount", "CaptureReplan", "RuntimeHealth"},
                      TRUE, TRUE, TRUE),
     AdmissionProfile({"Exec", "ExecutionStart", "ExecutionStop", "KillProcess", "OpenForward"},
                      TRUE, FALSE, FALSE),
     AdmissionProfile({"Exec", "CaptureReplan", "SetFeatureState"}, FALSE, FALSE, FALSE)}
Gates == INSTANCE Admission WITH adm <- c1, reqs <- c2

(* A forward to three addresses, to none, and of datagrams; and bound ones *)
(* whose far end is held by processes of the session, of another one, and  *)
(* by ones nobody can tell of.                                             *)
ForwardProfile(u, o, n, h, x, y, k, l) ==
  [udp |-> u, bound |-> o, addresses |-> n, holders |-> h, sessions |-> (r1 :> x) @@ (r2 :> y),
   bytes |-> k, looks |-> l]
ForwardProfiles ==
    {ForwardProfile(FALSE, FALSE, 3, {r1}, "member", "member", 0, 0),
     ForwardProfile(FALSE, FALSE, 0, {r1}, "member", "member", 0, 0),
     ForwardProfile(FALSE, TRUE, 1, {r1, r2}, "member", "foreign", 1, 4),
     ForwardProfile(FALSE, TRUE, 1, {r1, r2}, "unread", "unknown", 0, 4),
     ForwardProfile(FALSE, TRUE, 1, {r1}, "member", "unread", 2, 4),
     ForwardProfile(TRUE, FALSE, 1, {r1}, "member", "member", 2, 0),
     ForwardProfile(TRUE, TRUE, 1, {r1}, "member", "member", 1, 0)}
Forwards == INSTANCE Forward WITH
  fw <- c1, dialed <- c2, target <- c3, check <- c4, OutCapacity <- ForwardCapacity

(* The two frontends with one permit: admitted peers, one of them not     *)
(* reading, beside a stranger; one silent and one on another path; and a   *)
(* socket that may not bind, with and without the other frontend.          *)
ListenProfile(w, x, y, z, f) ==
  [wss |-> w, on |-> [p \in {"u", "v", "w"} |-> IF p = "u" THEN "unix" ELSE "wss"],
   how |-> [p \in {"u", "v", "w"} |-> IF p = "u" THEN x ELSE IF p = "v" THEN y ELSE z], faults |-> f]
ListenProfiles ==
    {ListenProfile(TRUE, "admitted", "stuck", "admitted", 0), ListenProfile(TRUE, "stranger", "admitted", "stranger", 1),
     ListenProfile(TRUE, "admitted", "silent", "elsewhere", 0), ListenProfile(FALSE, "stuck", "admitted", "admitted", 1)}
Listeners == INSTANCE Listener WITH
  front <- c1, task <- c2, fate <- c3, reply <- c4, signal <- c5, nleft <- c6

(* Every message against a peer of the same, an older and a newer build.   *)
Messages == INSTANCE Wire WITH wire <- c1

(* Streams of up to six bytes, cut anywhere, with a token prefix of two    *)
(* bytes and secrets that overlap, contain each other and end a line.      *)
TokenPrefixes == {<<"s", "-">>}
SecretProfiles ==
  {[daemon |-> {<<"a", "s", "a">>, <<"a">>}, own |-> {}, end |-> <<"n">>],
   [daemon |-> {}, own |-> {<<"a", "n">>, <<"a", "n", "a", "s">>}, end |-> <<"n">>],
   [daemon |-> {}, own |-> {<<"a", "n", "s">>}, end |-> <<"a", "n">>]}
Recorder == INSTANCE Redactor WITH red <- c1

ASSUME PartConstants ==
  /\ Connection!ConnectionConstants /\ Listeners!ListenConstants /\ Forwards!ForwardConstants
  /\ IsFiniteSet(Requests)

-------------------------------------------------------------------------------
(* While another part runs, the bus is as it was started.                  *)
BusRests == Init /\ durable

ControlInit ==
  \/ part = "bus" /\ Init /\ Idle1
  \/ part = "connection" /\ BusRests /\ Connection!Init
  \/ part = "gates" /\ BusRests /\ Gates!AdmissionInit /\ Idle3
  \/ part = "forward" /\ BusRests /\ Forwards!ForwardInit /\ Idle5
  \/ part = "listen" /\ BusRests /\ Listeners!ListenInit /\ Idle7
  \/ part = "wire" /\ BusRests /\ Messages!WireInit /\ Idle2
  \/ part = "recorder" /\ BusRests /\ Recorder!RedactInit /\ Idle2

ControlNext ==
  \/ part = "bus" /\ Next /\ UNCHANGED <<part, From1>>
  \/ part = "connection" /\ Connection!Next /\ UNCHANGED <<part, vars>>
  \/ part = "gates" /\ Gates!AdmissionNext /\ UNCHANGED <<part, vars, From3>>
  \/ part = "forward" /\ Forwards!ForwardNext /\ UNCHANGED <<part, vars, From5>>
  \/ part = "listen" /\ Listeners!ListenNext /\ UNCHANGED <<part, vars, From7>>
  \/ part = "wire" /\ Messages!WireNext /\ UNCHANGED <<part, vars, From2>>
  \/ part = "recorder" /\ Recorder!RedactNext /\ UNCHANGED <<part, vars, From2>>

ControlSpec == ControlInit /\ [][ControlNext]_controlVars

-------------------------------------------------------------------------------
(* The properties of the parts; the bus's own are TypeOK and NoSilentLoss. *)

(* No channel outlives its connection and every request is answered once,  *)
(* before the connection ends (server.rs handle_connection); no connection *)
(* outlives its frontend, is served past the permits or to a peer that was *)
(* not admitted, or loses a queued reply to the shutdown (serve_unix,      *)
(* WssListener::serve).                                                    *)
ConnectionHolds ==
  /\ part = "connection" =>
       Connection!TypeOK /\ Connection!NoChannelOutlives /\ Connection!EveryRequestAnswered
  /\ part = "listen" => Listeners!ListenerHolds

(* An unclaimed standby is untouched and what a stop closed stays closed,  *)
(* whatever ran between the look and the act (runtime.rs dispatch).        *)
GatesHold == part = "gates" => Gates!AdmissionTypeOK /\ Gates!GatesHold

(* A dial that fails tells the most telling failure it met, and a bound    *)
(* forward opens only for the session it is bound to (forward.rs dial_to,  *)
(* verify_owner).                                                          *)
ForwardOpensRight == part = "forward" => Forwards!DialTellsTheMost /\ Forwards!OpensForItsOwn

(* A message keeps its meaning between builds of different ages, and a     *)
(* replayed record withholds what the live one did (convert.rs, bus.rs).   *)
WireKeepsMeaning == part = "wire" => Messages!WireKeepsMeaning

(* The record does not depend on where the reads cut the output, and holds *)
(* no secret (redact.rs).                                                  *)
RedactsTheSame == part = "recorder" => Recorder!RedactsTheSame
===============================================================================
