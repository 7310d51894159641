------------------------------ MODULE MCConnection ------------------------------
(* That a connection ends, for TLC, in three parts: two requests that leave *)
(* tasks behind (the constants of the configuration), a channel and what is *)
(* sent on it in halves, and one request of every kind beside events and    *)
(* output.  Safety is checked in MCControl.                                 *)
EXTENDS ControlConnection

VARIABLE part

OnChannel == INSTANCE ControlConnection WITH Kinds <- {"forward", "data"}, Splits <- TRUE
EveryKind == INSTANCE ControlConnection WITH
  Kinds <- {"plain", "shutdown", "forward", "sftp", "attach", "exec"},
  Splits <- TRUE, MaxFrames <- 1, MaxOutput <- 2

ASSUME ConnectionConstants /\ OnChannel!ConnectionConstants /\ EveryKind!ConnectionConstants

ConnectionInit ==
  \/ part = "tasks" /\ Init
  \/ part = "channel" /\ OnChannel!Init
  \/ part = "kinds" /\ EveryKind!Init

ConnectionNext ==
  \/ part = "tasks" /\ Next /\ UNCHANGED part
  \/ part = "channel" /\ OnChannel!Next /\ UNCHANGED part
  \/ part = "kinds" /\ EveryKind!Next /\ UNCHANGED part

(* The parts differ in what the peer sends and in the bounds; the daemon's *)
(* fairness is that of ControlConnection.                                  *)
Asks == IF part = "kinds" THEN EveryKind!Ids ELSE Ids
ConnectionFairness ==
  /\ WF_vars(Read \/ ShutdownSeen) /\ WF_vars(BesideJoined)
  /\ WF_vars(Handle) /\ WF_vars(Teardown)
  /\ WF_vars(ForwarderStops) /\ WF_vars(Write) /\ WF_vars(WriterEnds)
  /\ \A r \in Ids :
       /\ SF_vars(r \in Asks /\ BesideStep(r)) /\ WF_vars(r \in Asks /\ PumpInbound(r))
       /\ SF_vars(r \in Asks /\ r \in killed /\ PumpEnds(r))

ConnectionSpec ==
  ConnectionInit /\ [][ConnectionNext]_<<part, vars>> /\ ConnectionFairness
=================================================================================
