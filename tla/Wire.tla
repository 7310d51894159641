-------------------------------- MODULE Wire --------------------------------
(***************************************************************************)
(* The wire protocol: what the conversions of                              *)
(* crates/sealant-protocol/src/convert.rs make of every field of every     *)
(* message, between builds of different ages.                              *)
(*                                                                         *)
(* A message is converted field by field, and an error in any field        *)
(* refuses the whole message, so one field at a time is followed: a        *)
(* behaviour walks from a root message down to one field (`path'), picks   *)
(* what the sender means there, and applies the sender's conversion, the   *)
(* Protobuf encoding (a proto3 field at its default is not written) and    *)
(* the receiver's conversion.  Every other field is at its default.        *)
(*                                                                         *)
(* `age' is the sender's: the same build, an older one (it lacks the       *)
(* fields the sources say an older peer lacks) or a newer one (it has enum *)
(* values, oneof variants and strings this build has never heard of).      *)
(***************************************************************************)
EXTENDS Integers, Sequences, FiniteSets, SequencesExt

CONSTANT Ages      \* the senders: a subset of {"same", "older", "newer"}

VARIABLE wire      \* [root, age, path, phase, kind, sent, got, effect]

----------------------------------------------------------------------------
(* The kinds of field.                                                     *)

Absent == "absent"             \* not on the wire
None == "none"                 \* an Option's None
Refused == "refused"           \* a WireError
NewValue == "newer value"      \* a value only a newer build knows

\* A field: its kind, the variants of an enum or of a oneof or the fields of
\* a sub-message (`of'), and whether an older build lacks it.
Field(kind, of) == [kind |-> kind, of |-> of, added |-> FALSE]
Since(f) == [f EXCEPT !.added = TRUE]

Plain == Field("plain", <<>>)  \* number, bool, string, bytes, id
Opt == Field("opt", <<>>)      \* explicit presence
List == Field("list", <<>>)
\* A u16 carried in a uint32 and read back with `as u16': exact, since every
\* build's sender holds a u16 (a sender that does not is truncated).
U16 == Field("plain", <<>>)
Flag == Field("flag", <<>>)    \* a bool in an optional bool
Json == Field("json", <<>>)    \* a JSON value in an optional string
Enum(values) == Field("enum", values)
OptEnum(values) == Field("optenum", values)
EnumList(values) == Field("enumlist", values)
Msg(fields) == Field("msg", fields)
OptMsg(fields) == Field("optmsg", fields)
MsgList(fields) == Field("msglist", fields)
OneOf(variants) == Field("oneof", variants)
OptOneOf(variants) == Field("optoneof", variants)
Empty == <<>>

----------------------------------------------------------------------------
(* The enums: the values enum_pair! pairs, which leave the wire's zero     *)
(* (UNSPECIFIED) without a partner.                                        *)

RuntimeState == {"Starting", "Healthy", "Degraded", "Unhealthy", "ShuttingDown", "Stopped"}
ProcessState == {"Created", "Starting", "Running", "Terminating", "Exited", "Signaled", "Failed"}
ExitReason == {"Exited", "Signaled", "Timeout", "Cancelled", "StartFailed", "Lost"}
StreamKind == {"Stdin", "Stdout", "Stderr", "PtyInput", "PtyOutput"}
CaptureMethod == {"Pipe", "Pty", "Proxy", "Inotify", "Snapshot", "Ebpf", "Netlink", "Internal"}
Confidence == {"Observed", "Inferred", "Unknown"}
EventPriority == {"Critical", "Normal", "Low"}
CaptureKind == {"Auto", "Turn", "Checkpoint", "Suspend", "Final"}
CaptureClass == {"Small", "Bulk"}
Feature == {"FilesystemDiffing", "LiveFilesystemWatching", "NetworkCollection", "PayloadCapture",
            "VerboseIoCapture", "ResourceSampling"}
Signal == {"Hup", "Int", "Quit", "Term", "Kill", "Usr1", "Usr2", "Stop", "Cont"}
AttachMode == {"Interactive", "Observe"}
SessionState == {"Running", "Exited"}
CaptureMode == {"Full", "MetadataOnly", "Disabled"}
NetworkMode == {"Off", "Metadata", "Proxy", "Privileged", "Payload"}
FileChangeKind == {"Added", "Modified", "Deleted", "Renamed", "MetadataChanged"}
FileType == {"File", "Dir", "Symlink", "Other"}
NetworkScheme == {"Http", "HttpsConnect"}
ControlErrorCode == {"InvalidJson", "UnsupportedVersion", "FrameTooLarge", "UnknownCommand",
                     "InvalidArgument", "MissingCommand", "ExecutionNotFound", "SessionNotFound",
                     "ProcessNotFound", "ProcessStartFailed", "PtyAllocationFailed",
                     "PermissionDenied", "PolicyDenied", "FeatureUnavailable",
                     "CapabilityUnavailable", "QueueFull", "RuntimeShuttingDown", "InternalError"}

\* Three fields read the wire's zero as a value: a session's mode, a flush's
\* kind, and a forward's protocol (a string, absent for TCP).
SessionMode == Field("mode", {"Pty", "Pipe"})
CaptureFlushKind == Field("flushkind", {"Suspend", "Final"})
ForwardProtocol == Field("protocol", {"Tcp", "Udp"})

----------------------------------------------------------------------------
(* The messages.                                                           *)

EnvVar == [key |-> Plain, value |-> Plain]
SecretEnvVar == [key |-> Plain, value |-> Plain]
CapturePolicy == [stdout |-> Enum(CaptureMode), stderr |-> Enum(CaptureMode),
                  stdin |-> Enum(CaptureMode)]
ArtifactRef == [algo |-> Plain, hash |-> Plain, bytes |-> Plain]
TransformMeta == [redacted |-> Plain, truncated |-> Plain, coalesced |-> Plain,
                  original_byte_count |-> Opt]
Limits == [max_frame_bytes |-> Plain, max_processes |-> Plain, max_sessions |-> Plain,
           event_queue_capacity |-> Plain, spool_limit_bytes |-> Plain,
           max_inline_payload_bytes |-> Plain, io_chunk_bytes |-> Plain]
FeatureMatrix == [io_capture |-> Plain, pty |-> Plain, filesystem |-> Plain,
                  network |-> Enum(NetworkMode), privileged |-> Plain, pidfd |-> Plain,
                  subreaper |-> Plain, pipe_sessions |-> Plain]
FeatureState == [feature |-> Enum(Feature), enabled |-> Plain]

\* Event payloads.  ProcessStarted.args stays for older daemons, which filled
\* it: this build always publishes it empty.
ProcessStarted == [pid |-> Plain, pgid |-> Plain, pidfd |-> Plain, executable |-> Plain,
                   args |-> Field("args", <<>>), cwd |-> Plain, started_at |-> Plain,
                   arg_count |-> Plain, arg_lengths |-> List]
ProcessExited == [exit_code |-> Opt, signal |-> Opt, reason |-> Enum(ExitReason),
                  duration_micros |-> Plain]
IoChunk == [stream |-> Enum(StreamKind), byte_count |-> Plain, stream_offset |-> Plain,
            content |-> Opt, artifact |-> OptMsg(ArtifactRef), transform |-> OptMsg(TransformMeta)]
TelemetryDropped == [reason |-> Plain, count |-> Plain, priority |-> Enum(EventPriority)]
FileEntry == [path |-> Plain, file_type |-> Enum(FileType), size |-> Plain,
              mtime_micros |-> Plain, mode |-> Plain, hash |-> Opt, symlink_target |-> Opt]
FileChange == [kind |-> Enum(FileChangeKind), path |-> Plain, rename_from |-> Opt,
               entry |-> OptMsg(FileEntry), certain |-> Plain]
FileWatchOverflow == [root |-> Plain]
FileSnapshotCompleted == [root |-> Plain, file_count |-> Plain]
FileDiffAvailable == [added |-> Plain, modified |-> Plain, deleted |-> Plain, renamed |-> Plain]
NetworkRequest == [scheme |-> Enum(NetworkScheme), method |-> Opt, host |-> Plain, port |-> U16,
                   path |-> Opt, status |-> Opt, bytes_sent |-> Plain, bytes_received |-> Plain,
                   duration_micros |-> Plain]
NetworkSourceObserved == [host |-> Plain, resolved_ips |-> List, port |-> U16,
                          scheme |-> OptEnum(NetworkScheme), method |-> Opt, path |-> Opt,
                          status |-> Opt]
EventPayload == [RuntimeStateChanged |-> [state |-> Enum(RuntimeState), reason |-> Opt],
                 RuntimeHeartbeat |-> [state |-> Enum(RuntimeState)],
                 ProcessStarted |-> ProcessStarted, ProcessExited |-> ProcessExited,
                 IoChunk |-> IoChunk, TelemetryDropped |-> TelemetryDropped,
                 FileChange |-> FileChange, FileWatchOverflow |-> FileWatchOverflow,
                 FileSnapshotCompleted |-> FileSnapshotCompleted,
                 FileDiffAvailable |-> FileDiffAvailable, NetworkRequest |-> NetworkRequest,
                 NetworkSourceObserved |-> NetworkSourceObserved]
EventEnvelope == [schema_version |-> Field("version", <<>>), event_id |-> Plain,
                  runtime_id |-> Plain, execution_id |-> Opt, session_id |-> Opt,
                  process_id |-> Opt, request_id |-> Opt, sequence |-> Plain,
                  observed_at |-> Plain, monotonic_timestamp |-> Plain,
                  capture_method |-> Enum(CaptureMethod), confidence |-> Enum(Confidence),
                  payload |-> OneOf(EventPayload)]

\* Commands.
ExecArgs == [execution_id |-> Opt, session_id |-> Opt, executable |-> Plain, args |-> List,
             cwd |-> Opt, env |-> MsgList(EnvVar), secret_env |-> MsgList(SecretEnvVar),
             stdin |-> Plain, timeout_millis |-> Opt, background |-> Plain,
             capture |-> OptMsg(CapturePolicy), graceful_signal |-> OptEnum(Signal),
             attach |-> Plain, user |-> Opt]
OpenSessionArgs == [execution_id |-> Opt, shell |-> Opt, args |-> List, cwd |-> Opt,
                    env |-> MsgList(EnvVar), secret_env |-> MsgList(SecretEnvVar), cols |-> U16,
                    rows |-> U16, term |-> Opt, mode |-> Since(SessionMode), user |-> Opt]
AttachSessionArgs == [session_id |-> Plain, mode |-> Enum(AttachMode), from_sequence |-> Opt]
ReadSessionOutputArgs == [session_id |-> Plain, from_sequence |-> Plain, max_bytes |-> Opt]
OpenForwardArgs == [host |-> Plain, port |-> U16, execution_id |-> Opt,
                    protocol |-> Since(ForwardProtocol), dedicated |-> Since(Flag),
                    owner_session_id |-> Opt]
OpenSftpArgs == [execution_id |-> Opt, cwd |-> Opt, user |-> Opt]
ExecutionStartArgs == [execution_id |-> Opt, labels |-> Json]
DotfilesApplyArgs ==
    [user |-> Plain, archive_dir |-> Opt, execution_id |-> Opt,
     repository |-> OptMsg([url |-> Plain, reference |-> Opt, manager |-> Opt, target |-> Opt,
                            bootstrap |-> Plain, bootstrap_command |-> Opt,
                            http_username |-> Opt, http_token |-> Opt])]
CaptureFlushArgs == [kind |-> Since(CaptureFlushKind), deadline_ms |-> Since(Opt),
                     grace_ms |-> Since(Opt)]
Command == [RuntimeHealth |-> Empty, RuntimeGetCapabilities |-> Empty,
            RuntimeGracefulShutdown |-> [grace_millis |-> Opt], RuntimeKill |-> Empty,
            ExecutionStart |-> ExecutionStartArgs, ExecutionStop |-> [execution_id |-> Plain],
            Exec |-> ExecArgs, SignalProcess |-> [process_id |-> Plain, signal |-> Enum(Signal)],
            KillProcess |-> [process_id |-> Plain], ListProcesses |-> [execution_id |-> Opt],
            WriteStdin |-> [process_id |-> Opt, session_id |-> Opt, data |-> Plain],
            CloseStdin |-> [process_id |-> Plain], OpenSession |-> OpenSessionArgs,
            CloseSession |-> [session_id |-> Plain],
            ResizePty |-> [session_id |-> Plain, cols |-> U16, rows |-> U16],
            ListSessions |-> Empty,
            SetFeatureState |-> [feature |-> Enum(Feature), enabled |-> Plain],
            GetRuntimeMetrics |-> Empty, BindMount |-> [mount_path |-> Plain, subpath |-> Plain],
            CaptureNow |-> [kind |-> Enum(CaptureKind)], CaptureFlush |-> CaptureFlushArgs,
            CaptureStatus |-> Empty, LeaseEpoch |-> Empty, CaptureReplan |-> Empty,
            DotfilesApply |-> DotfilesApplyArgs, AttachSession |-> AttachSessionArgs,
            DetachSession |-> [channel_id |-> Plain], OpenForward |-> OpenForwardArgs,
            CloseForward |-> [channel_id |-> Plain], OpenSftp |-> OpenSftpArgs,
            CloseSftp |-> [channel_id |-> Plain],
            SignalSession |-> [session_id |-> Plain, signal |-> Enum(Signal)],
            ReadSessionOutput |-> ReadSessionOutputArgs]

\* Results.
Capabilities == [schema_version |-> Plain, runtime_id |-> Plain, workspace_id |-> Opt,
                 os |-> Plain, arch |-> Plain, daemon_version |-> Plain,
                 features |-> Msg(FeatureMatrix), limits |-> Msg(Limits), supports |-> List,
                 person_capabilities |-> List, person_capabilities_withheld |-> Opt,
                 no_new_privileges |-> Since(Opt)]
HealthReport == [state |-> Enum(RuntimeState), runtime_id |-> Plain, uptime_millis |-> Plain,
                 active_executions |-> Plain, active_sessions |-> Plain,
                 active_processes |-> Plain, queue_depth |-> Plain, queue_capacity |-> Plain,
                 spool_bytes |-> Plain, spool_limit_bytes |-> Plain, retry_count |-> Plain,
                 last_delivery_at |-> Opt, dropped_events |-> Plain, redacted_events |-> Plain,
                 coalesced_events |-> Plain, truncated_events |-> Plain,
                 sink_connected |-> Plain, feature_states |-> MsgList(FeatureState),
                 degradation_reasons |-> List]
ProcessSummary == [process_id |-> Plain, pid |-> Plain, pgid |-> Plain,
                   state |-> Enum(ProcessState), executable |-> Plain, execution_id |-> Opt,
                   session_id |-> Opt]
SessionSummary == [session_id |-> Plain, process_id |-> Plain, pid |-> Plain, cols |-> U16,
                   rows |-> U16, execution_id |-> Opt, state |-> Enum(SessionState),
                   exit_code |-> Opt, signal |-> Opt, started_at_micros |-> Plain,
                   first_journal_sequence |-> Plain, next_journal_sequence |-> Plain,
                   mode |-> Since(SessionMode)]
SessionOutput == [session_id |-> Plain, chunks |-> MsgList([sequence |-> Plain, data |-> Plain]),
                  next_sequence |-> Plain, first_available_sequence |-> Plain,
                  state |-> Enum(SessionState), exit_code |-> Opt, signal |-> Opt]
ExecAccepted == [process_id |-> Plain, pid |-> Plain, pgid |-> Plain, pidfd |-> Plain]
RuntimeMetrics == [uptime_millis |-> Plain, events_emitted |-> Plain, events_delivered |-> Plain,
                   dropped_events |-> Plain, queue_depth |-> Plain, spool_bytes |-> Plain,
                   active_processes |-> Plain, active_sessions |-> Plain]
CaptureStaged == [n |-> Plain, capture_id |-> Plain, kind |-> Enum(CaptureKind),
                  unchanged |-> Plain]
CaptureClassSnaps == [class |-> Enum(CaptureClass), snaps_failed |-> Plain,
                      last_snap_error |-> Opt, snap_failing_since_unix_ms |-> Opt]
CaptureOverdue == [step |-> Plain, started_unix_ms |-> Plain, running_ms |-> Plain,
                   bound_ms |-> Plain]
CaptureStatusReport ==
    [epoch |-> Plain, worktree_id |-> Plain, head_n |-> Opt, pending |-> Plain,
     staged_bytes |-> Plain, uploaded_objects |-> Plain, uploaded_bytes |-> Plain,
     registered |-> Plain, fenced |-> Plain, paused |-> Plain, last_snap_unix_ms |-> Opt,
     refused |-> EnumList(CaptureClass), pending_bulk |-> Plain, pending_bytes |-> Plain,
     complete |-> Since(Plain), incomplete_reason |-> Opt, unreadable |-> Since(Opt),
     carried |-> Opt, unreadable_paths |-> List, register_refused |-> Opt,
     register_refused_n |-> Opt, register_missing |-> List, register_refusals |-> Since(Opt),
     repairing |-> Plain, bulk_building |-> Plain, snaps |-> Since(MsgList(CaptureClassSnaps)),
     launch |-> Since(Opt), boot_id |-> Since(Opt), boot_generation |-> Since(Opt),
     observation |-> Since(Opt), overdue |-> Since(OptMsg(CaptureOverdue)),
     owner_map |-> Since(Plain)]
LeaseEpochReport == [epoch |-> Plain, worktree_id |-> Plain, fenced |-> Plain]
CaptureReplanned == [worktree_id |-> Plain, epoch |-> Plain, head_n |-> Opt,
                     head_capture_id |-> Opt, files_written |-> Plain, bytes_written |-> Plain,
                     files_skipped |-> Plain, bytes_skipped |-> Plain, removed |-> Plain,
                     unchanged |-> Plain]
ProcessAttached == [process_id |-> Plain, pid |-> Plain, pgid |-> Plain, channel_id |-> Plain]
DotfilesApplied == [user |-> Plain, home |-> Plain, bootstrap |-> OptMsg(ExecAccepted)]
CommandResult == [Health |-> HealthReport, Capabilities |-> Capabilities,
                  ExecAccepted |-> ExecAccepted,
                  SessionOpened |-> [session_id |-> Plain, process_id |-> Plain, pid |-> Plain],
                  ProcessList |-> [processes |-> MsgList(ProcessSummary)],
                  SessionList |-> [sessions |-> MsgList(SessionSummary)],
                  Metrics |-> RuntimeMetrics, ShutdownAccepted |-> [grace_millis |-> Plain],
                  CaptureStaged |-> CaptureStaged, CaptureStatus |-> CaptureStatusReport,
                  LeaseEpoch |-> LeaseEpochReport, CaptureReplanned |-> CaptureReplanned,
                  StreamAttached |-> [channel_id |-> Plain], ProcessAttached |-> ProcessAttached,
                  ForwardOpened |-> [channel_id |-> Plain, bound_session_id |-> Opt],
                  SftpOpened |-> [channel_id |-> Plain], SessionOutput |-> SessionOutput,
                  DotfilesApplied |-> DotfilesApplied, Accepted |-> Empty]
ControlError == [code |-> Enum(ControlErrorCode), message |-> Plain, detail |-> Json]

\* Envelopes.  A missing oneof is an error everywhere but in an Ok outcome.
ControlRequest == [schema_version |-> Field("version", <<>>), request_id |-> Plain,
                   command |-> OneOf(Command)]
ResponseOutcome == [outcome |-> OneOf([Ok |-> [result |-> OptOneOf(CommandResult)],
                                       Error |-> ControlError])]
ControlResponse == [schema_version |-> Field("version", <<>>), request_id |-> Plain,
                    outcome |-> Msg(ResponseOutcome)]
StreamFrame == [channel_id |-> Plain, seq |-> Plain,
                payload |-> OneOf([Data |-> [data |-> Plain], WindowUpdate |-> [credits |-> Plain],
                                   End |-> [exit_code |-> Opt, signal |-> Opt, error |-> Opt]])]
ClientMessage == [message |-> OneOf([Request |-> ControlRequest, Stream |-> StreamFrame])]
ServerMessage == [message |-> OneOf([Response |-> ControlResponse, Event |-> EventEnvelope,
                                     Stream |-> StreamFrame])]
Roots == [client |-> ClientMessage, server |-> ServerMessage, spool |-> EventEnvelope]

----------------------------------------------------------------------------
(* One field's conversions.                                                *)

\* What a sender of this build may mean in a field that is not a message.
Meanings(f) ==
    CASE f.kind = "plain" -> {"zero", "some"}
      [] f.kind = "opt" -> {None, "zero", "some"}
      [] f.kind = "list" -> {"empty", "some"}
      [] f.kind = "args" -> {"empty"}
      [] f.kind = "version" -> {"current"}
      [] f.kind = "flag" -> {"true", "false"}
      [] f.kind = "json" -> {None, "some"}
      [] f.kind \in {"enum", "mode", "flushkind", "protocol"} -> f.of
      [] f.kind = "optenum" -> f.of \cup {None}
      [] f.kind = "enumlist" -> f.of \cup {"empty"}
      [] f.kind \in {"optmsg", "optoneof"} -> {None}
      [] f.kind = "msglist" -> {"empty"}
      [] OTHER -> {}

\* What an older build, which lacks the field, means by not sending it.
Before(f) ==
    CASE f.kind = "plain" -> "zero"
      [] f.kind \in {"opt", "optmsg"} -> None
      [] f.kind = "msglist" -> "empty"
      [] f.kind = "flag" -> "false"
      [] f.kind = "mode" -> "Pty"
      [] f.kind = "flushkind" -> "Suspend"
      [] f.kind = "protocol" -> "Tcp"

\* From<T> for wire::T and the Protobuf encoding: a scalar at its default and
\* an empty list are not written, an Option is when it is Some.
Encode(f, v) ==
    CASE f.kind = "protocol" /\ v = "Tcp" -> Absent
      [] f.kind = "protocol" /\ v = "Udp" -> "udp"
      [] f.kind = "flag" /\ v = "false" -> Absent
      [] f.kind = "plain" /\ v = "zero" -> Absent
      [] f.kind \in {"oneof", "optoneof"} -> Absent       \* None, or a variant with an unknown tag
      [] v \in {"empty", None} -> Absent
      [] OTHER -> v

\* The enum_pair! function: zero and a number this build does not know are
\* both UnknownEnum.
DecodeEnum(f, w) == IF w \in f.of THEN w ELSE Refused

\* A plausible bug: the mode is read with the plain enum function.
DecodeModeStrictly(f, w) == DecodeEnum(f, w)

\* session_mode_or_default
DecodeMode(f, w) == IF w = Absent THEN "Pty" ELSE IF w \in f.of THEN w ELSE Refused

\* capture_flush_kind
DecodeFlushKind(f, w) == IF w = Absent THEN "Suspend" ELSE IF w \in f.of THEN w ELSE Refused

\* TryFrom<wire::T> for T.
Decode(f, w) ==
    CASE f.kind = "mode" -> DecodeMode(f, w)
      [] f.kind = "flushkind" -> DecodeFlushKind(f, w)
      [] f.kind = "protocol" -> IF w = "udp" THEN "Udp" ELSE "Tcp"
      [] f.kind = "flag" -> IF w = Absent THEN "false" ELSE w
      [] f.kind = "enum" -> DecodeEnum(f, w)
      [] f.kind = "optenum" -> IF w = Absent THEN None ELSE DecodeEnum(f, w)
      [] f.kind = "enumlist" -> IF w = Absent THEN "empty" ELSE DecodeEnum(f, w)
      [] f.kind = "plain" -> IF w = Absent THEN "zero" ELSE w
      [] f.kind \in {"list", "args", "msglist"} -> IF w = Absent THEN "empty" ELSE w
      [] f.kind \in {"opt", "json", "optmsg", "optoneof"} -> IF w = Absent THEN None ELSE w
      [] f.kind \in {"oneof", "msg"} -> Refused           \* MissingOneof, MissingField
      [] f.kind = "version" -> w

----------------------------------------------------------------------------
(* The walk to one field.                                                  *)

\* The fields of the message the path leads to: a step names a field and, for
\* a oneof, the variant.
FieldsAt(root, path) ==
    FoldLeft(LAMBDA fields, step : IF step[2] = "" THEN fields[step[1]].of
                                   ELSE fields[step[1]].of[step[2]],
             Roots[root], path)

Fields == FieldsAt(wire.root, wire.path)
Building == wire.phase = "building"

WireInit ==
    \E r \in DOMAIN Roots, a \in Ages :
        wire = [root |-> r, age |-> a, path |-> <<>>, phase |-> "building", kind |-> "",
                sent |-> None, got |-> None, effect |-> ""]

\* A sub-message, or one element of a list of them.
Enter(n) ==
    /\ Building
    /\ Fields[n].kind \in {"msg", "optmsg", "msglist"}
    /\ wire' = [wire EXCEPT !.path = Append(@, <<n, "">>)]

\* A variant of a oneof.
Choose(n) ==
    /\ Building
    /\ Fields[n].kind \in {"oneof", "optoneof"}
    /\ \E v \in DOMAIN Fields[n].of : wire' = [wire EXCEPT !.path = Append(@, <<n, v>>)]

\* The message in hand crosses the wire with `sent' in field n.
Cross(n, meant, onWire) ==
    wire' = [wire EXCEPT !.path = Append(@, <<n, "">>), !.phase = "decoded",
                         !.kind = Fields[n].kind, !.sent = meant,
                         !.got = Decode(Fields[n], onWire)]

\* A value both builds know.
SendKnown(n) ==
    /\ Building
    /\ \E v \in Meanings(Fields[n]) : Cross(n, v, Encode(Fields[n], v))

\* An older build: a field it does not have, or the argument text it had.
SendOlder(n) ==
    /\ Building /\ wire.age = "older"
    /\ \/ Fields[n].added /\ Cross(n, Before(Fields[n]), Absent)
       \/ Fields[n].kind = "args" /\ Cross(n, "some", "some")

\* A newer build: an enum number, a oneof tag (skipped by the Protobuf
\* decoder, so the oneof reads as missing), a protocol or a schema version
\* this build does not know.
SendNewer(n) ==
    /\ Building /\ wire.age = "newer"
    /\ Fields[n].kind \in {"enum", "optenum", "enumlist", "mode", "flushkind", "oneof",
                           "optoneof", "protocol", "version"}
    /\ Cross(n, NewValue, Encode(Fields[n], NewValue))

\* A message without fields.
SendBare ==
    /\ Building /\ DOMAIN Fields = {}
    /\ wire' = [wire EXCEPT !.phase = "decoded", !.kind = "bare"]

----------------------------------------------------------------------------
(* What the receiver does with it.                                         *)

IsVersionField == wire.kind = "version"

\* decode_inbound: a message that does not convert is answered under the id
\* "unknown", since nothing of it was kept; a request of another schema
\* version under its own.
DecodeInbound ==
    /\ wire.phase = "decoded" /\ wire.root = "client"
    /\ wire' = [wire EXCEPT !.phase = "done",
                  !.effect = IF wire.got = Refused THEN "error without id"
                             ELSE IF IsVersionField /\ wire.got # "current"
                             THEN "unsupported version" ELSE "served"]

\* A plausible bug: the replay publishes a record as it was stored.
ReplayRecordAsStored ==
    /\ wire.phase = "decoded" /\ wire.root = "spool"
    /\ wire' = [wire EXCEPT !.phase = "done",
                  !.effect = IF wire.got = Refused THEN "skipped" ELSE "published"]

\* EventBus::replay: the spool a daemon of another build left.  Argument text
\* is withheld, a record that does not convert is skipped.
ReplayRecord ==
    /\ wire.phase = "decoded" /\ wire.root = "spool"
    /\ wire' = [wire EXCEPT !.phase = "done",
                  !.effect = IF wire.got = Refused THEN "skipped" ELSE "published",
                  !.got = IF wire.kind = "args" THEN "empty" ELSE @]

\* The client (sealantctl): a message that does not convert is reported and
\* the next is read; the schema version is not looked at.
ClientReads ==
    /\ wire.phase = "decoded" /\ wire.root = "server"
    /\ wire' = [wire EXCEPT !.phase = "done",
                  !.effect = IF wire.got = Refused THEN "skipped" ELSE "read"]

\* The fields of the message in hand, while one is being built.
FieldNames == IF Building THEN DOMAIN Fields ELSE {}

WireNext ==
    \/ \E n \in FieldNames : Enter(n)
    \/ \E n \in FieldNames : Choose(n)
    \/ \E n \in FieldNames : SendKnown(n)
    \/ \E n \in FieldNames : SendOlder(n)
    \/ \E n \in FieldNames : SendNewer(n)
    \/ SendBare
    \/ DecodeInbound \/ ReplayRecord \/ ClientReads

WireSpec == WireInit /\ [][WireNext]_wire

----------------------------------------------------------------------------
(* Properties.                                                             *)

\* Where this build gives a value it does not know a meaning instead of
\* refusing it: a forward's protocol falls back to TCP, an Ok whose result it
\* does not know has none, and a schema version is left to the receiver.
Fallback == [protocol |-> "Tcp", optoneof |-> None, version |-> NewValue]

\* Between builds of any two ages a message that converts means what its
\* sender meant: every value of this build comes back as it was, in every
\* field of every message; a field an older build lacks reads as what that
\* build did (a PTY session, a suspend flush, `complete' false), and never
\* refuses its message; a value only a newer build knows refuses the message,
\* but for the three fallbacks.
MeansTheSame ==
    wire.phase = "decoded" =>
        IF wire.sent = NewValue
        THEN wire.got = (IF wire.kind \in DOMAIN Fallback THEN Fallback[wire.kind] ELSE Refused)
        ELSE wire.got = wire.sent

\* No event of this build's or an older daemon's spool is dropped at replay,
\* and none is published with argument text; no request of another schema
\* version is served.
ReplayedAndWithheld ==
    wire.phase = "done" =>
        /\ wire.root = "spool" /\ wire.age # "newer" => wire.effect = "published"
        /\ wire.root = "spool" /\ wire.kind = "args" => wire.got = "empty"
        /\ wire.effect = "served" => wire.got # Refused /\ ~(IsVersionField /\ wire.got # "current")

\* What crosses the wire, or is spooled and replayed, keeps its meaning whatever the age of
\* the other side.
WireKeepsMeaning == MeansTheSame /\ ReplayedAndWithheld
============================================================================
