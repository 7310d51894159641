------------------------------ MODULE Redactor ------------------------------
(***************************************************************************)
(* The masking of a recorded stream: StreamRedactor                        *)
(* (crates/sealant-runtime-core/src/redact.rs) under a StreamRecorder      *)
(* (crates/sealant-telemetry/src/recorder.rs), fed a stream in reads of    *)
(* any size.                                                               *)
(*                                                                         *)
(* The bytes are those of a small alphabet and the patterns short: one     *)
(* token prefix, a minimum token length, a few literals.  Positions count  *)
(* the stream's bytes from 0; `pending' and `before' are the parts of the  *)
(* stream from `base' on and just before it.                               *)
(***************************************************************************)
EXTENDS Integers, Sequences, FiniteSets, SequencesExt

CONSTANTS TOKEN_PREFIXES,
          MIN_TOKEN_LEN,
          MIN_LITERAL_LEN,
          TokenBytes,     \* the bytes is_token_char accepts
          Alphabet,
          MaxStream,      \* the longest stream
          Secrets         \* a set of [daemon, own, end]: sets of literals, the stream's line end

VARIABLE red

LF == "n"
Mark == "*"               \* REDACTED, as one symbol no stream holds
LongestPrefix == CHOOSE n \in {Len(p) : p \in TOKEN_PREFIXES} : \A p \in TOKEN_PREFIXES : Len(p) <= n

----------------------------------------------------------------------------
(* The patterns.                                                           *)

\* Redactor::new drops the short ones, with_literals keeps all.
WithLiterals(daemon, own) == own \cup {l \in daemon : Len(l) >= MIN_LITERAL_LEN}

\* with_line_ends: each multi-line literal also with its line ends as the
\* stream writes them.
Rewritten(l, lineEnd) ==
    FoldLeft(LAMBDA out, b : IF b = LF THEN out \o lineEnd ELSE Append(out, b), <<>>, l)
WithLineEnds(literals, lineEnd) ==
    literals \cup {Rewritten(l, lineEnd) : l \in {x \in literals : Contains(x, LF)}}

Patterns(s) ==
    LET all == WithLiterals(s.daemon, s.own)
    IN IF s.end = <<LF>> THEN all ELSE WithLineEnds(all, s.end)

----------------------------------------------------------------------------
(* The two scans.                                                          *)

End == Len(red.stream)
At(s, p) == s[p + 1]
Rest(s, p) == SubSeq(s, p + 1, Len(s))
StartsWith(s, x) == Len(s) >= Len(x) /\ SubSeq(s, 1, Len(x)) = x

\* The bytes the literals that match at p cover.
Matched(s, p) ==
    UNION {p..(p + Len(l) - 1) : l \in {x \in red.literals : StartsWith(Rest(s, p), x)}}

\* A plausible bug: what matches already is not looked at again.
UndecidedUnlessMatched(s, p) ==
    /\ Matched(s, p) = {}
    /\ \E l \in red.literals : StartsWith(l, Rest(s, p))

\* More bytes could still make a literal of what follows p.
Undecided(s, p) ==
    \E l \in red.literals : ~StartsWith(Rest(s, p), l) /\ StartsWith(l, Rest(s, p))

\* The literal scan: it stops at the first undecided position, whose matches
\* it has covered, unless nothing will come.
LiteralStop(s, from, atEnd) ==
    LET open == {p \in from..(Len(s) - 1) : ~atEnd /\ Undecided(s, p)}
    IN IF open = {} THEN Len(s) ELSE CHOOSE p \in open : \A q \in open : p <= q
LiteralCover(s, from, stop) == UNION {Matched(s, p) : p \in from..stop \cap 0..(Len(s) - 1)}

\* The length of a prefix whose last byte is at p, looking back over what is
\* recorded as far as `before' reaches.
PrefixesAt(s, p, base) ==
    LET earliest == base - (IF base < LongestPrefix - 1 THEN base ELSE LongestPrefix - 1)
    IN {x \in TOKEN_PREFIXES : p + 1 >= earliest + Len(x)
                         /\ SubSeq(s, p + 2 - Len(x), p + 1) = x}

Searching == [kind |-> "searching", start |-> 0, body |-> 0]
Masking == [Searching EXCEPT !.kind = "masking"]
Candidate(start, body) == [kind |-> "candidate", start |-> start, body |-> body]

\* One byte of the token scan: the state, and what it covers.
TokenStep(s, p, token, base) ==
    IF At(s, p) \notin TokenBytes THEN [token |-> Searching, cover |-> {}]
    ELSE CASE token.kind = "searching" ->
                 [token |-> IF PrefixesAt(s, p, base) = {} THEN Searching
                            ELSE LET x == CHOOSE x \in PrefixesAt(s, p, base) : TRUE
                                 IN Candidate(p + 1 - Len(x), p + 1),
                  cover |-> {}]
           [] token.kind = "candidate" ->
                 IF p + 1 - token.start >= MIN_TOKEN_LEN
                 THEN [token |-> Masking, cover |-> token.body..p]
                 ELSE [token |-> token, cover |-> {}]
           [] token.kind = "masking" -> [token |-> Masking, cover |-> {p}]

TokenScan(s, from, token, base) ==
    LET scan[n \in 0..(Len(s) - from)] ==
            IF n = 0 THEN [token |-> token, cover |-> {}]
            ELSE LET step == TokenStep(s, from + n - 1, scan[n - 1].token, base)
                 IN [token |-> step.token, cover |-> scan[n - 1].cover \cup step.cover]
    IN scan[Len(s) - from]

\* scan, over the stream with what was read appended.
Scanned(s, covered, atEnd) ==
    LET stop == LiteralStop(s, red.literalAt, atEnd)
        token == TokenScan(s, red.tokenAt, red.token, red.base)
    IN [red EXCEPT !.stream = s, !.literalAt = stop, !.tokenAt = Len(s), !.token = token.token,
                   !.covered = covered \cup LiteralCover(s, red.literalAt, stop) \cup token.cover]

\* emit_until: the bytes before `upto', one marker per covered span; the
\* recorder counts the markers and moves its offset by the raw bytes.
Spelled(s, covered, from, upto, inMask) ==
    FoldLeft(LAMBDA out, p : IF p \notin covered
                             THEN [bytes |-> Append(out.bytes, At(s, p)), mask |-> FALSE,
                                   marks |-> out.marks]
                             ELSE IF out.mask THEN out
                             ELSE [bytes |-> Append(out.bytes, Mark), mask |-> TRUE,
                                   marks |-> out.marks + 1],
             [bytes |-> <<>>, mask |-> inMask, marks |-> 0],
             [i \in 1..(upto - from) |-> from + i - 1])

Emitted(r, upto) ==
    LET out == Spelled(r.stream, r.covered, r.base, upto, r.inMask)
    IN [r EXCEPT !.base = upto, !.inMask = out.mask, !.recorded = @ \o out.bytes,
                 !.redacted = @ + out.marks, !.offset = @ + (upto - r.base)]

----------------------------------------------------------------------------
RedactInit ==
    \E s \in Secrets :
        red = [stream |-> <<>>, literals |-> Patterns(s), covered |-> {}, base |-> 0,
               literalAt |-> 0, tokenAt |-> 0, token |-> Searching, inMask |-> FALSE,
               recorded |-> <<>>, redacted |-> 0, offset |-> 0, ended |-> "no"]

Least(a, b) == IF a < b THEN a ELSE b

\* StreamRecorder::read, of one read of any size.
Push(raw) ==
    /\ red.ended = "no" /\ End + Len(raw) <= MaxStream
    /\ LET r == Scanned(red.stream \o raw, red.covered, FALSE)
           hold == IF r.token.kind = "candidate" THEN r.token.body ELSE r.tokenAt
       IN red' = Emitted(r, Least(r.literalAt, hold))

\* A plausible bug: a cut ends a stream as its end does, but for a token.
CutFromToken ==
    {p \in red.base..(End - 1) : red.token.kind = "candidate" /\ p >= red.token.body}

\* What a cutoff masks: from where a literal or a token is still open.
CutFrom ==
    LET literal == IF red.literalAt < End THEN {red.literalAt} ELSE {}
        token == IF red.token.kind = "candidate" THEN {red.token.body} ELSE {}
    IN {p \in red.base..(End - 1) : \E q \in literal \cup token : p >= q}

\* StreamRecorder::end; the masking state starts anew, which ends this
\* stream.
Finish(reason) ==
    /\ red.ended = "no"
    /\ LET covered == red.covered \cup (IF reason = "cutoff" THEN CutFrom ELSE {})
           r == Scanned(red.stream, covered, TRUE)
       IN red' = [Emitted(r, End) EXCEPT !.ended = reason]

RedactNext ==
    \/ \E n \in 1..2 : \E raw \in [1..n -> Alphabet] : Push(raw)
    \/ \E reason \in {"eof", "cutoff"} : Finish(reason)

RedactSpec == RedactInit /\ [][RedactNext]_red

----------------------------------------------------------------------------
(* What a whole stream is recorded as.                                     *)

\* The run of token bytes around p.
InRun(s, a, b) == \A p \in a..b : At(s, p) \in TokenBytes

\* A byte is in a token when the first prefix of its run is complete before
\* it and the token, from its prefix to the end of the run, is long enough.
IsTokenByte(s, p) ==
    \E x \in TOKEN_PREFIXES, e \in 0..(p - 1) :
        LET start == e + 1 - Len(x)
        IN /\ start >= 0 /\ SubSeq(s, start + 1, e + 1) = x
           /\ InRun(s, start, p)
           /\ \E z \in p..(Len(s) - 1) : InRun(s, start, z) /\ z + 1 - start >= MIN_TOKEN_LEN
           \* the first such prefix of the run
           /\ \A y \in TOKEN_PREFIXES, f \in 0..(e - 1) :
                 LET other == f + 1 - Len(y)
                 IN other >= 0 /\ SubSeq(s, other + 1, f + 1) = y => ~InRun(s, other, e)

InLiteral(s, p) ==
    \E l \in red.literals, q \in 0..p : p < q + Len(l) /\ StartsWith(Rest(s, q), l)

Covered(s) == {p \in 0..(Len(s) - 1) : InLiteral(s, p) \/ IsTokenByte(s, p)}
Whole(s, n) == Spelled(s, Covered(s), 0, n, FALSE).bytes

----------------------------------------------------------------------------
(* Properties.                                                             *)

\* "which records the same bytes however the stream was split into reads":
\* what is recorded at any moment is the whole stream so far, masked at once,
\* up to where it is recorded; at the end that is all of it, with one count
\* per marker.
RecordsTheSame ==
    red.ended # "cutoff" =>
        /\ red.recorded = Whole(red.stream, red.base)
        /\ red.ended = "eof" => red.base = End
        /\ red.offset = red.base
        /\ red.redacted = Cardinality({i \in DOMAIN red.recorded : red.recorded[i] = Mark})

\* Nothing recorded spells a secret, and a stream that is cut off records no
\* beginning of one it ended in.
NoSecretRecorded ==
    /\ \A l \in red.literals : ~\E i \in DOMAIN red.recorded :
                                   StartsWith(Rest(red.recorded, i - 1), l)
    /\ red.ended = "cutoff" =>
          \A l \in red.literals, n \in 1..Len(red.stream) :
              n <= Len(l) /\ Rest(red.stream, End - n) = SubSeq(l, 1, n) =>
                  (End - n)..(End - 1) \subseteq red.covered

\* How the output was cut into reads changes nothing in the record, and no secret is in it.
RedactsTheSame == RecordsTheSame /\ NoSecretRecorded
============================================================================
