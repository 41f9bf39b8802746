-------------------------- MODULE StreamRedaction --------------------------
(***************************************************************************)
(* The Go gateway's redaction of a streamed answer: the reader that wraps  *)
(* the body of a backend's response (redacting_body.go) and the redactor   *)
(* with its rolling carry (redactor.go).                                   *)
(*                                                                         *)
(* A text is a sequence of symbols: "k" begins a sensitive value, "x" goes *)
(* on with it, "n" is a newline, "p" any other text. One pattern stands    *)
(* for the list of the code: a word that is a "k" and MinBody to MaxBody   *)
(* "x"s. MinBody = MaxBody is a pattern of fixed length (an AWS key, a     *)
(* social security number); a larger MaxBody one of open length (a JWT, a  *)
(* bearer token, an API key). What the redactor holds and what the client  *)
(* gets are sequences of positions of the text, so that a position never   *)
(* loses its identity; 0 stands for a replacement.                         *)
(***************************************************************************)
EXTENDS Integers, Sequences, SequencesExt

CONSTANTS
    Texts,     \* the answers the backend may stream
    MinBody,   \* how many "x" a sensitive value has at least,
    MaxBody,   \* and at most
    CarryBytes,
    Buffer     \* the most the source gives in one read

SizesAssumption == /\ MinBody \in Nat \ {0}
                   /\ MaxBody \in Nat /\ MaxBody >= MinBody
                   /\ CarryBytes \in Nat /\ Buffer \in Nat \ {0}
TextsAssumption == \A t \in Texts : t \in Seq({"k", "x", "n", "p"})

VARIABLES
    text,      \* what the backend streams
    taken,     \* how much of it the source has given
    source,    \* "open", "broken" (its reads fail) or "closed"
    carry,     \* StreamingRedactor.carry
    pending,   \* redactingReadCloser.pending
    done,      \* redactingReadCloser.done
    ending,    \* how it was done: "none", "eof", "failed" or "closed"
    out        \* what the client has read

vars == <<text, taken, source, carry, pending, done, ending, out>>

Replaced == 0
Placeholder == -1

Symbol(v, i) == IF v[i] > 0 THEN text[v[i]] ELSE "r"
Word(v, i) == i \in 1..Len(v) /\ Symbol(v, i) \in {"k", "x"}

(***************************************************************************)
(* The matches of the pattern in v, as pairs of their first and last       *)
(* place. A match is bounded by what is not a word, or by the ends of v:   *)
(* of what has been read so far.                                           *)
(***************************************************************************)
Matches(v) ==
    {m \in (1..Len(v)) \X (1..Len(v)) :
        /\ m[2] - m[1] \in MinBody..MaxBody
        /\ Symbol(v, m[1]) = "k"
        /\ \A i \in m[1] + 1..m[2] : Symbol(v, i) = "x"
        /\ ~Word(v, m[1] - 1)
        /\ ~Word(v, m[2] + 1)}

Redact(v) ==
    FlattenSeq([i \in 1..Len(v) |->
        CASE \E m \in Matches(v) : m[1] = i -> <<Replaced>>
          [] \E m \in Matches(v) : i \in m[1] + 1..m[2] -> <<>>
          [] OTHER -> <<v[i]>>])

(***************************************************************************)
(* How much of v may leave: up to its last blank line when it fits in the  *)
(* carry, else at most all but the carry, cut back to a blank line or, for *)
(* want of one, to the end of a line.                                      *)
(***************************************************************************)
NewlineAt(v, i) == Symbol(v, i) = "n"
LastOr(S, default) == IF S = {} THEN default ELSE CHOOSE i \in S : \A j \in S : j <= i
BlankLines(v, n) == {i \in 2..n : NewlineAt(v, i) /\ NewlineAt(v, i - 1)}
LineEnds(v, n) == {i \in 1..n : NewlineAt(v, i)}

\* A mutant: the carry is counted from the wrong end.
FlushCarryFirst(v) == IF Len(v) <= CarryBytes THEN 0 ELSE CarryBytes

SafeFlushLength(v) ==
    IF Len(v) <= CarryBytes
    THEN LastOr(BlankLines(v, Len(v)), 0)
    ELSE LET n == Len(v) - CarryBytes
         IN LastOr(BlankLines(v, n), LastOr(LineEnds(v, n), n))

(***************************************************************************)
(* Process(chunk, final): what is held and the new chunk are redacted      *)
(* together; the held part of the result was redacted before.              *)
(***************************************************************************)
Chunk(n) == [i \in 1..n |-> taken + i]
Process(chunk, final) ==
    LET redacted == Redact(carry \o chunk)
        n == IF final THEN Len(redacted) ELSE SafeFlushLength(redacted)
    IN [out |-> SubSeq(redacted, 1, n),
        carry |-> SubSeq(redacted, n + 1, Len(redacted))]

-----------------------------------------------------------------------------
Init == /\ text \in Texts
        /\ taken = 0
        /\ source = "open"
        /\ carry = <<>> /\ pending = <<>> /\ out = <<>>
        /\ done = FALSE
        /\ ending = "none"

\* Read with something pending: the client's buffer takes as much as it holds.
DrainPending ==
    /\ pending # <<>>
    /\ ending # "closed"
    /\ \E n \in 1..Len(pending) :
          /\ out' = out \o SubSeq(pending, 1, n)
          /\ pending' = SubSeq(pending, n + 1, Len(pending))
    /\ UNCHANGED <<text, taken, source, carry, done, ending>>

\* A turn of Read's loop in which the source gives a chunk.
ReadChunk ==
    /\ pending = <<>> /\ ~done
    /\ source = "open"
    /\ \E n \in 1..Buffer :
          /\ taken + n <= Len(text)
          /\ LET p == Process(Chunk(n), FALSE)
             IN pending' = p.out /\ carry' = p.carry
          /\ taken' = taken + n
    /\ UNCHANGED <<text, source, done, ending, out>>

\* A mutant: the end of the stream forgets what is held.
ReadEndDropsCarry ==
    /\ pending = <<>> /\ ~done
    /\ source = "open" /\ taken = Len(text)
    /\ carry' = <<>>
    /\ done' = TRUE /\ ending' = "eof"
    /\ UNCHANGED <<text, taken, source, pending, out>>

\* A turn of Read's loop that meets the end of the source.
ReadEnd ==
    /\ pending = <<>> /\ ~done
    /\ source = "open" /\ taken = Len(text)
    /\ LET p == Process(<<>>, TRUE)
       IN pending' = p.out /\ carry' = p.carry
    /\ done' = TRUE /\ ending' = "eof"
    /\ UNCHANGED <<text, taken, source, out>>

\* A turn of Read's loop that meets an error: failClosed.
ReadError ==
    /\ pending = <<>> /\ ~done
    /\ source = "broken"
    /\ pending' = <<Placeholder>>
    /\ source' = "closed"
    /\ done' = TRUE /\ ending' = "failed"
    /\ UNCHANGED <<text, taken, carry, out>>

\* The backend or the connection to it fails. External.
SourceBreaks ==
    /\ source = "open" /\ ~done
    /\ source' = "broken"
    /\ UNCHANGED <<text, taken, carry, pending, done, ending, out>>

\* The proxy is done with the body, at its end or before.
Close ==
    /\ source # "closed" \/ ~done
    /\ done' = TRUE
    /\ ending' = IF done THEN ending ELSE "closed"
    /\ source' = "closed"
    /\ UNCHANGED <<text, taken, carry, pending, out>>

Next == DrainPending \/ ReadChunk \/ ReadEnd \/ ReadError \/ SourceBreaks \/ Close

Spec == Init /\ [][Next]_vars

-----------------------------------------------------------------------------
(***************************************************************************)
(* No part of a sensitive value of the answer reaches the client, however  *)
(* the answer is cut into chunks (redactor.go 145-174, 291-307): the       *)
(* values are those a redaction of the whole text would find.              *)
(***************************************************************************)
Sensitive ==
    LET whole == [i \in 1..Len(text) |-> i]
    IN UNION {m[1]..m[2] : m \in Matches(whole)}
NothingLeaks == \A i \in DOMAIN out : out[i] \notin Sensitive

(***************************************************************************)
(* What is not of a sensitive value is neither lost nor reordered by the   *)
(* carry: a stream read to its end has every plain symbol, and what has    *)
(* been read is in the order of the text (redacting_body.go 26-69).        *)
(***************************************************************************)
Plain == {i \in DOMAIN text : text[i] \in {"p", "n"}}
TextIsKept ==
    /\ \A i, j \in DOMAIN out : i < j /\ out[i] > 0 /\ out[j] > 0 => out[i] < out[j]
    /\ ending = "eof" /\ pending = <<>> => \A i \in Plain : \E j \in DOMAIN out : out[j] = i
=============================================================================
