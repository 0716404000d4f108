----------------------------- MODULE McpServe -----------------------------
(***************************************************************************)
(* The MCP server on its standard streams (mcp/index.ts): bytes arrive in  *)
(* chunks that fall anywhere, readBoundedLines cuts them into lines of at  *)
(* most MaxLine bytes, serveMcpStdio answers line after line and waits     *)
(* before the next until writeWithBackpressure is through.                 *)
(*                                                                         *)
(* A line is told by its bytes: one byte is a JSON-RPC message of that     *)
(* kind, two and more are no JSON (or not UTF-8, or hold a NUL: the same   *)
(* answer).                                                                *)
(***************************************************************************)
EXTENDS Naturals, Sequences, SequencesExt

CONSTANTS
    MaxLine,    \* MAX_MCP_LINE_BYTES
    MaxInput    \* bound: bytes the client sends

Newline == "newline"
Message == {"initialize", "initialized", "call", "notice"}

VARIABLES
    stdin,      \* what the client will still send, cut at the end by its close
    chunk,      \* the rest of the chunk in hand
    held,       \* bytes of the line so far
    discarding, \* the rest of a line that was too long is skipped
    strict,     \* options.strictLifecycle, FALSE in the command mcp-server
    initialized,
    writing,    \* flags of the write in progress
    open,       \* the output
    serving,    \* "read", "write", "end"
    replies,    \* what was written
    input       \* history: all the client sends

vars == <<stdin, chunk, held, discarding, strict, initialized, writing, open, serving, replies, input>>

NoWrite == [written |-> FALSE, needsDrain |-> FALSE, drained |-> FALSE]

Init ==
    /\ input \in UNION {[1..n -> Message \cup {Newline}]: n \in 0..MaxInput}
    /\ stdin = input /\ chunk = <<>>
    /\ held = <<>> /\ discarding = FALSE
    /\ strict \in BOOLEAN /\ initialized = FALSE
    /\ writing = NoWrite
    /\ open = TRUE /\ serving = "read" /\ replies = <<>>

-----------------------------------------------------------------------------
(* createMcpRequestHandler: what is answered, if anything, and whether the *)
(* session is initialized after it.                                        *)

Answer(message, ready) ==
    CASE message \in {"notice", "initialized"} -> "none"
      [] message = "initialize" -> "result"
      [] message = "call" -> IF strict /\ ~ ready THEN "E_MCP_NOT_INITIALIZED" ELSE "result"

Ready(message, ready) ==
    ready \/ message = "initialize" \/ (message = "initialized" /\ ~ strict)

\* serveMcpStdio for one item of readBoundedLines.
Reply(line, long, ready) ==
    CASE long -> "E_MCP_LINE_TOO_LARGE"
      [] ~ long /\ line = <<>> -> "none"
      [] ~ long /\ Len(line) = 1 -> Answer(line[1], ready)
      [] OTHER -> "E_MCP_PARSE_ERROR"

ReadyAfter(line, long, ready) == IF ~ long /\ Len(line) = 1 THEN Ready(line[1], ready) ELSE ready

-----------------------------------------------------------------------------
(* readBoundedLines.  The generator goes on only when the answer to the    *)
(* item it yielded is written.  An output that is closed ends the server   *)
(* at the next answer.                                                     *)

Serve(line, long) ==
    LET reply == Reply(line, long, initialized) IN
    /\ initialized' = ReadyAfter(line, long, initialized)
    /\ IF reply = "none" THEN UNCHANGED <<serving, replies, writing>>
       ELSE IF ~ open THEN serving' = "end" /\ UNCHANGED <<replies, writing>>
       ELSE /\ replies' = Append(replies, reply)
            /\ serving' = "write"
            /\ writing' \in [written: {FALSE}, needsDrain: BOOLEAN, drained: {FALSE}]

Quiet == UNCHANGED <<initialized, serving, replies, writing>>

Chunk ==
    /\ serving = "read" /\ chunk = <<>>
    /\ \E n \in 1..Len(stdin): chunk' = SubSeq(stdin, 1, n) /\ stdin' = SubSeq(stdin, n + 1, Len(stdin))
    /\ UNCHANGED <<held, discarding, open, strict, input>> /\ Quiet

\* Mutant: a line that ends in this chunk is measured without what is held.
OverlongSegment(bytes, segment) == Len(segment) > MaxLine

Overlong(bytes, segment) == Len(bytes) + Len(segment) > MaxLine

LineEnd == SelectInSeq(chunk, LAMBDA b: b = Newline)

(* The segment up to the newline, if the chunk has one.                    *)
Line ==
    LET segment == SubSeq(chunk, 1, LineEnd - 1) IN
    /\ serving = "read" /\ LineEnd # 0
    /\ chunk' = SubSeq(chunk, LineEnd + 1, Len(chunk))
    /\ held' = <<>> /\ discarding' = FALSE
    /\ IF discarding THEN Quiet ELSE Serve(held \o segment, Overlong(held, segment))
    /\ UNCHANGED <<stdin, open, strict, input>>

(* The rest of the chunk has no newline.                                   *)
Part ==
    /\ serving = "read" /\ chunk # <<>> /\ LineEnd = 0
    /\ chunk' = <<>>
    /\ IF discarding THEN UNCHANGED <<held, discarding>> /\ Quiet
       ELSE IF Overlong(held, chunk)
            THEN held' = <<>> /\ discarding' = TRUE /\ Serve(<<>>, TRUE)
            ELSE held' = held \o chunk /\ UNCHANGED discarding /\ Quiet
    /\ UNCHANGED <<stdin, open, strict, input>>

(* The client closed its end: what is held is the last line.               *)
EndOfInput ==
    /\ serving = "read" /\ chunk = <<>> /\ stdin = <<>>
    /\ held' = <<>>
    /\ IF held # <<>> /\ ~ discarding THEN Serve(held, FALSE)
       ELSE serving' = "end" /\ UNCHANGED <<initialized, replies, writing>>
    /\ UNCHANGED <<stdin, chunk, discarding, open, strict, input>>

-----------------------------------------------------------------------------
(* writeWithBackpressure: the callback of the write and, when the buffer   *)
(* was full, "drain", in either order; or the output closes.               *)

Settles(w) == w.written /\ (w.needsDrain => w.drained)

Event(w) ==
    /\ serving = "write"
    /\ writing' = IF Settles(w) THEN NoWrite ELSE w
    /\ serving' = IF Settles(w) THEN "read" ELSE "write"
    /\ UNCHANGED <<stdin, chunk, held, discarding, initialized, open, replies, strict, input>>

Written == ~ writing.written /\ Event([writing EXCEPT !.written = TRUE])

Drain == writing.needsDrain /\ ~ writing.drained /\ Event([writing EXCEPT !.drained = TRUE])

Close ==
    /\ open /\ serving # "end"
    /\ open' = FALSE
    /\ serving' = IF serving = "write" THEN "end" ELSE serving
    /\ UNCHANGED <<stdin, chunk, held, discarding, initialized, writing, replies, strict, input>>

Next == Chunk \/ Line \/ Part \/ EndOfInput \/ Written \/ Drain \/ Close

Spec == Init /\ [][Next]_vars
-----------------------------------------------------------------------------
(* What the client must be answered, from all it sends and however it is   *)
(* cut into chunks: a line ends at a newline or with the input, and begins *)
(* after the newline before it.                                            *)

LineEnds == {i \in DOMAIN input: input[i] = Newline} \cup {Len(input) + 1}

LineAt(e) ==
    LET b == CHOOSE b \in 0..(e - 1):
                /\ b = 0 \/ input[b] = Newline
                /\ \A i \in (b + 1)..(e - 1): input[i] # Newline
    IN SubSeq(input, b + 1, e - 1)

ReplyAt(e) ==
    Reply(LineAt(e), Len(LineAt(e)) > MaxLine, \E d \in LineEnds: d < e /\ LineAt(d) = <<"initialize">>)

Answered == {e \in LineEnds: ReplyAt(e) # "none"}

TypeOK ==
    /\ serving \in {"read", "write", "end"}
    /\ discarding => held = <<>>
    /\ writing \in [written: BOOLEAN, needsDrain: BOOLEAN, drained: BOOLEAN]

(* The answers are those of the lines the client sent, one for one and in  *)
(* their order, wherever the chunks were cut; and when the server ends     *)
(* with its output open, none is missing.  A client that never ends a line *)
(* makes the server hold no more than MaxLine bytes.                       *)
RepliesInOrder ==
    /\ Len(held) <= MaxLine
    /\ \A k \in DOMAIN replies: \E e \in Answered:
        Cardinality({d \in Answered: d <= e}) = k /\ replies[k] = ReplyAt(e)
    /\ serving = "end" /\ open => Len(replies) = Cardinality(Answered)
=============================================================================
