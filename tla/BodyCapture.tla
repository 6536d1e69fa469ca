---------------------------- MODULE BodyCapture ----------------------------
(***************************************************************************)
(* What happens to the body of one request and of its response on their    *)
(* way through the middleware: SafeReadRequestBody and the writers that    *)
(* keep responses (metering/request_body_handler.go, token_writer.go), as  *)
(* ServeHTTP and serveX402 use them.  The middleware makes the basic       *)
(* writer; the streaming one has its place and, as yet, no caller.         *)
(*                                                                         *)
(* A text is the number of its bytes, and a part of one the positions at   *)
(* which it begins and ends.                                               *)
(***************************************************************************)
EXTENDS Integers

CONSTANTS
  MaxBody,    \* bh.maxBodySize
  MaxBuffer,  \* bh.maxBufferSize
  MaxCapture, \* maxBufferSize of the streaming writer
  Chunk,      \* the most bytes one Read or Write has
  MaxText     \* bound on the sizes of requests and responses

\* NewBodyHandler replaces a size that is not positive and caps the buffer.
ASSUME SizesAssumption ==
  /\ MaxBody \in Nat \ {0} /\ MaxBuffer \in 1..MaxBody
  /\ MaxCapture \in Nat \ {0} /\ Chunk \in Nat \ {0} /\ MaxText \in Nat

VARIABLES
  request, \* what the client sends
  pc,
  body,    \* what r.Body still has to give: from, to, and whether compressed
  length,  \* r.ContentLength is the client's ("kept") or the new body's ("set")
  got,     \* bytes in SafeReadRequestBody's buffer
  cut,     \* info.IsTruncated, the opposite of info.IsComplete
  failed,  \* info.Error is set
  writer,  \* the response writer: "basic" or "streaming"
  promised,  \* the response's Content-Length, 0 if it has none
  written,   \* bytes the backend has given to the writer
  delivered, \* bytes the client has taken
  captured   \* bytes in the writer's buffer

vars == <<request, pc, body, length, got, cut, failed,
          writer, promised, written, delivered, captured>>

info == <<got, cut, failed>>
response == <<promised, written, delivered, captured>>

Sizes == 0..MaxText

\* coding: the body is as it is ("plain", which an unknown Content-Encoding counts
\* as), compressed ("gzip"), or said to be and not ("fake"); declared: it has a
\* Content-Length; json: where the JSON object ends that it is, if the middleware has
\* something to add to it (white space may follow), and 0 if it is none.
Requests ==
  {r \in [agent : BOOLEAN, coding : {"plain", "gzip", "fake"}, declared : BOOLEAN,
          json : Sizes, size : Sizes] : r.json <= r.size}

Bodies == [from : Sizes, to : Sizes, packed : BOOLEAN]
Whole == [from |-> 0, to |-> request.size, packed |-> FALSE]

PCs == {"raw", "open", "read", "inject", "forward", "pass", "respond", "failed", "done"}

Init ==
  /\ request \in Requests
  /\ pc = IF request.agent THEN "raw" ELSE "open"
  /\ body = [Whole EXCEPT !.packed = request.coding = "gzip"]
  /\ length = "kept"
  /\ got = 0 /\ cut = FALSE /\ failed = FALSE
  /\ writer \in {"basic", "streaming"}
  /\ promised \in Sizes
  /\ written = 0 /\ delivered = 0 /\ captured = 0

Goto(from, to) == pc = from /\ pc' = to

----------------------------------------------------------------------------
\* The request.

\* serveX402 reads the body without a limit and puts it back; one that names no
\* model is passed on.  What cannot be read, verified or paid for is answered.
ReadRaw ==
  /\ pc = "raw"
  /\ pc' \in {"open", "pass", "done"}
  /\ UNCHANGED <<request, body, length, info, writer, response>>

\* getDecompressedReader.
Open ==
  /\ request.coding # "fake"
  /\ Goto("open", "read")
  /\ UNCHANGED <<request, body, length, info, writer, response>>

\* gzip.NewReader fails and has taken the head of the body, which nobody puts back.
OpenFails ==
  /\ request.coding = "fake"
  /\ Goto("open", "inject")
  /\ \E n \in 0..request.size :
       /\ (n = 0) = (request.size = 0) /\ n <= Chunk
       /\ body' = [body EXCEPT !.from = n]
  /\ failed' = TRUE
  /\ UNCHANGED <<request, length, got, cut, writer, response>>

\* Mutant: the reader ends at the size limit and not one byte past it.
Limit_AtBody == MaxBody

\* What io.LimitReader lets through.
Limit == MaxBody + 1

\* The loop is left and what was read becomes the body.
EndRead(n) ==
  /\ Goto("read", "inject")
  /\ body' = [from |-> 0, to |-> n, packed |-> FALSE]

\* The buffer's limit is never above the body's, so the test of the latter that
\* follows in the loop finds nothing more.
Read(n) ==
  /\ pc = "read"
  /\ got + n <= request.size /\ got + n <= Limit
  /\ got' = got + n
  /\ IF got + n > MaxBuffer
     THEN EndRead(got + n) /\ cut' = TRUE
     ELSE UNCHANGED <<pc, body, cut>>
  /\ UNCHANGED <<request, length, failed, writer, response>>

ReadEOF ==
  /\ got = request.size \/ got = Limit
  /\ EndRead(got)
  /\ UNCHANGED <<request, length, info, writer, response>>

\* The client is gone, or the compressed text is damaged.
ReadFails ==
  /\ ~request.agent \/ request.coding = "gzip"
  /\ EndRead(got)
  /\ failed' = TRUE
  /\ UNCHANGED <<request, length, got, cut, writer, response>>

\* Mutant: the option is put into a part of a body, too.
Parses_Part == request.json > 0 /\ got > 0

\* The text read is a JSON object only if it has all of it, be it cut in the white space
\* after it.
Parses == request.json \in 1..got

\* injectStreamUsageOption, and for users injectRequestDefaults; the new body has a
\* length of its own.
Inject ==
  /\ Goto("inject", "forward")
  /\ length' = IF Parses THEN "set" ELSE length
  /\ UNCHANGED <<request, body, info, writer, response>>

\* net/http sends exactly as many bytes as r.ContentLength says, or fails.  (A
\* compressed text may be just as long as what is sent in its place.)
LengthFits ==
  ~request.declared \/ length = "set" \/ body.to - body.from = request.size
LengthUnsure == request.coding = "gzip"

Forward ==
  /\ \/ Goto("pass", "respond")
     \/ (LengthFits \/ LengthUnsure) /\ Goto("forward", "respond")
  /\ UNCHANGED <<request, body, length, info, writer, response>>

ForwardFails ==
  /\ ~LengthFits \/ (LengthUnsure /\ request.declared /\ length = "kept")
  /\ Goto("forward", "failed")
  /\ UNCHANGED <<request, body, length, info, writer, response>>

----------------------------------------------------------------------------
\* The response.

Smaller(a, b) == IF a < b THEN a ELSE b

\* Mutant: the buffer takes the whole of a write that begins within its limit.
Buffered_Overruns(b, n) ==
  IF writer = "basic" THEN captured + b
  ELSE IF captured < MaxCapture THEN captured + n ELSE captured

\* The basic writer keeps what it is given; the streaming one what the client has
\* taken, up to its limit.
Buffered(b, n) ==
  IF writer = "basic" THEN captured + b ELSE Smaller(captured + n, MaxCapture)

\* The client takes n of b bytes, and net/http none beyond the Content-Length.
Write(b, n) ==
  /\ pc = "respond"
  /\ n <= b /\ written + b <= MaxText
  /\ promised > 0 => delivered + n <= promised
  /\ written' = written + b
  /\ delivered' = delivered + n
  /\ captured' = Buffered(b, n)
  /\ UNCHANGED <<request, pc, body, length, info, writer, promised>>

\* The next handler returns and the response is counted.
Return ==
  /\ Goto("respond", "done")
  /\ UNCHANGED <<request, body, length, info, writer, response>>

\* Mutant: a full buffer counts as complete.
IsComplete_WhenFull ==
  IF promised > 0 THEN captured >= promised ELSE captured <= MaxCapture

\* IsComplete of the streaming writer.
IsComplete == IF promised > 0 THEN captured >= promised ELSE captured < MaxCapture

Next ==
  \/ ReadRaw \/ Open \/ OpenFails
  \/ \E n \in 1..Chunk : Read(n)
  \/ ReadEOF \/ ReadFails
  \/ Inject \/ Forward \/ ForwardFails
  \/ \E b \in 1..Chunk, n \in 0..Chunk : Write(b, n)
  \/ Return

Spec == Init /\ [][Next]_vars

----------------------------------------------------------------------------
\* Properties.

\* Every variable has its type, and no buffer grows past its limit: that of a
\* request by the last byte that shows it is too long, and that of the streaming
\* writer not at all.
TypeOK ==
  /\ request \in Requests
  /\ pc \in PCs
  /\ body \in Bodies
  /\ length \in {"kept", "set"}
  /\ got \in 0..(MaxBody + 1)
  /\ cut \in BOOLEAN /\ failed \in BOOLEAN
  /\ writer \in {"basic", "streaming"}
  /\ promised \in Sizes /\ written \in Sizes /\ delivered \in Sizes
  /\ captured \in Nat
  /\ writer = "streaming" => captured <= MaxCapture

\* A body that was read without error and is not marked as truncated was read to
\* its end, wherever chunks and limits fall (the one byte that LimitReader lets
\* through beyond maxBodySize is what this rests on); one that is marked was longer
\* than the buffer allows.
UnmarkedIsWhole ==
  pc \in {"inject", "forward"} =>
    /\ ~cut /\ ~failed => got = request.size
    /\ cut => request.size > MaxBuffer

\* SafeReadRequestBody replaces the body by what it has read, which may be a part.
\* A backend does not take a part of an uncompressed body for all of it if the client
\* has declared a length: nothing changes the length but a rewrite of all of it, or of
\* all but white space.
DeclaredIsWhole ==
  pc = "respond" /\ request.declared /\ request.coding # "gzip" =>
    body = Whole \/ (length = "set" /\ body.from = 0 /\ request.json \in 1..body.to)

\* A response that the streaming writer calls complete was captured as the client
\* has it, over any number of short or failing writes; the basic writer has
\* captured at least that.
CompleteIsWhole ==
  /\ writer = "streaming" /\ IsComplete => captured = delivered
  /\ writer = "basic" => captured >= delivered
=============================================================================
