------------------------- MODULE BodyCapture_proof -------------------------
\* Theorems about BodyCapture and their proofs.
EXTENDS BodyCapture, TLAPS

USE SizesAssumption

\* No more is read than there is, nor taken than is given.
Within == got <= request.size /\ delivered <= written

\* Every variable keeps its type, whatever the step.
LEMMA TypeStep ==
  ASSUME TypeOK, Within, [Next]_vars
  PROVE  TypeOK' /\ Within'
<1> USE DEF TypeOK, Within, Goto
<1>0. request.size \in Sizes /\ request.coding \in {"plain", "gzip", "fake"}
  BY DEF Requests
<1>1. CASE UNCHANGED vars
  BY <1>1 DEF vars
<1>2. CASE ReadRaw
  BY <1>2 DEF ReadRaw, PCs, info, response
<1>3. CASE Open \/ Inject \/ Forward \/ ForwardFails
  BY <1>3 DEF Open, Inject, Forward, ForwardFails, PCs, info, response
<1>4. CASE OpenFails
  <2>1. PICK n \in 0..request.size : body' = [body EXCEPT !.from = n]
    BY <1>4 DEF OpenFails
  <2>2. body' \in Bodies
    BY <1>0, <2>1 DEF Bodies, Sizes
  <2> QED
    BY <1>4, <2>2 DEF OpenFails, PCs, response
<1>5. ASSUME NEW n \in 0..(MaxBody + 1), EndRead(n), n <= request.size
      PROVE  body' \in Bodies /\ pc' \in PCs
  BY <1>0, <1>5 DEF EndRead, Bodies, Sizes, PCs
<1>6. ASSUME NEW n \in 1..Chunk, Read(n) PROVE TypeOK' /\ Within'
  <2>1. got + n \in 0..(MaxBody + 1) /\ got + n <= request.size
    BY <1>6 DEF Read, Limit
  <2>2. CASE got + n > MaxBuffer
    BY <1>5, <1>6, <2>1, <2>2 DEF Read, response
  <2>3. CASE ~(got + n > MaxBuffer)
    BY <1>6, <2>1, <2>3 DEF Read, response
  <2> QED
    BY <2>2, <2>3
<1>7. CASE ReadEOF
  BY <1>5, <1>7 DEF ReadEOF, info, response
<1>8. CASE ReadFails
  BY <1>5, <1>8 DEF ReadFails, response
<1>9. ASSUME NEW b \in 1..Chunk, NEW n \in 0..Chunk, Write(b, n) PROVE TypeOK' /\ Within'
  <2>1. /\ written + b \in Sizes
        /\ captured' \in Nat /\ (writer = "streaming" => captured' <= MaxCapture)
    BY <1>9 DEF Write, Buffered, Smaller, Sizes
  <2>2. delivered' \in Sizes /\ delivered' <= written'
    BY <1>9 DEF Write, Sizes
  <2> QED
    BY <1>9, <2>1, <2>2 DEF Write, info
<1>10. CASE Return
  BY <1>10 DEF Return, PCs, info, response
<1> QED
  BY <1>1, <1>2, <1>3, <1>4, <1>6, <1>7, <1>8, <1>9, <1>10 DEF Next

LEMMA TypeInit == Init => TypeOK /\ Within
<1> SUFFICES ASSUME Init PROVE TypeOK /\ Within
  OBVIOUS
<1>1. request \in Requests /\ request.size \in Sizes
  BY DEF Init, Requests
<1>2. body \in Bodies
  <2> DEFINE p == request.coding = "gzip"
  <2>1. p \in BOOLEAN
    OBVIOUS
  <2> HIDE DEF p
  <2>2. [from |-> 0, to |-> request.size, packed |-> p] \in Bodies
    BY <1>1, <2>1 DEF Bodies, Sizes
  <2>3. body = [from |-> 0, to |-> request.size, packed |-> p]
    BY DEF Init, Whole, p
  <2> QED
    BY <2>2, <2>3
<1>3. pc \in PCs
  BY DEF Init, PCs
<1>4. /\ got = 0 /\ cut = FALSE /\ failed = FALSE /\ length = "kept"
      /\ writer \in {"basic", "streaming"} /\ promised \in Sizes
      /\ written = 0 /\ delivered = 0 /\ captured = 0
  BY DEF Init
<1>5. cut \in BOOLEAN /\ failed \in BOOLEAN
  BY <1>4
<1>6. /\ got \in 0..(MaxBody + 1) /\ written \in Sizes /\ delivered \in Sizes
      /\ captured \in Nat /\ captured <= MaxCapture
  BY <1>4 DEF Sizes
<1>7. Within
  BY <1>1, <1>4 DEF Within, Sizes
<1> QED
  BY <1>1, <1>2, <1>3, <1>4, <1>5, <1>6, <1>7 DEF TypeOK

\* Every variable has its type and no buffer outgrows its limit, for all limits,
\* chunk sizes and sizes of requests and responses.
THEOREM Typing == Spec => []TypeOK
<1> QED
  BY TypeInit, TypeStep, PTL DEF Spec

----------------------------------------------------------------------------
\* What is known of the body at each point of its way.  Until it has been read it
\* is the client's; what has been read is what comes next; and its length is a new
\* one only if all of it has been read.
Reading ==
  /\ pc \in {"raw", "open", "read", "pass"} =>
       /\ request.coding # "gzip" => body = Whole
       /\ length = "kept" /\ ~cut /\ ~failed
  /\ pc \in {"raw", "open"} => got = 0
  /\ pc = "read" => got <= MaxBuffer /\ request.coding # "fake"
  /\ pc = "inject" => length = "kept"
  /\ pc \in {"inject", "forward"} =>
       /\ body.from \in 0..request.size /\ body.to \in 0..request.size
       /\ body.from <= body.to /\ ~body.packed
       /\ ~failed => body = [from |-> 0, to |-> got, packed |-> FALSE]
       /\ request.coding # "fake" => body = [from |-> 0, to |-> got, packed |-> FALSE]
       /\ request.coding = "fake" => got = 0
  /\ length = "set" => request.coding # "fake" /\ request.json \in 1..got

BodyInv == TypeOK /\ Within /\ Reading /\ UnmarkedIsWhole /\ DeclaredIsWhole

LEMMA BodyInit == Init => BodyInv
<1> SUFFICES ASSUME Init PROVE BodyInv
  OBVIOUS
<1>1. request.coding # "gzip" => body = Whole
  BY DEF Init, Whole
<1> QED
  BY <1>1, TypeInit DEF Init, BodyInv, Reading, UnmarkedIsWhole, DeclaredIsWhole

\* The end of the loop, on any of its three ways.
LEMMA LoopEnds ==
  ASSUME BodyInv, NEW n \in Nat, EndRead(n), got' = n, n <= request.size,
         UNCHANGED <<request, length>>,
         ~cut' /\ ~failed' => n = request.size,
         cut' => n > MaxBuffer
  PROVE  Reading' /\ UnmarkedIsWhole' /\ DeclaredIsWhole'
<1>1. request.size \in Nat /\ request.coding \in {"plain", "gzip", "fake"}
  BY DEF BodyInv, TypeOK, Requests, Sizes
<1>2. /\ pc = "read" /\ pc' = "inject" /\ length' = "kept" /\ request.coding # "fake"
      /\ body' = [from |-> 0, to |-> n, packed |-> FALSE]
  BY DEF BodyInv, Reading, EndRead, Goto
<1> QED
  BY <1>1, <1>2 DEF Reading, UnmarkedIsWhole, DeclaredIsWhole

LEMMA BodyStep ==
  ASSUME BodyInv, [Next]_vars
  PROVE  BodyInv'
<1>0. TypeOK' /\ Within'
  BY TypeStep DEF BodyInv
<1>1. /\ request.size \in Nat /\ request.coding \in {"plain", "gzip", "fake"}
      /\ request.json \in Nat /\ got \in Nat /\ TypeOK /\ Within
  BY DEF BodyInv, TypeOK, Requests, Sizes
<1>a. Reading /\ UnmarkedIsWhole /\ DeclaredIsWhole
  BY DEF BodyInv
<1> SUFFICES Reading' /\ UnmarkedIsWhole' /\ DeclaredIsWhole'
  BY <1>0 DEF BodyInv
<1> USE DEF Reading, UnmarkedIsWhole, DeclaredIsWhole, Goto, Whole
<1>2. CASE UNCHANGED vars
  BY <1>a, <1>2 DEF vars
<1>3. CASE ReadRaw
  BY <1>a, <1>3 DEF ReadRaw, info, response
<1>4. CASE Open
  BY <1>a, <1>1, <1>4 DEF Open, info, response
<1>5. CASE OpenFails
  <2>1. PICK n \in 0..request.size : body' = [body EXCEPT !.from = n]
    BY <1>5 DEF OpenFails
  <2>2. body = Whole /\ pc = "open" /\ got = 0
    BY <1>a, <1>5 DEF OpenFails
  <2>3. body' = [from |-> n, to |-> request.size, packed |-> FALSE]
    BY <2>1, <2>2
  <2> QED
    BY <1>a, <1>1, <1>5, <2>2, <2>3 DEF OpenFails, response
<1>6. ASSUME NEW n \in 1..Chunk, Read(n)
      PROVE  Reading' /\ UnmarkedIsWhole' /\ DeclaredIsWhole'
  <2>1. CASE got + n > MaxBuffer
    BY <1>1, <1>6, <2>1, LoopEnds DEF Read
  <2>2. CASE ~(got + n > MaxBuffer)
    BY <1>a, <1>1, <1>6, <2>2 DEF Read
  <2> QED
    BY <2>1, <2>2
<1>7. CASE ReadEOF
  <2>1. got # Limit
    BY <1>a, <1>1, <1>7 DEF ReadEOF, EndRead, Limit
  <2>2. ~cut
    BY <1>a, <1>7 DEF ReadEOF, EndRead
  <2> QED
    BY <1>1, <1>7, <2>1, <2>2, LoopEnds DEF ReadEOF, info
<1>8. CASE ReadFails
  <2>1. ~cut
    BY <1>a, <1>8 DEF ReadFails, EndRead
  <2> QED
    BY <1>1, <1>8, <2>1, LoopEnds DEF ReadFails, Within
<1>9. CASE Inject
  <2>1. length' = "set" => request.json \in 1..got /\ got > 0
    BY <1>a, <1>1, <1>9 DEF Inject, Parses
  <2> QED
    BY <1>a, <1>1, <1>9, <2>1 DEF Inject, info, response
<1>10. CASE Forward
  <2>1. CASE pc = "pass"
    BY <1>a, <1>10, <2>1 DEF Forward, info, response
  <2>2. CASE pc = "forward" /\ request.declared /\ request.coding # "gzip"
    <3>1. body.from \in 0..request.size /\ body.to \in 0..request.size /\ ~body.packed
      BY <1>a, <2>2
    <3>2. LengthFits
      BY <1>10, <2>2 DEF Forward, LengthUnsure
    <3>3. CASE length = "set"
      <4>1. body.from = 0 /\ body.to = got /\ request.json \in 1..got
        BY <1>a, <2>2, <3>3
      <4> QED
        BY <1>a, <1>10, <2>2, <3>3, <4>1 DEF Forward, info
    <3>4. CASE length # "set"
      <4>1. body.from = 0 /\ body.to = request.size
        BY <1>a, <1>1, <2>2, <3>1, <3>2, <3>4 DEF LengthFits
      <4>2. body = Whole
        BY <1>1, <2>2, <3>1, <4>1 DEF TypeOK, Bodies
      <4> QED
        BY <1>a, <1>10, <4>2 DEF Forward, info
    <3> QED
      BY <3>3, <3>4
  <2>3. CASE pc = "forward" /\ ~(request.declared /\ request.coding # "gzip")
    BY <1>a, <1>10, <2>3 DEF Forward, info
  <2> QED
    BY <1>10, <2>1, <2>2, <2>3 DEF Forward
<1>11. CASE ForwardFails
  BY <1>a, <1>11 DEF ForwardFails, info
<1>12. ASSUME NEW b \in 1..Chunk, NEW n \in 0..Chunk, Write(b, n)
       PROVE  Reading' /\ UnmarkedIsWhole' /\ DeclaredIsWhole'
  BY <1>a, <1>12 DEF Write, info
<1>13. CASE Return
  BY <1>a, <1>13 DEF Return, info
<1> QED
  BY <1>2, <1>3, <1>4, <1>5, <1>6, <1>7, <1>8, <1>9, <1>10, <1>11, <1>12, <1>13 DEF Next

\* A body that was read without error and is not marked as truncated is whole,
\* wherever chunks and limits fall.
THEOREM Unmarked == Spec => []UnmarkedIsWhole
<1>1. BodyInv => UnmarkedIsWhole
  BY DEF BodyInv
<1> QED
  BY <1>1, BodyInit, BodyStep, PTL DEF Spec

\* The backend has all of an uncompressed body for which the client declared a
\* length, but for white space at its end, or the request fails.
THEOREM Declared == Spec => []DeclaredIsWhole
<1>1. BodyInv => DeclaredIsWhole
  BY DEF BodyInv
<1> QED
  BY <1>1, BodyInit, BodyStep, PTL DEF Spec

----------------------------------------------------------------------------
\* What the writer has kept is told by what the client and the backend have moved.
Responding ==
  /\ promised > 0 => delivered <= promised
  /\ writer = "streaming" => captured = Smaller(delivered, MaxCapture)
  /\ writer = "basic" => captured = written

LEMMA ResponseInit == Init => Responding
  BY SMT DEF Init, Responding, Smaller, Sizes

LEMMA ResponseStep ==
  ASSUME TypeOK, Within, Responding, [Next]_vars
  PROVE  Responding'
<1>1. CASE UNCHANGED <<writer, response>>
  BY <1>1 DEF Responding, response
<1>2. ASSUME NEW b \in 1..Chunk, NEW n \in 0..Chunk, Write(b, n) PROVE Responding'
  BY <1>2 DEF Write, Responding, Buffered, Smaller, TypeOK, Sizes
<1>3. CASE \E n \in 1..Chunk : Read(n)
  BY <1>1, <1>3 DEF Read
<1> QED
  BY <1>1, <1>2, <1>3 DEF Next, vars, response, ReadRaw, Open, OpenFails, ReadEOF,
     ReadFails, Inject, Forward, ForwardFails, Return

\* A response that the streaming writer calls complete was captured as the client
\* has it, for every limit and every order of short writes.
THEOREM Complete == Spec => []CompleteIsWhole
<1>1. TypeOK /\ Within /\ Responding => CompleteIsWhole
  BY DEF TypeOK, Sizes, Within, Responding, CompleteIsWhole, IsComplete, Smaller
<1> QED
  BY <1>1, TypeInit, TypeStep, ResponseInit, ResponseStep, PTL DEF Spec
=============================================================================
