--------------------------- MODULE ChunkedReader ---------------------------
(***************************************************************************)
(* The reader of a body in aws-chunked framing, as the io.Copy of a backend  *)
(* calls it.  A body is a sequence of tokens: the line of a chunk's size, its *)
(* bytes, each with its place in the object, and the line end behind them.    *)
(* A body ends in "eof" when the HTTP request is complete, and is "broken"    *)
(* when the connection is lost before.                                       *)
(***************************************************************************)
EXTENDS Integers, Sequences, SequencesExt

Token(t, n) == [t |-> t, n |-> n]
Bytes(from, to) == [i \in 1..(to - from) |-> Token("byte", from + i)]

\* What a client sends for an object in chunks of these sizes.
Encode(sizes) ==
  FoldLeft(LAMBDA sent, n :
             [body |-> sent.body \o <<Token("size", n)>> \o Bytes(sent.at, sent.at + n)
                                 \o <<Token("line", 0)>>,
              at |-> sent.at + n],
           [body |-> <<>>, at |-> 0], sizes).body
    \o <<Token("size", 0)>>

Tokens == [t : {"size", "byte", "line"}, n : Nat]

\* The bytes before the header at i, the last of which is two tokens before it.
Before(body, i) == IF i = 1 THEN 0 ELSE body[i - 2].n

\* The same as a predicate: every header has its chunk, a line end and another header
\* behind it, unless it is the last; an object of this size is sent.
Framed(body, size) ==
  /\ body \in Seq(Tokens)
  /\ body # <<>> /\ body[1].t = "size"
  /\ \A i \in DOMAIN body :
       LET n == body[i].n IN
       body[i].t = "size" =>
         IF n = 0 THEN i = Len(body) /\ Before(body, i) = size
         ELSE /\ i + n + 2 <= Len(body) /\ Before(body, i) + n <= size
              /\ \A j \in 1..n : body[i + j] = Token("byte", Before(body, i) + j)
              /\ body[i + n + 1].t = "line"
              /\ body[i + n + 2].t = "size"

\* What it means: the bytes of all chunks, up to the chunk of size 0.
Decode(body) == SelectSeq(body, LAMBDA token : token.t = "byte")

\* A new reader: newAWSChunkedReader, or the body of the request itself.
Reader(chunked, body, end) ==
  [chunked |-> chunked, body |-> body, end |-> end, remaining |-> 0, done |-> FALSE]

\* One call of Read returns bytes, an error ("nil", "eof" or "error"), and leaves
\* the reader in another state.
Outcome(bytes, err, r) == [bytes |-> bytes, err |-> err, reader |-> r]

\* ReadString('\n'), its error ignored.
Swallow(body) ==
  IF \E i \in DOMAIN body : body[i].t # "byte"
    THEN LET i == CHOOSE i \in DOMAIN body :
                    body[i].t # "byte" /\ \A j \in 1..(i - 1) : body[j].t = "byte"
         IN SubSeq(body, i + 1, Len(body))
    ELSE <<>>

\* The bytes that come together, at least one, and no more than there is room for.
Some(r, most) == 1..(IF most < Len(r.body) THEN most ELSE Len(r.body))

ReadPlain(r, room) ==
  IF r.body = <<>>
    THEN {Outcome(<<>>, IF r.end = "eof" THEN "eof" ELSE "error", r)}
    ELSE {Outcome(SubSeq(r.body, 1, n), "nil", [r EXCEPT !.body = SubSeq(@, n + 1, Len(@))])
            : n \in Some(r, room)}

\* Mutant: the line end behind a chunk is left for the next header.
ReadDataOnly(r, room) ==
  IF r.body = <<>>
    THEN {Outcome(<<>>, IF r.end = "eof" THEN "nil" ELSE "error", r)}
    ELSE {LET rest == SubSeq(r.body, n + 1, Len(r.body)) IN
          Outcome(SubSeq(r.body, 1, n), "nil",
                  [r EXCEPT !.body = rest, !.remaining = @ - n])
            : n \in Some(r, IF room < r.remaining THEN room ELSE r.remaining)}

\* Mutant: no error of the connection is passed on.
ReadDataForgives(r, room) ==
  IF r.body = <<>>
    THEN {Outcome(<<>>, "nil", r)}
    ELSE {LET rest == SubSeq(r.body, n + 1, Len(r.body)) IN
          Outcome(SubSeq(r.body, 1, n), "nil",
                  [r EXCEPT !.body = IF n = r.remaining THEN Swallow(rest) ELSE rest,
                            !.remaining = @ - n])
            : n \in Some(r, IF room < r.remaining THEN room ELSE r.remaining)}

\* Within a chunk.  The end of the body is no error, and no end.
ReadData(r, room) ==
  IF r.body = <<>>
    THEN {Outcome(<<>>, IF r.end = "eof" THEN "nil" ELSE "error", r)}
    ELSE {LET rest == SubSeq(r.body, n + 1, Len(r.body)) IN
          Outcome(SubSeq(r.body, 1, n), "nil",
                  [r EXCEPT !.body = IF n = r.remaining THEN Swallow(rest) ELSE rest,
                            !.remaining = @ - n])
            : n \in Some(r, IF room < r.remaining THEN room ELSE r.remaining)}

\* Mutant: a body that ends where a header should be is a body that ends.
ReadHeaderOrEnd(r, room) ==
  CASE r.body = <<>>               -> {Outcome(<<>>, "eof", r)}
    [] r.body # <<>> /\ Head(r.body).t # "size" -> {Outcome(<<>>, "error", r)}
    [] r.body # <<>> /\ Head(r.body) = Token("size", 0) ->
         {Outcome(<<>>, "eof", [r EXCEPT !.done = TRUE, !.body = Tail(@)])}
    [] OTHER ->
         ReadData([r EXCEPT !.remaining = Head(r.body).n, !.body = Tail(@)], room)

\* Between two chunks: a header, and data behind it in the same call.
ReadHeader(r, room) ==
  CASE r.body = <<>> \/ Head(r.body).t # "size" -> {Outcome(<<>>, "error", r)}
    [] r.body # <<>> /\ Head(r.body) = Token("size", 0) ->
         {Outcome(<<>>, "eof", [r EXCEPT !.done = TRUE, !.body = Tail(@)])}
    [] OTHER ->
         ReadData([r EXCEPT !.remaining = Head(r.body).n, !.body = Tail(@)], room)

Read(r, room) ==
  CASE ~r.chunked                      -> ReadPlain(r, room)
    [] r.chunked /\ r.done             -> {Outcome(<<>>, "eof", r)}
    [] r.chunked /\ ~r.done /\ r.remaining = 0 -> ReadHeader(r, room)
    [] OTHER                           -> ReadData(r, room)

\* The body ends inside a chunk and nobody will ever say so.
Endless(r) == r.chunked /\ r.end = "eof" /\ r.body = <<>> /\ r.remaining > 0
=============================================================================
