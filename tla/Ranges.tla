------------------------------- MODULE Ranges -------------------------------
(***************************************************************************)
(* The Range header "bytes=first-last" or "bytes=first-", from its text to   *)
(* the bytes a backend returns.  Numbers are signed and Width bits wide.      *)
(***************************************************************************)
EXTENDS Integers

CONSTANT Width
ASSUME WidthAssumption == Width \in Nat \ {0, 1}

Half == 2^(Width - 1)
MaxInt == Half - 1
Wrap(n) == ((n + Half) % (2 * Half)) - Half

Open == -1  \* in place of the last byte: to the end
NoRange == [first |-> -1, last |-> Open]
EndsBefore(q) == q.last # Open /\ q.last < q.first

\* For GCS and the local backend: a negative length is to the end.
ParseHTTPRange(q) ==
  [offset |-> q.first, length |-> IF q.last = Open THEN -1 ELSE Wrap(Wrap(q.last - q.first) + 1)]

\* For Azure: a count of 0 is to the end.
ParseAzureRange(q) ==
  [offset |-> q.first, count |-> IF q.last = Open THEN 0 ELSE Wrap(Wrap(q.last - q.first) + 1)]

\* Mutant: a range may go beyond the end of the object.
LocalUnclamped(q, size) ==
  LET p == ParseHTTPRange(q) IN
  IF p.length < 0 THEN size - p.offset ELSE p.length

\* The length that is announced, for an object of a size beyond the offset.
LocalLength(q, size) ==
  LET p == ParseHTTPRange(q) IN
  IF p.length < 0 \/ Wrap(p.offset + p.length) > size THEN size - p.offset ELSE p.length

GCSLength(q, size) ==
  LET p == ParseHTTPRange(q) IN
  IF p.length < 0 \/ p.offset + p.length > size THEN size - p.offset ELSE p.length

\* The SDK names the last byte, offset+count-1, and leaves it out if the count is 0.
AzureLength(q, size) ==
  LET p == ParseAzureRange(q)
      last == Wrap(Wrap(p.offset + p.count) - 1)
  IN IF p.count = 0 \/ last < p.offset \/ last >= size THEN size - p.offset
     ELSE last - p.offset + 1

\* The header is passed on as it is.  S3 ignores a range that ends before it begins, and
\* returns the bytes from first to last that exist of any other.
S3Range(q) == IF EndsBefore(q) THEN NoRange ELSE q
S3Length(q, size) ==
  IF q.last = Open \/ q.last >= size THEN size - q.first ELSE q.last - q.first + 1

\* The local backend adds two numbers whose sum does not fit.
Overflows(q) == q.first > 0 /\ q.last = MaxInt
=============================================================================
