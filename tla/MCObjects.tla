----------------------------- MODULE MCObjects -----------------------------
(* A small instance of Objects: sizes of 1 and 2 bytes, and numbers up to 3.  One   *)
(* PUT may use the framing; the second key, ranges and the deletion of several keys *)
(* come where they do not multiply with everything else.                           *)
EXTENDS Objects

CONSTANTS p1, p2, k1, k2

\* The second key lies in a folder of the name of the first.
MCIn == [k \in Keys |-> IF k = k2 THEN {k1} ELSE {}]

MCBodies == [p \in {p1, p2} |->
  IF p = p2 THEN Sendings({}, {<<1>>})
  ELSE {body \in Sendings({<<1, 1>>, <<2>>}, {<<2>>}) :
          IF body.cut = Len(body.sent) THEN body.end = "eof" ELSE body.declared}]

MCAsked == {NoRange, [first |-> 0, last |-> 0], [first |-> 1, last |-> Open],
            [first |-> 1, last |-> 2], [first |-> 1, last |-> MaxInt], [first |-> 1, last |-> 0]}

Quiet == \A p \in Puts : put[p].pc # "copy"
MCPut(p) == (\E k \in Keys : (k = k1 \/ p = p2) /\ PutObject(p, k)) \/ PutEnds(p) \/ PutFails(p)
MCGet(g) == \/ \E q \in Asked : (q = NoRange \/ Quiet) /\ batch.pc = "idle" /\ (GetObject(g, k1, q) \/ GetFolder(g, k1, q))
            \/ GetSteps(g) \/ Leave(g)
MCBatch == \/ \E ks \in SUBSET Keys \ {{}} : Quiet /\ (\A g \in Gets : get[g].pc = "idle") /\ DeleteObjects(ks)
           \/ DeleteNext \/ BatchAnswers \/ BatchLeaves
MCNext == (\E p \in Puts : MCPut(p)) \/ (\E g \in Gets : MCGet(g)) \/ DeleteObject(k1) \/ MCBatch

MCSpec == Init /\ [][MCNext]_vars /\ \A p \in Puts : WF_vars(PutEnds(p))
=============================================================================
