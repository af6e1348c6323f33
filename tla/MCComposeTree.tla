--------------------------- MODULE MCComposeTree ---------------------------
(* A small instance of ComposeTree: with a limit of two sources five parts need three *)
(* levels, and three parts two.                                                       *)
EXTENDS ComposeTree

CONSTANTS u1, u2, c1, c2

\* One call, to complete an upload of one, two, four or five parts, which may be aborted;
\* or two calls, to complete an upload of three parts twice, or two such uploads, with
\* clocks that go on as they like.  The first call begins first, as they are alike.
MCInit == Init /\ sent[u2] \in {1, 3} /\ (sent[u2] = 3 => sent[u1] = 3)

Pair == sent[u1] = 3

OneCall ==
  /\ call'[c2] = {}
  /\ u2 \notin discarded'
  /\ \A q \in call'[c1] : q.up = u1 /\ \A p \in call[c1] : q.time <= p.time + 1

TwoCalls ==
  /\ call' = call => discarded' = discarded
  /\ call'[c2] # {} => call'[c1] # {}
  /\ \A q \in call'[c1] : q.up = u1
  /\ \A q \in call'[c2] : q.up = u2 <=> sent[u2] = 3

MCNext == Next /\ IF Pair THEN TwoCalls ELSE OneCall

MCSpec == MCInit /\ [][MCNext]_vars /\ \A c \in Completions : WF_vars(Step(c))
=============================================================================
