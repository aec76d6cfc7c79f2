----------------------------- MODULE MCSendQueue -----------------------------
(* Two senders of one workspace and a third with the wrong token, a job that *)
(* can be sent, one that no sender can read, and one of another workspace.   *)
EXTENDS SendQueue, TLC

CONSTANTS w1, w2, j1, jx, k1, s1, s2, t1

MCJobWorkspace    == [j \in Jobs |-> IF j = k1 THEN w2 ELSE w1]
MCSenderWorkspace == [s \in Senders |-> w1]
MCSenderToken     == [s \in Senders |-> IF s = t1 THEN None ELSE InternalToken]

MCKeys == Issue(Issue({}, w1), w2)

\* The holder of the first key, who names the other workspace in a header.
MCUsers == {[bearer |-> [prefix |-> 1, secret |-> 1], header |-> w2, internal |-> None]}
=============================================================================
