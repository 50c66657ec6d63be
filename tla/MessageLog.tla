----------------------------- MODULE MessageLog -----------------------------
(***************************************************************************)
(* What a persistent session promises about messages: each of the two ends *)
(* receives the messages that the other one posted in the order they were  *)
(* posted, and none of them twice.  A message may be lost.                 *)
(***************************************************************************)
EXTENDS Naturals, Sequences

VARIABLES
    posted,     \* how many messages each end posted: they are 1, 2, ...
    received    \* the messages each end received so far

End == {"client", "agent"}

Peer(e) == IF e = "client" THEN "agent" ELSE "client"

Init ==
    /\ posted = [e \in End |-> 0]
    /\ received = [e \in End |-> <<>>]

Post(e) ==
    /\ posted' = [posted EXCEPT ![e] = @ + 1]
    /\ UNCHANGED received

Newer(s, m) == \A i \in DOMAIN s : s[i] < m

\* A batch is handed to the scripts in one go.
Receive(e, batch) ==
    /\ received' = [received EXCEPT ![e] = @ \o batch]
    /\ \A i \in DOMAIN batch :
          /\ batch[i] \in 1 .. posted[Peer(e)]
          /\ Newer(received[e], batch[i])
          /\ Newer(SubSeq(batch, 1, i - 1), batch[i])
    /\ UNCHANGED posted

Next ==
    \E e \in End :
        \/ Post(e)
        \/ Receive(e, SubSeq(received'[e], Len(received[e]) + 1, Len(received'[e])))

Spec == Init /\ [][Next]_<<posted, received>>
=============================================================================
