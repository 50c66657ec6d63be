---------------------------- MODULE MessageProofs ----------------------------
(***************************************************************************)
(* The handshake of interrupt () and resume () between the two ends of a   *)
(* persistent session, for any number of messages, of messages in a batch  *)
(* and of disconnections.                                                  *)
(*                                                                         *)
(* The handshake depends on the kinds of the packets under way only, and   *)
(* not on what is in them.  It is stated of the packets to the agent (c)   *)
(* and to the client (a), of the connection (u) and of the states of the   *)
(* two ends (cl, ag), so that the steps of MessageDelivery can be put      *)
(* together from what may happen to these.                                 *)
(***************************************************************************)
EXTENDS MessageDelivery, TLAPS

Status == {"live", "interrupted"}

\* A resume () that would be at position i finds the agent interrupted when it gets there.
Due(c, ag, i) ==
    \/ \E j \in 1 .. i - 1 :
          c[j].kind = "interrupt" /\ \A k \in j + 1 .. i - 1 : c[k].kind # "resume"
    \/ ag = "interrupted" /\ \A k \in 1 .. i - 1 : c[k].kind # "resume"

Control == {"interrupt", "resume"}

Quiet(c) == \A i \in DOMAIN c : c[i].kind \notin Control

\* resume () calls are due; the next one would be while there is no connection; whoever has
\* resumed has an agent that is live and is told of nothing else; and what tells the client
\* that resume () is done is the last thing that happens to it.
Handshake(c, a, u, cl, ag) ==
    /\ \A i \in DOMAIN c : c[i].kind = "resume" => Due(c, ag, i)
    /\ ~u => Due(c, ag, Len(c) + 1)
    /\ u /\ cl = "live" => ag = "live" /\ Quiet(c) /\ \A i \in DOMAIN a : a[i].kind # "resumed"
    /\ \A i \in DOMAIN a : a[i].kind = "resumed" =>
          /\ u /\ cl = "interrupted" /\ ag = "live" /\ Quiet(c)
          /\ \A j \in DOMAIN a : a[j].kind = "resumed" => j = i
-----------------------------------------------------------------------------
\* The agent takes a packet that is not part of the handshake.
LEMMA AgentTakes ==
    ASSUME NEW S, NEW c \in Seq(S), NEW a \in Seq(S), NEW u \in BOOLEAN,
           NEW cl \in Status, NEW ag \in Status,
           Handshake(c, a, u, cl, ag), c # <<>>, c[1].kind \notin Control
    PROVE  Handshake(Tail(c), a, u, cl, ag)
<1> DEFINE t == Tail(c)
<1>1. /\ t \in Seq(S) /\ Len(t) = Len(c) - 1
      /\ \A i \in 1 .. Len(t) : t[i] = c[i + 1]
  OBVIOUS
<1>2. ASSUME NEW i \in 1 .. Len(t) + 1, Due(c, ag, i + 1) PROVE Due(t, ag, i)
  BY <1>1, <1>2 DEF Due, Control
<1> QED BY <1>1, <1>2 DEF Handshake, Quiet, Control

\* The client takes a packet that is not part of the handshake.
LEMMA ClientTakes ==
    ASSUME NEW S, NEW c \in Seq(S), NEW a \in Seq(S), NEW u \in BOOLEAN,
           NEW cl \in Status, NEW ag \in Status,
           Handshake(c, a, u, cl, ag), a # <<>>, a[1].kind # "resumed"
    PROVE  Handshake(c, Tail(a), u, cl, ag)
<1> DEFINE t == Tail(a)
<1>1. /\ t \in Seq(S) /\ Len(t) = Len(a) - 1
      /\ \A i \in 1 .. Len(t) : t[i] = a[i + 1]
  OBVIOUS
<1> QED BY <1>1 DEF Handshake

\* The client sends a packet that is not part of the handshake over its connection.
LEMMA ClientSends ==
    ASSUME NEW S, NEW c \in Seq(S), NEW a \in Seq(S), NEW cl \in Status, NEW ag \in Status,
           NEW x \in S, Handshake(c, a, TRUE, cl, ag), x.kind \notin Control
    PROVE  Handshake(Append(c, x), a, TRUE, cl, ag)
<1> DEFINE d == Append(c, x)
<1>1. /\ d \in Seq(S) /\ Len(d) = Len(c) + 1 /\ d[Len(d)] = x
      /\ \A i \in 1 .. Len(c) : d[i] = c[i]
  OBVIOUS
<1>2. ASSUME NEW i \in 1 .. Len(c), Due(c, ag, i) PROVE Due(d, ag, i)
  BY <1>1, <1>2 DEF Due
<1> QED BY <1>1, <1>2 DEF Handshake, Quiet, Control

\* The agent sends a packet that is not part of the handshake.
LEMMA AgentSends ==
    ASSUME NEW S, NEW c \in Seq(S), NEW a \in Seq(S), NEW u \in BOOLEAN,
           NEW cl \in Status, NEW ag \in Status, NEW x \in S,
           Handshake(c, a, u, cl, ag), x.kind # "resumed"
    PROVE  Handshake(c, Append(a, x), u, cl, ag)
<1> DEFINE d == Append(a, x)
<1>1. /\ d \in Seq(S) /\ Len(d) = Len(a) + 1 /\ d[Len(d)] = x
      /\ \A i \in 1 .. Len(a) : d[i] = a[i]
  OBVIOUS
<1> QED BY <1>1 DEF Handshake

\* resume () is due at the position that follows the i-th, and there is one before: then it
\* is due because of an interrupt () that follows that one.
LEMMA DueNext ==
    ASSUME NEW c, NEW ag, NEW i \in Nat, Due(c, ag, i + 1),
           \E k \in 1 .. i : c[k].kind = "resume"
    PROVE  \E j \in 1 .. i :
              c[j].kind = "interrupt" /\ \A k \in j + 1 .. i : c[k].kind # "resume"
<1>1. (i + 1) - 1 = i
  OBVIOUS
<1> QED BY <1>1, Zenon DEF Due

\* interrupt () reaches the agent.
LEMMA AgentInterrupted ==
    ASSUME NEW S, NEW c \in Seq(S), NEW a \in Seq(S), NEW u \in BOOLEAN,
           NEW cl \in Status, NEW ag \in Status,
           Handshake(c, a, u, cl, ag), c # <<>>, c[1].kind = "interrupt"
    PROVE  Handshake(Tail(c), a, u, cl, "interrupted")
<1> DEFINE t == Tail(c)
<1>1. /\ t \in Seq(S) /\ Len(t) = Len(c) - 1
      /\ \A i \in 1 .. Len(t) : t[i] = c[i + 1]
  OBVIOUS
<1>2. ASSUME NEW i \in 1 .. Len(t) + 1, Due(c, ag, i + 1) PROVE Due(t, "interrupted", i)
  <2>1. CASE \A k \in 1 .. i : c[k].kind # "resume"
    BY <1>1, <2>1 DEF Due
  <2>2. CASE \E k \in 1 .. i : c[k].kind = "resume"
    <3>0. i \in Nat
      BY <1>1
    <3>1. PICK j \in 1 .. i :
             c[j].kind = "interrupt" /\ \A k \in j + 1 .. i : c[k].kind # "resume"
      <4> HIDE DEF t
      <4> QED BY <1>2, <2>2, <3>0, DueNext
    <3>2. j > 1
      BY <2>2, <3>1
    <3>3. /\ j - 1 \in 1 .. i - 1 /\ t[j - 1].kind = "interrupt"
          /\ \A k \in (j - 1) + 1 .. i - 1 : t[k].kind # "resume"
      BY <1>1, <3>1, <3>2
    <3> HIDE DEF t
    <3> QED BY <3>3 DEF Due
  <2> QED BY <2>1, <2>2
<1>3. 1 \in DOMAIN c /\ ~Quiet(c)
  BY DEF Quiet, Control
<1> QED BY <1>1, <1>2, <1>3 DEF Handshake

\* resume () reaches the agent: it was interrupted, and everything else of the handshake
\* that is under way to it begins with an interrupt ().
LEMMA ResumeArrives ==
    ASSUME NEW S, NEW c \in Seq(S), NEW a \in Seq(S), NEW u \in BOOLEAN,
           NEW cl \in Status, NEW ag \in Status,
           Handshake(c, a, u, cl, ag), c # <<>>, c[1].kind = "resume"
    PROVE  /\ ag = "interrupted" /\ \A i \in DOMAIN a : a[i].kind # "resumed"
           /\ u => cl = "interrupted"
           /\ Handshake(Tail(c), a, u, cl, "live")
           /\ (\A i \in DOMAIN Tail(c) : Tail(c)[i].kind # "interrupt") => Quiet(Tail(c))
<1> DEFINE t == Tail(c)
<1>1. /\ t \in Seq(S) /\ Len(t) = Len(c) - 1
      /\ \A i \in 1 .. Len(t) : t[i] = c[i + 1]
  OBVIOUS
<1>2. 1 \in DOMAIN c /\ ~Quiet(c)
  BY DEF Quiet, Control
<1>3. ag = "interrupted"
  BY <1>2 DEF Handshake, Due
<1>4. \A i \in DOMAIN a : a[i].kind # "resumed"
  BY <1>2 DEF Handshake
<1>5. u => cl = "interrupted"
  BY <1>2 DEF Handshake, Status
<1>6. ASSUME NEW i \in 1 .. Len(t) + 1, Due(c, ag, i + 1)
      PROVE  \E j \in 1 .. i - 1 :
                t[j].kind = "interrupt" /\ \A k \in j + 1 .. i - 1 : t[k].kind # "resume"
  <2>0. i \in Nat /\ \E k \in 1 .. i : c[k].kind = "resume"
    BY <1>1
  <2>1. PICK j \in 1 .. i :
           c[j].kind = "interrupt" /\ \A k \in j + 1 .. i : c[k].kind # "resume"
    <3> HIDE DEF t
    <3> QED BY <1>6, <2>0, DueNext
  <2>2. j > 1
    BY <2>1
  <2>3. /\ j - 1 \in 1 .. i - 1 /\ t[j - 1].kind = "interrupt"
        /\ \A k \in (j - 1) + 1 .. i - 1 : t[k].kind # "resume"
    BY <1>1, <2>1, <2>2
  <2> HIDE DEF t
  <2> QED BY <2>3
<1>7. ASSUME NEW i \in DOMAIN t, t[i].kind = "resume" PROVE Due(c, ag, i + 1)
  BY <1>1, <1>7 DEF Handshake
<1>8. Handshake(t, a, u, cl, "live")
  <2>1. ASSUME NEW i \in DOMAIN t, t[i].kind = "resume" PROVE Due(t, "live", i)
    <3>1. i \in 1 .. Len(t) + 1
      BY <1>1
    <3> HIDE DEF t
    <3> QED BY <1>6, <1>7, <2>1, <3>1 DEF Due
  <2>2. ~u => Due(t, "live", Len(t) + 1)
    <3>1. ~u => Due(c, ag, (Len(t) + 1) + 1)
      BY <1>1 DEF Handshake
    <3>2. Len(t) + 1 \in 1 .. Len(t) + 1
      BY <1>1
    <3> HIDE DEF t
    <3> QED BY <1>6, <3>1, <3>2 DEF Due
  <2> HIDE DEF t
  <2> QED BY <1>4, <1>5, <2>1, <2>2, SMTT(20) DEF Handshake
<1>9. ASSUME \A i \in DOMAIN t : t[i].kind # "interrupt" PROVE Quiet(t)
  <2>1. ASSUME NEW i \in DOMAIN t, t[i].kind = "resume" PROVE FALSE
    <3>1. i \in 1 .. Len(t) + 1 /\ 1 .. i - 1 \subseteq DOMAIN t
      BY <1>1
    <3> HIDE DEF t
    <3> QED BY <1>6, <1>7, <1>9, <2>1, <3>1
  <2> QED BY <1>9, <2>1 DEF Quiet, Control
<1> QED BY <1>3, <1>4, <1>5, <1>8, <1>9, SMTT(20)

\* The answer of the agent's resume () is sent.
LEMMA AgentResumed ==
    ASSUME NEW S, NEW c \in Seq(S), NEW a \in Seq(S), NEW x \in S,
           Handshake(c, a, TRUE, "interrupted", "live"), x.kind = "resumed", Quiet(c),
           \A i \in DOMAIN a : a[i].kind # "resumed"
    PROVE  Handshake(c, Append(a, x), TRUE, "interrupted", "live")
<1> DEFINE d == Append(a, x)
<1>1. /\ d \in Seq(S) /\ Len(d) = Len(a) + 1
      /\ \A i \in 1 .. Len(a) : d[i] = a[i]
  OBVIOUS
<1>2. ASSUME NEW i \in DOMAIN d, d[i].kind = "resumed" PROVE i = Len(a) + 1
  BY <1>1, <1>2
<1> HIDE DEF d
<1> QED BY <1>2 DEF Handshake

\* It reaches the client.
LEMMA ResumedArrives ==
    ASSUME NEW S, NEW c \in Seq(S), NEW a \in Seq(S), NEW u \in BOOLEAN,
           NEW cl \in Status, NEW ag \in Status,
           Handshake(c, a, u, cl, ag), a # <<>>, a[1].kind = "resumed"
    PROVE  Handshake(c, Tail(a), u, "live", ag)
<1> DEFINE t == Tail(a)
<1>1. /\ t \in Seq(S) /\ Len(t) = Len(a) - 1
      /\ \A i \in 1 .. Len(t) : t[i] = a[i + 1]
  OBVIOUS
<1>2. 1 \in DOMAIN a
  OBVIOUS
<1>3. u /\ ag = "live" /\ Quiet(c) /\ \A j \in DOMAIN a : a[j].kind = "resumed" => j = 1
  BY <1>2 DEF Handshake
<1>4. \A i \in DOMAIN t : t[i].kind # "resumed"
  BY <1>1, <1>3
<1> HIDE DEF t
<1> QED BY <1>3, <1>4 DEF Handshake

\* The connection breaks: n packets had been relayed, and interrupt () follows them.
LEMMA ConnectionBreaks ==
    ASSUME NEW S, NEW c \in Seq(S), NEW a \in Seq(S), NEW u \in BOOLEAN,
           NEW cl \in Status, NEW ag \in Status, NEW x \in S, NEW n \in 0 .. Len(c),
           Handshake(c, a, u, cl, ag), x.kind = "interrupt"
    PROVE  Handshake(Append(SubSeq(c, 1, n), x), <<>>, FALSE, cl, ag)
<1> DEFINE d == Append(SubSeq(c, 1, n), x)
<1>1. /\ d \in Seq(S) /\ Len(d) = n + 1 /\ d[n + 1] = x
      /\ \A i \in 1 .. n : d[i] = c[i]
  OBVIOUS
<1>2. ASSUME NEW i \in 1 .. n, Due(c, ag, i) PROVE Due(d, ag, i)
  BY <1>1, <1>2 DEF Due
<1>3. ASSUME NEW i \in DOMAIN d, d[i].kind = "resume" PROVE Due(d, ag, i)
  BY <1>1, <1>2, <1>3 DEF Handshake
<1>4. Due(d, ag, Len(d) + 1)
  BY <1>1 DEF Due
<1>5. Handshake(d, <<>>, FALSE, cl, ag)
  <2> HIDE DEF d
  <2> QED BY <1>3, <1>4 DEF Handshake
<1> QED BY <1>5

\* The client, which is interrupted, connects again and calls resume ().
LEMMA ResumeSent ==
    ASSUME NEW S, NEW c \in Seq(S), NEW a \in Seq(S), NEW ag \in Status, NEW x \in S,
           Handshake(c, a, FALSE, "interrupted", ag), x.kind = "resume"
    PROVE  Handshake(Append(c, x), a, TRUE, "interrupted", ag)
<1> DEFINE d == Append(c, x)
<1>1. /\ d \in Seq(S) /\ Len(d) = Len(c) + 1
      /\ \A i \in 1 .. Len(c) : d[i] = c[i]
  OBVIOUS
<1>2. ASSUME NEW i \in 1 .. Len(c) + 1, Due(c, ag, i) PROVE Due(d, ag, i)
  BY <1>1, <1>2 DEF Due
<1>3. ASSUME NEW i \in DOMAIN d, d[i].kind = "resume" PROVE Due(d, ag, i)
  BY <1>1, <1>2, <1>3 DEF Handshake
<1>4. Handshake(d, a, TRUE, "interrupted", ag)
  <2> HIDE DEF d
  <2> QED BY <1>3 DEF Handshake
<1> QED BY <1>4

\* The client notices that its connection is gone.
LEMMA ClientDetached ==
    ASSUME NEW c, NEW a, NEW cl, NEW ag, Handshake(c, a, FALSE, cl, ag)
    PROVE  Handshake(c, a, FALSE, "interrupted", ag)
BY DEF Handshake
-----------------------------------------------------------------------------
(* The steps of MessageDelivery *)

Wired(w) == \E S : w \in [End -> Seq(S)]

HandshakeOf(w, u, st) == Handshake(w["client"], w["agent"], u, st["client"], st["agent"])

\* ResumedBoth and ResumeIsValid are not inductive: they depend on what is under way.
IInv ==
    /\ Wired(net) /\ up \in BOOLEAN /\ state \in [End -> Status]
    /\ HandshakeOf(net, up, state)

\* More packets may be under way than have been.
LEMMA Widened ==
    ASSUME NEW S, NEW y, NEW w \in [End -> Seq(S)]
    PROVE  w \in [End -> Seq(S \cup {y})]
<1>1. \A s \in Seq(S) : s \in Seq(S \cup {y})
  OBVIOUS
<1> QED BY <1>1

\* What Taken does to the packets in both directions.
LEMMA TakenIs ==
    ASSUME NEW S, net \in [End -> Seq(S)], up \in BOOLEAN, NEW e \in End,
           net[Peer(e)] # <<>>, NEW answer \in Seq(S)
    PROVE  /\ Taken(e, answer) \in [End -> Seq(S)]
           /\ Taken(e, answer)[Peer(e)] = Tail(net[Peer(e)])
           /\ \/ Taken(e, answer)[e] = net[e]
              \/ /\ up /\ Taken(e, answer)[e] = net[e] \o answer
                 /\ e = "agent" =>
                       \A i \in DOMAIN Tail(net["client"]) :
                          Tail(net["client"])[i].kind # "interrupt"
<1>1. Peer(e) \in End /\ Peer(e) # e /\ (e = "agent" => Peer(e) = "client")
  BY DEF End, Peer
<1>2. Tail(net[Peer(e)]) \in Seq(S) /\ net[e] \in Seq(S) /\ net[e] \o answer \in Seq(S)
  BY <1>1
<1> QED BY <1>1, <1>2 DEF Taken

\* The same at the agent and at the client.
LEMMA AgentTook ==
    ASSUME NEW S, net \in [End -> Seq(S)], up \in BOOLEAN, net["client"] # <<>>,
           NEW answer \in Seq(S)
    PROVE  /\ Taken("agent", answer) \in [End -> Seq(S)]
           /\ Taken("agent", answer)["client"] = Tail(net["client"])
           /\ \/ Taken("agent", answer)["agent"] = net["agent"]
              \/ /\ up /\ Taken("agent", answer)["agent"] = net["agent"] \o answer
                 /\ \A i \in DOMAIN Tail(net["client"]) :
                       Tail(net["client"])[i].kind # "interrupt"
<1>1. "agent" \in End /\ Peer("agent") = "client"
  BY DEF End, Peer
<1>2. net[Peer("agent")] # <<>>
  BY <1>1
<1> QED BY <1>1, <1>2, TakenIs

LEMMA ClientTook ==
    ASSUME NEW S, net \in [End -> Seq(S)], up \in BOOLEAN, net["agent"] # <<>>
    PROVE  /\ Taken("client", <<>>) \in [End -> Seq(S)]
           /\ Taken("client", <<>>)["agent"] = Tail(net["agent"])
           /\ Taken("client", <<>>)["client"] = net["client"]
<1>1. "client" \in End /\ Peer("client") = "agent"
  BY DEF End, Peer
<1>2. net[Peer("client")] # <<>> /\ <<>> \in Seq(S)
  BY <1>1
<1>3. /\ Taken("client", <<>>) \in [End -> Seq(S)]
      /\ Taken("client", <<>>)[Peer("client")] = Tail(net[Peer("client")])
      /\ \/ Taken("client", <<>>)["client"] = net["client"]
         \/ Taken("client", <<>>)["client"] = net["client"] \o <<>>
  BY <1>1, <1>2, TakenIs
<1>4. net["client"] \o <<>> = net["client"]
  BY <1>1
<1> QED BY <1>1, <1>3, <1>4

\* An end takes a packet that is not part of the handshake, and may answer it.
LEMMA Answers ==
    ASSUME NEW S, net \in [End -> Seq(S)], up \in BOOLEAN, state \in [End -> Status],
           HandshakeOf(net, up, state), NEW e \in End, net[Peer(e)] # <<>>,
           net[Peer(e)][1].kind \notin Control \cup {"resumed"},
           NEW y \in S, y.kind \notin Control \cup {"resumed"},
           NEW answer \in {<<>>, <<y>>}
    PROVE  Taken(e, answer) \in [End -> Seq(S)] /\ HandshakeOf(Taken(e, answer), up, state)
<1> DEFINE w == Taken(e, answer)
<1>1. /\ net["client"] \in Seq(S) /\ net["agent"] \in Seq(S)
      /\ state["client"] \in Status /\ state["agent"] \in Status
  BY DEF End
<1>8. answer \in Seq(S)
  <2>1. <<>> \in Seq(S) /\ <<y>> \in Seq(S)
    OBVIOUS
  <2> QED BY <2>1
<1>9. \A s \in Seq(S) : s \o <<>> = s /\ s \o <<y>> = Append(s, y)
  OBVIOUS
<1>2. /\ w \in [End -> Seq(S)] /\ w[Peer(e)] = Tail(net[Peer(e)])
      /\ w[e] = net[e] \/ (up /\ w[e] = net[e] \o answer)
  BY <1>8, TakenIs
<1>3. w[e] = net[e] \/ (up /\ w[e] = Append(net[e], y))
  BY <1>1, <1>9, <1>2 DEF End
<1> HIDE DEF w
<1>4. CASE e = "agent"
  <2>1. Handshake(w["client"], net["agent"], up, state["client"], state["agent"])
    BY <1>1, <1>2, <1>4, AgentTakes, SMTT(20) DEF HandshakeOf, Peer
  <2>2. w["client"] \in Seq(S)
    BY <1>2 DEF End
  <2>3. Handshake(w["client"], Append(net["agent"], y), up, state["client"], state["agent"])
    BY <1>1, <2>1, <2>2, AgentSends
  <2>4. HandshakeOf(w, up, state)
    BY <1>3, <1>4, <2>1, <2>3 DEF HandshakeOf
  <2> QED BY <1>2, <2>4 DEF w
<1>5. CASE e = "client"
  <2>1. Handshake(net["client"], w["agent"], up, state["client"], state["agent"])
    BY <1>1, <1>2, <1>5, ClientTakes DEF HandshakeOf, Peer
  <2>2. w["agent"] \in Seq(S)
    BY <1>2 DEF End
  <2>3. ASSUME up = TRUE
        PROVE  Handshake(Append(net["client"], y), w["agent"], TRUE, state["client"], state["agent"])
    BY <1>1, <2>1, <2>2, <2>3, ClientSends
  <2>4. HandshakeOf(w, up, state)
    BY <1>3, <1>5, <2>1, <2>3 DEF HandshakeOf
  <2> QED BY <1>2, <2>4 DEF w
<1> QED BY <1>4, <1>5 DEF End

\* maybe_deliver_pending_messages () sends a batch, or nothing.
LEMMA Delivers ==
    ASSUME NEW S, NEW wire \in [End -> Seq(S)], up \in BOOLEAN, state' \in [End -> Status],
           HandshakeOf(wire, up, state'), NEW e \in End, NEW queue, MaybeDeliver(e, queue, wire)
    PROVE  Wired(net') /\ HandshakeOf(net', up, state')
<1>1. CASE net' = wire
  BY <1>1 DEF Wired
<1>2. CASE up /\ \E x : x.kind = "post" /\ net' = [wire EXCEPT ![e] = Append(@, x)]
  <2>1. PICK x : x.kind = "post" /\ net' = [wire EXCEPT ![e] = Append(@, x)]
    BY <1>2
  <2> DEFINE T == S \cup {x}
  <2>2. wire \in [End -> Seq(T)] /\ x \in T
    BY Widened
  <2> HIDE DEF T
  <2>3. /\ wire["client"] \in Seq(T) /\ wire["agent"] \in Seq(T)
        /\ state'["client"] \in Status /\ state'["agent"] \in Status
    BY <2>2 DEF End
  <2>4. net' \in [End -> Seq(T)]
    BY <2>1, <2>2
  <2>5. CASE e = "client"
    <3>1. net'["client"] = Append(wire["client"], x) /\ net'["agent"] = wire["agent"]
      BY <2>1, <2>5 DEF End
    <3>2. x.kind \notin Control
      BY <2>1 DEF Control
    <3>3. up = TRUE
      BY <1>2
    <3>4. Handshake(wire["client"], wire["agent"], TRUE, state'["client"], state'["agent"])
      BY <3>3 DEF HandshakeOf
    <3>5. Handshake(Append(wire["client"], x), wire["agent"], TRUE, state'["client"], state'["agent"])
      BY <2>2, <2>3, <3>2, <3>4, ClientSends
    <3> QED BY <2>4, <3>3, <3>5, <3>1 DEF HandshakeOf, Wired
  <2>6. CASE e = "agent"
    <3>1. net'["agent"] = Append(wire["agent"], x) /\ net'["client"] = wire["client"]
      BY <2>1, <2>6 DEF End
    <3> QED BY <2>1, <2>2, <2>3, <2>4, <3>1, AgentSends DEF HandshakeOf, Wired
  <2> QED BY <2>5, <2>6 DEF End
<1>3. QED
  <2> DEFINE batch == Attempted(SubSeq(queue, 1, Fits(queue)))
             x == [kind |-> "post", call |-> calls[e] + 1, batch |-> batch]
  <2>1. net' = wire \/ (up /\ net' = [wire EXCEPT ![e] = Append(@, x)])
    BY DEF MaybeDeliver
  <2>2. x.kind = "post"
    OBVIOUS
  <2> HIDE DEF x
  <2> QED BY <1>1, <1>2, <2>1, <2>2

\* A step of a handler leaves the handshake intact: an end posts, takes a batch or an answer,
\* or notices that a call failed.
LEMMA PlainSteps ==
    ASSUME IInv, NEW e \in End, Post(e) \/ PostMessages(e) \/ Answered(e) \/ CallFails(e)
    PROVE  IInv'
<1> USE DEF IInv
<1>1. PICK S : net \in [End -> Seq(S)]
  BY SMTT(20) DEF Wired
<1>2. up' = up /\ state' = state
  BY DEF Post, PostMessages, Answered, CallFails
<1>3. Peer(e) \in End
  BY DEF Peer, End
<1>4. CASE Post(e)
  <2>1. PICK queue : MaybeDeliver(e, queue, net)
    BY <1>4 DEF Post
  <2> QED BY <1>1, <1>2, <2>1, Delivers, SMTT(20)
<1>5. CASE PostMessages(e)
  <2>1. PICK kind \in {"ok", "error"} :
           net' = Taken(e, <<[kind |-> kind, call |-> Head(net[Peer(e)]).call]>>)
    BY <1>5 DEF PostMessages
  <2> DEFINE y == [kind |-> kind, call |-> Head(net[Peer(e)]).call]
             T == S \cup {y}
  <2>2. y.kind \notin Control \cup {"resumed"}
    BY DEF Control
  <2>3. net' = Taken(e, <<y>>)
    BY <2>1
  <2> HIDE DEF y
  <2>4. net \in [End -> Seq(T)] /\ y \in T /\ <<y>> \in {<<>>, <<y>>}
    BY <1>1, Widened
  <2>5. net[Peer(e)] # <<>> /\ net[Peer(e)][1].kind \notin Control \cup {"resumed"}
    <3>1. Arrives(e, {"post"})
      BY <1>5 DEF PostMessages
    <3> QED BY <1>1, <1>3, <3>1, SMTT(20) DEF Arrives, Control
  <2> HIDE DEF T
  <2>6. net' \in [End -> Seq(T)] /\ HandshakeOf(net', up, state)
    BY <2>2, <2>3, <2>4, <2>5, Answers, SMTT(20)
  <2> QED BY <1>2, <2>6, SMTT(20) DEF Wired
<1>6. CASE Answered(e)
  <2> DEFINE y == net[Peer(e)][1]
  <2>1. net[Peer(e)] # <<>> /\ y.kind \notin Control \cup {"resumed"} /\ y \in S
    BY <1>1, <1>3, <1>6, SMTT(20) DEF Answered, Arrives, Control
  <2>2. net' = Taken(e, <<>>) /\ <<>> \in {<<>>, <<y>>}
    BY <1>6 DEF Answered
  <2>3. net' \in [End -> Seq(S)] /\ HandshakeOf(net', up, state)
    BY <1>1, <2>1, <2>2, Answers
  <2> QED BY <1>2, <2>3, SMTT(20) DEF Wired
<1>7. CASE CallFails(e)
  BY <1>2, <1>7 DEF CallFails
<1> QED BY <1>4, <1>5, <1>6, <1>7

\* The client's connection breaks, and it notices.
LEMMA ConnectionSteps ==
    ASSUME IInv, Disconnect \/ OnDetached \/ ResumeBegin
    PROVE  IInv'
<1> USE DEF IInv
<1>1. PICK S : net \in [End -> Seq(S)]
  BY DEF Wired
<1>2. /\ net["client"] \in Seq(S) /\ net["agent"] \in Seq(S)
      /\ state["client"] \in Status /\ state["agent"] \in Status
  BY <1>1 DEF End
<1>3. Handshake(net["client"], net["agent"], up, state["client"], state["agent"])
  BY DEF HandshakeOf
<1>4. CASE Disconnect
  <2> DEFINE x == [kind |-> "interrupt"]
             T == S \cup {x}
  <2>1. /\ up' = FALSE /\ state' = state
    BY <1>4 DEF Disconnect, endVars
  <2>2. PICK n \in Relayed(net["client"]) :
           net' = [e \in End |-> IF e = "client" THEN Append(SubSeq(net[e], 1, n), x) ELSE <<>>]
    BY <1>4 DEF Disconnect
  <2>3. net'["client"] = Append(SubSeq(net["client"], 1, n), x) /\ net'["agent"] = <<>>
    BY <2>2 DEF End
  <2>4. n \in 0 .. Len(net["client"])
    BY <1>2, <2>2 DEF Relayed
  <2>5. x.kind = "interrupt" /\ x \in T
    OBVIOUS
  <2>6. net["client"] \in Seq(T) /\ net["agent"] \in Seq(T)
    BY <1>1, Widened, SMTT(20) DEF End
  <2> HIDE DEF x, T
  <2>7. Handshake(net'["client"], net'["agent"], FALSE, state["client"], state["agent"])
    BY <1>2, <1>3, <2>3, <2>4, <2>5, <2>6, ConnectionBreaks
  <2>8. Append(SubSeq(net["client"], 1, n), x) \in Seq(T) /\ <<>> \in Seq(T)
    BY <2>4, <2>5, <2>6
  <2>9. net' \in [End -> Seq(T)]
    BY <2>2, <2>8 DEF End
  <2> QED BY <2>1, <2>7, <2>9 DEF HandshakeOf, Wired
<1>5. CASE OnDetached
  <2>1. /\ up = FALSE /\ up' = FALSE /\ net' = net /\ state' \in [End -> Status]
        /\ state'["client"] = "interrupted" /\ state'["agent"] = state["agent"]
    BY <1>5 DEF OnDetached, End, Status
  <2>2. Handshake(net["client"], net["agent"], FALSE, "interrupted", state["agent"])
    BY <1>3, <2>1, ClientDetached
  <2> QED BY <2>1, <2>2 DEF HandshakeOf, Wired
<1>6. CASE ResumeBegin
  <2> DEFINE x == [kind |-> "resume", batch_id |-> last_rx_batch_id["client"]]
             T == S \cup {x}
  <2>1. /\ up = FALSE /\ up' = TRUE /\ state' = state /\ state["client"] = "interrupted"
        /\ net' = [net EXCEPT !["client"] = Append(@, x)]
    BY <1>6 DEF ResumeBegin, endVars
  <2>2. x.kind = "resume" /\ x \in T
    OBVIOUS
  <2>3. net \in [End -> Seq(T)] /\ net["client"] \in Seq(T) /\ net["agent"] \in Seq(T)
    BY <1>1, Widened, SMTT(20) DEF End
  <2> HIDE DEF x, T
  <2>4. /\ net' \in [End -> Seq(T)]
        /\ net'["client"] = Append(net["client"], x) /\ net'["agent"] = net["agent"]
    BY <2>1, <2>2, <2>3 DEF End
  <2>5. Handshake(Append(net["client"], x), net["agent"], TRUE, "interrupted", state["agent"])
    BY <1>2, <1>3, <2>1, <2>2, <2>3, ResumeSent
  <2> QED BY <2>1, <2>4, <2>5 DEF HandshakeOf, Wired
<1> QED BY <1>4, <1>5, <1>6

\* interrupt () and resume () reach the agent.
LEMMA AgentSteps ==
    ASSUME IInv, Interrupt \/ AgentResume
    PROVE  IInv'
<1> USE DEF IInv
<1>1. PICK S : net \in [End -> Seq(S)]
  BY DEF Wired
<1>2. /\ net["client"] \in Seq(S) /\ net["agent"] \in Seq(S)
      /\ state["client"] \in Status /\ state["agent"] \in Status
  BY <1>1 DEF End
<1>3. Handshake(net["client"], net["agent"], up, state["client"], state["agent"])
  BY DEF HandshakeOf
<1>4. "agent" \in End /\ Peer("agent") = "client"
  BY DEF End, Peer
<1>5. up' = up /\ net["client"] # <<>>
  BY <1>4 DEF Interrupt, AgentResume, Arrives
<1>6. CASE Interrupt
  <2>1. /\ net["client"][1].kind = "interrupt" /\ net' = Taken("agent", <<>>)
        /\ state' \in [End -> Status] /\ state'["client"] = state["client"]
        /\ state'["agent"] = "interrupted"
    BY <1>2, <1>4, <1>6, SMTT(20) DEF Interrupt, Arrives, Status, End
  <2>2. <<>> \in Seq(S) /\ net["agent"] \o <<>> = net["agent"]
    BY <1>2
  <2>3. /\ net' \in [End -> Seq(S)] /\ net'["client"] = Tail(net["client"])
        /\ net'["agent"] = net["agent"]
    BY <1>1, <1>5, <2>1, <2>2, AgentTook
  <2>4. Handshake(Tail(net["client"]), net["agent"], up, state["client"], "interrupted")
    BY <1>2, <1>3, <1>5, <2>1, AgentInterrupted
  <2> QED BY <1>5, <2>1, <2>3, <2>4 DEF HandshakeOf, Wired
<1>7. CASE AgentResume
  <2> DEFINE x == [kind |-> "resumed", batch_id |-> last_rx_batch_id["agent"]]
             T == S \cup {x}
             t == Tail(net["client"])
  <2>1. /\ net["client"][1].kind = "resume" /\ net' = Taken("agent", <<x>>)
        /\ state' \in [End -> Status] /\ state'["client"] = state["client"]
        /\ state'["agent"] = "live"
    BY <1>2, <1>4, <1>7 DEF AgentResume, Arrives, Status, End
  <2>2. x.kind = "resumed" /\ x \in T
    OBVIOUS
  <2>3. net \in [End -> Seq(T)] /\ net["client"] \in Seq(T) /\ net["agent"] \in Seq(T)
    BY <1>1, Widened DEF End
  <2> HIDE DEF x, T
  <2>4. <<x>> \in Seq(T) /\ net["agent"] \o <<x>> = Append(net["agent"], x) /\ t \in Seq(T)
    BY <1>5, <2>2, <2>3, SMTT(20)
  <2>5. /\ net' \in [End -> Seq(T)] /\ net'["client"] = t
        /\ \/ net'["agent"] = net["agent"]
           \/ /\ up /\ net'["agent"] = Append(net["agent"], x)
              /\ \A i \in DOMAIN t : t[i].kind # "interrupt"
    BY <1>5, <2>1, <2>3, <2>4, AgentTook
  <2>6. /\ \A i \in DOMAIN net["agent"] : net["agent"][i].kind # "resumed"
        /\ up => state["client"] = "interrupted"
        /\ Handshake(t, net["agent"], up, state["client"], "live")
        /\ (\A i \in DOMAIN t : t[i].kind # "interrupt") => Quiet(t)
    <3> HIDE DEF IInv
    <3>1. up \in BOOLEAN
      BY DEF IInv
    <3>2. /\ \A i \in DOMAIN net["agent"] : net["agent"][i].kind # "resumed"
          /\ up => state["client"] = "interrupted"
      BY <1>2, <1>3, <1>5, <2>1, <3>1, ResumeArrives
    <3>3. Handshake(Tail(net["client"]), net["agent"], up, state["client"], "live")
      BY <1>2, <1>3, <1>5, <2>1, <3>1, ResumeArrives
    <3>4. (\A i \in DOMAIN Tail(net["client"]) : Tail(net["client"])[i].kind # "interrupt")
             => Quiet(Tail(net["client"]))
      BY <1>2, <1>3, <1>5, <2>1, <3>1, ResumeArrives
    <3> QED BY <3>2, <3>3, <3>4
  <2> HIDE DEF t
  <2>7. ASSUME up = TRUE, \A i \in DOMAIN t : t[i].kind # "interrupt"
        PROVE  Handshake(t, Append(net["agent"], x), up, state["client"], "live")
    <3>1. Handshake(t, net["agent"], TRUE, "interrupted", "live") /\ Quiet(t)
      BY <2>6, <2>7
    <3>2. Handshake(t, Append(net["agent"], x), TRUE, "interrupted", "live")
      BY <2>2, <2>3, <2>4, <2>6, <3>1, AgentResumed
    <3> QED BY <2>6, <2>7, <3>2
  <2>8. Handshake(net'["client"], net'["agent"], up, state["client"], "live")
    BY <2>5, <2>6, <2>7
  <2> QED BY <1>5, <2>1, <2>5, <2>8 DEF HandshakeOf, Wired
<1> QED BY <1>6, <1>7

\* What resume () scheduled at the agent, and the rest of resume () at the client: both end
\* with a delivery.
LEMMA DeliverySteps ==
    ASSUME IInv, AgentIdle \/ ResumeEnd
    PROVE  IInv'
<1> USE DEF IInv
<1>1. PICK S : net \in [End -> Seq(S)]
  BY DEF Wired
<1>2. "agent" \in End /\ "client" \in End /\ Peer("client") = "agent"
  BY DEF End, Peer
<1>3. CASE AgentIdle
  <2>1. up' = up /\ state' = state /\ MaybeDeliver("agent", pending_messages["agent"], net)
    BY <1>3 DEF AgentIdle
  <2> QED BY <1>1, <1>2, <2>1, Delivers
<1>4. CASE ResumeEnd
  <2> DEFINE queue == Prune(pending_messages["client"], Head(net["agent"]).batch_id)
             w == Taken("client", <<>>)
  <2>1. /\ up' = up /\ MaybeDeliver("client", queue, w)
        /\ state' = [state EXCEPT !["client"] = "live"]
        /\ net["agent"] # <<>> /\ net["agent"][1].kind = "resumed"
    BY <1>1, <1>2, <1>4, SMTT(20) DEF ResumeEnd, Arrives
  <2>2. /\ state' \in [End -> Status] /\ state'["client"] = "live"
        /\ state'["agent"] = state["agent"]
    BY <2>1 DEF End, Status
  <2>3. /\ net["client"] \in Seq(S) /\ net["agent"] \in Seq(S) /\ <<>> \in Seq(S)
        /\ state["client"] \in Status /\ state["agent"] \in Status
        /\ net["client"] \o <<>> = net["client"]
    BY <1>1, <1>2
  <2>4. /\ w \in [End -> Seq(S)] /\ w["agent"] = Tail(net["agent"])
        /\ w["client"] = net["client"]
    BY <1>1, <2>1, ClientTook, SMTT(20)
  <2>5. Handshake(net["client"], Tail(net["agent"]), up, "live", state["agent"])
    BY <2>1, <2>3, ResumedArrives, SMTT(20) DEF HandshakeOf
  <2> HIDE DEF w, queue
  <2>6. HandshakeOf(w, up, state')
    BY <2>2, <2>4, <2>5, SMTT(20) DEF HandshakeOf
  <2> QED BY <1>2, <2>1, <2>2, <2>4, <2>6, Delivers
<1> QED BY <1>3, <1>4

\* Both ends start out live, with nothing under way.
LEMMA HandshakeInit == Init => IInv
<1> SUFFICES ASSUME Init PROVE IInv
  OBVIOUS
<1>1. <<>> \in Seq({}) /\ up = TRUE /\ net = [e \in End |-> <<>>]
  BY DEF Init
<1>2. Wired(net) /\ net["client"] = <<>> /\ net["agent"] = <<>>
  BY <1>1 DEF Wired, End
<1>3. state \in [End -> Status] /\ state["client"] = "live" /\ state["agent"] = "live"
  BY DEF Init, End, Status
<1> QED BY <1>1, <1>2, <1>3, SMTT(20) DEF IInv, HandshakeOf, Handshake, Quiet

LEMMA HandshakeStep == IInv /\ [Next]_vars => IInv'
<1> SUFFICES ASSUME IInv, [Next]_vars PROVE IInv'
  OBVIOUS
<1>1. ASSUME NEW e \in End, Post(e) \/ PostMessages(e) \/ Answered(e) \/ CallFails(e)
      PROVE  IInv'
  BY <1>1, PlainSteps
<1>2. CASE UNCHANGED vars
  BY <1>2 DEF IInv, Wired, HandshakeOf, vars, endVars
<1> QED BY <1>1, <1>2, ConnectionSteps, AgentSteps, DeliverySteps DEF Next

\* A client that believes its session is live, over a connection that is up, has an agent
\* that is live too: Session.resume () does not return before the agent's resume () has,
\* and the interrupt () of an earlier connection cannot arrive after it.
THEOREM ResumedBothAlways == Spec => []ResumedBoth
<1>1. IInv => ResumedBoth
  BY DEF IInv, HandshakeOf, Handshake, ResumedBoth
<1> QED BY <1>1, HandshakeInit, HandshakeStep, PTL DEF Spec

\* resume () never reaches an agent that is not interrupted, so that it never fails with
\* the "Invalid operation" error: the server's interrupt () of the broken connection is
\* ahead of it.
THEOREM ResumeIsValidAlways == Spec => []ResumeIsValid
<1>1. ASSUME IInv PROVE ResumeIsValid
  <2>1. PICK S : net \in [End -> Seq(S)]
    BY <1>1 DEF IInv, Wired
  <2> QED BY <1>1, <2>1, ResumeArrives DEF IInv, HandshakeOf, ResumeIsValid, Arrives, Peer, End
<1> QED BY <1>1, HandshakeInit, HandshakeStep, PTL DEF Spec
=============================================================================
