---------------------------- MODULE RolesProofs -----------------------------
(***************************************************************************)
(* What a role takes from the shared topic, for any number of processes in *)
(* any roles, both flows of the binaries, any order of discovery and any   *)
(* failures.  The addresses of a message tell its kind (Shape), a listener *)
(* that got it has its addresses (Heeded), and a process sends only where  *)
(* its script lets it (Script).  A process listens until it ends, so that  *)
(* nothing sent to it is lost (Attentive); and of two partners alone on    *)
(* their domain neither ends before the other has sent (PairInv).          *)
(***************************************************************************)
EXTENDS Roles, SequenceTheorems, FiniteSetTheorems, TLAPS

Shape(m) ==
  /\ m \in Message
  /\ \/ m.kind = "publish" /\ m.source.resource = "topic" /\ m.sink = NoUri
     \/ m.kind = "notification" /\ m.source.resource = "topic" /\ m.sink.resource = "endpoint"
     \/ m.kind = "request" /\ m.source.resource = "endpoint" /\ m.sink.resource = "method"
     \/ m.kind = "response" /\ m.source.resource = "method" /\ m.sink.resource = "endpoint"

Heeded(p, m) == Shape(m) /\ Role[p] \notin OneWay /\ Matches(Filters(p), m)

Traffic ==
  /\ \A w \in wire : Shape(w.message)
  /\ \A p \in Procs : \A k \in 1..Len(inbox[p]) : Heeded(p, inbox[p][k])
  /\ \A p \in Procs : observed[p] # NoMessage => Heeded(p, observed[p])

Script ==
  \A p \in Procs :
    /\ Role[p] \in OneWay => p \notin listening /\ pc[p] \notin {"register", "receive"}
    /\ Role[p] \in {"subscriber", "notifyee"} =>
         pc[p] # "send" /\ (pc[p] = "wait" => CopyMinimized)
    /\ Role[p] = "server" /\ (pc[p] = "send" \/ (pc[p] = "wait" /\ ~CopyMinimized)) =>
         observed[p] # NoMessage

IInv == TypeOK /\ Traffic /\ Script
-----------------------------------------------------------------------------
LEMMA RoleNames ==
  \A p \in Procs :
    /\ Role[p] \in {"publisher", "notifier", "client", "subscriber", "notifyee", "server"}
    /\ Local[p] \in Authorities /\ Peer[p] \in Authorities
  BY RolesAssumption DEF Active, Passive, OneWay, Authorities

LEMMA NoUriKind == NoUri.resource \notin {"topic", "method", "endpoint"}
  BY DEF NoUri

LEMMA UriKinds ==
  /\ \A u \in Uris : u.resource # "" /\ u # NoUri
  /\ \A a \in Authorities, res \in {"topic", "method", "endpoint"} :
       Uri(a, res) \in Uris /\ Uri(a, res).resource = res /\ Uri(a, res).authority = a
  <1>1. NoUri.resource = ""
    BY DEF NoUri
  <1>2. \A u \in Uris : u.resource # ""
    BY DEF Uris
  <1>3. ASSUME NEW a \in Authorities, NEW res \in {"topic", "method", "endpoint"}
        PROVE  Uri(a, res) \in Uris /\ Uri(a, res).resource = res /\ Uri(a, res).authority = a
    BY DEF Uri, Uris
  <1>4. QED
    BY <1>1, <1>2, <1>3

(* What a role takes for its own is of its kind.                           *)
LEMMA HeededIsRight ==
  ASSUME NEW p \in Procs, NEW m, Heeded(p, m)
  PROVE  /\ m.kind = Expected(p) /\ m.source.authority = Peer[p]
         /\ m.sink \in {NoUri} \cup {Uri(Local[p], res) : res \in {"method", "endpoint"}}
  <1>1. /\ m.source = Filters(p).source /\ m.sink = Filters(p).sink
        /\ Role[p] \in {"subscriber", "notifyee", "client", "server"}
    BY RoleNames DEF Heeded, Matches, OneWay
  <1>2. /\ \/ m.kind = "publish" /\ m.source.resource = "topic" /\ m.sink = NoUri
           \/ m.kind = "notification" /\ m.source.resource = "topic" /\ m.sink.resource = "endpoint"
           \/ m.kind = "request" /\ m.source.resource = "endpoint" /\ m.sink.resource = "method"
           \/ m.kind = "response" /\ m.source.resource = "method" /\ m.sink.resource = "endpoint"
        /\ NoUri.resource \notin {"topic", "method", "endpoint"}
    BY NoUriKind DEF Heeded, Shape
  <1>3. CASE Role[p] = "subscriber"
    <2>1. Filters(p) = [source |-> Uri(Peer[p], "topic"), sink |-> NoUri]
      BY <1>3 DEF Filters
    <2>2. m.source = Uri(Peer[p], "topic") /\ m.sink = NoUri
      BY <1>1, <2>1
    <2>3. /\ m.source.resource = "topic" /\ m.source.authority = Peer[p]
      BY <2>2 DEF Uri
    <2>4. m.kind = "publish"
      BY <1>2, <2>2, <2>3
    <2>5. Expected(p) = "publish"
      BY <1>3 DEF Expected
    <2>6. m.sink \in {NoUri} \cup {Uri(Local[p], res) : res \in {"method", "endpoint"}}
      BY <2>2
    <2>7. QED
      BY <2>3, <2>4, <2>5, <2>6
  <1>4. CASE Role[p] = "notifyee"
    <2>1. Filters(p) = [source |-> Uri(Peer[p], "topic"), sink |-> Uri(Local[p], "endpoint")]
      BY <1>4 DEF Filters
    <2>2. m.source = Uri(Peer[p], "topic") /\ m.sink = Uri(Local[p], "endpoint")
      BY <1>1, <2>1
    <2>3. /\ m.source.resource = "topic" /\ m.source.authority = Peer[p]
          /\ m.sink.resource = "endpoint"
      BY <2>2 DEF Uri
    <2>4. m.kind = "notification"
      BY <1>2, <2>2, <2>3
    <2>5. Expected(p) = "notification"
      BY <1>4 DEF Expected
    <2>6. m.sink \in {NoUri} \cup {Uri(Local[p], res) : res \in {"method", "endpoint"}}
      BY <2>2
    <2>7. QED
      BY <2>3, <2>4, <2>5, <2>6
  <1>5. CASE Role[p] = "client"
    <2>1. Filters(p) = [source |-> Uri(Peer[p], "method"), sink |-> Uri(Local[p], "endpoint")]
      BY <1>5 DEF Filters
    <2>2. m.source = Uri(Peer[p], "method") /\ m.sink = Uri(Local[p], "endpoint")
      BY <1>1, <2>1
    <2>3. /\ m.source.resource = "method" /\ m.source.authority = Peer[p]
          /\ m.sink.resource = "endpoint"
      BY <2>2 DEF Uri
    <2>4. m.kind = "response"
      BY <1>2, <2>2, <2>3
    <2>5. Expected(p) = "response"
      BY <1>5 DEF Expected
    <2>6. m.sink \in {NoUri} \cup {Uri(Local[p], res) : res \in {"method", "endpoint"}}
      BY <2>2
    <2>7. QED
      BY <2>3, <2>4, <2>5, <2>6
  <1>6. CASE Role[p] = "server"
    <2>1. Filters(p) = [source |-> Uri(Peer[p], "endpoint"), sink |-> Uri(Local[p], "method")]
      BY <1>6 DEF Filters
    <2>2. m.source = Uri(Peer[p], "endpoint") /\ m.sink = Uri(Local[p], "method")
      BY <1>1, <2>1
    <2>3. /\ m.source.resource = "endpoint" /\ m.source.authority = Peer[p]
          /\ m.sink.resource = "method"
      BY <2>2 DEF Uri
    <2>4. m.kind = "request"
      BY <1>2, <2>2, <2>3
    <2>5. Expected(p) = "request"
      BY <1>6 DEF Expected
    <2>6. m.sink \in {NoUri} \cup {Uri(Local[p], res) : res \in {"method", "endpoint"}}
      BY <2>2
    <2>7. QED
      BY <2>3, <2>4, <2>5, <2>6
  <1>7. QED
    BY <1>1, <1>3, <1>4, <1>5, <1>6

LEMMA OutboundShape ==
  ASSUME NEW p \in Procs, Role[p] \in Active
  PROVE  Shape(Outbound(p))
  <1>1. CASE Role[p] = "publisher"
    BY <1>1, RoleNames, UriKinds DEF Outbound, Shape, Message, Kinds
  <1>2. CASE Role[p] = "notifier"
    BY <1>2, RoleNames, UriKinds DEF Outbound, Shape, Message, Kinds
  <1>3. CASE Role[p] = "client"
    BY <1>3, RoleNames, UriKinds DEF Outbound, Shape, Message, Kinds
  <1>4. QED
    BY <1>1, <1>2, <1>3 DEF Active, OneWay

LEMMA ResponseShape ==
  ASSUME NEW p \in Procs, Role[p] = "server", NEW m, Heeded(p, m)
  PROVE  Shape(Response(p, m))
  <1>1. m.kind = "request"
    BY HeededIsRight DEF Expected
  <1>2. /\ m.source.resource = "endpoint" /\ m.sink.resource = "method"
        /\ m.source \in Uris /\ m.sink \in Uris \cup {NoUri}
    BY <1>1 DEF Heeded, Shape, Message
  <1>3. m.sink \in Uris
    BY <1>2, NoUriKind
  <1>4. QED
    BY <1>2, <1>3 DEF Response, Shape, Message, Kinds

LEMMA InitInv == Init => IInv
  <1> SUFFICES ASSUME Init PROVE IInv
    OBVIOUS
  <1>1. TypeOK
    BY EmptySeq DEF Init, TypeOK
  <1>2. Traffic /\ Script
    BY DEF Init, Traffic, Script
  <1>3. QED
    BY <1>1, <1>2 DEF IInv
-----------------------------------------------------------------------------
(* A process that ends takes its part of the state with it.                *)
LEMMA Ends ==
  ASSUME IInv, NEW p \in Procs, NEW how \in {"done", "failed"}, Exit(p, how),
         wire' \subseteq Envelope, \A w \in wire' : Shape(w.message),
         observed' \in [Procs -> Message \cup {NoMessage}],
         \A q \in Procs : observed'[q] # NoMessage => Heeded(q, observed'[q]),
         \A q \in Procs \ {p} : observed'[q] = observed[q],
         sent' \subseteq [message : Message, readers : SUBSET Procs, listeners : SUBSET Procs]
  PROVE  IInv'
  <1>1. /\ pc' = [pc EXCEPT ![p] = how] /\ listening' = listening \ {p}
        /\ inbox' = [inbox EXCEPT ![p] = <<>>] /\ known' = [known EXCEPT ![p] = {}]
    BY DEF Exit
  <1>2. TypeOK'
    BY <1>1, EmptySeq DEF IInv, TypeOK
  <1>3. Traffic'
    <2>1. \A q \in Procs : \A k \in 1..Len(inbox'[q]) : Heeded(q, inbox'[q][k])
      BY <1>1, EmptySeq DEF IInv, TypeOK, Traffic
    <2>2. QED
      BY <2>1 DEF Traffic, Heeded, Shape, Matches
  <1>4. Script'
    BY <1>1 DEF IInv, TypeOK, Script
  <1>5. QED
    BY <1>2, <1>3, <1>4 DEF IInv

(* The other steps of a process go on with the script or leave it alone.   *)
LEMMA Unhurt ==
  ASSUME IInv, TypeOK', Script', \A w \in wire' : w \in wire, UNCHANGED <<inbox, observed>>
  PROVE  IInv'
  BY DEF IInv, Traffic, Heeded, Shape, Matches

LEMMA ScriptStep ==
  ASSUME IInv, NEW p \in Procs, Create(p) \/ Register(p) \/ WaitReady(p)
  PROVE  IInv'
  <1> USE DEF IInv
  <1> PICK next : pc' = [pc EXCEPT ![p] = next]
    BY DEF Create, Register, WaitReady
  <1>1. /\ UNCHANGED <<known, wire, inbox, observed, sent>>
        /\ listening' \subseteq Procs
        /\ \A q \in Procs \ {p} : q \in listening' <=> q \in listening
    BY DEF Create, Register, WaitReady, TypeOK
  <1>2. /\ pc'[p] \in {"register", "wait", "send", "receive"}
        /\ Role[p] \in OneWay => pc'[p] \in {"wait", "send"} /\ p \notin listening'
        /\ Role[p] \in {"subscriber", "notifyee"} =>
             pc'[p] # "send" /\ (pc'[p] = "wait" => CopyMinimized)
        /\ Role[p] = "server" /\ (pc'[p] = "send" \/ (pc'[p] = "wait" /\ ~CopyMinimized)) =>
             observed[p] # NoMessage
    <2>1. p \in DOMAIN pc
      BY DEF TypeOK
    <2>2. CASE Create(p)
      BY <2>1, <2>2, RoleNames, RolesAssumption DEF Create, AfterCreate, OneWay, Script
    <2>3. CASE Register(p)
      BY <2>1, <2>3, RoleNames, RolesAssumption DEF Register, AfterRegister, OneWay, Script
    <2>4. CASE WaitReady(p)
      BY <2>1, <2>4, RoleNames, RolesAssumption DEF WaitReady, AfterWait, OneWay, Script
    <2>5. QED
      BY <2>2, <2>3, <2>4
  <1>3. TypeOK'
    BY <1>1, <1>2 DEF TypeOK
  <1>4. Script'
    BY <1>1, <1>2 DEF TypeOK, Script
  <1>5. QED
    BY <1>1, <1>3, <1>4, Unhurt

LEMMA FailStep ==
  ASSUME IInv, NEW p \in Procs, Fails(p)
  PROVE  IInv'
  <1>1. /\ Exit(p, "failed") /\ wire' = {w \in wire : w.to # p}
        /\ UNCHANGED <<observed, sent>>
    BY DEF Fails, StepFails, ReceiveTimesOut
  <1>2. QED
    BY <1>1, Ends DEF IInv, TypeOK, Traffic

LEMMA SendStep ==
  ASSUME IInv, NEW p \in Procs, Send(p)
  PROVE  IInv'
  <1> DEFINE m == IF Role[p] = "server" THEN Response(p, observed[p]) ELSE Outbound(p)
             out == {[to |-> q, message |-> m] : q \in {q \in known[p] : Alive(q)}}
             record == [message |-> m, readers |-> known[p], listeners |-> listening]
  <1>1. /\ pc[p] = "send" /\ sent' = sent \cup {record} /\ UNCHANGED observed
        /\ \/ Exit(p, "done") /\ wire' = {w \in wire \cup out : w.to # p}
           \/ /\ AfterSend(p) # "done" /\ pc' = [pc EXCEPT ![p] = AfterSend(p)]
              /\ wire' = wire \cup out /\ UNCHANGED <<known, listening, inbox>>
    BY DEF Send
  <1>2. Shape(m)
    <2>1. CASE Role[p] = "server"
      <3>1. observed[p] # NoMessage
        BY <1>1, <2>1 DEF IInv, Script
      <3>2. Heeded(p, observed[p])
        BY <3>1 DEF IInv, Traffic
      <3>3. QED
        BY <2>1, <3>2, ResponseShape
    <2>2. CASE Role[p] # "server"
      <3>1. Role[p] \in Active
        BY <1>1, <2>2, RoleNames DEF IInv, Script, Active, OneWay
      <3>2. QED
        BY <2>2, <3>1, OutboundShape
    <2>3. QED
      BY <2>1, <2>2
  <1>3. m \in Message
    BY <1>2 DEF Shape
  <1> HIDE DEF m
  <1>4. out \subseteq Envelope /\ \A w \in out : Shape(w.message)
    BY <1>2, <1>3 DEF IInv, TypeOK, Envelope
  <1>5. sent' \subseteq [message : Message, readers : SUBSET Procs, listeners : SUBSET Procs]
    BY <1>1, <1>3 DEF IInv, TypeOK
  <1> HIDE DEF out, record
  <1>6. CASE Exit(p, "done") /\ wire' = {w \in wire \cup out : w.to # p}
    BY <1>1, <1>4, <1>5, <1>6, Ends DEF IInv, TypeOK, Traffic
  <1>7. CASE /\ AfterSend(p) # "done" /\ pc' = [pc EXCEPT ![p] = AfterSend(p)]
             /\ wire' = wire \cup out /\ UNCHANGED <<known, listening, inbox>>
    <2>1. Role[p] = "client" /\ pc' = [pc EXCEPT ![p] = "receive"]
      BY <1>7 DEF AfterSend
    <2>2. TypeOK'
      BY <1>1, <1>4, <1>5, <1>7, <2>1 DEF IInv, TypeOK
    <2>3. Script'
      BY <1>1, <1>7, <2>1 DEF IInv, TypeOK, Script, OneWay
    <2>4. Traffic'
      BY <1>1, <1>4, <1>7 DEF IInv, Traffic, Heeded, Shape, Matches
    <2>5. QED
      BY <2>2, <2>3, <2>4 DEF IInv
  <1>8. QED
    BY <1>1, <1>6, <1>7

LEMMA ReceiveStep ==
  ASSUME IInv, NEW p \in Procs, Receive(p)
  PROVE  IInv'
  <1> DEFINE m == Head(inbox[p])
  <1>1. /\ pc[p] = "receive" /\ inbox[p] # <<>>
        /\ observed' = [observed EXCEPT ![p] = m] /\ UNCHANGED sent
        /\ \/ Exit(p, "done") /\ wire' = {w \in wire : w.to # p}
           \/ /\ AfterReceive(p) # "done" /\ inbox' = [inbox EXCEPT ![p] = Tail(inbox[p])]
              /\ pc' = [pc EXCEPT ![p] = AfterReceive(p)]
              /\ UNCHANGED <<known, wire, listening>>
    BY DEF Receive
  <1>2. inbox[p] \in Seq(Message) /\ Len(inbox[p]) \in Nat \ {0}
    BY <1>1, LenProperties, EmptySeq DEF IInv, TypeOK
  <1>3. /\ m = inbox[p][1] /\ m \in Message /\ Tail(inbox[p]) \in Seq(Message)
        /\ Len(Tail(inbox[p])) = Len(inbox[p]) - 1
        /\ \A k \in 1..Len(Tail(inbox[p])) : Tail(inbox[p])[k] = inbox[p][k + 1]
    BY <1>1, <1>2, HeadTailProperties
  <1>4. Heeded(p, m)
    BY <1>2, <1>3 DEF IInv, Traffic
  <1>5. m # NoMessage
    BY <1>4 DEF Heeded, Shape, NoMessage
  <1> HIDE DEF m
  <1>6. /\ observed' \in [Procs -> Message \cup {NoMessage}]
        /\ \A q \in Procs : observed'[q] # NoMessage => Heeded(q, observed'[q])
        /\ \A q \in Procs \ {p} : observed'[q] = observed[q]
        /\ observed'[p] # NoMessage
    BY <1>1, <1>3, <1>4, <1>5 DEF IInv, TypeOK, Traffic
  <1>7. CASE Exit(p, "done") /\ wire' = {w \in wire : w.to # p}
    BY <1>1, <1>6, <1>7, Ends DEF IInv, TypeOK, Traffic
  <1>8. CASE /\ AfterReceive(p) # "done" /\ inbox' = [inbox EXCEPT ![p] = Tail(inbox[p])]
             /\ pc' = [pc EXCEPT ![p] = AfterReceive(p)]
             /\ UNCHANGED <<known, wire, listening>>
    <2>1. Role[p] = "server" /\ AfterReceive(p) \in {"send", "wait"}
      BY <1>8 DEF AfterReceive
    <2>2. TypeOK'
      BY <1>1, <1>3, <1>6, <1>8, <2>1 DEF IInv, TypeOK
    <2>3. Script'
      BY <1>6, <1>8, <2>1 DEF IInv, TypeOK, Script, OneWay
    <2>4. \A k \in 1..Len(inbox'[p]) : Heeded(p, inbox'[p][k])
      BY <1>2, <1>3, <1>8 DEF IInv, TypeOK, Traffic
    <2>5. Traffic'
      <3>1. \A w \in wire' : Shape(w.message)
        BY <1>8 DEF IInv, Traffic
      <3>2. ASSUME NEW q \in Procs PROVE \A k \in 1..Len(inbox'[q]) : Heeded(q, inbox'[q][k])
        <4>1. CASE q = p
          BY <2>4, <4>1
        <4>2. CASE q # p
          <5>1. inbox'[q] = inbox[q]
            BY <1>8, <4>2 DEF IInv, TypeOK
          <5>2. QED
            BY <5>1 DEF IInv, Traffic
        <4>3. QED
          BY <4>1, <4>2
      <3>3. QED
        BY <1>6, <3>1, <3>2 DEF Traffic, Heeded, Shape, Matches
    <2>6. QED
      BY <2>2, <2>3, <2>5 DEF IInv
  <1>9. QED
    BY <1>1, <1>7, <1>8

LEMMA DeliverStep ==
  ASSUME IInv, NEW w \in wire, Deliver(w)
  PROVE  IInv'
  <1> DEFINE p == w.to
             m == w.message
  <1>1. p \in Procs /\ Shape(m) /\ m \in Message /\ w \in Envelope
    BY DEF IInv, TypeOK, Traffic, Envelope
  <1>2. /\ wire' = wire \ {w} /\ UNCHANGED <<pc, known, listening, observed, sent>>
        /\ \/ UNCHANGED inbox
           \/ /\ p \in listening /\ Matches(Filters(p), m)
              /\ inbox' = [inbox EXCEPT ![p] = Append(inbox[p], m)]
    BY DEF Deliver
  <1> HIDE DEF p, m
  <1>3. Script'
    BY <1>2 DEF IInv, Script
  <1>4. CASE UNCHANGED inbox
    BY <1>1, <1>2, <1>3, <1>4, Unhurt DEF IInv, TypeOK
  <1>5. CASE /\ p \in listening /\ Matches(Filters(p), m)
             /\ inbox' = [inbox EXCEPT ![p] = Append(inbox[p], m)]
    <2>1. Heeded(p, m)
      BY <1>1, <1>5 DEF Heeded, IInv, Script
    <2>2. inbox[p] \in Seq(Message)
      BY <1>1 DEF IInv, TypeOK
    <2>3. /\ Append(inbox[p], m) \in Seq(Message) /\ Len(inbox[p]) \in Nat
          /\ Len(Append(inbox[p], m)) = Len(inbox[p]) + 1
          /\ \A k \in 1..Len(inbox[p]) : Append(inbox[p], m)[k] = inbox[p][k]
          /\ Append(inbox[p], m)[Len(inbox[p]) + 1] = m
      BY <1>1, <2>2, AppendProperties, LenProperties
    <2>4. TypeOK'
      BY <1>1, <1>2, <1>5, <2>3 DEF IInv, TypeOK
    <2>5. \A k \in 1..Len(Append(inbox[p], m)) : Heeded(p, Append(inbox[p], m)[k])
      BY <1>1, <2>1, <2>3 DEF IInv, Traffic
    <2>6. \A q \in Procs : \A k \in 1..Len(inbox'[q]) : Heeded(q, inbox'[q][k])
      <3>1. \A q \in Procs \ {p} : inbox'[q] = inbox[q]
        BY <1>5 DEF IInv, TypeOK
      <3>2. inbox'[p] = Append(inbox[p], m)
        BY <1>1, <1>5 DEF IInv, TypeOK
      <3>3. QED
        BY <2>5, <3>1, <3>2 DEF IInv, Traffic
    <2>7. (\A x \in wire' : Shape(x.message)) /\ UNCHANGED observed
      BY <1>2 DEF IInv, Traffic
    <2>8. Traffic'
      BY <2>6, <2>7 DEF IInv, Traffic, Heeded, Shape, Matches
    <2>9. QED
      BY <1>3, <2>4, <2>8 DEF IInv
  <1>6. QED
    BY <1>2, <1>4, <1>5

LEMMA InvStep == IInv /\ [Next]_vars => IInv'
  <1> SUFFICES ASSUME IInv, [Next]_vars PROVE IInv'
    OBVIOUS
  <1>1. ASSUME NEW p \in Procs, Run(p) \/ Fails(p) PROVE IInv'
    BY <1>1, ScriptStep, FailStep, SendStep, ReceiveStep DEF Run
  <1>2. ASSUME NEW p \in Procs, NEW q \in Procs, Discover(p, q) \/ Forget(p, q) PROVE IInv'
    <2>1. /\ known' \in [Procs -> SUBSET Procs]
          /\ UNCHANGED <<pc, wire, listening, inbox, observed, sent>>
      <3>1. CASE Discover(p, q)
        BY <3>1 DEF Discover, IInv, TypeOK
      <3>2. CASE Forget(p, q)
        BY <3>2 DEF Forget, IInv, TypeOK
      <3>3. QED
        BY <1>2, <3>1, <3>2
    <2>2. TypeOK' /\ Script'
      BY <2>1 DEF IInv, TypeOK, Script
    <2>3. QED
      BY <2>1, <2>2, Unhurt
  <1>3. ASSUME NEW w \in wire, Deliver(w) PROVE IInv'
    BY <1>3, DeliverStep
  <1>4. CASE UNCHANGED vars
    <2>1. TypeOK' /\ Script'
      BY <1>4 DEF vars, IInv, TypeOK, Script
    <2>2. QED
      BY <1>4, <2>1, Unhurt DEF vars
  <1>5. QED
    BY <1>1, <1>2, <1>3, <1>4 DEF Next
-----------------------------------------------------------------------------
(* The invariant holds of every behaviour.                                 *)
THEOREM Invariance == Spec => []IInv
  BY InitInv, InvStep, PTL DEF Spec

(* Every variable keeps its type: what a server answers is a message, too. *)
THEOREM TypesKept == Spec => []TypeOK
  <1>1. IInv => TypeOK
    BY DEF IInv
  <1>2. QED
    BY Invariance, <1>1, PTL

(* A role observes messages of its own pattern, from its peer and for      *)
(* itself, whatever other roles send on the topic they all share.          *)
THEOREM OwnPattern == Spec => []RightMessage
  <1>1. IInv => RightMessage
    BY HeededIsRight DEF IInv, Traffic, RightMessage
  <1>2. QED
    BY Invariance, <1>1, PTL
-----------------------------------------------------------------------------
(* Where a message is, from its send on.                                   *)
Gone(q) == pc[q] \in {"done", "failed"}
InHand(q, m) == \E k \in 1..Len(inbox[q]) : inbox[q][k] = m
Held(q, m) ==
  [to |-> q, message |-> m] \in wire \/ InHand(q, m) \/ observed[q] = m \/ Gone(q)

(* A process listens until it ends, and takes one message only.            *)
Attentive ==
  /\ \A p \in listening : Alive(p)
  /\ \A s \in sent : \A q \in s.listeners : q \in listening \/ Gone(q)
  /\ \A p \in Procs : observed[p] # NoMessage =>
       \/ Gone(p)
       \/ Role[p] = "server" /\ (pc[p] = "send" \/ (pc[p] = "wait" /\ ~CopyMinimized))

(* What a step of one process leaves of the others, and what becomes of it. *)
LEMMA RunFrame ==
  ASSUME IInv, NEW p \in Procs, Run(p) \/ Fails(p)
  PROVE  /\ ~Gone(p)
         /\ \A q \in Procs \ {p} :
              /\ UNCHANGED <<pc[q], inbox[q], observed[q]>>
              /\ q \in listening' <=> q \in listening
              /\ \A w \in wire : w.to = q => w \in wire'
         /\ (wire \subseteq wire' \/ Gone(p)')
         /\ (inbox'[p] = inbox[p] \/ Gone(p)' \/ Receive(p))
         /\ (p \in listening => p \in listening' \/ Gone(p)')
         /\ pc'[p] # "new"
         /\ (Gone(p)' => p \notin listening')
         /\ (Send(p) \/ sent' = sent) /\ (Receive(p) \/ observed' = observed)
  <1>0. DOMAIN pc = Procs /\ DOMAIN inbox = Procs /\ DOMAIN observed = Procs
    BY DEF IInv, TypeOK
  <1> USE <1>0 DEF Gone
  <1>1. CASE Create(p)
    BY <1>1 DEF Create, AfterCreate
  <1>2. CASE Register(p)
    BY <1>2 DEF Register, AfterRegister
  <1>3. CASE WaitReady(p)
    BY <1>3 DEF WaitReady, AfterWait
  <1>4. ASSUME NEW how \in {"done", "failed"}, Exit(p, how),
               \A w \in wire : w.to # p => w \in wire'
        PROVE  /\ \A q \in Procs \ {p} :
                    /\ UNCHANGED <<pc[q], inbox[q]>>
                    /\ q \in listening' <=> q \in listening
                    /\ \A w \in wire : w.to = q => w \in wire'
               /\ Gone(p)' /\ p \notin listening' /\ pc'[p] # "new"
    BY <1>4 DEF Exit
  <1>5. CASE Send(p)
    <2>1. /\ ~Gone(p) /\ UNCHANGED observed
      BY <1>5 DEF Send
    <2>2. CASE AfterSend(p) = "done"
      <3>1. Exit(p, "done") /\ \A w \in wire : w.to # p => w \in wire'
        BY <1>5, <2>2 DEF Send
      <3>2. QED
        BY <1>4, <1>5, <2>1, <3>1
    <2>3. CASE AfterSend(p) # "done"
      <3>1. /\ pc' = [pc EXCEPT ![p] = "receive"] /\ wire \subseteq wire'
            /\ UNCHANGED <<known, listening, inbox>>
        BY <1>5, <2>3 DEF Send, AfterSend
      <3>2. QED
        BY <1>5, <2>1, <3>1
    <2>4. QED
      BY <2>2, <2>3
  <1>6. CASE Receive(p)
    <2>1. /\ ~Gone(p) /\ UNCHANGED sent
          /\ \A q \in Procs \ {p} : observed'[q] = observed[q]
      BY <1>6 DEF Receive
    <2>2. CASE AfterReceive(p) = "done"
      <3>1. Exit(p, "done") /\ \A w \in wire : w.to # p => w \in wire'
        BY <1>6, <2>2 DEF Receive
      <3>2. QED
        BY <1>4, <1>6, <2>1, <3>1
    <2>3. CASE AfterReceive(p) # "done"
      BY <1>6, <2>1, <2>3 DEF Receive, AfterReceive
    <2>4. QED
      BY <2>2, <2>3
  <1>7. CASE Fails(p)
    <2>1. ~Gone(p) /\ UNCHANGED <<observed, sent>>
      BY <1>7 DEF Fails, StepFails, ReceiveTimesOut
    <2>2. Exit(p, "failed") /\ \A w \in wire : w.to # p => w \in wire'
      BY <1>7 DEF Fails, StepFails, ReceiveTimesOut
    <2>3. QED
      BY <1>4, <2>1, <2>2
  <1>8. QED
    BY <1>1, <1>2, <1>3, <1>5, <1>6, <1>7 DEF Run

LEMMA AttentiveStep == IInv /\ Attentive /\ [Next]_vars => Attentive'
  <1> SUFFICES ASSUME IInv, Attentive, [Next]_vars PROVE Attentive'
    OBVIOUS
  <1>1. ASSUME NEW p \in Procs, Run(p) \/ Fails(p) PROVE Attentive'
    <2>0. listening \subseteq Procs /\ p \in DOMAIN pc
      BY DEF IInv, TypeOK
    <2>1. /\ ~Gone(p)
          /\ \A q \in Procs \ {p} : /\ UNCHANGED <<pc[q], observed[q]>>
                                    /\ q \in listening' <=> q \in listening
          /\ (p \in listening => p \in listening' \/ Gone(p)')
          /\ (Gone(p)' => p \notin listening') /\ pc'[p] # "new"
          /\ (Send(p) \/ sent' = sent) /\ (Receive(p) \/ observed' = observed)
      BY <1>1, RunFrame
    <2>2. \A q \in listening' : Alive(q)'
      <3>1. listening' \subseteq Procs
        BY <1>1 DEF Run, Fails, Create, Register, WaitReady, Send, Receive, StepFails,
           ReceiveTimesOut, Exit, IInv, TypeOK
      <3>2. QED
        BY <2>1, <3>1 DEF Attentive, Gone, Alive
    <2>3. ASSUME NEW s \in sent', NEW q \in s.listeners PROVE q \in listening' \/ Gone(q)'
      <3>1. q \in Procs /\ (q \in listening \/ Gone(q))
        <4>1. CASE s \in sent
          BY <2>3, <4>1 DEF Attentive, IInv, TypeOK
        <4>2. CASE s \notin sent
          <5>1. s.listeners = listening
            BY <2>1, <2>3, <4>2 DEF Send
          <5>2. QED
            BY <2>0, <2>3, <5>1
        <4>3. QED
          BY <4>1, <4>2
      <3>2. QED
        BY <2>1, <3>1 DEF Gone
    <2>4. ASSUME NEW q \in Procs, observed'[q] # NoMessage
          PROVE  \/ Gone(q)'
                 \/ Role[q] = "server" /\ (pc'[q] = "send" \/ (pc'[q] = "wait" /\ ~CopyMinimized))
      <3>1. CASE q # p
        BY <2>1, <2>4, <3>1 DEF Attentive, Gone
      <3>2. CASE q = p /\ Receive(p)
        BY <2>0, <3>2, RolesAssumption DEF Receive, AfterReceive, Exit, Gone
      <3>3. CASE q = p /\ ~Receive(p)
        <4>1. Role[p] = "server" /\ (pc[p] = "send" \/ (pc[p] = "wait" /\ ~CopyMinimized))
          BY <2>1, <2>4, <3>3 DEF Attentive, Gone
        <4>2. CASE Fails(p)
          BY <2>0, <3>3, <4>2 DEF Fails, StepFails, ReceiveTimesOut, Exit, Gone
        <4>3. CASE WaitReady(p)
          BY <2>0, <3>3, <4>1, <4>3, RolesAssumption DEF WaitReady, AfterWait, OneWay
        <4>4. CASE Send(p)
          BY <2>0, <3>3, <4>1, <4>4 DEF Send, AfterSend, Exit, Gone
        <4>5. ~Create(p) /\ ~Register(p)
          BY <4>1 DEF Create, Register
        <4>6. QED
          BY <1>1, <3>3, <4>2, <4>3, <4>4, <4>5 DEF Run
      <3>4. QED
        BY <3>1, <3>2, <3>3
    <2>5. QED
      BY <2>2, <2>3, <2>4 DEF Attentive, Gone
  <1>2. CASE UNCHANGED <<pc, listening, observed, sent>>
    BY <1>2 DEF Attentive, Gone, Alive
  <1>3. ASSUME NEW p \in Procs, NEW q \in Procs, Discover(p, q) \/ Forget(p, q)
        PROVE  UNCHANGED <<pc, listening, observed, sent>>
    BY <1>3 DEF Discover, Forget
  <1>4. ASSUME NEW w \in wire, Deliver(w) PROVE UNCHANGED <<pc, listening, observed, sent>>
    BY <1>4 DEF Deliver
  <1>5. QED
    BY <1>1, <1>2, <1>3, <1>4 DEF Next, vars

(* A step of a process loses nothing that another holds, and of its own    *)
(* only as it ends; a message it takes from its channel is observed.       *)
LEMMA HeldByRun ==
  ASSUME IInv, NEW p \in Procs, Run(p) \/ Fails(p), NEW q \in Procs, NEW m \in Message,
         Held(q, m), Attentive
  PROVE  Held(q, m)'
  <1>a. /\ \A r \in Procs \ {p} :
              /\ UNCHANGED <<pc[r], inbox[r], observed[r]>>
              /\ \A w \in wire : w.to = r => w \in wire'
        /\ (wire \subseteq wire' \/ Gone(p)')
        /\ (inbox'[p] = inbox[p] \/ Gone(p)' \/ Receive(p))
        /\ (Receive(p) \/ observed' = observed) /\ ~Gone(p)
    BY RunFrame
  <1>1. CASE q # p
    BY <1>1, <1>a DEF Held, InHand, Gone
  <1>2. CASE q = p /\ Gone(p)'
    BY <1>2 DEF Held
  <1>3. CASE q = p /\ ~Gone(p)' /\ ~Receive(p)
    BY <1>3, <1>a DEF Held, InHand, Gone
  <1>4. CASE q = p /\ ~Gone(p)' /\ Receive(p)
    <2>1. wire \subseteq wire' /\ pc[p] = "receive" /\ observed[p] = NoMessage
      BY <1>4, <1>a DEF Receive, Attentive
    <2>2. /\ inbox[p] # <<>> /\ observed'[p] = Head(inbox[p])
          /\ inbox'[p] = Tail(inbox[p])
      BY <1>4 DEF Receive, Exit, Gone, IInv, TypeOK
    <2>3. /\ inbox[p] \in Seq(Message) /\ Len(inbox[p]) \in Nat
          /\ Head(inbox[p]) = inbox[p][1] /\ Len(Tail(inbox[p])) = Len(inbox[p]) - 1
          /\ \A k \in 1..Len(Tail(inbox[p])) : Tail(inbox[p])[k] = inbox[p][k + 1]
      BY <2>2, HeadTailProperties, LenProperties DEF IInv, TypeOK
    <2>4. CASE [to |-> q, message |-> m] \in wire
      BY <2>1, <2>4 DEF Held
    <2>5. CASE InHand(q, m)
      <3>1. PICK k \in 1..Len(inbox[p]) : inbox[p][k] = m
        BY <1>4, <2>5 DEF InHand
      <3>2. CASE k = 1
        BY <1>4, <2>2, <2>3, <3>1, <3>2 DEF Held
      <3>3. CASE k # 1
        <4>1. k - 1 \in 1..Len(inbox'[p]) /\ inbox'[p][k - 1] = m
          BY <2>2, <2>3, <3>1, <3>3
        <4>2. QED
          BY <1>4, <4>1 DEF Held, InHand
      <3>4. QED
        BY <3>2, <3>3
    <2>6. CASE observed[q] = m /\ ~InHand(q, m) /\ [to |-> q, message |-> m] \notin wire
      <3>1. m = NoMessage
        BY <1>4, <2>1, <2>6
      <3>2. QED
        BY <3>1 DEF Message, Kinds, NoMessage
    <2>7. QED
      BY <1>4, <1>a, <2>4, <2>5, <2>6 DEF Held
  <1>5. QED
    BY <1>1, <1>2, <1>3, <1>4

(* The poller hands a message of another process to a listener that        *)
(* accepts it.                                                             *)
LEMMA HeldByDelivery ==
  ASSUME IInv, NEW w \in wire, Deliver(w), NEW q \in Procs, NEW m \in Message, Held(q, m),
         q \in listening \/ Gone(q), Accepts(q, m), m.from # q,
         \A a, b \in Procs : Pid[a] = Pid[b] => a = b
  PROVE  Held(q, m)'
  <1> DEFINE p == w.to
  <1>1. /\ wire' = wire \ {w} /\ UNCHANGED <<pc, observed>>
        /\ p \in Procs /\ w.message \in Message /\ w = [to |-> p, message |-> w.message]
        /\ inbox \in [Procs -> Seq(Message)]
    BY DEF Deliver, IInv, TypeOK, Envelope
  <1>2. inbox' = inbox \/ inbox' = [inbox EXCEPT ![p] = Append(inbox[p], w.message)]
    BY DEF Deliver
  <1>3. ASSUME NEW n \in Message, inbox' = [inbox EXCEPT ![p] = Append(inbox[p], n)]
        PROVE  /\ InHand(p, n)'
               /\ \A r \in Procs, k \in Message : InHand(r, k) => InHand(r, k)'
    <2>1. /\ inbox[p] \in Seq(Message) /\ Len(inbox[p]) \in Nat
          /\ Len(inbox'[p]) = Len(inbox[p]) + 1 /\ inbox'[p][Len(inbox[p]) + 1] = n
          /\ \A k \in 1..Len(inbox[p]) : inbox'[p][k] = inbox[p][k]
      BY <1>1, <1>3, AppendProperties, LenProperties
    <2>2. \A r \in Procs \ {p} : inbox'[r] = inbox[r]
      BY <1>1, <1>3
    <2>3. Len(inbox[p]) + 1 \in 1..Len(inbox'[p])
      BY <2>1
    <2>4. \A k \in Message : InHand(p, k) => InHand(p, k)'
      BY <2>1 DEF InHand
    <2>5. QED
      BY SMTT(30), <2>1, <2>2, <2>3, <2>4 DEF InHand
  <1>4. CASE InHand(q, m)
    <2>1. InHand(q, m)'
      BY SMTT(30), <1>1, <1>2, <1>3, <1>4 DEF InHand
    <2>2. QED
      BY <2>1 DEF Held, InHand
  <1>5. CASE observed[q] = m \/ Gone(q)
    BY <1>1, <1>5 DEF Held, Gone
  <1>6. CASE [to |-> q, message |-> m] \in wire /\ w # [to |-> q, message |-> m]
    BY <1>1, <1>6 DEF Held
  <1>7. CASE w = [to |-> q, message |-> m] /\ ~Gone(q)
    <2>1. p = q /\ w.message = m /\ q \in listening
      BY <1>7
    <2>2. Origin(m.from) # Origin(q)
      <3>1. m.from \in Procs
        BY DEF Message
      <3>2. Pid[m.from] # Pid[q]
        BY <3>1
      <3>3. QED
        BY <3>2 DEF Origin
    <2>3. inbox' = [inbox EXCEPT ![p] = Append(inbox[p], m)]
      BY <2>1, <2>2 DEF Deliver, Accepts
    <2>4. InHand(q, m)'
      BY <1>3, <2>1, <2>3
    <2>5. QED
      BY <2>4 DEF Held, InHand
  <1>8. QED
    BY <1>4, <1>5, <1>6, <1>7 DEF Held

(* What a process sends is on its way to all it has discovered that live.  *)
LEMMA HeldFirst ==
  ASSUME IInv, Attentive, NEW p \in Procs, Send(p), NEW s \in sent', s \notin sent,
         NEW q \in s.readers \cap s.listeners
  PROVE  Held(q, s.message)'
  <1> DEFINE m == IF Role[p] = "server" THEN Response(p, observed[p]) ELSE Outbound(p)
             out == {[to |-> r, message |-> m] : r \in {r \in known[p] : Alive(r)}}
  <1>1. /\ s = [message |-> m, readers |-> known[p], listeners |-> listening]
        /\ \/ Exit(p, "done") /\ wire' = {w \in wire \cup out : w.to # p}
           \/ wire' = wire \cup out
    BY DEF Send
  <1> HIDE DEF m
  <1>2. q \in known[p] /\ q \in listening /\ q \in Procs /\ s.message = m
    BY <1>1 DEF IInv, TypeOK
  <1>3. Alive(q)
    BY <1>2 DEF Attentive
  <1>4. [to |-> q, message |-> m] \in out
    BY <1>2, <1>3
  <1> HIDE DEF out
  <1>5. CASE q = p /\ Exit(p, "done")
    BY <1>5 DEF Exit, Held, Gone, IInv, TypeOK
  <1>6. CASE q # p \/ ~Exit(p, "done")
    BY <1>1, <1>2, <1>4, <1>6 DEF Held
  <1>7. QED
    BY <1>5, <1>6

(* Where process identifiers are unique, what was sent to a process that   *)
(* was known and listening is not lost before that process has ended.      *)
THEOREM NothingLost ==
  ASSUME \A p, q \in Procs : Pid[p] = Pid[q] => p = q
  PROVE  Spec => []NoneLost
  <1>1. Init => Attentive /\ NoneLost
    BY DEF Init, Attentive, NoneLost
  <1>2. IInv /\ Attentive /\ NoneLost /\ [Next]_vars => NoneLost'
    <2> SUFFICES ASSUME IInv, Attentive, NoneLost, [Next]_vars,
                        NEW s \in sent', NEW q \in s.readers \cap s.listeners,
                        Accepts(q, s.message), s.message.from # q
                 PROVE  Held(q, s.message)'
      BY DEF NoneLost, Held, InHand, Gone, Accepts, Matches
    <2>1. CASE s \in sent
      <3>1. q \in Procs /\ s.message \in Message /\ (q \in listening \/ Gone(q))
        BY <2>1 DEF IInv, TypeOK, Attentive
      <3>2. Held(q, s.message)
        BY <2>1 DEF NoneLost, Held, InHand, Gone
      <3>3. ASSUME NEW w \in wire, Deliver(w) PROVE Held(q, s.message)'
        BY <3>1, <3>2, <3>3, HeldByDelivery
      <3>4. ASSUME NEW p \in Procs, Run(p) \/ Fails(p) PROVE Held(q, s.message)'
        BY <3>1, <3>2, <3>4, HeldByRun
      <3>5. CASE UNCHANGED <<wire, inbox, observed, pc>>
        BY <3>2, <3>5 DEF Held, InHand, Gone
      <3>6. ASSUME NEW p \in Procs, NEW r \in Procs, Discover(p, r) \/ Forget(p, r)
            PROVE  UNCHANGED <<wire, inbox, observed, pc>>
        BY <3>6 DEF Discover, Forget
      <3>7. QED
        BY <3>3, <3>4, <3>5, <3>6 DEF Next, vars
    <2>2. CASE s \notin sent
      <3>1. PICK p \in Procs : Send(p)
        <4>1. ASSUME NEW p \in Procs, Run(p) \/ Fails(p) PROVE Send(p) \/ sent' = sent
          BY <4>1, RunFrame
        <4>2. ASSUME NEW p \in Procs, NEW r \in Procs, Discover(p, r) \/ Forget(p, r)
              PROVE  sent' = sent
          BY <4>2 DEF Discover, Forget
        <4>3. ASSUME NEW w \in wire, Deliver(w) PROVE sent' = sent
          BY <4>3 DEF Deliver
        <4>4. QED
          BY <2>2, <4>1, <4>2, <4>3 DEF Next, vars
      <3>2. QED
        BY <2>2, <3>1, HeldFirst
    <2>3. QED
      BY <2>1, <2>2
  <1>3. QED
    BY Invariance, AttentiveStep, <1>1, <1>2, PTL DEF Spec
-----------------------------------------------------------------------------
(* Two processes with a domain of their own: an active role and the        *)
(* passive one it is meant for, where nothing fails.  A server of the      *)
(* copy-minimized family is left out: it answers without waiting for its   *)
(* client, and RolesServer shows what comes of it.                         *)
Partners(a, b) ==
  /\ Procs = {a, b}
  /\ <<Role[a], Role[b]>> \in {<<"publisher", "subscriber">>, <<"notifier", "notifyee">>,
                               <<"client", "server">>}
  /\ Peer[a] = Local[b] /\ Peer[b] = Local[a]
  /\ Role[a] = "client" => ~CopyMinimized
  /\ ~MayFail

(* Until a sends, nothing at all reaches b, and b does not end; until b    *)
(* answers, nothing reaches a, and a client waits.  So neither can lose    *)
(* the other between the wait for two readers and the send.                *)
PairInv(a, b) ==
  /\ pc[a] \notin {"receive", "done"} =>
       wire = {} /\ inbox[b] = <<>> /\ observed[b] = NoMessage /\ pc[b] # "done"
  /\ pc[b] # "done" =>
       /\ \A w \in wire : w.message.from = a
       /\ inbox[a] = <<>>
       /\ Role[a] = "client" => pc[a] # "done"
  /\ \A p, q \in Procs : pc[p] # "failed" /\ (q \in known[p] => pc[q] # "new")
  /\ \A p \in Procs : pc[p] = "send" => known[p] = Procs
  /\ SendsToAddressee

(* Whoever of the two sends is heard by the other one.                     *)
LEMMA PairAddresses ==
  ASSUME NEW a, NEW b, Partners(a, b)
  PROVE  /\ Accepts(b, Outbound(a))
         /\ \A m : Role[b] = "server" /\ Heeded(b, m) => Accepts(a, Response(b, m))
  <1> USE DEF Partners
  <1>1. Accepts(b, Outbound(a))
    <2>1. CASE Role[a] = "publisher"
      BY <2>1 DEF Accepts, OneWay, Outbound, Matches, Filters
    <2>2. CASE Role[a] = "notifier"
      BY <2>2 DEF Accepts, OneWay, Outbound, Matches, Filters
    <2>3. CASE Role[a] = "client"
      BY <2>3 DEF Accepts, OneWay, Outbound, Matches, Filters
    <2>4. QED
      BY <2>1, <2>2, <2>3
  <1>2. ASSUME NEW m, Role[b] = "server", Heeded(b, m)
        PROVE  Accepts(a, Response(b, m))
    <2>1. Role[a] = "client"
      BY <1>2
    <2>2. m.source = Uri(Peer[b], "endpoint") /\ m.sink = Uri(Local[b], "method")
      BY <1>2 DEF Heeded, Matches, Filters
    <2>3. QED
      BY <2>1, <2>2 DEF Accepts, OneWay, Response, Matches, Filters
  <1>3. QED
    BY <1>1, <1>2

(* Two readers on a domain of two processes are all there are.             *)
LEMMA TwoAreAll ==
  ASSUME NEW a, NEW b, Partners(a, b), NEW readers \in SUBSET Procs,
         Cardinality(readers) >= 2
  PROVE  readers = Procs
  <1>1. a # b
    BY DEF Partners
  <1>2. IsFiniteSet({a}) /\ Cardinality({a}) = 1 /\ Procs = {a} \cup {b}
    BY FS_Singleton DEF Partners
  <1>3. IsFiniteSet(Procs) /\ Cardinality(Procs) = 2
    BY <1>1, <1>2, FS_AddElement
  <1>4. Cardinality(readers) \in Nat /\ Cardinality(readers) <= Cardinality(Procs)
        /\ (Cardinality(Procs) = Cardinality(readers) => Procs = readers)
    BY <1>3, FS_Subset, FS_CardinalityType
  <1>5. QED
    BY <1>3, <1>4

LEMMA PairInit ==
  ASSUME NEW a, NEW b, Partners(a, b), Init
  PROVE  PairInv(a, b)
  BY DEF Partners, Init, PairInv, SendsToAddressee, Alive

(* Going on in the script does not say anything to anybody.                *)
LEMMA PairScriptStep ==
  ASSUME NEW a, NEW b, Partners(a, b), IInv, PairInv(a, b), NEW p \in Procs,
         Create(p) \/ Register(p) \/ WaitReady(p)
  PROVE  PairInv(a, b)'
  <1> USE DEF IInv, TypeOK
  <1>1. /\ UNCHANGED <<known, wire, inbox, observed, sent>>
        /\ \A q \in Procs \ {p} : pc'[q] = pc[q]
        /\ pc[p] \in {"new", "register", "wait"} /\ a \in Procs /\ b \in Procs
    BY DEF Create, Register, WaitReady, Partners
  <1>2. /\ pc'[p] \in {"register", "wait", "send", "receive"}
        /\ pc'[p] = "send" => known[p] = Procs
    <2>1. CASE Create(p)
      BY <2>1 DEF Create, AfterCreate
    <2>2. CASE Register(p)
      <3>1. ~(Role[p] = "client" /\ CopyMinimized)
        BY RoleNames DEF Partners
      <3>2. QED
        BY <2>2, <3>1 DEF Register, AfterRegister
    <2>3. CASE WaitReady(p)
      <3>1. pc'[p] = AfterWait(p) /\ AfterWait(p) \in {"register", "send"}
        BY <2>3 DEF WaitReady, AfterWait
      <3>2. CASE AfterWait(p) = "send"
        <4>1. Required(p) = 2
          BY <3>2 DEF AfterWait, Required, Active
        <4>2. QED
          BY <2>3, <3>1, <4>1, TwoAreAll DEF WaitReady
      <3>3. QED
        BY <3>1, <3>2
    <2>4. QED
      BY <2>1, <2>2, <2>3
  <1>3. UNCHANGED sent /\ SendsToAddressee => SendsToAddressee'
    BY DEF SendsToAddressee, Accepts, Matches
  <1>4. QED
    BY <1>1, <1>2, <1>3 DEF PairInv

(* The first of the two to send knows that the other is there.             *)
LEMMA PairFirstSend ==
  ASSUME NEW a, NEW b, Partners(a, b), IInv, PairInv(a, b), Send(a)
  PROVE  PairInv(a, b)'
  <1> DEFINE m == Outbound(a)
  <1>1. /\ a \in Procs /\ b \in Procs \ {a} /\ Role[a] \in Active /\ Role[a] # "server"
    BY DEF Partners, Active, OneWay
  <1>2. /\ pc[a] = "send" /\ known[a] = Procs /\ wire = {} /\ inbox[b] = <<>> /\ inbox[a] = <<>>
    BY <1>1 DEF Send, PairInv
  <1>3. /\ sent' = sent \cup {[message |-> m, readers |-> known[a], listeners |-> listening]}
        /\ UNCHANGED observed
        /\ \A w \in wire' : w.message = m
        /\ \/ Exit(a, "done") /\ AfterSend(a) = "done"
           \/ /\ AfterSend(a) # "done" /\ pc' = [pc EXCEPT ![a] = AfterSend(a)]
              /\ UNCHANGED <<known, inbox>>
    BY <1>1, <1>2 DEF Send
  <1>4. m.from = a
    BY <1>1 DEF Outbound, Active, OneWay
  <1>5. Accepts(b, m)
    BY PairAddresses
  <1> HIDE DEF m
  <1>6. SendsToAddressee'
    <2>1. \A s \in sent' : \E q \in s.readers : Accepts(q, s.message)
      BY <1>1, <1>2, <1>3, <1>5 DEF PairInv, SendsToAddressee
    <2>2. QED
      BY <2>1 DEF SendsToAddressee, Accepts, Matches
  <1>7. /\ pc'[a] \in {"done", "receive"} /\ (Role[a] = "client" => pc'[a] = "receive")
        /\ \A q \in Procs \ {a} : pc'[q] = pc[q] /\ known'[q] = known[q]
        /\ known'[a] \subseteq known[a]
    BY <1>1, <1>3 DEF Exit, AfterSend, IInv, TypeOK
  <1>8. inbox'[a] = <<>>
    BY <1>1, <1>2, <1>3 DEF Exit, IInv, TypeOK
  <1>9. \A p, q \in Procs : pc'[p] # "failed" /\ (q \in known'[p] => pc'[q] # "new")
    BY <1>7 DEF PairInv
  <1>10. \A p \in Procs : pc'[p] = "send" => known'[p] = Procs
    BY <1>7 DEF PairInv
  <1>11. QED
    BY <1>3, <1>4, <1>6, <1>7, <1>8, <1>9, <1>10 DEF PairInv

(* The answer finds the client waiting.                                    *)
LEMMA PairAnswer ==
  ASSUME NEW a, NEW b, Partners(a, b), IInv, PairInv(a, b), Send(b)
  PROVE  PairInv(a, b)'
  <1> DEFINE m == Response(b, observed[b])
  <1>1. /\ b \in Procs /\ a \in Procs \ {b} /\ pc[b] = "send"
    BY DEF Partners, Send
  <1>2. Role[b] = "server"
    BY <1>1 DEF Partners, IInv, Script
  <1>3. observed[b] # NoMessage
    BY <1>1, <1>2 DEF IInv, Script
  <1>4. Accepts(a, m)
    BY <1>1, <1>2, <1>3, PairAddresses DEF IInv, Traffic
  <1>5. /\ sent' = sent \cup {[message |-> m, readers |-> known[b], listeners |-> listening]}
        /\ Exit(b, "done") /\ UNCHANGED observed
    BY <1>2 DEF Send, AfterSend
  <1> HIDE DEF m
  <1>6. SendsToAddressee'
    <2>1. known[b] = Procs
      BY <1>1 DEF PairInv
    <2>2. \A s \in sent' : \E q \in s.readers : Accepts(q, s.message)
      BY <1>1, <1>4, <1>5, <2>1 DEF PairInv, SendsToAddressee
    <2>3. QED
      BY <2>2 DEF SendsToAddressee, Accepts, Matches
  <1>7. /\ pc'[b] = "done" /\ pc'[a] = pc[a] /\ pc[a] \in {"receive", "done"}
        /\ known'[b] = {} /\ known'[a] = known[a]
    BY <1>1, <1>3, <1>5 DEF Exit, PairInv, IInv, TypeOK
  <1>8. Procs = {a, b}
    BY DEF Partners
  <1>9. QED
    BY <1>1, <1>5, <1>6, <1>7, <1>8 DEF PairInv

LEMMA PairReceiveStep ==
  ASSUME NEW a, NEW b, Partners(a, b), IInv, PairInv(a, b), NEW p \in Procs, Receive(p)
  PROVE  PairInv(a, b)'
  <1>1. /\ a \in Procs /\ b \in Procs \ {a} /\ Procs = {a, b}
    BY DEF Partners
  <1>2. /\ pc[p] = "receive" /\ inbox[p] # <<>> /\ pc'[p] = AfterReceive(p)
        /\ \A q \in Procs \ {p} : pc'[q] = pc[q] /\ known'[q] = known[q] /\ inbox'[q] = inbox[q]
        /\ known'[p] \subseteq known[p] /\ wire' \subseteq wire /\ UNCHANGED sent
    BY DEF Receive, Exit, IInv, TypeOK
  <1>3. SendsToAddressee'
    BY <1>2 DEF PairInv, SendsToAddressee, Accepts, Matches
  <1>4. AfterReceive(p) \in {"done", "wait"}
    <2>1. Role[p] = "server" => Role[a] = "client" /\ ~CopyMinimized
      BY <1>1 DEF Partners
    <2>2. QED
      BY <2>1 DEF AfterReceive
  <1>5. CASE p = a
    <2>1. pc[b] = "done" /\ pc'[b] = "done"
      BY <1>1, <1>2, <1>5 DEF PairInv
    <2>2. pc'[a] = "done"
      BY <1>2, <1>5 DEF AfterReceive, Partners
    <2>3. QED
      BY <1>1, <1>2, <1>3, <1>5, <2>1, <2>2 DEF PairInv
  <1>6. CASE p = b
    <2>1. pc[a] \in {"receive", "done"} /\ pc'[a] = pc[a]
      BY <1>1, <1>2, <1>6 DEF PairInv, IInv, TypeOK
    <2>2. QED
      BY <1>1, <1>2, <1>3, <1>4, <1>6, <2>1 DEF PairInv
  <1>7. QED
    BY <1>1, <1>5, <1>6

(* Neither is forgotten as long as it is needed.                           *)
LEMMA PairDiscovery ==
  ASSUME NEW a, NEW b, Partners(a, b), IInv, PairInv(a, b), NEW p \in Procs, NEW q \in Procs,
         Discover(p, q) \/ Forget(p, q)
  PROVE  PairInv(a, b)'
  <1>1. /\ a \in Procs /\ b \in Procs \ {a} /\ Procs = {a, b}
    BY DEF Partners
  <1>2. /\ UNCHANGED <<pc, wire, inbox, observed, sent>>
        /\ \A r \in Procs \ {p} : known'[r] = known[r]
        /\ known'[p] \in SUBSET Procs
        /\ \A r \in known'[p] : r \in known[p] \/ pc[r] # "new"
    BY DEF Discover, Forget, Alive, IInv, TypeOK
  <1>3. SendsToAddressee'
    BY <1>2 DEF PairInv, SendsToAddressee, Accepts, Matches
  <1>4. pc[p] = "send" => known'[p] = Procs
    <2> SUFFICES ASSUME pc[p] = "send" PROVE known'[p] = Procs
      OBVIOUS
    <2>1. known[p] = Procs /\ \A r \in Procs : pc[r] \notin {"new", "failed"}
      BY DEF PairInv
    <2>2. CASE Discover(p, q)
      BY <2>1, <2>2 DEF Discover
    <2>3. CASE Forget(p, q)
      <3>1. pc[q] = "done" /\ q # p
        BY <2>1, <2>3 DEF Forget, Alive
      <3>2. CASE p = a
        BY <1>1, <3>1, <3>2 DEF PairInv
      <3>3. CASE p = b
        <4>1. Role[a] = "client"
          BY <1>1, <3>3 DEF Partners, IInv, Script
        <4>2. QED
          BY <1>1, <3>1, <3>3, <4>1 DEF PairInv
      <3>4. QED
        BY <1>1, <3>2, <3>3
    <2>4. QED
      BY <2>2, <2>3
  <1>5. QED
    BY <1>1, <1>2, <1>3, <1>4 DEF PairInv

LEMMA PairDeliver ==
  ASSUME NEW a, NEW b, Partners(a, b), IInv, PairInv(a, b), NEW w \in wire, Deliver(w)
  PROVE  PairInv(a, b)'
  <1>1. /\ a \in Procs /\ b \in Procs \ {a} /\ Procs = {a, b}
    BY DEF Partners
  <1>2. w.to \in Procs
    BY DEF IInv, TypeOK, Envelope
  <1>3. /\ UNCHANGED <<pc, known, observed, sent>> /\ wire' \subseteq wire
        /\ \A q \in Procs : inbox'[q] # inbox[q] => q = w.to /\ w.message.from # w.to
    BY <1>2 DEF Deliver, IInv, TypeOK
  <1>4. SendsToAddressee'
    BY <1>3 DEF PairInv, SendsToAddressee, Accepts, Matches
  <1>5. pc[a] \in {"receive", "done"}
    BY DEF PairInv
  <1>6. pc[b] # "done" => inbox'[a] = inbox[a]
    BY <1>1, <1>3 DEF PairInv
  <1>7. QED
    BY <1>1, <1>3, <1>4, <1>5, <1>6 DEF PairInv

LEMMA PairStep ==
  ASSUME NEW a, NEW b, Partners(a, b), IInv, PairInv(a, b), [Next]_vars
  PROVE  PairInv(a, b)'
  <1>1. ASSUME NEW p \in Procs, Run(p) PROVE PairInv(a, b)'
    <2>1. CASE Send(p)
      BY <2>1, PairFirstSend, PairAnswer DEF Partners
    <2>2. QED
      BY <1>1, <2>1, PairScriptStep, PairReceiveStep DEF Run
  <1>2. ASSUME NEW p \in Procs, Fails(p) PROVE FALSE
    BY <1>2 DEF Fails, StepFails, ReceiveTimesOut, Partners
  <1>3. ASSUME NEW p \in Procs, NEW q \in Procs, Discover(p, q) \/ Forget(p, q)
        PROVE  PairInv(a, b)'
    BY <1>3, PairDiscovery
  <1>4. ASSUME NEW w \in wire, Deliver(w) PROVE PairInv(a, b)'
    BY <1>4, PairDeliver
  <1>5. CASE UNCHANGED vars
    BY <1>5 DEF vars, PairInv, SendsToAddressee, Accepts, Matches
  <1>6. QED
    BY <1>1, <1>2, <1>3, <1>4, <1>5 DEF Next

(* "The active role waits for the remote DDS reader and sends once": where *)
(* the two are alone and nothing fails, whoever sends has discovered the   *)
(* reader the message is for, and so has a server that answers.            *)
THEOREM PairSends ==
  ASSUME NEW a, NEW b, Partners(a, b)
  PROVE  Spec => []SendsToAddressee
  <1>1. Init => PairInv(a, b)
    BY PairInit
  <1>2. IInv /\ PairInv(a, b) /\ [Next]_vars => PairInv(a, b)'
    BY PairStep
  <1>3. PairInv(a, b) => SendsToAddressee
    BY DEF PairInv
  <1>4. QED
    BY Invariance, <1>1, <1>2, <1>3, PTL DEF Spec
=============================================================================
