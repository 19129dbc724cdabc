-------------------------------- MODULE Roles --------------------------------
(***************************************************************************)
(* The role binaries (bin/common/mod.rs) on one DDS domain: publisher and  *)
(* subscriber, notifier and notifyee, RPC client and server.  All roles of *)
(* a route family share one DDS topic, so every process sees every sample  *)
(* and its listener's filters decide.  A process runs its role once and    *)
(* exits.  The transport below the roles, verified in Transport, is here a *)
(* mailbox; DDS discovery is asynchronous, and one-sided: that the writer  *)
(* of p knows the reader of q says nothing about the other direction.      *)
(***************************************************************************)
EXTENDS Naturals, Sequences, FiniteSets

CONSTANTS Procs,
          Role,           \* the role each process was started in
          Local, Peer,    \* --local-authority and --peer-authority of each
          Pid,            \* its process ID, the first half of its origin
          CopyMinimized,  \* --route-family copy-minimized, or one of the others
          PassiveFirst,   \* "Start the passive role first" (README.md)
          MayFail         \* whether DDS may fail and --timeout-ms be too short

OneWay == {"publisher", "notifier"}
Active == OneWay \cup {"client"}
Passive == {"subscriber", "notifyee", "server"}
Authorities == {Local[p] : p \in Procs} \cup {Peer[p] : p \in Procs}
Kinds == {"publish", "notification", "request", "response"}

(* A URI is an authority and a resource: the topic's, the method's, or 0,  *)
(* which names the endpoint itself.                                        *)
Uris == [authority : Authorities, resource : {"topic", "method", "endpoint"}]
Uri(a, res) == [authority |-> a, resource |-> res]
NoUri == [authority |-> "", resource |-> ""]

ASSUME RolesAssumption ==
  /\ Role \in [Procs -> Active \cup Passive] /\ Pid \in [Procs -> Nat]
  /\ DOMAIN Local = Procs /\ DOMAIN Peer = Procs
  /\ {CopyMinimized, PassiveFirst, MayFail} \subseteq BOOLEAN

VARIABLES
  pc,          \* how far each process is with its role
  known,       \* known[p]: readers that p's writer has discovered
  wire,        \* samples written and not yet taken by the reader they went to
  listening,   \* processes whose listener is registered
  inbox,       \* inbox[p]: the channel between p's listener and its role
  observed,    \* history: the message each process received in its role
  sent         \* history: messages with the readers known when they were sent
               \* and the processes that were listening

vars == <<pc, known, wire, listening, inbox, observed, sent>>

Alive(p) == pc[p] \notin {"new", "done", "failed"}
Ready(p) == p \in listening \/ pc[p] \in {"done", "failed"}

(* Fault: the transports of a process are numbered, processes are not.     *)
OriginBySequence(p) == <<0, 1>>

(* DdsConfig::new; a process creates one transport only.                   *)
Origin(p) == <<Pid[p], 1>>

NoMessage == [kind |-> "none", source |-> NoUri, sink |-> NoUri, from |-> 0]

Init ==
  /\ pc = [p \in Procs |-> "new"]
  /\ known = [p \in Procs |-> {}]
  /\ wire = {} /\ listening = {}
  /\ inbox = [p \in Procs |-> <<>>]
  /\ observed = [p \in Procs |-> NoMessage]
  /\ sent = {}
-----------------------------------------------------------------------------
(* Addresses.                                                              *)

Outbound(p) ==
  CASE Role[p] = "publisher" ->
         [kind |-> "publish", source |-> Uri(Local[p], "topic"), sink |-> NoUri, from |-> p]
    [] Role[p] = "notifier" ->
         [kind |-> "notification", source |-> Uri(Local[p], "topic"),
          sink |-> Uri(Peer[p], "endpoint"), from |-> p]
    [] Role[p] = "client" ->
         [kind |-> "request", source |-> Uri(Local[p], "endpoint"),
          sink |-> Uri(Peer[p], "method"), from |-> p]

Response(p, request) ==
  [kind |-> "response", source |-> request.sink, sink |-> request.source, from |-> p]

Filters(p) ==
  CASE Role[p] = "subscriber" -> [source |-> Uri(Peer[p], "topic"), sink |-> NoUri]
    [] Role[p] = "notifyee" ->
         [source |-> Uri(Peer[p], "topic"), sink |-> Uri(Local[p], "endpoint")]
    [] Role[p] = "client" ->
         [source |-> Uri(Peer[p], "method"), sink |-> Uri(Local[p], "endpoint")]
    [] Role[p] = "server" ->
         [source |-> Uri(Peer[p], "endpoint"), sink |-> Uri(Local[p], "method")]

(* Fault: no sink filter means any sink.                                   *)
MatchesAnySink(filters, m) ==
  /\ filters.source = m.source
  /\ filters.sink = NoUri \/ filters.sink = m.sink

(* A listener without a sink filter gets the messages without a sink.      *)
Matches(filters, m) == filters.source = m.source /\ filters.sink = m.sink
-----------------------------------------------------------------------------
(* The order of the steps of a role.  The copy-minimized family waits for  *)
(* readers once, right after its transport was created; the other two wait *)
(* directly before every send.                                             *)

AfterCreate(p) == IF CopyMinimized \/ Role[p] \in OneWay THEN "wait" ELSE "register"

AfterWait(p) ==
  IF CopyMinimized /\ Role[p] \notin OneWay THEN "register" ELSE "send"

AfterRegister(p) ==
  IF Role[p] # "client" THEN "receive" ELSE IF CopyMinimized THEN "send" ELSE "wait"

AfterSend(p) == IF Role[p] = "client" THEN "receive" ELSE "done"

(* Fault: the server of any family answers at once.                        *)
AfterReceiveAtOnce(p) == IF Role[p] = "server" THEN "send" ELSE "done"

AfterReceive(p) ==
  IF Role[p] # "server" THEN "done" ELSE IF CopyMinimized THEN "send" ELSE "wait"

(* The readers wait_ready is asked to count, the process' own among them.  *)
Required(p) == IF CopyMinimized /\ Role[p] \notin Active THEN 1 ELSE 2
-----------------------------------------------------------------------------
(* Steps of a process.                                                     *)

(* with_config.                                                            *)
Create(p) ==
  /\ pc[p] = "new"
  /\ PassiveFirst /\ Role[p] \in Active =>
       \A q \in Procs : Role[q] \in Passive => Ready(q)
  /\ pc' = [pc EXCEPT ![p] = AfterCreate(p)]
  /\ UNCHANGED <<known, wire, listening, inbox, observed, sent>>

(* register_listener, then "READY listener_registered".                    *)
Register(p) ==
  /\ pc[p] = "register"
  /\ listening' = listening \cup {p}
  /\ pc' = [pc EXCEPT ![p] = AfterRegister(p)]
  /\ UNCHANGED <<known, wire, inbox, observed, sent>>

(* Fault: more readers are waited for than are required.                   *)
WaitReadyForMore(p) ==
  /\ pc[p] = "wait"
  /\ Cardinality(known[p]) > Required(p)
  /\ pc' = [pc EXCEPT ![p] = AfterWait(p)]
  /\ UNCHANGED <<known, wire, listening, inbox, observed, sent>>

(* wait_ready: the matched readers are polled until there are enough.      *)
WaitReady(p) ==
  /\ pc[p] = "wait"
  /\ Cardinality(known[p]) >= Required(p)
  /\ pc' = [pc EXCEPT ![p] = AfterWait(p)]
  /\ UNCHANGED <<known, wire, listening, inbox, observed, sent>>

(* The process ends, and with it its listener and its DDS entities.        *)
Exit(p, how) ==
  /\ pc' = [pc EXCEPT ![p] = how]
  /\ listening' = listening \ {p}
  /\ inbox' = [inbox EXCEPT ![p] = <<>>]
  /\ known' = [known EXCEPT ![p] = {}]

(* with_config, register_listener, wait_ready or send returns an error:    *)
(* the role gives up, whatever it has done so far, without a retry.        *)
StepFails(p) ==
  /\ MayFail
  /\ pc[p] \in {"new", "register", "wait", "send"}
  /\ Exit(p, "failed")
  /\ wire' = {w \in wire : w.to # p}
  /\ UNCHANGED <<observed, sent>>

(* The sample goes to the readers the writer has discovered.               *)
Send(p) ==
  /\ pc[p] = "send"
  /\ LET m == IF Role[p] = "server" THEN Response(p, observed[p]) ELSE Outbound(p)
         out == {[to |-> q, message |-> m] : q \in {q \in known[p] : Alive(q)}} IN
       /\ sent' = sent \cup {[message |-> m, readers |-> known[p], listeners |-> listening]}
       /\ IF AfterSend(p) = "done"
            THEN /\ Exit(p, "done")
                 /\ wire' = {w \in wire \cup out : w.to # p}
            ELSE /\ pc' = [pc EXCEPT ![p] = AfterSend(p)]
                 /\ wire' = wire \cup out
                 /\ UNCHANGED <<known, listening, inbox>>
  /\ UNCHANGED observed

(* receive: the first message in the channel is the one.                   *)
Receive(p) ==
  /\ pc[p] = "receive" /\ inbox[p] # <<>>
  /\ observed' = [observed EXCEPT ![p] = Head(inbox[p])]
  /\ IF AfterReceive(p) = "done"
       THEN Exit(p, "done") /\ wire' = {w \in wire : w.to # p}
       ELSE /\ inbox' = [inbox EXCEPT ![p] = Tail(@)]
            /\ pc' = [pc EXCEPT ![p] = AfterReceive(p)]
            /\ UNCHANGED <<known, wire, listening>>
  /\ UNCHANGED sent

ReceiveTimesOut(p) ==
  /\ MayFail
  /\ pc[p] = "receive" /\ inbox[p] = <<>>
  /\ Exit(p, "failed")
  /\ wire' = {w \in wire : w.to # p}
  /\ UNCHANGED <<observed, sent>>
-----------------------------------------------------------------------------
(* DDS.                                                                    *)

Discover(p, q) ==
  /\ Alive(p) /\ Alive(q) /\ q \notin known[p]
  /\ known' = [known EXCEPT ![p] = @ \cup {q}]
  /\ UNCHANGED <<pc, wire, listening, inbox, observed, sent>>

Forget(p, q) ==
  /\ Alive(p) /\ q \in known[p] /\ ~Alive(q)
  /\ known' = [known EXCEPT ![p] = @ \ {q}]
  /\ UNCHANGED <<pc, wire, listening, inbox, observed, sent>>

(* The poller of w.to takes a sample.  It is lost if its origin is that of *)
(* w.to, or if no listener there is for it.                                *)
Deliver(w) ==
  /\ wire' = wire \ {w}
  /\ LET p == w.to m == w.message IN
       inbox' = IF /\ Origin(m.from) # Origin(p)
                   /\ p \in listening /\ Matches(Filters(p), m)
                  THEN [inbox EXCEPT ![p] = Append(@, m)] ELSE inbox
  /\ UNCHANGED <<pc, known, listening, observed, sent>>
-----------------------------------------------------------------------------
Run(p) ==
  Create(p) \/ Register(p) \/ WaitReady(p) \/ Send(p) \/ Receive(p)

Fails(p) == StepFails(p) \/ ReceiveTimesOut(p)

Ended == \A p \in Procs : pc[p] \in {"done", "failed"}

Next ==
  \/ \E p \in Procs : Run(p) \/ Fails(p)
  \/ \E p, q \in Procs : Discover(p, q) \/ Forget(p, q)
  \/ \E w \in wire : Deliver(w)
  \/ Ended /\ UNCHANGED vars

Spec == Init /\ [][Next]_vars

(* Processes run, discovery completes, and samples on the wire arrive.     *)
Fairness ==
  /\ \A p \in Procs : WF_vars(Run(p))
  /\ \A p, q \in Procs : WF_vars(Discover(p, q))
  /\ WF_vars(\E w \in wire : Deliver(w))

FairSpec == Spec /\ Fairness
-----------------------------------------------------------------------------
Message == [kind : Kinds, source : Uris, sink : Uris \cup {NoUri}, from : Procs]
Envelope == [to : Procs, message : Message]

TypeOK ==
  /\ pc \in [Procs -> {"new", "register", "wait", "send", "receive", "done", "failed"}]
  /\ known \in [Procs -> SUBSET Procs]
  /\ wire \subseteq Envelope
  /\ listening \subseteq Procs
  /\ inbox \in [Procs -> Seq(Message)]
  /\ observed \in [Procs -> Message \cup {NoMessage}]
  /\ sent \subseteq [message : Message, readers : SUBSET Procs, listeners : SUBSET Procs]

Accepts(q, m) == Role[q] \notin OneWay /\ Matches(Filters(q), m)

(* "The active role waits for the remote DDS reader and sends once": when  *)
(* a role sends, its writer has discovered a reader the message is for.    *)
SendsToAddressee == \A s \in sent : \E q \in s.readers : Accepts(q, s.message)

(* Each role observes messages of its own pattern, from its peer and for   *)
(* itself, although all roles read the same topic.                         *)
Expected(p) ==
  CASE Role[p] = "subscriber" -> "publish"
    [] Role[p] = "notifyee" -> "notification"
    [] Role[p] = "client" -> "response"
    [] Role[p] = "server" -> "request"

RightMessage ==
  \A p \in Procs : observed[p] # NoMessage =>
    /\ observed[p].kind = Expected(p)
    /\ observed[p].source.authority = Peer[p]
    /\ observed[p].sink \in {NoUri} \cup {Uri(Local[p], res) : res \in {"method", "endpoint"}}

(* No message is lost on the way from one process to another: whoever was  *)
(* discovered and listening when it was sent, and has not ended since, has *)
(* it before it, in its channel or in hand, although the sender may have   *)
(* ended right after the send.                                             *)
NoneLost ==
  \A s \in sent : \A q \in s.readers \cap s.listeners :
    Accepts(q, s.message) /\ s.message.from # q =>
      \/ [to |-> q, message |-> s.message] \in wire
      \/ \E k \in 1..Len(inbox[q]) : inbox[q][k] = s.message
      \/ observed[q] = s.message
      \/ pc[q] \in {"done", "failed"}

(* One send is enough for every process to complete its role, provided     *)
(* that whoever it is for was discovered and listening ("applications do   *)
(* not need retry sends to cover discovery", README.md).                   *)
Heard == \A s \in sent : \A q \in Procs :
  Accepts(q, s.message) => q \in s.readers \cap s.listeners

FlowCompletes == []Heard => <>[](\A p \in Procs : pc[p] = "done")
=============================================================================
