-------------------------- MODULE CarriageProofs ----------------------------
(***************************************************************************)
(* The wire contract for all messages and samples, and the safety of what  *)
(* is carried, for any number of transports, blocks, loans and sends.      *)
(***************************************************************************)
EXTENDS Carriage, FiniteSetTheorems, SequenceTheorems, TLAPS

(* Every message that can be sent is accepted and read as it was, in the   *)
(* classic and in the owned family: decode undoes encode, and keeps an     *)
(* empty payload and an absent one apart.                                  *)
THEOREM FramedRoundTrip ==
  ASSUME NEW m \in Messages, NEW origin
  PROVE  /\ IsFramedSample(Encode(origin, m))
         /\ Accepts(Encode(origin, m)) /\ Decode(Encode(origin, m)) = m
  <1> DEFINE s == Encode(origin, m)
  <1>1. /\ m = [attributes |-> m.attributes, payload |-> m.payload]
        /\ m.attributes \in Attributes /\ m.payload \in Seq(Bytes) \cup {NoPayload}
        /\ [attributes |-> m.attributes, present |-> Present(m.payload)] \in Valid
    BY DEF Messages
  <1>2. /\ s.attributes = Block(m.attributes) /\ s.has_payload = Present(m.payload)
        /\ s.payload = IF Present(m.payload) THEN m.payload ELSE <<>>
        /\ s = FramedSample(s.origin, s.attributes, s.has_payload, s.payload)
    BY DEF Encode, FramedSample
  <1>3. s.has_payload \in BOOLEAN
    BY <1>2 DEF Present
  <1>4. s.payload \in Seq(Bytes)
    BY <1>1, <1>2, EmptySeq DEF Present
  <1> HIDE DEF s
  <1>5. IsFramedSample(s)
    BY <1>2, <1>3, <1>4 DEF IsFramedSample
  <1>6. Accepts(s)
    BY <1>1, <1>2 DEF Accepts, Presence
  <1>7. s.attributes.block = m.attributes
    BY <1>2 DEF Block
  <1>8. (IF s.has_payload THEN s.payload ELSE NoPayload) = m.payload
    BY <1>2 DEF Present
  <1>9. Decode(s) = m
    BY <1>1, <1>7, <1>8 DEF Decode
  <1>10. QED
    BY <1>5, <1>6, <1>9 DEF s

(* A framed sample of any program is accepted exactly when it is what some *)
(* message is encoded as.                                                  *)
THEOREM FramedExact ==
  ASSUME NEW s, IsFramedSample(s)
  PROVE  Accepts(s) <=> IsEncoded(s)
  <1>1. ASSUME Accepts(s) PROVE IsEncoded(s)
    <2>1. PICK a \in Attributes : /\ s.attributes = Block(a)
                                  /\ [attributes |-> a, present |-> s.has_payload] \in Valid
      BY <1>1 DEF Accepts
    <2> DEFINE p == IF s.has_payload THEN s.payload ELSE NoPayload
               m == [attributes |-> a, payload |-> p]
    <2>2. s.has_payload \in BOOLEAN /\ s.payload \in Seq(Bytes)
      BY DEF IsFramedSample
    <2>3. Present(p) = s.has_payload
      BY <2>2, NoPayloadAssumption DEF Present
    <2>4. s.payload = IF Present(p) THEN p ELSE <<>>
      BY <1>1, <2>2, <2>3 DEF Accepts, Presence
    <2>5. p \in {s.payload, NoPayload}
      OBVIOUS
    <2> HIDE DEF p
    <2>6. m \in Messages
      BY <2>1, <2>2, <2>3, <2>5 DEF Messages
    <2>7. s = Encode(s.origin, m)
      BY <2>1, <2>3, <2>4 DEF Encode, IsFramedSample
    <2>8. QED
      BY <2>5, <2>6, <2>7 DEF IsEncoded, Encodes
  <1>2. ASSUME IsEncoded(s) PROVE Accepts(s)
    <2>1. PICK m : Encodes(s, m)
      BY <1>2 DEF IsEncoded
    <2>2. QED
      BY <2>1, FramedRoundTrip DEF Encodes
  <1>3. QED
    BY <1>1, <1>2

(* A loan that is committed is accepted, and its lease is the metadata and *)
(* the bytes that the sender left in it, on the route that was asked for.  *)
THEOREM ZeroCopyRoundTrip ==
  ASSUME NEW loan, loan.source \in Uris, loan.sink \in Uris \cup {NoUri},
         loan.has_payload \in BOOLEAN, NEW origin,
         NEW bytes \in Seq(Bytes), bytes # <<>> => loan.has_payload
  PROVE  LET s == Commit(origin, loan, bytes) IN
           /\ IsZeroCopySample(s) /\ AcceptsZeroCopy(s)
           /\ DecodeZeroCopy(s) = [source |-> loan.source, sink |-> loan.sink,
                lease |-> [metadata |-> loan.metadata, payload |-> bytes]]
  <1> DEFINE s == Commit(origin, loan, bytes)
  <1>1. /\ s.source_uri = Text(loan.source) /\ s.has_sink = (loan.sink # NoUri)
        /\ s.sink_uri = IF loan.sink = NoUri THEN EmptyText ELSE Text(loan.sink)
        /\ s.has_payload = loan.has_payload /\ s.metadata = loan.metadata
        /\ s.payload = bytes
        /\ s = ZeroCopySample(s.origin, s.source_uri, s.has_sink, s.sink_uri, s.has_payload,
                              s.metadata, s.payload)
    BY DEF Commit, ZeroCopySample
  <1>2. \A u \in Uris : Text(u) \in Texts /\ Text(u).uri = u /\ Text(u) # EmptyText
    BY EmptyTextAssumption DEF Text, Texts
  <1> HIDE DEF s
  <1>3. IsZeroCopySample(s)
    BY <1>1 DEF IsZeroCopySample
  <1>4. AcceptsZeroCopy(s)
    BY <1>1, <1>2, NoUriAssumption DEF AcceptsZeroCopy, Presence
  <1>5. s.source_uri.uri = loan.source
    BY <1>1, <1>2
  <1>6. (IF s.has_sink THEN s.sink_uri.uri ELSE NoUri) = loan.sink
    BY <1>1, <1>2
  <1>7. DecodeZeroCopy(s) = [source |-> loan.source, sink |-> loan.sink,
                             lease |-> [metadata |-> loan.metadata, payload |-> bytes]]
    BY <1>1, <1>5, <1>6 DEF DecodeZeroCopy, Lease
  <1>8. QED
    BY <1>3, <1>4, <1>7 DEF s

(* A zero-copy sample is accepted exactly when it is on a route and what   *)
(* it says of sink and payload agrees with what it carries.                *)
THEOREM ZeroCopyExact ==
  ASSUME NEW s, IsZeroCopySample(s)
  PROVE  AcceptsZeroCopy(s) <=> IsCommitted(s)
  <1> USE DEF IsZeroCopySample
  <1>1. ASSUME AcceptsZeroCopy(s) PROVE IsCommitted(s)
    <2>1. PICK source \in Uris : s.source_uri = Text(source)
      BY <1>1 DEF AcceptsZeroCopy, Texts
    <2>2. PICK sink \in Uris \cup {NoUri} :
            /\ s.has_sink = (sink # NoUri)
            /\ s.sink_uri = IF sink = NoUri THEN EmptyText ELSE Text(sink)
      <3>1. CASE s.has_sink
        BY <1>1, <3>1, NoUriAssumption DEF AcceptsZeroCopy, Texts
      <3>2. CASE ~s.has_sink
        BY <1>1, <3>2 DEF AcceptsZeroCopy
      <3>3. QED
        BY <3>1, <3>2
    <2>3. Routes(s, source, sink)
      BY <2>1, <2>2 DEF Routes, Commit
    <2>4. s.payload # <<>> => s.has_payload
      BY <1>1 DEF AcceptsZeroCopy, Presence
    <2>5. QED
      BY <2>3, <2>4 DEF IsCommitted
  <1>2. ASSUME IsCommitted(s) PROVE AcceptsZeroCopy(s)
    <2>1. PICK source \in Uris, sink \in Uris \cup {NoUri} : Routes(s, source, sink)
      BY <1>2 DEF IsCommitted
    <2> DEFINE loan == [source |-> source, sink |-> sink,
                        has_payload |-> s.has_payload, metadata |-> s.metadata]
    <2>2. s = Commit(s.origin, loan, s.payload)
      BY <2>1 DEF Routes
    <2>3. loan.source \in Uris /\ loan.sink \in Uris \cup {NoUri} /\ loan.has_payload \in BOOLEAN
      OBVIOUS
    <2>4. s.payload \in Seq(Bytes) /\ (s.payload # <<>> => loan.has_payload)
      BY <1>2 DEF IsCommitted
    <2> HIDE DEF loan
    <2>5. AcceptsZeroCopy(Commit(s.origin, loan, s.payload))
      BY <2>3, <2>4, ZeroCopyRoundTrip
    <2>6. QED
      BY <2>2, <2>5
  <1>3. QED
    BY <1>1, <1>2
-----------------------------------------------------------------------------
(* What the poller of a transport makes of a sample.                       *)
Good(i, s) == IF i \in Framed THEN Accepts(s) ELSE AcceptsZeroCopy(s)
Content(i, s) == IF i \in Framed THEN Decode(s) ELSE DecodeZeroCopy(s)

Samples ==
  {Encode(from, m) : from \in Framed \cup {Foreign}, m \in Texted}
    \cup {Commit(core, loan, bytes) : core \in Cores, loan \in LoanRecord,
                                      bytes \in Seq(Bytes)}
    \cup Garbage.framed \cup Garbage.zeroCopy

Types ==
  /\ heap \in [Blocks -> [1..Size -> Bytes]]
  /\ loans \in [Blocks -> LoanRecord \cup {NoLoan}]
  /\ loaned \in 0..MaxLoans /\ sends \in 0..MaxSends
  /\ inbox \in [Transports -> Seq(Samples)]
  /\ \A i \in Transports : Len(inbox[i]) <= sends
  /\ DOMAIN delivered = Transports
  /\ malformed \in [Transports -> Nat]
  /\ IsFiniteSet(sent)
  /\ \A x \in sent : x.n \in 1..sends /\ x.from \in Transports \cup {Foreign}

(* The bytes of a loan are its owner's, or zeros if it began with them.    *)
Written ==
  \A b \in Blocks :
    loans[b] # NoLoan =>
      LET loan == loans[b] IN
        /\ loan.has_payload \/ loan.len = 0
        /\ loan.initialized => \A k \in 1..loan.len : heap[b][k] \in {0, loan.metadata}
        /\ \A k \in loan.written : heap[b][k] = loan.metadata

(* Every sample under way that will be accepted is one that was sent.      *)
Sourced ==
  \A i \in Transports : \A k \in 1..Len(inbox[i]) :
    LET s == inbox[i][k] IN
      Good(i, s) => \E x \in sent : x.from = s.origin /\ x.what = Content(i, s)

(* A sample that will be counted as malformed, or was, is no message.      *)
Bad(i, q) == {k \in 1..Len(q) : ~Good(i, q[k])}
Counted ==
  \A i \in Transports :
    malformed[i] + Cardinality(Bad(i, inbox[i])) + Cardinality(sent) <= sends

IInv == Types /\ Written /\ NoStaleBytes /\ Sourced /\ DeliveredIsSent /\ Counted

LEMMA Kinds ==
  /\ \A i \in Cores : i \notin Framed
  /\ Cores \subseteq Transports /\ Framed \subseteq Transports
  BY NamesAssumption DEF Transports

LEMMA GarbageIsBad ==
  /\ \A i \in Framed, s \in Garbage.framed : ~Good(i, s)
  /\ \A i \in Cores, s \in Garbage.zeroCopy : ~Good(i, s)
  <1>1. ASSUME NEW i \in Framed, NEW s \in Garbage.framed PROVE ~Good(i, s)
    BY FramedExact, GarbageAssumption DEF Good
  <1>2. ASSUME NEW i \in Cores, NEW s \in Garbage.zeroCopy PROVE ~Good(i, s)
    BY ZeroCopyExact, GarbageAssumption, Kinds DEF Good
  <1>3. QED
    BY <1>1, <1>2

LEMMA BadFinite ==
  ASSUME NEW i, NEW S, NEW q \in Seq(S)
  PROVE  IsFiniteSet(Bad(i, q)) /\ Cardinality(Bad(i, q)) \in Nat
  <1>1. IsFiniteSet(1..Len(q))
    BY LenProperties, FS_Interval
  <1>2. Bad(i, q) \subseteq 1..Len(q)
    BY DEF Bad
  <1>3. QED
    BY <1>1, <1>2, FS_Subset, FS_CardinalityType

LEMMA BadAppend ==
  ASSUME NEW i, NEW S, NEW q \in Seq(S), NEW s \in S
  PROVE  Cardinality(Bad(i, Append(q, s)))
           = Cardinality(Bad(i, q)) + IF Good(i, s) THEN 0 ELSE 1
  <1>1. /\ Len(Append(q, s)) = Len(q) + 1 /\ Len(q) \in Nat
        /\ \A k \in 1..Len(q) : Append(q, s)[k] = q[k]
        /\ Append(q, s)[Len(q) + 1] = s
    BY AppendProperties, LenProperties
  <1>2. CASE Good(i, s)
    <2>1. Bad(i, Append(q, s)) = Bad(i, q)
      BY <1>1, <1>2 DEF Bad
    <2>2. QED
      BY <1>2, <2>1, BadFinite
  <1>3. CASE ~Good(i, s)
    <2>1. Bad(i, Append(q, s)) = Bad(i, q) \cup {Len(q) + 1}
      BY <1>1, <1>3 DEF Bad
    <2>2. Len(q) + 1 \notin Bad(i, q)
      BY <1>1 DEF Bad
    <2>3. QED
      BY <1>3, <2>1, <2>2, BadFinite, FS_AddElement
  <1>4. QED
    BY <1>2, <1>3

LEMMA BadTail ==
  ASSUME NEW i, NEW S, NEW q \in Seq(S), q # <<>>
  PROVE  Cardinality(Bad(i, Tail(q))) + (IF Good(i, Head(q)) THEN 0 ELSE 1)
           <= Cardinality(Bad(i, q))
  <1> DEFINE f == [k \in Bad(i, Tail(q)) |-> k + 1]
             rest == Bad(i, q) \ {1}
  <1>1. /\ Len(Tail(q)) = Len(q) - 1 /\ Len(q) \in Nat \ {0} /\ Tail(q) \in Seq(S)
        /\ \A k \in 1..Len(Tail(q)) : Tail(q)[k] = q[k + 1]
    BY HeadTailProperties, LenProperties, EmptySeq
  <1>2. f \in [Bad(i, Tail(q)) -> rest]
    BY <1>1 DEF Bad
  <1>3. f \in Injection(Bad(i, Tail(q)), rest)
    <2>1. ASSUME NEW k \in Bad(i, Tail(q)), NEW l \in Bad(i, Tail(q)), f[k] = f[l]
          PROVE  k = l
      BY <2>1 DEF Bad
    <2>2. QED
      BY <1>2, <2>1 DEF Injection, IsInjective
  <1>4. IsFiniteSet(rest) /\ Cardinality(rest) = Cardinality(Bad(i, q))
                                                 - IF 1 \in Bad(i, q) THEN 1 ELSE 0
    BY BadFinite, FS_RemoveElement
  <1>5. Cardinality(Bad(i, Tail(q))) <= Cardinality(rest)
    BY <1>3, <1>4, FS_Injection
  <1>6. 1 \in Bad(i, q) <=> ~Good(i, Head(q))
    BY <1>1 DEF Bad
  <1>7. Cardinality(Bad(i, q)) \in Nat /\ Cardinality(Bad(i, Tail(q))) \in Nat
    BY <1>1, BadFinite
  <1> HIDE DEF rest
  <1>8. QED
    BY <1>4, <1>5, <1>6, <1>7
-----------------------------------------------------------------------------
LEMMA InitInv == Init => IInv
  <1> SUFFICES ASSUME Init PROVE IInv
    OBVIOUS
  <1>1. Types
    <2>1. \A i \in Transports : inbox[i] = <<>> /\ inbox[i] \in Seq(Samples) /\ Len(inbox[i]) = 0
      BY EmptySeq DEF Init
    <2>2. heap \in [Blocks -> [1..Size -> Bytes]]
      BY BytesAssumption DEF Init
    <2>3. IsFiniteSet(sent)
      BY FS_EmptySet DEF Init
    <2>4. QED
      BY <2>1, <2>2, <2>3, BoundsAssumption DEF Init, Types
  <1>2. Written /\ NoStaleBytes /\ DeliveredIsSent
    BY DEF Init, Written, NoStaleBytes, DeliveredIsSent
  <1>3. Sourced
    BY DEF Init, Sourced
  <1>4. Counted
    <2>1. \A i \in Transports : Bad(i, inbox[i]) = {}
      BY DEF Init, Bad
    <2>2. QED
      <3>1. \A i \in Transports : malformed[i] = 0 /\ Cardinality(Bad(i, inbox[i])) = 0
        BY <2>1, FS_EmptySet DEF Init
      <3>2. Cardinality(sent) = 0 /\ sends = 0
        BY FS_EmptySet DEF Init
      <3>3. QED
        BY <3>1, <3>2 DEF Counted
  <1>5. QED
    BY <1>1, <1>2, <1>3, <1>4 DEF IInv

(* The steps that only touch loans leave the rest alone.                   *)
carried == <<inbox, sends, delivered, malformed, sent>>

LEMMA LoanStep ==
  ASSUME IInv, UNCHANGED carried,
         heap' \in [Blocks -> [1..Size -> Bytes]],
         loans' \in [Blocks -> LoanRecord \cup {NoLoan}], loaned' \in 0..MaxLoans,
         Written'
  PROVE  IInv'
  <1> USE DEF IInv, carried
  <1>1. Types'
    BY DEF Types
  <1>2. NoStaleBytes' /\ DeliveredIsSent' /\ Sourced'
    BY DEF NoStaleBytes, DeliveredIsSent, Sourced
  <1>3. Counted'
    BY DEF Counted
  <1>4. QED
    BY <1>1, <1>2, <1>3

LEMMA Loaning ==
  ASSUME IInv, NEW core \in Cores, NEW spec \in Specs, NEW b \in Blocks,
         LoanTx(core, spec, b) \/ LoanUninitTx(core, spec, b)
  PROVE  IInv'
  <1> USE DEF IInv, Types
  <1> PICK initialized \in BOOLEAN :
        /\ Loan(core, spec, b, initialized)
        /\ \/ initialized /\ heap' = [heap EXCEPT ![b] = [i \in 1..Size |-> 0]]
           \/ ~initialized /\ UNCHANGED heap
    BY DEF LoanTx, LoanUninitTx
  <1> DEFINE loan == [core |-> core, source |-> spec.source, sink |-> spec.sink,
                      has_payload |-> spec.has_payload, len |-> spec.len,
                      metadata |-> loaned + 1, initialized |-> initialized, written |-> {}]
  <1>1. /\ loans' = [loans EXCEPT ![b] = loan] /\ loaned' = loaned + 1
        /\ loaned' \in 1..MaxLoans /\ UNCHANGED carried
    BY BoundsAssumption DEF Loan, carried, readerVars
  <1>2. /\ spec.source \in Uris /\ spec.sink \in Uris \cup {NoUri}
        /\ spec.has_payload \in BOOLEAN /\ spec.len \in 0..Size
        /\ spec.has_payload \/ spec.len = 0
    BY SpecsAssumption
  <1>3. loan \in LoanRecord
    BY <1>1, <1>2 DEF LoanRecord
  <1>4. heap' \in [Blocks -> [1..Size -> Bytes]]
    <2>1. 0 \in Bytes
      BY BytesAssumption, BoundsAssumption
    <2>2. [i \in 1..Size |-> 0] \in [1..Size -> Bytes]
      BY <2>1
    <2>3. QED
      BY <2>2
  <1>5. /\ loan.has_payload \/ loan.len = 0
        /\ loan.initialized => \A k \in 1..loan.len : heap'[b][k] = 0
        /\ loan.written = {}
    BY <1>2 DEF Size
  <1> HIDE DEF loan
  <1>6. Written'
    BY <1>1, <1>5 DEF Written
  <1>7. loans' \in [Blocks -> LoanRecord \cup {NoLoan}] /\ loaned' \in 0..MaxLoans
    BY <1>1, <1>3
  <1>8. QED
    BY <1>1, <1>4, <1>6, <1>7, LoanStep

LEMMA Filling ==
  ASSUME IInv, NEW b \in Blocks, NEW i \in 1..Size, Fill(b, i)
  PROVE  IInv'
  <1> USE DEF IInv, Types
  <1> DEFINE loan == [loans[b] EXCEPT !.written = @ \cup {i}]
             block == [heap[b] EXCEPT ![i] = loans[b].metadata]
  <1>1. /\ heap' = [heap EXCEPT ![b] = block] /\ loans' = [loans EXCEPT ![b] = loan]
        /\ loaned' = loaned /\ UNCHANGED carried /\ loans[b] # NoLoan
    BY DEF Fill, carried, readerVars
  <1>2. loans[b] \in LoanRecord
    BY <1>1
  <1>3. /\ loan \in LoanRecord /\ loan.written = loans[b].written \cup {i}
        /\ loan.has_payload = loans[b].has_payload /\ loan.len = loans[b].len
        /\ loan.initialized = loans[b].initialized /\ loan.metadata = loans[b].metadata
    BY <1>2 DEF LoanRecord
  <1>4. loans[b].metadata \in Bytes
    BY <1>2, BytesAssumption DEF LoanRecord
  <1>5. block \in [1..Size -> Bytes] /\ \A k \in 1..Size : block[k] =
          IF k = i THEN loans[b].metadata ELSE heap[b][k]
    BY <1>4
  <1>6. loan.len \in 0..Size /\ loan.written \subseteq 1..Size
    BY <1>3 DEF LoanRecord
  <1> HIDE DEF loan, block
  <1>7. heap' \in [Blocks -> [1..Size -> Bytes]]
    BY <1>1, <1>5
  <1>8. \A k \in 1..Size : block[k] \in {heap[b][k], loan.metadata}
    BY <1>3, <1>5
  <1>9. Written'
    <2>1. \A k \in 1..loan.len : k \in 1..Size
      BY <1>6 DEF Size
    <2>2. loan.initialized => \A k \in 1..loan.len : block[k] \in {0, loan.metadata}
      BY <1>1, <1>3, <1>8, <2>1 DEF Written
    <2>3. \A k \in loan.written : block[k] = loan.metadata
      BY <1>1, <1>3, <1>5, <1>6 DEF Written
    <2>4. loan.has_payload \/ loan.len = 0
      BY <1>1, <1>3 DEF Written
    <2>5. QED
      BY <1>1, <2>2, <2>3, <2>4 DEF Written
  <1>10. QED
    BY <1>1, <1>3, <1>7, <1>9, LoanStep

LEMMA Assuming ==
  ASSUME IInv, NEW b \in Blocks, AssumeInit(b) \/ DropLoan(b)
  PROVE  IInv'
  <1> USE DEF IInv, Types
  <1>1. /\ UNCHANGED carried /\ heap' = heap /\ loaned' = loaned /\ loans[b] \in LoanRecord
        /\ loans[b] # NoLoan
    BY DEF AssumeInit, DropLoan, carried, readerVars
  <1>2. CASE AssumeInit(b)
    <2> DEFINE loan == [loans[b] EXCEPT !.initialized = TRUE]
    <2>1. loans' = [loans EXCEPT ![b] = loan] /\ loans[b].written = 1..loans[b].len
      BY <1>2 DEF AssumeInit
    <2>2. /\ loan \in LoanRecord /\ loan.written = loans[b].written
          /\ loan.has_payload = loans[b].has_payload /\ loan.len = loans[b].len
          /\ loan.metadata = loans[b].metadata
      BY <1>1 DEF LoanRecord
    <2> HIDE DEF loan
    <2>3. Written'
      <3>1. \A k \in 1..loan.len : heap[b][k] = loan.metadata
        BY <1>1, <2>1, <2>2 DEF Written
      <3>2. loan.has_payload \/ loan.len = 0
        BY <1>1, <2>2 DEF Written
      <3>3. \A k \in loan.written : heap[b][k] = loan.metadata
        BY <1>1, <2>2 DEF Written
      <3>4. QED
        BY ZenonT(30), <1>1, <2>1, <3>1, <3>2, <3>3 DEF Written
    <2>4. QED
      BY <1>1, <2>1, <2>2, <2>3, LoanStep
  <1>3. CASE DropLoan(b)
    <2>1. loans' = [loans EXCEPT ![b] = NoLoan]
      BY <1>3 DEF DropLoan
    <2>2. Written'
      BY <1>1, <2>1 DEF Written
    <2>3. QED
      BY <1>1, <2>1, <2>2, LoanStep
  <1>4. QED
    BY <1>2, <1>3
-----------------------------------------------------------------------------
(* What a sample adds to the history: the message it is, or nothing.       *)
Adds(topic, s, new) ==
  \/ new = {} /\ \A i \in topic : ~Good(i, s)
  \/ \E x : /\ new = {x} /\ x.n = sends' /\ x.from = s.origin
            /\ x.from \in Transports \cup {Foreign}
            /\ x.from \in Cores =>
                 \A k \in DOMAIN x.what.lease.payload :
                   x.what.lease.payload[k] \in {0, x.what.lease.metadata}
            /\ \A i \in topic : Good(i, s) /\ x.what = Content(i, s)

LEMMA Posting ==
  ASSUME IInv, NEW topic \in {Cores, Framed}, NEW s \in Samples, Write(topic, s),
         NEW new, Adds(topic, s, new), sent' = sent \cup new, UNCHANGED readerVars,
         heap' \in [Blocks -> [1..Size -> Bytes]], loaned' \in 0..MaxLoans,
         loans' \in [Blocks -> LoanRecord \cup {NoLoan}], Written'
  PROVE  IInv'
  <1> USE DEF IInv
  <1>1. /\ sends' = sends + 1 /\ sends \in Nat /\ sends' \in 0..MaxSends
        /\ delivered' = delivered /\ malformed' = malformed
    BY BoundsAssumption DEF Write, Types, readerVars
  <1>2. \A i \in Transports :
          /\ inbox[i] \in Seq(Samples) /\ Len(inbox[i]) \in Nat
          /\ i \in topic => inbox'[i] = Append(inbox[i], s)
          /\ i \notin topic => inbox'[i] = inbox[i]
    BY LenProperties DEF Write, Types
  <1>3. \A i \in topic :
          /\ inbox'[i] \in Seq(Samples) /\ Len(inbox'[i]) = Len(inbox[i]) + 1
          /\ \A k \in 1..Len(inbox[i]) : inbox'[i][k] = inbox[i][k]
          /\ inbox'[i][Len(inbox[i]) + 1] = s
          /\ Cardinality(Bad(i, inbox'[i]))
               = Cardinality(Bad(i, inbox[i])) + IF Good(i, s) THEN 0 ELSE 1
    <2> SUFFICES ASSUME NEW i \in topic
                 PROVE  /\ Append(inbox[i], s) \in Seq(Samples)
                        /\ Len(Append(inbox[i], s)) = Len(inbox[i]) + 1
                        /\ \A k \in 1..Len(inbox[i]) : Append(inbox[i], s)[k] = inbox[i][k]
                        /\ Append(inbox[i], s)[Len(inbox[i]) + 1] = s
                        /\ Cardinality(Bad(i, Append(inbox[i], s)))
                             = Cardinality(Bad(i, inbox[i])) + IF Good(i, s) THEN 0 ELSE 1
      BY <1>2, Kinds
    <2>1. inbox[i] \in Seq(Samples)
      BY <1>2, Kinds
    <2>2. QED
      BY <2>1, AppendProperties, BadAppend
  <1>4. /\ IsFiniteSet(sent')
        /\ Cardinality(sent') = Cardinality(sent) + IF new = {} THEN 0 ELSE 1
        /\ \A x \in new : x.n = sends' /\ x.from \in Transports \cup {Foreign}
    <2>1. CASE new = {}
      <3>1. sent' = sent
        BY <2>1
      <3>2. Cardinality(sent) \in Nat
        BY FS_CardinalityType DEF Types
      <3>3. QED
        BY <2>1, <3>1, <3>2 DEF Types
    <2>2. CASE new # {}
      <3>1. PICK x : new = {x} /\ x.n = sends' /\ x.from \in Transports \cup {Foreign}
        BY <2>2 DEF Adds
      <3>2. x \notin sent
        BY <1>1, <3>1 DEF Types
      <3>3. QED
        BY <2>2, <3>1, <3>2, FS_AddElement DEF Types
    <2>3. QED
      BY <2>1, <2>2
  <1>5. Types'
    <2>1. inbox' \in [Transports -> Seq(Samples)]
      BY <1>2, <1>3 DEF Write
    <2>2. \A i \in Transports : Len(inbox'[i]) <= sends'
      BY <1>1, <1>2, <1>3 DEF Types
    <2>3. \A x \in sent' : x.n \in 1..sends' /\ x.from \in Transports \cup {Foreign}
      BY <1>1, <1>4 DEF Types
    <2>4. QED
      BY <1>1, <1>4, <2>1, <2>2, <2>3 DEF Types
  <1>6. NoStaleBytes'
    <2>1. \A x \in new : x.from \in Cores =>
            \A k \in DOMAIN x.what.lease.payload :
              x.what.lease.payload[k] \in {0, x.what.lease.metadata}
      BY DEF Adds
    <2>2. QED
      BY <2>1 DEF NoStaleBytes
  <1>7. Sourced'
    <2> SUFFICES ASSUME NEW i \in Transports, NEW k \in 1..Len(inbox'[i]),
                        Good(i, inbox'[i][k])
                 PROVE  \E x \in sent' : /\ x.from = inbox'[i][k].origin
                                         /\ x.what = Content(i, inbox'[i][k])
      BY DEF Sourced, Good, Content
    <2>1. CASE k \in 1..Len(inbox[i])
      <3>1. inbox'[i][k] = inbox[i][k]
        BY <1>2, <1>3, <2>1
      <3>2. QED
        BY <2>1, <3>1 DEF Sourced
    <2>2. CASE k \notin 1..Len(inbox[i])
      <3>1. i \in topic /\ inbox'[i][k] = s
        BY <1>2, <1>3, <2>2
      <3>2. PICK x \in new : x.from = s.origin /\ x.what = Content(i, s)
        BY <3>1 DEF Adds
      <3>3. QED
        BY <3>1, <3>2
    <2>3. QED
      BY <2>1, <2>2
  <1>8. DeliveredIsSent'
    BY <1>1 DEF DeliveredIsSent
  <1>9. Counted'
    <2> SUFFICES ASSUME NEW i \in Transports
                 PROVE  malformed[i] + Cardinality(Bad(i, inbox'[i])) + Cardinality(sent')
                          <= sends + 1
      BY <1>1 DEF Counted, Bad, Good
    <2>1. /\ malformed[i] \in Nat /\ Cardinality(sent) \in Nat
          /\ Cardinality(Bad(i, inbox[i])) \in Nat
          /\ malformed[i] + Cardinality(Bad(i, inbox[i])) + Cardinality(sent) <= sends
      BY <1>2, BadFinite, FS_CardinalityType DEF Types, Counted
    <2>2. CASE i \in topic
      <3>1. Good(i, s) <=> new # {}
        BY <2>2 DEF Adds
      <3>2. QED
        BY SMTT(30), <1>1, <1>3, <1>4, <2>1, <2>2, <3>1
    <2>3. CASE i \notin topic
      BY <1>1, <1>2, <1>4, <2>1, <2>3
    <2>4. QED
      BY <2>2, <2>3
  <1>10. QED
    BY <1>5, <1>6, <1>7, <1>8, <1>9

LEMMA SendingLoan ==
  ASSUME IInv, NEW b \in Blocks, SendLoan(b)
  PROVE  IInv'
  <1> DEFINE loan == loans[b]
             payload == SubSeq(heap[b], 1, loan.len)
             s == Commit(loan.core, loan, payload)
             what == [source |-> loan.source, sink |-> loan.sink,
                      lease |-> [metadata |-> loan.metadata, payload |-> payload]]
             x == [n |-> sends', from |-> loan.core, what |-> what]
  <1>1. /\ loan # NoLoan /\ loan.initialized /\ Write(Cores, s) /\ sent' = sent \cup {x}
        /\ loans' = [loans EXCEPT ![b] = NoLoan]
        /\ heap' = heap /\ loaned' = loaned /\ UNCHANGED readerVars
    BY DEF SendLoan
  <1>2. /\ loan \in LoanRecord /\ heap[b] \in [1..Size -> Bytes]
        /\ loan.core \in Cores /\ loan.len \in 0..Size
        /\ loan.source \in Uris /\ loan.sink \in Uris \cup {NoUri} /\ loan.has_payload \in BOOLEAN
    BY <1>1 DEF IInv, Types, LoanRecord
  <1>3. /\ loan.has_payload \/ loan.len = 0
        /\ \A k \in 1..loan.len : heap[b][k] \in {0, loan.metadata}
    BY <1>1 DEF IInv, Written
  <1> HIDE DEF loan
  <1>4. /\ payload \in Seq(Bytes) /\ Len(payload) = loan.len
        /\ \A k \in 1..loan.len : payload[k] = heap[b][k]
    <2>1. loan.len \in Int /\ \A k \in 1..loan.len : heap[b][k] \in Bytes
      BY <1>2 DEF Size
    <2>2. /\ payload \in Seq(Bytes)
          /\ Len(payload) = IF 1 <= loan.len THEN loan.len - 1 + 1 ELSE 0
          /\ \A k \in 1..(loan.len - 1 + 1) : payload[k] = heap[b][1 + k - 1]
      BY <2>1, SubSeqProperties
    <2>3. QED
      BY <1>2, <2>2 DEF Size
  <1> HIDE DEF payload
  <1>5. payload # <<>> => loan.has_payload
    BY <1>3, <1>4, EmptySeq
  <1>6. IsZeroCopySample(s) /\ AcceptsZeroCopy(s) /\ DecodeZeroCopy(s) = what
    BY <1>2, <1>4, <1>5, ZeroCopyRoundTrip
  <1>7. s \in Samples
    BY <1>2, <1>4 DEF Samples
  <1>8. s.origin = loan.core
    BY DEF Commit, ZeroCopySample
  <1>9. \A k \in DOMAIN payload : payload[k] \in {0, loan.metadata}
    BY <1>3, <1>4, LenProperties
  <1>10. /\ x.n = sends' /\ x.from = loan.core /\ x.what = what
         /\ what.lease.payload = payload /\ what.lease.metadata = loan.metadata
    OBVIOUS
  <1> HIDE DEF s, what, x
  <1>11. Adds(Cores, s, {x})
    <2>1. \A i \in Cores : Good(i, s) /\ x.what = Content(i, s)
      BY <1>6, <1>10, Kinds DEF Good, Content
    <2>2. x.from \in Transports \cup {Foreign}
      BY <1>2, <1>10, Kinds
    <2>3. QED
      BY <1>8, <1>9, <1>10, <2>1, <2>2 DEF Adds
  <1>12. Written'
    BY <1>1 DEF IInv, Types, Written
  <1>13. /\ heap' \in [Blocks -> [1..Size -> Bytes]] /\ loaned' \in 0..MaxLoans
         /\ loans' \in [Blocks -> LoanRecord \cup {NoLoan}]
    BY <1>1 DEF IInv, Types
  <1>14. QED
    BY <1>1, <1>7, <1>11, <1>12, <1>13, Posting

(* A send that makes no use of a loan.                                     *)
LEMMA LoansKept ==
  ASSUME IInv, UNCHANGED loanVars
  PROVE  /\ heap' \in [Blocks -> [1..Size -> Bytes]] /\ loaned' \in 0..MaxLoans
         /\ loans' \in [Blocks -> LoanRecord \cup {NoLoan}] /\ Written'
  BY DEF IInv, Types, Written, loanVars

LEMMA SendingFramed ==
  ASSUME IInv, NEW m \in Texted, NEW from \in Framed \cup {Foreign}, SendFramed(from, m)
  PROVE  IInv'
  <1> DEFINE s == Encode(from, m)
             x == [n |-> sends', from |-> from, what |-> m]
  <1>1. /\ Write(Framed, s) /\ sent' = sent \cup {x} /\ UNCHANGED loanVars
        /\ UNCHANGED readerVars
    BY DEF SendFramed
  <1>2. s \in Samples
    BY DEF Samples
  <1>3. Accepts(s) /\ Decode(s) = m
    BY FramedRoundTrip, TextedAssumption
  <1>4. s.origin = from
    BY DEF Encode, FramedSample
  <1>5. x.n = sends' /\ x.from = from /\ x.what = m
    OBVIOUS
  <1>6. from \notin Cores /\ from \in Transports \cup {Foreign}
    BY NamesAssumption, Kinds
  <1> HIDE DEF s, x
  <1>7. \A i \in Framed : Good(i, s) /\ x.what = Content(i, s)
    BY <1>3, <1>5 DEF Good, Content
  <1>8. Adds(Framed, s, {x})
    BY <1>4, <1>5, <1>6, <1>7 DEF Adds
  <1>9. QED
    BY <1>1, <1>2, <1>8, LoansKept, Posting

LEMMA SendingGarbage ==
  ASSUME IInv, NEW topic \in {Cores, Framed}, NEW s,
         \/ topic = Framed /\ s \in Garbage.framed
         \/ topic = Cores /\ s \in Garbage.zeroCopy,
         SendGarbage(topic, s)
  PROVE  IInv'
  <1>1. /\ Write(topic, s) /\ UNCHANGED loanVars /\ UNCHANGED readerVars
        /\ sent' = sent \cup {}
    BY DEF SendGarbage
  <1>2. s \in Samples
    BY DEF Samples
  <1>3. Adds(topic, s, {})
    BY GarbageIsBad DEF Adds
  <1>4. QED
    BY <1>1, <1>2, <1>3, LoansKept, Posting

LEMMA Reading ==
  ASSUME IInv, NEW i \in Transports, Read(i, Good(i, Head(inbox[i])), Content(i, Head(inbox[i])))
  PROVE  IInv'
  <1> USE DEF IInv
  <1> DEFINE q == inbox[i]
             s == Head(q)
  <1>1. /\ q # <<>> /\ q \in Seq(Samples) /\ inbox' = [inbox EXCEPT ![i] = Tail(q)]
        /\ sends' = sends /\ sent' = sent /\ UNCHANGED loanVars
    BY DEF Read, Types
  <1>2. /\ Tail(q) \in Seq(Samples) /\ Len(q) \in Nat /\ Len(Tail(q)) = Len(q) - 1
        /\ \A k \in 1..Len(Tail(q)) : Tail(q)[k] = q[k + 1]
        /\ s = q[1] /\ 1 \in 1..Len(q)
        /\ Cardinality(Bad(i, Tail(q))) + (IF Good(i, s) THEN 0 ELSE 1)
             <= Cardinality(Bad(i, q))
    BY <1>1, HeadTailProperties, LenProperties, EmptySeq, BadTail
  <1>3. /\ \A k \in Transports \ {i} : inbox'[k] = inbox[k]
        /\ inbox'[i] = Tail(q)
    BY <1>1 DEF Types
  <1>4. \/ UNCHANGED readerVars
        \/ /\ ~Good(i, s) /\ malformed' = [malformed EXCEPT ![i] = malformed[i] + 1]
           /\ delivered' = delivered
        \/ /\ s.origin # i /\ Good(i, s) /\ malformed' = malformed
           /\ delivered' = [delivered EXCEPT ![i] = delivered[i] \cup {Content(i, s)}]
    BY DEF Read
  <1> HIDE DEF q, s
  <1>5. Types'
    <2>1. malformed' \in [Transports -> Nat] /\ DOMAIN delivered' = Transports
      BY <1>4 DEF Types, readerVars
    <2>2. /\ inbox' \in [Transports -> Seq(Samples)]
          /\ \A k \in Transports : Len(inbox'[k]) <= sends
      BY <1>1, <1>2, <1>3 DEF Types, q
    <2>3. QED
      BY <1>1, <2>1, <2>2, LoansKept DEF Types
  <1>6. Written'
    BY <1>1, LoansKept
  <1>7. NoStaleBytes'
    BY <1>1 DEF NoStaleBytes
  <1>8. Sourced'
    <2> SUFFICES ASSUME NEW j \in Transports, NEW k \in 1..Len(inbox'[j]),
                        Good(j, inbox'[j][k])
                 PROVE  \E x \in sent' : /\ x.from = inbox'[j][k].origin
                                         /\ x.what = Content(j, inbox'[j][k])
      BY DEF Sourced, Good, Content
    <2>1. CASE j = i
      <3>1. k + 1 \in 1..Len(q) /\ inbox'[j][k] = q[k + 1]
        BY SMTT(30), <1>2, <1>3, <2>1
      <3>2. QED
        BY <1>1, <2>1, <3>1 DEF Sourced, q
    <2>2. CASE j # i
      <3>1. inbox'[j] = inbox[j]
        BY <1>3, <2>2
      <3>2. QED
        BY ZenonT(30), <1>1, <3>1 DEF Sourced
    <2>3. QED
      BY <2>1, <2>2
  <1>9. DeliveredIsSent'
    <2> SUFFICES ASSUME NEW j \in Transports, NEW f \in delivered'[j]
                 PROVE  \E x \in sent : x.from # j /\ x.what = f
      BY <1>1 DEF DeliveredIsSent
    <2>1. CASE f \in delivered[j]
      BY <2>1 DEF DeliveredIsSent
    <2>2. CASE f \notin delivered[j]
      <3>1. j = i /\ s.origin # i /\ Good(i, s) /\ f = Content(i, s)
        BY <1>4, <2>2 DEF readerVars, Types
      <3>2. PICK x \in sent : x.from = s.origin /\ x.what = Content(i, s)
        BY <1>2, <3>1 DEF Sourced, q
      <3>3. QED
        BY <3>1, <3>2
    <2>3. QED
      BY <2>1, <2>2
  <1>10. Counted'
    <2> SUFFICES ASSUME NEW j \in Transports
                 PROVE  malformed'[j] + Cardinality(Bad(j, inbox'[j])) + Cardinality(sent)
                          <= sends
      BY <1>1 DEF Counted, Bad, Good
    <2>1. /\ malformed[j] \in Nat /\ Cardinality(sent) \in Nat /\ sends \in Nat
          /\ Cardinality(Bad(j, inbox[j])) \in Nat /\ Cardinality(Bad(j, inbox'[j])) \in Nat
          /\ malformed[j] + Cardinality(Bad(j, inbox[j])) + Cardinality(sent) <= sends
      <3>1. inbox[j] \in Seq(Samples) /\ inbox'[j] \in Seq(Samples)
        BY <1>2, <1>3 DEF Types
      <3>2. QED
        BY SMTT(30), <3>1, BadFinite, FS_CardinalityType DEF Types, Counted
    <2>2. CASE j = i
      <3>1. \/ malformed'[i] = malformed[i]
            \/ ~Good(i, s) /\ malformed'[i] = malformed[i] + 1
        <4>1. i \in DOMAIN malformed
          BY DEF Types
        <4>2. QED
          BY <1>4, <4>1 DEF readerVars
      <3>2. QED
        BY SMTT(30), <1>2, <1>3, <2>1, <2>2, <3>1 DEF q
    <2>3. CASE j # i
      <3>1. malformed'[j] = malformed[j]
        BY <1>4, <2>3 DEF Types, readerVars
      <3>2. QED
        BY <1>3, <2>1, <2>3, <3>1
    <2>4. QED
      BY <2>2, <2>3
  <1>11. QED
    BY <1>5, <1>6, <1>7, <1>8, <1>9, <1>10
-----------------------------------------------------------------------------
(* The inductive invariant, and what follows from it.                      *)
THEOREM Inductive == Spec => []IInv
  <1>1. IInv /\ [Next]_vars => IInv'
    <2> SUFFICES ASSUME IInv, [Next]_vars PROVE IInv'
      OBVIOUS
    <2>1. ASSUME NEW b \in Blocks, NEW core \in Cores, NEW spec \in Specs,
                 LoanTx(core, spec, b) \/ LoanUninitTx(core, spec, b)
          PROVE  IInv'
      BY <2>1, Loaning
    <2>2. ASSUME NEW b \in Blocks,
                 (\E i \in 1..Size : Fill(b, i)) \/ AssumeInit(b) \/ DropLoan(b) \/ SendLoan(b)
          PROVE  IInv'
      BY <2>2, Filling, Assuming, SendingLoan
    <2>3. ASSUME NEW m \in Texted, NEW from \in Framed \cup {Foreign}, SendFramed(from, m)
          PROVE  IInv'
      BY <2>3, SendingFramed
    <2>4. CASE \/ \E s \in Garbage.framed : SendGarbage(Framed, s)
               \/ \E s \in Garbage.zeroCopy : SendGarbage(Cores, s)
      BY <2>4, SendingGarbage
    <2>5. ASSUME NEW i \in Framed, ReadFramed(i) PROVE IInv'
      BY <2>5, Reading, Kinds DEF ReadFramed, Good, Content
    <2>6. ASSUME NEW i \in Cores, ReadZeroCopy(i) PROVE IInv'
      BY <2>6, Reading, Kinds DEF ReadZeroCopy, Good, Content
    <2>7. CASE UNCHANGED vars
      <3>1. UNCHANGED carried /\ UNCHANGED loanVars
        BY <2>7 DEF vars, carried, readerVars
      <3>2. QED
        BY <3>1, LoansKept, LoanStep
    <2>8. QED
      BY <2>1, <2>2, <2>3, <2>4, <2>5, <2>6, <2>7 DEF Next, Quiet
  <1>2. QED
    BY InitInv, <1>1, PTL DEF Spec

(* Blocks, loans and samples keep their types; a reader never holds more   *)
(* than was sent, and counts no more as malformed.                         *)
THEOREM TypesKept == Spec => []TypeOK
  <1>1. IInv => TypeOK
    <2> SUFFICES ASSUME IInv PROVE malformed \in [Transports -> 0..MaxSends]
      BY DEF IInv, Types, TypeOK
    <2> SUFFICES ASSUME NEW i \in Transports PROVE malformed[i] <= MaxSends
      BY DEF IInv, Types
    <2>1. Cardinality(Bad(i, inbox[i])) \in Nat /\ Cardinality(sent) \in Nat
      BY BadFinite, FS_CardinalityType DEF IInv, Types
    <2>2. QED
      BY <2>1, BoundsAssumption DEF IInv, Types, Counted
  <1>2. QED
    BY Inductive, <1>1, PTL

(* A message carries its sender's bytes and zeros, however often the heap  *)
(* gives the same block to other loans before.                             *)
THEOREM NothingStale == Spec => []NoStaleBytes
  <1>1. IInv => NoStaleBytes
    BY DEF IInv
  <1>2. QED
    BY Inductive, <1>1, PTL

(* What the pollers hand on is what others sent, unchanged, whatever other *)
(* programs put on the topic.                                              *)
THEOREM DeliveriesAreSent == Spec => []DeliveredIsSent
  <1>1. IInv => DeliveredIsSent
    BY DEF IInv
  <1>2. QED
    BY Inductive, <1>1, PTL

(* The malformed counter never counts a message.                           *)
THEOREM MessagesAreWellFormed == Spec => []MalformedIsGarbage
  <1>1. IInv => MalformedIsGarbage
    <2> SUFFICES ASSUME IInv, NEW i \in Transports
                 PROVE  malformed[i] <= sends - Cardinality(sent)
      BY DEF MalformedIsGarbage
    <2>1. /\ Cardinality(Bad(i, inbox[i])) \in Nat /\ Cardinality(sent) \in Nat
          /\ malformed[i] \in Nat /\ sends \in Nat
      BY BadFinite, FS_CardinalityType, BoundsAssumption DEF IInv, Types
    <2>2. QED
      BY <2>1 DEF IInv, Counted
  <1>2. QED
    BY Inductive, <1>1, PTL
=============================================================================
