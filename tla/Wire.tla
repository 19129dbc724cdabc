-------------------------------- MODULE Wire --------------------------------
(***************************************************************************)
(* The outer samples of the three carriage families, and how a transport   *)
(* makes and reads them.                                                   *)
(*                                                                         *)
(* Classic and owned samples differ in how the attributes of a message are *)
(* encoded and in nothing else: "framed" is both.  A zero-copy sample      *)
(* carries an opaque block of metadata, with source and sink beside it for *)
(* the routing.  Encodings are tagged values: up-rust makes and parses     *)
(* them, and only what it made parses.                                     *)
(***************************************************************************)
EXTENDS Naturals, Sequences

CONSTANTS Attributes,   \* what a message has beside its payload
          Valid,        \* [attributes, present]: combinations up-rust accepts
          Uris, NoUri,
          EmptyText,    \* the empty string
          Bytes, NoPayload

ASSUME ValidAssumption == Valid \subseteq [attributes : Attributes, present : BOOLEAN]
ASSUME NoUriAssumption == NoUri \notin Uris
ASSUME NoPayloadAssumption == NoPayload \notin Seq(Bytes)
ASSUME EmptyTextAssumption == EmptyText \notin [uri : Uris]
-----------------------------------------------------------------------------
(* Framed samples.                                                         *)

Present(payload) == payload # NoPayload

(* Messages that exist: send takes none that up-rust has not validated.    *)
Messages ==
  {m \in [attributes : Attributes, payload : Seq(Bytes) \cup {NoPayload}] :
     [attributes |-> m.attributes, present |-> Present(m.payload)] \in Valid}

FramedSample(origin, attributes, has_payload, payload) ==
  [origin |-> origin, attributes |-> attributes,
   has_payload |-> has_payload, payload |-> payload]

IsFramedSample(s) ==
  /\ s = FramedSample(s.origin, s.attributes, s.has_payload, s.payload)
  /\ s.has_payload \in BOOLEAN /\ s.payload \in Seq(Bytes)

Block(a) == [block |-> a]

(* Fault: an empty payload is taken for none.                              *)
EncodeByLength(origin, m) ==
  LET payload == IF Present(m.payload) THEN m.payload ELSE <<>> IN
    FramedSample(origin, Block(m.attributes), payload # <<>>, payload)

Encode(origin, m) ==
  FramedSample(origin, Block(m.attributes), Present(m.payload),
               IF Present(m.payload) THEN m.payload ELSE <<>>)

(* The contract: what a sample must be, to be that of a message.           *)
Encodes(s, m) == m \in Messages /\ s = Encode(s.origin, m)

IsEncoded(s) ==
  \E a \in Attributes, p \in {s.payload, NoPayload} :
    Encodes(s, [attributes |-> a, payload |-> p])

Presence(s) == s.has_payload \/ s.payload = <<>>

(* Fault: the bytes are not looked at unless the flag is set.              *)
AcceptsAnyBytes(s) ==
  \E a \in Attributes :
    /\ s.attributes = Block(a)
    /\ [attributes |-> a, present |-> s.has_payload] \in Valid

Accepts(s) ==
  /\ Presence(s)
  /\ \E a \in Attributes :
       /\ s.attributes = Block(a)
       /\ [attributes |-> a, present |-> s.has_payload] \in Valid

Decode(s) ==
  [attributes |-> s.attributes.block,
   payload |-> IF s.has_payload THEN s.payload ELSE NoPayload]
-----------------------------------------------------------------------------
(* Zero-copy samples.                                                      *)

Text(u) == [uri |-> u]
Texts == {Text(u) : u \in Uris}

ZeroCopySample(origin, source_uri, has_sink, sink_uri, has_payload, metadata, payload) ==
  [origin |-> origin, source_uri |-> source_uri, has_sink |-> has_sink,
   sink_uri |-> sink_uri, has_payload |-> has_payload, metadata |-> metadata,
   payload |-> payload]

IsZeroCopySample(s) ==
  /\ s = ZeroCopySample(s.origin, s.source_uri, s.has_sink, s.sink_uri, s.has_payload,
                        s.metadata, s.payload)
  /\ s.has_sink \in BOOLEAN /\ s.has_payload \in BOOLEAN /\ s.payload \in Seq(Bytes)

(* A loan is for [source, sink, has_payload, metadata].                    *)
Commit(origin, loan, bytes) ==
  ZeroCopySample(origin, Text(loan.source), loan.sink # NoUri,
                 IF loan.sink = NoUri THEN EmptyText ELSE Text(loan.sink),
                 loan.has_payload, loan.metadata, bytes)

(* The contract of this family: any metadata, on a route.                  *)
Routes(s, source, sink) ==
  s = Commit(s.origin, [source |-> source, sink |-> sink,
                        has_payload |-> s.has_payload, metadata |-> s.metadata], s.payload)

IsCommitted(s) ==
  /\ s.payload # <<>> => s.has_payload
  /\ \E source \in Uris, sink \in Uris \cup {NoUri} : Routes(s, source, sink)

(* Fault: a sink is read where no sink was meant.                          *)
AcceptsStraySink(s) ==
  /\ Presence(s)
  /\ s.source_uri \in Texts
  /\ s.has_sink => s.sink_uri \in Texts

(* A sink text that parses is not empty.                                   *)
AcceptsZeroCopy(s) ==
  /\ IF s.has_sink THEN s.sink_uri # EmptyText ELSE s.sink_uri = EmptyText
  /\ Presence(s)
  /\ s.source_uri \in Texts
  /\ s.has_sink => s.sink_uri \in Texts

(* DdsRxFrame: metadata and bytes, copied out of the sample and shared.    *)
(* Whether the payload was present is for the metadata to tell.            *)
Lease(s) == [metadata |-> s.metadata, payload |-> s.payload]

DecodeZeroCopy(s) ==
  [source |-> s.source_uri.uri,
   sink |-> IF s.has_sink THEN s.sink_uri.uri ELSE NoUri,
   lease |-> Lease(s)]
=============================================================================
