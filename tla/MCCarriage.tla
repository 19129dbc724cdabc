----------------------------- MODULE MCCarriage -----------------------------
(* Two cores and one framed transport that hears foreign programs; one     *)
(* block, so that every loan but the first meets used memory.              *)
EXTENDS Carriage

CONSTANTS core1, core2, framed, u, v, plain, encoded, b1, Noise

MCAttributes == {plain, encoded}
MCValid == {[attributes |-> plain, present |-> FALSE],
            [attributes |-> encoded, present |-> TRUE]}
MCBytes == {0, 1, 2, Old}
MCCores == {core1, core2}
MCFramed == {framed}
MCUris == {u, v}

MCSpecs == {[source |-> u, sink |-> NoUri, has_payload |-> FALSE, len |-> 0],
            [source |-> u, sink |-> v, has_payload |-> TRUE, len |-> 2]}
MCTexted == {[attributes |-> plain, payload |-> NoPayload],
             [attributes |-> encoded, payload |-> <<>>],
             [attributes |-> encoded, payload |-> <<1>>]}

MCGarbage ==
  [framed |-> {FramedSample(Foreign, Block(plain), FALSE, <<1>>),
               FramedSample(Foreign, Noise, TRUE, <<1>>),
               FramedSample(Foreign, Block(plain), TRUE, <<1>>)},
   zeroCopy |-> {ZeroCopySample(Foreign, Text(u), FALSE, Text(v), FALSE, 1, <<>>),
                 ZeroCopySample(Foreign, Text(u), TRUE, EmptyText, FALSE, 1, <<>>),
                 ZeroCopySample(Foreign, Text(u), FALSE, EmptyText, FALSE, 1, <<1>>),
                 ZeroCopySample(Foreign, Noise, FALSE, EmptyText, TRUE, 1, <<1>>),
                 ZeroCopySample(Foreign, Text(u), TRUE, Noise, TRUE, 1, <<1>>)}]
=============================================================================
