------------------------------ MODULE Carriage ------------------------------
(***************************************************************************)
(* Messages from a sender to the listeners of a peer: the transmit loans   *)
(* of the zero-copy family, over a heap whose blocks are used again; the   *)
(* samples of all families on their topics; and what the pollers make of   *)
(* samples of peers, of their own, and of foreign programs on the topic    *)
(* that need not keep to the contract.                                     *)
(*                                                                         *)
(* Each topic delivers in order to every reader, the writer's own too.     *)
(* What happens between the poller and the listener is module Transport.   *)
(***************************************************************************)
EXTENDS Wire, FiniteSets

CONSTANTS Cores,        \* zero-copy transports; their names are their origins
          Framed,       \* transports of the classic or the owned family
          Foreign,      \* origin of samples of other programs
          Specs,        \* [source, sink, has_payload, len] of loans
          Texted,       \* bound: messages that framed transports send
          Garbage,      \* samples that other programs may send
          Blocks,       \* heap blocks
          NoLoan,       \* the block is free
          Old,          \* a byte of a block that was never written here
          MaxLoans, MaxSends  \* bounds

Size == 2               \* bound: bytes of a block

ASSUME NamesAssumption == Cores \cap Framed = {} /\ Foreign \notin Cores \cup Framed
ASSUME BoundsAssumption == MaxLoans \in Nat /\ MaxSends \in Nat
ASSUME SpecsAssumption ==
  /\ Specs \subseteq [source : Uris, sink : Uris \cup {NoUri}, has_payload : BOOLEAN,
                      len : 0..Size]
  /\ \A s \in Specs : s.has_payload \/ s.len = 0
ASSUME BytesAssumption == Bytes = 0..MaxLoans \cup {Old} /\ Old \notin 0..MaxLoans
ASSUME GarbageAssumption ==
  /\ \A s \in Garbage.framed : IsFramedSample(s) /\ ~IsEncoded(s)
  /\ \A s \in Garbage.zeroCopy : IsZeroCopySample(s) /\ ~IsCommitted(s)
ASSUME TextedAssumption == Texted \subseteq Messages

Transports == Cores \cup Framed

VARIABLES
  heap,         \* heap[b]: the bytes of block b
  loans,        \* loans[b]: the loan that owns block b, or NoLoan
  loaned,       \* number of loans so far
  inbox,        \* inbox[i]: samples at the reader of i
  sends,        \* number of samples so far
  delivered,    \* delivered[i]: what the poller of i handed to its listeners
  malformed,    \* DdsHealth.malformed_samples
  sent          \* history: [n, from, what] of the messages that were sent

loanVars == <<heap, loans, loaned>>
readerVars == <<delivered, malformed>>
vars == <<loanVars, inbox, sends, readerVars, sent>>

Init ==
  /\ heap = [b \in Blocks |-> [i \in 1..Size |-> Old]]
  /\ loans = [b \in Blocks |-> NoLoan]
  /\ loaned = 0
  /\ inbox = [i \in Transports |-> <<>>]
  /\ sends = 0
  /\ delivered = [i \in Transports |-> {}]
  /\ malformed = [i \in Transports |-> 0]
  /\ sent = {}
-----------------------------------------------------------------------------
(* Loans.  Byte n of a payload is written by the owner of loan n, so that  *)
(* a byte tells whose it is; the metadata names the loan as well.          *)

Loan(core, spec, b, initialized) ==
  /\ loans[b] = NoLoan /\ loaned < MaxLoans
  /\ loaned' = loaned + 1
  /\ loans' = [loans EXCEPT ![b] =
       [core |-> core, source |-> spec.source, sink |-> spec.sink,
        has_payload |-> spec.has_payload, len |-> spec.len,
        metadata |-> loaned + 1, initialized |-> initialized, written |-> {}]]
  /\ UNCHANGED <<inbox, sends, readerVars, sent>>

(* Fault: the memory of an initialized loan is not cleared.                *)
LoanUncleared(core, spec, b) == Loan(core, spec, b, TRUE) /\ UNCHANGED heap

(* loan_prepared_tx: AlignedBytes::zeroed.                                 *)
LoanTx(core, spec, b) ==
  /\ Loan(core, spec, b, TRUE)
  /\ heap' = [heap EXCEPT ![b] = [i \in 1..Size |-> 0]]

(* loan_prepared_uninit_tx: AlignedBytes::uninitialized.                   *)
LoanUninitTx(core, spec, b) == Loan(core, spec, b, FALSE) /\ UNCHANGED heap

(* payload_mut and payload_uninit_mut, exclusive to the owner.             *)
Fill(b, i) ==
  /\ loans[b] # NoLoan /\ i <= loans[b].len
  /\ heap' = [heap EXCEPT ![b][i] = loans[b].metadata]
  /\ loans' = [loans EXCEPT ![b].written = @ \cup {i}]
  /\ UNCHANGED <<loaned, inbox, sends, readerVars, sent>>

(* Fault: the witness is given for the bytes written so far.               *)
AssumeInitEarly(b) ==
  /\ loans[b] # NoLoan /\ ~loans[b].initialized
  /\ loans' = [loans EXCEPT ![b].initialized = TRUE]
  /\ UNCHANGED <<heap, loaned, inbox, sends, readerVars, sent>>

(* assume_payload_init: up-rust calls it when every byte was written.      *)
AssumeInit(b) ==
  /\ loans[b] # NoLoan /\ ~loans[b].initialized
  /\ loans[b].written = 1..loans[b].len
  /\ loans' = [loans EXCEPT ![b].initialized = TRUE]
  /\ UNCHANGED <<heap, loaned, inbox, sends, readerVars, sent>>

DropLoan(b) ==
  /\ loans[b] # NoLoan
  /\ loans' = [loans EXCEPT ![b] = NoLoan]
  /\ UNCHANGED <<heap, loaned, inbox, sends, readerVars, sent>>
-----------------------------------------------------------------------------
(* Writers and readers.                                                    *)

Write(topic, sample) ==
  /\ sends < MaxSends
  /\ sends' = sends + 1
  /\ inbox' = [i \in Transports |-> IF i \in topic THEN Append(inbox[i], sample) ELSE inbox[i]]

(* send_prepared_zero_copy consumes the loan; a write that fails drops it  *)
(* (DropLoan, and an error that is Transport's SendFails).                 *)
SendLoan(b) ==
  LET loan == loans[b]
      payload == SubSeq(heap[b], 1, loan.len) IN
    /\ loan # NoLoan /\ loan.initialized
    /\ Write(Cores, Commit(loan.core, loan, payload))
    /\ sent' = sent \cup {[n |-> sends', from |-> loan.core, what |->
         [source |-> loan.source, sink |-> loan.sink,
          lease |-> [metadata |-> loan.metadata, payload |-> payload]]]}
    /\ loans' = [loans EXCEPT ![b] = NoLoan]
    /\ UNCHANGED <<heap, loaned, readerVars>>

(* send and send_validated_owned; other programs that keep to the contract *)
(* do the same.                                                            *)
SendFramed(from, m) ==
  /\ Write(Framed, Encode(from, m))
  /\ sent' = sent \cup {[n |-> sends', from |-> from, what |-> m]}
  /\ UNCHANGED <<loanVars, readerVars>>

SendGarbage(topic, sample) ==
  /\ Write(topic, sample)
  /\ UNCHANGED <<loanVars, readerVars, sent>>

(* The poller, from a taken sample to what it looks for listeners for.     *)
Read(i, accepts, what) ==
  LET s == Head(inbox[i]) IN
    /\ inbox[i] # <<>>
    /\ inbox' = [inbox EXCEPT ![i] = Tail(@)]
    /\ \/ s.origin = i /\ UNCHANGED readerVars
       \/ /\ s.origin # i /\ ~accepts
          /\ malformed' = [malformed EXCEPT ![i] = @ + 1]
          /\ UNCHANGED delivered
       \/ /\ s.origin # i /\ accepts
          /\ delivered' = [delivered EXCEPT ![i] = @ \cup {what}]
          /\ UNCHANGED malformed
    /\ UNCHANGED <<loanVars, sends, sent>>

ReadFramed(i) == Read(i, Accepts(Head(inbox[i])), Decode(Head(inbox[i])))
ReadZeroCopy(i) ==
  Read(i, AcceptsZeroCopy(Head(inbox[i])), DecodeZeroCopy(Head(inbox[i])))

Quiet ==
  /\ \A b \in Blocks : loans[b] = NoLoan
  /\ \A i \in Transports : inbox[i] = <<>>
  /\ UNCHANGED vars

Next ==
  \/ \E b \in Blocks :
       \/ \E core \in Cores, spec \in Specs : LoanTx(core, spec, b) \/ LoanUninitTx(core, spec, b)
       \/ \E i \in 1..Size : Fill(b, i)
       \/ AssumeInit(b) \/ DropLoan(b) \/ SendLoan(b)
  \/ \E m \in Texted, from \in Framed \cup {Foreign} : SendFramed(from, m)
  \/ \E sample \in Garbage.framed : SendGarbage(Framed, sample)
  \/ \E sample \in Garbage.zeroCopy : SendGarbage(Cores, sample)
  \/ (\E i \in Framed : ReadFramed(i)) \/ (\E i \in Cores : ReadZeroCopy(i))
  \/ Quiet

Spec == Init /\ [][Next]_vars
-----------------------------------------------------------------------------
LoanRecord ==
  [core : Cores, source : Uris, sink : Uris \cup {NoUri}, has_payload : BOOLEAN,
   len : 0..Size, metadata : 1..MaxLoans, initialized : BOOLEAN,
   written : SUBSET (1..Size)]

TypeOK ==
  /\ heap \in [Blocks -> [1..Size -> Bytes]]
  /\ loans \in [Blocks -> LoanRecord \cup {NoLoan}]
  /\ loaned \in 0..MaxLoans /\ sends \in 0..MaxSends
  /\ \A i \in Transports : Len(inbox[i]) <= sends
  /\ malformed \in [Transports -> 0..MaxSends]
  /\ \A x \in sent : x.n \in 1..sends /\ x.from \in Transports \cup {Foreign}

(* A zero-copy message carries nothing that its sender did not write: no   *)
(* byte of an earlier message in the same block and none of other memory,  *)
(* only its own bytes and, in an initialized loan, zeros.                  *)
NoStaleBytes ==
  \A x \in sent :
    x.from \in Cores =>
      LET lease == x.what.lease IN
        \A k \in DOMAIN lease.payload : lease.payload[k] \in {0, lease.metadata}

(* What a listener may be given is what another transport or program sent, *)
(* with its attributes or source and sink, and its payload absent, empty   *)
(* or not as it was; a sample outside the contract is never read as one.   *)
DeliveredIsSent ==
  \A i \in Transports : \A f \in delivered[i] :
    \E x \in sent : x.from # i /\ x.what = f

(* A message that keeps to the contract is never counted as malformed.     *)
MalformedIsGarbage ==
  \A i \in Transports : malformed[i] <= sends - Cardinality(sent)
=============================================================================
