-------------------------- MODULE Producer_proofs --------------------------
(***************************************************************************)
(* Proofs about Producer, for any batch sizes and any number of records.   *)
(***************************************************************************)
EXTENDS Producer, SequenceTheorems, TLAPS

\* What commit_transaction has still to send was committed by the application.
CommittingIsCommitted == Elements(committing) \subseteq committed

\* A record whose send() threw is no part of a transaction, and has entered the
\* batch exactly if the error was that of the flush.
RefusalsAreTold ==
    \A e \in refused :
        /\ ~e.record.transactional
        /\ e.record \in Elements(accepted) <=> e.error \in FlushErrors

\* Numbers are given once: what there is has a number already given, and what
\* waits for its commit was made for a transaction.  So no record that was
\* refused is ever taken for another.
RecordsAreMade ==
    /\ \A e \in refused : e.record.id <= made
    /\ \A r \in Elements(accepted) : r.id <= made
    /\ \A r \in Elements(transactionBuffer) \union Elements(committing) :
          r.id <= made /\ r.transactional

\* total_sent counts what was handed to the socket, and no more.
CountsWhatWasSent == sentCount = Len(wire)

\* The inductive invariant.
PInv ==
    /\ PTypeOK
    /\ FullOnlyAfterFailure
    /\ RefusalsAreTold
    /\ RecordsAreMade
    /\ NothingLostOrDuplicated
    /\ CountsWhatWasSent
    /\ TransactionIsolated
    /\ CommittingIsCommitted

\* A flush cuts the batch in two, and the wire takes the first part.
LEMMA SplitBatch ==
  ASSUME NEW w \in Seq(Records), NEW b \in Seq(Records), NEW n \in 0 .. Len(b)
  PROVE  /\ w \o SubSeq(b, 1, n) \in Seq(Records)
         /\ Len(w \o SubSeq(b, 1, n)) = Len(w) + n
         /\ SubSeq(b, n + 1, Len(b)) \in Seq(Records)
         /\ n = Len(b) => SubSeq(b, n + 1, Len(b)) = <<>>
         /\ (w \o SubSeq(b, 1, n)) \o SubSeq(b, n + 1, Len(b)) = w \o b
  <1>0. Len(b) \in Nat /\ n \in Nat
    BY LenProperties
  <1>1. SubSeq(b, 1, n) \in Seq(Records) /\ Len(SubSeq(b, 1, n)) = n
    <2>1. \A i \in 1 .. n : b[i] \in Records
      BY <1>0, ElementOfSeq
    <2> QED
      BY <1>0, <2>1, SubSeqProperties
  <1>2. SubSeq(b, n + 1, Len(b)) \in Seq(Records)
    <2>1. \A i \in n + 1 .. Len(b) : b[i] \in Records
      BY <1>0, ElementOfSeq
    <2> QED
      BY <1>0, <2>1, SubSeqProperties
  <1>e. n = Len(b) => SubSeq(b, n + 1, Len(b)) = <<>>
    BY <1>0, SubSeqEmpty
  <1>3. SubSeq(b, 1, n) \o SubSeq(b, n + 1, Len(b)) = b
    <2>1. /\ 1 \in 1 .. Len(b) + 1 /\ n \in 1 - 1 .. Len(b)
          /\ Len(b) \in n .. Len(b)
      BY <1>0
    <2>2. SubSeq(b, 1, n) \o SubSeq(b, n + 1, Len(b)) = SubSeq(b, 1, Len(b))
      BY <2>1, ConcatAdjacentSubSeq
    <2> QED
      BY <2>2, SubSeqFull
  <1>4. (w \o SubSeq(b, 1, n)) \o SubSeq(b, n + 1, Len(b))
          = w \o (SubSeq(b, 1, n) \o SubSeq(b, n + 1, Len(b)))
    <2>1. \A p, q \in Seq(Records) : (w \o p) \o q = w \o (p \o q)
      BY ConcatAssociative
    <2> QED
      BY <1>1, <1>2, <2>1
  <1>5. w \o SubSeq(b, 1, n) \in Seq(Records) /\ Len(w \o SubSeq(b, 1, n)) = Len(w) + n
    BY <1>1, ConcatProperties
  <1> QED
    BY <1>2, <1>e, <1>3, <1>4, <1>5

\* What a flush of b does to the wire, the batch and the counts, however far
\* it gets.
LEMMA FlushKeeps ==
  ASSUME PInv, NEW b \in Seq(Records), NEW n \in Sendable(b), FlushPrefix(b, n)
  PROVE  /\ wire' \in Seq(Records) /\ batch' \in Seq(Records)
         /\ sentCount' \in Nat /\ errorCount' \in Nat
         /\ wire' \o batch' = wire \o b
         /\ sentCount' = Len(wire')
         /\ backlog' \in BOOLEAN /\ (batch' # <<>> => backlog')
  <1>1. n \in 0 .. Len(b) /\ n \in Nat
    BY LenProperties DEF Sendable
  <1>2. wire \in Seq(Records) /\ Len(wire) \in Nat /\ sentCount = Len(wire)
    BY LenProperties DEF PInv, PTypeOK, CountsWhatWasSent
  <1>3. /\ wire' \in Seq(Records) /\ batch' \in Seq(Records)
        /\ wire' \o batch' = wire \o b
        /\ Len(wire') = Len(wire) + n
        /\ n = Len(b) => batch' = <<>>
    BY <1>1, <1>2, SplitBatch DEF FlushPrefix
  <1>4. sentCount' = Len(wire') /\ sentCount' \in Nat
    BY <1>1, <1>2, <1>3 DEF FlushPrefix
  <1>5. errorCount' \in Nat
    BY DEF FlushPrefix, CountErrors, PInv, PTypeOK
  <1>6. backlog' \in BOOLEAN
    <2>1. (n < Len(b)) \in BOOLEAN
      BY <1>1, LenProperties
    <2>2. backlog' = (n < Len(b))
      BY Zenon DEF FlushPrefix
    <2> QED
      BY <2>1, <2>2, Zenon
  <1>7. batch' # <<>> => backlog'
    <2>1. Len(b) \in Nat
      BY LenProperties
    <2>2. ~(n = Len(b)) => n < Len(b)
      BY <1>1, <2>1
    <2> QED
      BY <1>3, <2>2 DEF FlushPrefix
  <1> QED
    BY <1>3, <1>4, <1>5, <1>6, <1>7

\* A push adds its record at the end of what was accepted, whether it fills
\* the batch or not and whether its flush fails or not.
LEMMA PushKeeps ==
  ASSUME PInv, NEW r \in Records, NEW failed \in BOOLEAN, Push(r, failed)
  PROVE  /\ wire' \in Seq(Records) /\ batch' \in Seq(Records)
         /\ accepted' \in Seq(Records)
         /\ sentCount' \in Nat /\ errorCount' \in Nat
         /\ wire' \o batch' = accepted'
         /\ sentCount' = Len(wire')
         /\ backlog' \in BOOLEAN
         /\ batch' # <<>> /\ Len(batch') >= batchSize => backlog'
  <1> DEFINE b == Append(batch, r)
  <1>1. /\ wire \in Seq(Records) /\ batch \in Seq(Records)
        /\ accepted \in Seq(Records) /\ accepted = wire \o batch
        /\ sentCount \in Nat /\ errorCount \in Nat /\ sentCount = Len(wire)
    BY DEF PInv, PTypeOK, NothingLostOrDuplicated, CountsWhatWasSent
  <1>2. b \in Seq(Records)
    BY <1>1, AppendProperties
  <1>3. accepted' = Append(accepted, r) /\ accepted' \in Seq(Records)
    BY <1>1, AppendProperties DEF Push
  <1>4. wire \o b = accepted'
    <2>1. <<r>> \in Seq(Records)
      <3>1. <<>> \in Seq(Records)
        BY EmptySeq
      <3>2. Append(<<>>, r) = <<>> \o <<r>> /\ Append(<<>>, r) \in Seq(Records)
        BY <3>1, AppendIsConcat, AppendProperties
      <3> QED
        BY <3>2
    <2>2. b = batch \o <<r>> /\ accepted' = accepted \o <<r>>
      BY <1>1, <1>3, AppendIsConcat
    <2>3. (wire \o batch) \o <<r>> = wire \o (batch \o <<r>>)
      BY <1>1, <2>1, ConcatAssociative
    <2> QED
      BY <1>1, <2>2, <2>3
  <1> HIDE DEF b
  <1>5. CASE BatchFull(b)
    <2>1. PICK n \in Sendable(b) : FlushPrefix(b, n)
      BY <1>5 DEF Push, b
    <2> QED
      BY <1>2, <1>3, <1>4, <2>1, FlushKeeps
  <1>6. CASE ~BatchFull(b)
    <2>1. batch' = b /\ UNCHANGED <<wire, sentCount, errorCount, backlog>>
      BY <1>6 DEF Push, b
    <2>2. backlog' \in BOOLEAN
      BY <2>1, Zenon DEF PInv, PTypeOK
    <2>3. ~(Len(batch') >= batchSize)
      BY <1>6, <2>1 DEF BatchFull
    <2> QED
      BY <1>1, <1>2, <1>3, <1>4, <2>1, <2>2, <2>3
  <1> QED
    BY <1>5, <1>6

\* A push of a record that may be sent keeps transactions isolated.
LEMMA PushIsolates ==
  ASSUME PInv, NEW r \in Records, NEW failed \in BOOLEAN, Push(r, failed),
         r.transactional => r \in committed, committed' = committed
  PROVE  TransactionIsolated'
  <1>1. accepted \in Seq(Records) /\ accepted' = Append(accepted, r)
    BY DEF PInv, PTypeOK, Push
  <1>2. Len(accepted) \in Nat /\ DOMAIN accepted = 1 .. Len(accepted)
    BY <1>1, LenProperties
  <1>3. DOMAIN accepted' = 1 .. Len(accepted) + 1
    BY <1>1, <1>2, AppendProperties, LenProperties
  <1>4. SUFFICES ASSUME NEW i \in 1 .. Len(accepted) + 1, accepted'[i].transactional
                 PROVE  accepted'[i] \in committed
    BY <1>3 DEF TransactionIsolated
  <1>5. CASE i \in 1 .. Len(accepted)
    <2>1. accepted'[i] = accepted[i]
      BY <1>1, <1>5, AppendProperties
    <2> QED
      BY <1>2, <1>4, <1>5, <2>1 DEF PInv, TransactionIsolated
  <1>6. CASE i = Len(accepted) + 1
    <2>1. accepted'[i] = r
      BY <1>1, <1>6, AppendProperties
    <2> QED
      BY <1>4, <2>1
  <1> QED
    BY <1>2, <1>5, <1>6

\* The elements of a sequence, and of what is left of it.
LEMMA ElementsOfTail ==
  ASSUME NEW q \in Seq(Records), q # <<>>
  PROVE  /\ Head(q) \in Elements(q) /\ Head(q) \in Records
         /\ Tail(q) \in Seq(Records)
         /\ Elements(Tail(q)) \subseteq Elements(q)
  <1>1. Len(q) \in Nat \ {0} /\ DOMAIN q = 1 .. Len(q)
    BY EmptySeq, LenProperties
  <1>2. /\ Head(q) \in Records /\ Tail(q) \in Seq(Records)
        /\ Len(Tail(q)) = Len(q) - 1
        /\ \A i \in 1 .. Len(Tail(q)) : Tail(q)[i] = q[i + 1]
    BY HeadTailProperties
  <1>3. DOMAIN Tail(q) = 1 .. Len(q) - 1
    BY <1>2, LenProperties
  <1>4. Head(q) \in Elements(q)
    <2>1. Head(q) = q[1]
      BY <1>1
    <2> QED
      BY <1>1, <2>1 DEF Elements
  <1>5. Elements(Tail(q)) \subseteq Elements(q)
    <2> SUFFICES ASSUME NEW i \in 1 .. Len(q) - 1
                 PROVE  Tail(q)[i] \in Elements(q)
      BY <1>3 DEF Elements
    <2>1. Tail(q)[i] = q[i + 1] /\ i + 1 \in DOMAIN q
      BY <1>1, <1>2
    <2> QED
      BY <2>1 DEF Elements
  <1> QED
    BY <1>2, <1>4, <1>5

\* A new producer has an empty batch and no transaction.
LEMMA PInitInv == PInit => PInv
  <1> SUFFICES ASSUME PInit PROVE PInv
    OBVIOUS
  <1>1. PTypeOK
    <2>1. <<>> \in Seq(Records)
      BY EmptySeq
    <2>2. open \in BOOLEAN /\ inTransaction \in BOOLEAN /\ backlog \in BOOLEAN
      BY Zenon DEF PInit
    <2> QED
      BY <2>1, <2>2, ProducerAssumption DEF PInit, PTypeOK
  <1>2. NothingLostOrDuplicated
    <2>1. <<>> \o <<>> = <<>>
      BY EmptySeq, ConcatEmptySeq
    <2> QED
      BY <2>1 DEF PInit, NothingLostOrDuplicated
  <1>3. CountsWhatWasSent
    BY DEF PInit, CountsWhatWasSent
  <1>4. TransactionIsolated /\ CommittingIsCommitted
    BY DEF PInit, TransactionIsolated, CommittingIsCommitted, Elements
  <1>5. FullOnlyAfterFailure /\ RefusalsAreTold /\ RecordsAreMade
    BY DEF PInit, FullOnlyAfterFailure, RefusalsAreTold, RecordsAreMade, Elements
  <1> QED
    BY <1>1, <1>2, <1>3, <1>4, <1>5 DEF PInv

\* A flush, on demand or on disconnect(), keeps the invariant.
LEMMA FlushStep ==
  ASSUME PInv, NEW n \in Sendable(batch), FlushPrefix(batch, n), open' \in BOOLEAN,
         UNCHANGED <<batchSize, transaction, application, accepted>>
  PROVE  PInv'
  <1>1. batch \in Seq(Records)
    BY DEF PInv, PTypeOK
  <1>2. /\ wire' \in Seq(Records) /\ batch' \in Seq(Records)
        /\ sentCount' \in Nat /\ errorCount' \in Nat
        /\ wire' \o batch' = wire \o batch
        /\ sentCount' = Len(wire')
        /\ backlog' \in BOOLEAN /\ (batch' # <<>> => backlog')
    BY <1>1, FlushKeeps
  <1>3. PTypeOK'
    BY <1>2 DEF PInv, PTypeOK, transaction, application
  <1>4. NothingLostOrDuplicated' /\ CountsWhatWasSent'
    BY <1>2 DEF PInv, NothingLostOrDuplicated, CountsWhatWasSent
  <1>5. TransactionIsolated' /\ CommittingIsCommitted'
    BY DEF PInv, TransactionIsolated, CommittingIsCommitted, Elements, transaction
  <1>6. FullOnlyAfterFailure'
    BY <1>2 DEF FullOnlyAfterFailure
  <1>7. RefusalsAreTold' /\ RecordsAreMade'
    BY DEF PInv, RefusalsAreTold, RecordsAreMade, application, transaction, Elements
  <1> QED
    BY <1>3, <1>4, <1>5, <1>6, <1>7 DEF PInv

\* A push of a record that may be sent keeps the invariant, if what remains to
\* be committed is only made shorter.
LEMMA PushStep ==
  ASSUME PInv, NEW r \in Records, NEW failed \in BOOLEAN, Push(r, failed),
         r.transactional => r \in committed,
         made' \in 0 .. MaxRecords, resends' \in 0 .. MaxResends,
         refused' \subseteq [record : Records, error : SendErrors],
         RefusalsAreTold', RecordsAreMade',
         committing' \in Seq(Records), Elements(committing') \subseteq committed,
         UNCHANGED <<open, batchSize, inTransaction, transactionBuffer, committed>>
  PROVE  PInv'
  <1>1. /\ wire' \in Seq(Records) /\ batch' \in Seq(Records)
        /\ accepted' \in Seq(Records)
        /\ sentCount' \in Nat /\ errorCount' \in Nat
        /\ wire' \o batch' = accepted'
        /\ sentCount' = Len(wire')
        /\ backlog' \in BOOLEAN
        /\ batch' # <<>> /\ Len(batch') >= batchSize => backlog'
    BY PushKeeps
  <1>2. PTypeOK'
    BY <1>1 DEF PInv, PTypeOK
  <1>3. NothingLostOrDuplicated' /\ CountsWhatWasSent'
    BY <1>1 DEF NothingLostOrDuplicated, CountsWhatWasSent
  <1>4. TransactionIsolated'
    BY PushIsolates
  <1>5. CommittingIsCommitted'
    BY DEF CommittingIsCommitted, Elements
  <1>6. FullOnlyAfterFailure'
    BY <1>1 DEF FullOnlyAfterFailure
  <1> QED
    BY <1>2, <1>3, <1>4, <1>5, <1>6 DEF PInv

\* A step that only moves the transaction's buffer about keeps the invariant,
\* if it commits what it hands over.
LEMMA TransactionStep ==
  ASSUME PInv, PTypeOK', RecordsAreMade', UNCHANGED <<batching, refused, wire, accepted>>,
         committed \subseteq committed', Elements(committing') \subseteq committed'
  PROVE  PInv'
  <1>1. NothingLostOrDuplicated' /\ CountsWhatWasSent'
    BY DEF PInv, NothingLostOrDuplicated, CountsWhatWasSent, batching
  <1>2. TransactionIsolated'
    BY DEF PInv, TransactionIsolated
  <1>3. CommittingIsCommitted'
    BY DEF CommittingIsCommitted, Elements
  <1>4. FullOnlyAfterFailure' /\ RefusalsAreTold'
    BY DEF PInv, FullOnlyAfterFailure, RefusalsAreTold, batching, Elements
  <1> QED
    BY <1>1, <1>2, <1>3, <1>4 DEF PInv

\* The elements of a sequence that was appended to.
LEMMA ElementsOfAppend ==
  ASSUME NEW q \in Seq(Records), NEW r \in Records
  PROVE  Elements(Append(q, r)) = Elements(q) \union {r}
  <1>1. /\ Len(q) \in Nat /\ DOMAIN q = 1 .. Len(q)
        /\ DOMAIN Append(q, r) = 1 .. Len(q) + 1
        /\ Append(q, r)[Len(q) + 1] = r
        /\ \A i \in 1 .. Len(q) : Append(q, r)[i] = q[i]
    BY AppendProperties, LenProperties
  <1>2. 1 .. Len(q) + 1 = 1 .. Len(q) \union {Len(q) + 1}
    BY <1>1
  <1> QED
    BY <1>1, <1>2 DEF Elements

\* A push adds its record to what was accepted, and nothing else.
LEMMA PushAdds ==
  ASSUME PInv, NEW r \in Records, NEW failed \in BOOLEAN, Push(r, failed)
  PROVE  (Elements(accepted))' = Elements(accepted) \union {r}
  <1>1. accepted \in Seq(Records) /\ accepted' = Append(accepted, r)
    BY DEF PInv, PTypeOK, Push
  <1>2. (Elements(accepted))' = Elements(accepted')
    BY DEF Elements
  <1> QED
    BY <1>1, <1>2, ElementsOfAppend

\* The errors of send(), told apart by their codes.
LEMMA ErrorsDiffer ==
  /\ SendError \in SendErrors /\ SendError \in FlushErrors
  /\ \A error \in {ErrorOf.produce_error, ErrorOf.configuration} :
        error \in SendErrors /\ error \notin FlushErrors
  BY DEF SendError, SendErrors, FlushErrors, ErrorOf, Exception, StreamlineError

\* What the application is told of a record that was pushed is true, and what
\* it was told of others stays so.
LEMMA AnswerKeeps ==
  ASSUME PInv, NEW r \in Records, ~r.transactional, NEW failed \in BOOLEAN,
         Push(r, failed), Answered(r, failed)
  PROVE  /\ refused' \subseteq [record : Records, error : SendErrors]
         /\ RefusalsAreTold'
         /\ \A e \in refused' : e \in refused \/ e.record = r
  <1>1. (Elements(accepted))' = Elements(accepted) \union {r}
    BY PushAdds
  <1>2. \A e \in refused' : \/ e \in refused /\ e.record # r
                           \/ e = Refused(r, SendError)
    BY DEF Answered
  <1>3. /\ Refused(r, SendError) \in [record : Records, error : SendErrors]
        /\ Refused(r, SendError).record = r
        /\ Refused(r, SendError).error \in FlushErrors
    BY ErrorsDiffer DEF Refused
  <1>4. refused' \subseteq [record : Records, error : SendErrors]
    BY <1>2, <1>3 DEF PInv, PTypeOK
  <1>5. ASSUME NEW e \in refused'
        PROVE  /\ ~e.record.transactional
               /\ e.record \in (Elements(accepted))' <=> e.error \in FlushErrors
    BY <1>1, <1>2, <1>3 DEF PInv, RefusalsAreTold
  <1>6. RefusalsAreTold'
    BY <1>5 DEF RefusalsAreTold, FlushErrors, ErrorOf, Exception
  <1> QED
    BY <1>2, <1>3, <1>4, <1>6

\* A step that makes no more than the record r keeps the numbering.
LEMMA NumbersKept ==
  ASSUME PInv, NEW r \in Records, made' \in Nat, made <= made', r.id <= made',
         \A e \in refused' : e \in refused \/ e.record = r,
         (Elements(accepted))' \subseteq Elements(accepted) \union {r},
         \A s \in (Elements(transactionBuffer))' \union (Elements(committing))' :
            \/ s \in Elements(transactionBuffer) \union Elements(committing)
            \/ s = r /\ r.transactional
  PROVE  RecordsAreMade'
  <1>1. made \in Nat
    BY ProducerAssumption DEF PInv, PTypeOK
  <1>2. ASSUME NEW s \in Records, s.id <= made
        PROVE  s.id <= made'
    <2>1. s.id \in Nat
      BY ProducerAssumption DEF Records
    <2> QED
      BY <1>1, <1>2, <2>1
  <1>3. \A q \in Seq(Records) : Elements(q) \subseteq Records
    BY LenProperties, ElementOfSeq DEF Elements
  <1>4. /\ Elements(accepted) \subseteq Records
        /\ Elements(transactionBuffer) \union Elements(committing) \subseteq Records
    BY <1>3 DEF PInv, PTypeOK
  <1>5. ASSUME NEW e \in refused' PROVE e.record.id <= made'
    BY <1>2 DEF PInv, PTypeOK, RecordsAreMade
  <1>6. ASSUME NEW s \in (Elements(accepted))' PROVE s.id <= made'
    BY <1>2, <1>4 DEF PInv, RecordsAreMade
  <1>7. ASSUME NEW s \in (Elements(transactionBuffer))' \union (Elements(committing))'
        PROVE  s.id <= made' /\ s.transactional
    BY <1>2, <1>4 DEF PInv, RecordsAreMade
  <1> QED
    BY <1>5, <1>6, <1>7 DEF RecordsAreMade

\* Every step keeps the invariant.
LEMMA PStep == PInv /\ [PNext]_pVars => PInv'
  <1> SUFFICES ASSUME PInv, [PNext]_pVars PROVE PInv'
    OBVIOUS
  <1>t. /\ batch \in Seq(Records) /\ transactionBuffer \in Seq(Records)
        /\ committing \in Seq(Records) /\ made \in 0 .. MaxRecords
        /\ <<>> \in Seq(Records) /\ Elements(<<>>) = {}
        /\ Elements(committing) \subseteq committed
        /\ MaxRecords \in Nat
    BY EmptySeq, ProducerAssumption
    DEF PInv, PTypeOK, CommittingIsCommitted, Elements
  <1>m. RecordsAreMade
    BY DEF PInv
  <1>1. CASE Send
    <2>1. PICK failed \in BOOLEAN : /\ Push(NewRecord(FALSE, TRUE), failed)
                                    /\ Answered(NewRecord(FALSE, TRUE), failed)
      BY <1>1 DEF Send
    <2>2. /\ NewRecord(FALSE, TRUE) \in Records
          /\ ~NewRecord(FALSE, TRUE).transactional
          /\ NewRecord(FALSE, TRUE).id = made + 1
          /\ made' \in 0 .. MaxRecords /\ made' = made + 1
      BY <1>t, <1>1 DEF Send, NewRecord, Records
    <2>3. UNCHANGED <<open, batchSize, inTransaction, transactionBuffer, committing, committed>>
      BY <1>1 DEF Send, transaction
    <2>4. resends' \in 0 .. MaxResends
      BY <1>1 DEF Send, PInv, PTypeOK
    <2>5. /\ refused' \subseteq [record : Records, error : SendErrors]
          /\ RefusalsAreTold'
          /\ \A e \in refused' : e \in refused \/ e.record = NewRecord(FALSE, TRUE)
      BY <2>1, <2>2, AnswerKeeps
    <2>6. (Elements(accepted))' = Elements(accepted) \union {NewRecord(FALSE, TRUE)}
      BY <2>1, <2>2, PushAdds
    <2>7. RecordsAreMade'
      <3>1. made' \in Nat /\ made <= made' /\ NewRecord(FALSE, TRUE).id <= made'
        <4>1. made' = made + 1 /\ NewRecord(FALSE, TRUE).id = made'
          BY <2>2, Zenon
        <4>2. made' = made + 1 => made' \in Nat /\ made <= made' /\ made' <= made'
          BY <1>t
        <4> QED
          BY <4>1, <4>2, Zenon
      <3>2. UNCHANGED <<Elements(transactionBuffer), Elements(committing)>>
        BY <2>3 DEF Elements
      <3> QED
        BY <2>2, <2>5, <2>6, <3>1, <3>2, NumbersKept
    <2> QED
      BY <1>t, <2>1, <2>2, <2>3, <2>4, <2>5, <2>7, PushStep DEF Elements
  <1>1a. ASSUME NEW e \in refused, SendAgain(e)
         PROVE  PInv'
    <2>1. PICK failed \in BOOLEAN : Push(e.record, failed) /\ Answered(e.record, failed)
      BY <1>1a DEF SendAgain
    <2>2. e.record \in Records /\ ~e.record.transactional /\ e.record.id <= made
      BY DEF PInv, PTypeOK, RefusalsAreTold, RecordsAreMade
    <2>3. /\ UNCHANGED <<open, batchSize, inTransaction, transactionBuffer, committing, committed>>
          /\ made' = made
      BY <1>t, <1>1a DEF SendAgain, transaction
    <2>4. resends' \in 0 .. MaxResends
      BY <1>1a, ProducerAssumption DEF SendAgain, PInv, PTypeOK
    <2>5. /\ refused' \subseteq [record : Records, error : SendErrors]
          /\ RefusalsAreTold'
          /\ \A f \in refused' : f \in refused \/ f.record = e.record
      BY <2>1, <2>2, AnswerKeeps
    <2>6. (Elements(accepted))' = Elements(accepted) \union {e.record}
      BY <2>1, <2>2, PushAdds
    <2>7. RecordsAreMade'
      <3>1. made' \in Nat /\ made <= made' /\ e.record.id <= made'
        BY <1>t, <2>2, <2>3
      <3>2. UNCHANGED <<Elements(transactionBuffer), Elements(committing)>>
        BY <2>3 DEF Elements
      <3> QED
        BY <2>2, <2>5, <2>6, <3>1, <3>2, NumbersKept
    <2> QED
      BY <1>t, <2>1, <2>2, <2>3, <2>4, <2>5, <2>7, PushStep DEF Elements
  <1>1b. CASE SendRefused
    <2> DEFINE r == NewRecord(FALSE, TRUE)
    <2>1. PICK error \in {ErrorOf.produce_error, ErrorOf.configuration} :
            refused' = refused \union {Refused(r, error)}
      BY <1>1b DEF SendRefused
    <2>2. /\ r \in Records /\ ~r.transactional
          /\ r.id = made + 1
          /\ made' \in 0 .. MaxRecords /\ made' = made + 1
      BY <1>t, <1>1b DEF SendRefused, NewRecord, Records
    <2>3. UNCHANGED <<open, batching, transaction, resends, wire, accepted>>
      BY <1>1b DEF SendRefused
    <2>4. error \in SendErrors /\ error \notin FlushErrors
      BY ErrorsDiffer
    <2> HIDE DEF r
    <2>5. Refused(r, error).record = r /\ Refused(r, error).error = error
          /\ Refused(r, error) \in [record : Records, error : SendErrors]
      BY <2>2, <2>4 DEF Refused
    <2>6. r \notin Elements(accepted)
      BY <1>t, <1>m, <2>2 DEF RecordsAreMade
    <2>7. RefusalsAreTold'
      <3>1. ASSUME NEW e \in refused'
            PROVE  /\ ~e.record.transactional
                   /\ e.record \in Elements(accepted) <=> e.error \in FlushErrors
        BY <2>1, <2>2, <2>4, <2>5, <2>6 DEF PInv, RefusalsAreTold
      <3>2. (Elements(accepted))' = Elements(accepted)
        BY <2>3 DEF Elements
      <3> QED
        BY <3>1, <3>2 DEF RefusalsAreTold, FlushErrors, ErrorOf, Exception
    <2>8. RecordsAreMade'
      <3>1. made' \in Nat /\ made <= made' /\ r.id <= made'
        BY <1>t, <2>2
      <3>2. UNCHANGED <<Elements(transactionBuffer), Elements(committing), Elements(accepted)>>
        BY <2>3 DEF Elements, transaction
      <3>3. \A e \in refused' : e \in refused \/ e.record = r
        BY <2>1, <2>5
      <3> QED
        BY <2>2, <3>1, <3>2, <3>3, NumbersKept
    <2>9. PTypeOK'
      BY <2>1, <2>2, <2>3, <2>5 DEF PInv, PTypeOK, batching, transaction
    <2> QED
      BY <2>3, <2>7, <2>8, <2>9
      DEF batching, transaction, PInv, NothingLostOrDuplicated, CountsWhatWasSent,
          TransactionIsolated, CommittingIsCommitted, Elements, FullOnlyAfterFailure
  <1>2. CASE Flush
    <2>1. PICK n \in Sendable(batch) : FlushPrefix(batch, n)
      BY <1>2 DEF Flush
    <2>2. UNCHANGED <<open, batchSize, transaction, application, accepted>>
      BY <1>2 DEF Flush
    <2>3. open' \in BOOLEAN
      BY <2>2, Zenon DEF PInv, PTypeOK
    <2> QED
      BY <2>1, <2>2, <2>3, FlushStep
  <1>3. CASE Disconnect
    <2>1. PICK n \in Sendable(batch) : FlushPrefix(batch, n)
      BY <1>3 DEF Disconnect
    <2>2. open' \in BOOLEAN
      BY <1>3, Zenon DEF Disconnect
    <2>3. UNCHANGED <<batchSize, transaction, application, accepted>>
      BY <1>3 DEF Disconnect
    <2> QED
      BY <2>1, <2>2, <2>3, FlushStep
  <1>4. ASSUME NEW n \in BatchSizes, SetBatchSize(n)
        PROVE  PInv'
    <2>1. n \in Nat
      BY ProducerAssumption
    <2>2. backlog' \in BOOLEAN
      BY <1>4, Zenon DEF SetBatchSize
    <2>3. PTypeOK'
      BY <2>1, <2>2, <1>4 DEF SetBatchSize, transaction, application, PInv, PTypeOK
    <2>4. FullOnlyAfterFailure'
      BY <1>4 DEF SetBatchSize, FullOnlyAfterFailure
    <2> QED
      BY <2>3, <2>4, <1>4
      DEF SetBatchSize, transaction, application, PInv, NothingLostOrDuplicated,
          CountsWhatWasSent, TransactionIsolated, CommittingIsCommitted, Elements,
          RefusalsAreTold, RecordsAreMade
  <1>5. CASE BeginTransaction
    <2>1. inTransaction' \in BOOLEAN
      BY <1>5, Zenon DEF BeginTransaction
    <2>2. UNCHANGED <<open, batching, committing, committed, application, wire, accepted>>
      BY <1>5 DEF BeginTransaction
    <2>3. PTypeOK'
      BY <1>t, <1>5, <2>1, <2>2 DEF BeginTransaction, PInv, PTypeOK, batching, application
    <2>4. transactionBuffer' = <<>>
      BY <1>5 DEF BeginTransaction
    <2>5. RecordsAreMade'
      BY <1>t, <1>m, <2>2, <2>4 DEF RecordsAreMade, Elements, application
    <2> QED
      BY <1>t, <2>2, <2>3, <2>5, TransactionStep DEF application
  <1>6. CASE CommitTransaction
    <2>1. inTransaction' \in BOOLEAN
      BY <1>6, Zenon DEF CommitTransaction
    <2>2. Elements(transactionBuffer) \subseteq Records
      <3>1. \A i \in DOMAIN transactionBuffer : transactionBuffer[i] \in Records
        BY <1>t, LenProperties, ElementOfSeq
      <3> QED
        BY <3>1 DEF Elements
    <2>3. /\ UNCHANGED <<open, batching, application, wire, accepted>>
          /\ committing' = transactionBuffer /\ transactionBuffer' = <<>>
          /\ committed' = committed \union Elements(transactionBuffer)
      BY <1>6 DEF CommitTransaction
    <2>4. PTypeOK'
      BY <1>t, <2>1, <2>2, <2>3 DEF PInv, PTypeOK, batching, application
    <2>5. RecordsAreMade'
      BY <1>t, <1>m, <2>3 DEF RecordsAreMade, Elements, application
    <2> QED
      BY <2>3, <2>4, <2>5, TransactionStep DEF application
  <1>7. CASE AbortTransaction
    <2>1. inTransaction' \in BOOLEAN
      BY <1>7, Zenon DEF AbortTransaction
    <2>2. /\ UNCHANGED <<open, batching, committing, committed, application, wire, accepted>>
          /\ transactionBuffer' = <<>>
      BY <1>7 DEF AbortTransaction
    <2>3. PTypeOK'
      BY <1>t, <2>1, <2>2 DEF PInv, PTypeOK, batching, application
    <2>4. RecordsAreMade'
      BY <1>t, <1>m, <2>2 DEF RecordsAreMade, Elements, application
    <2> QED
      BY <1>t, <2>2, <2>3, <2>4, TransactionStep DEF application
  <1>8. ASSUME NEW valid \in Validities, SendTransactional(valid)
        PROVE  PInv'
    <2>1. /\ NewRecord(TRUE, valid) \in Records
          /\ NewRecord(TRUE, valid).transactional /\ NewRecord(TRUE, valid).id = made + 1
          /\ made' \in 0 .. MaxRecords /\ made' = made + 1
      BY <1>t, <1>8, ProducerAssumption DEF SendTransactional, NewRecord, Records
    <2>2. transactionBuffer' \in Seq(Records)
      BY <1>t, <1>8, <2>1, AppendProperties DEF SendTransactional
    <2>3. UNCHANGED <<open, batching, inTransaction, committing, committed, refused,
                      resends, wire, accepted>>
      BY <1>8 DEF SendTransactional
    <2>4. PTypeOK'
      BY <2>1, <2>2, <2>3 DEF PInv, PTypeOK, batching, application
    <2>5. (Elements(transactionBuffer))'
             = Elements(transactionBuffer) \union {NewRecord(TRUE, valid)}
      <3>1. transactionBuffer' = Append(transactionBuffer, NewRecord(TRUE, valid))
        BY <1>8 DEF SendTransactional
      <3>2. (Elements(transactionBuffer))' = Elements(transactionBuffer')
        BY DEF Elements
      <3> QED
        BY <1>t, <2>1, <3>1, <3>2, ElementsOfAppend
    <2>6. RecordsAreMade'
      <3>1. UNCHANGED <<refused, Elements(accepted), Elements(committing)>>
        BY <2>3 DEF Elements
      <3>2. made' \in Nat /\ made <= made' /\ NewRecord(TRUE, valid).id <= made'
        <4>1. made' = made + 1 /\ NewRecord(TRUE, valid).id = made'
          BY <2>1, Zenon
        <4>2. made' = made + 1 => made' \in Nat /\ made <= made' /\ made' <= made'
          BY <1>t
        <4> QED
          BY <4>1, <4>2, Zenon
      <3> QED
        BY <2>1, <2>5, <3>1, <3>2, NumbersKept
    <2> QED
      BY <1>t, <2>3, <2>4, <2>6, TransactionStep
  <1>9. CASE CommitSends
    <2>1. PICK failed \in BOOLEAN :
            /\ Push(Head(committing), failed)
            /\ committing' = IF failed THEN <<>> ELSE Tail(committing)
      BY <1>9 DEF CommitSends
    <2>2. /\ Head(committing) \in Records /\ Head(committing) \in committed
          /\ committing' \in Seq(Records) /\ Elements(committing') \subseteq committed
      BY <1>t, <1>9, <2>1, ElementsOfTail DEF CommitSends
    <2>3. /\ UNCHANGED <<open, batchSize, inTransaction, transactionBuffer, committed>>
          /\ made' \in 0 .. MaxRecords /\ resends' \in 0 .. MaxResends
          /\ refused' \subseteq [record : Records, error : SendErrors]
          /\ made' = made /\ refused' = refused
      BY <1>t, <1>9 DEF CommitSends, application, PInv, PTypeOK
    <2>4. (Elements(accepted))' = Elements(accepted) \union {Head(committing)}
      BY <2>1, <2>2, PushAdds
    <2>5. /\ Head(committing).transactional /\ Head(committing).id <= made
          /\ (Elements(committing))' \subseteq Elements(committing)
      <3>1. /\ Head(committing) \in Elements(committing)
            /\ Elements(Tail(committing)) \subseteq Elements(committing)
        BY <1>t, <1>9, ElementsOfTail DEF CommitSends
      <3>2. (Elements(committing))' = Elements(committing')
        BY DEF Elements
      <3> QED
        BY <1>t, <1>m, <2>1, <3>1, <3>2 DEF RecordsAreMade
    <2>6. RefusalsAreTold'
      <3>1. ASSUME NEW e \in refused
            PROVE  /\ ~e.record.transactional
                   /\ e.record \in (Elements(accepted))' <=> e.error \in FlushErrors
        BY <2>4, <2>5 DEF PInv, RefusalsAreTold
      <3> QED
        BY <2>3, <3>1 DEF RefusalsAreTold, FlushErrors, ErrorOf, Exception
    <2>7. RecordsAreMade'
      <3>1. (Elements(transactionBuffer))' = Elements(transactionBuffer)
        BY <2>3 DEF Elements
      <3> QED
        BY <1>m, <2>3, <2>4, <2>5, <3>1 DEF RecordsAreMade
    <2> QED
      BY <2>1, <2>2, <2>3, <2>6, <2>7, PushStep
  <1>10. CASE CommitRefused
    <2>1. /\ UNCHANGED <<open, batching, inTransaction, transactionBuffer, committed,
                          application, wire, accepted>>
          /\ committing' = <<>>
      BY <1>10 DEF CommitRefused
    <2>2. PTypeOK'
      BY <1>t, <2>1 DEF PInv, PTypeOK, batching, application
    <2>3. RecordsAreMade'
      BY <1>t, <1>m, <2>1 DEF RecordsAreMade, Elements, application
    <2> QED
      BY <1>t, <2>1, <2>2, <2>3, TransactionStep DEF application
  <1>11. CASE ConnectionChanges
    <2>1. open' \in BOOLEAN
      BY <1>11, Zenon DEF ConnectionChanges, PInv, PTypeOK
    <2>2. UNCHANGED <<batching, transaction, application, wire, accepted>>
      BY <1>11 DEF ConnectionChanges
    <2>3. PTypeOK'
      BY <2>1, <2>2 DEF PInv, PTypeOK, batching, application, transaction
    <2>4. RecordsAreMade'
      BY <1>m, <2>2 DEF RecordsAreMade, Elements, transaction, application
    <2> QED
      BY <1>t, <2>2, <2>3, <2>4, TransactionStep DEF transaction, application
  <1>12. CASE UNCHANGED pVars
    BY <1>12
    DEF pVars, batching, transaction, application, PInv, PTypeOK,
        NothingLostOrDuplicated, CountsWhatWasSent, TransactionIsolated,
        CommittingIsCommitted, Elements, FullOnlyAfterFailure, RefusalsAreTold,
        RecordsAreMade
  <1> QED
    BY <1>1, <1>1a, <1>1b, <1>2, <1>3, <1>4, <1>5, <1>6, <1>7, <1>8, <1>9, <1>10, <1>11, <1>12
    DEF PNext

\* Every reachable state of a producer satisfies the invariant.
THEOREM PInvariant == PSpec => []PInv
  BY PInitInv, PStep, PTL DEF PSpec

\* The batch, the transaction and the histories have their types.
THEOREM TypesAreRight == PSpec => []PTypeOK
  <1>1. PInv => PTypeOK
    BY DEF PInv
  <1> QED
    BY <1>1, PInvariant, PTL

\* A batch is full only if its last flush failed or its size was lowered, for
\* every batch size.
THEOREM FullMeansFailed == PSpec => []FullOnlyAfterFailure
  <1>1. PInv => FullOnlyAfterFailure
    BY DEF PInv
  <1> QED
    BY <1>1, PInvariant, PTL

\* Whether a record whose send() threw was kept can be told by the error, then
\* and later, for every batch size and pattern of failures.
THEOREM ErrorTells == PSpec => []ErrorTellsWhatIsKept
  <1>1. PInv => ErrorTellsWhatIsKept
    BY DEF PInv, NothingLostOrDuplicated, RefusalsAreTold, ErrorTellsWhatIsKept
  <1> QED
    BY <1>1, PInvariant, PTL

\* A record that entered the batch is sent once, in order, or waits: for every
\* batch size, number of records and pattern of failures.
THEOREM NothingLost == PSpec => []NothingLostOrDuplicated
  <1>1. PInv => NothingLostOrDuplicated
    BY DEF PInv
  <1> QED
    BY <1>1, PInvariant, PTL

\* total_sent is the number of records handed to the socket.
THEOREM CountIsRight == PSpec => []CountsWhatWasSent
  <1>1. PInv => CountsWhatWasSent
    BY DEF PInv
  <1> QED
    BY <1>1, PInvariant, PTL

\* Nothing of a transaction is sent before its commit, nor after its abort.
THEOREM Isolation == PSpec => []TransactionIsolated
  <1>1. PInv => TransactionIsolated
    BY DEF PInv
  <1> QED
    BY <1>1, PInvariant, PTL

(***************************************************************************)
(* The producer keeps the promise of Outbox.                               *)
(***************************************************************************)

\* What a flush sends, it sends over an open socket.
LEMMA FlushNeedsSocket ==
  ASSUME PInv, NEW b \in Seq(Records), NEW n \in Sendable(b), FlushPrefix(b, n)
  PROVE  /\ Len(wire) <= Len(wire')
         /\ Len(wire') > Len(wire) => open
  <1>1. n \in 0 .. Len(b) /\ n \in Nat /\ (n > 0 => open)
    BY LenProperties DEF Sendable
  <1>2. wire \in Seq(Records) /\ Len(wire) \in Nat
    BY LenProperties DEF PInv, PTypeOK
  <1>3. Len(wire') = Len(wire) + n
    BY <1>1, <1>2, SplitBatch DEF FlushPrefix
  <1> QED
    BY <1>1, <1>2, <1>3

\* ... and so does a push.
LEMMA PushNeedsSocket ==
  ASSUME PInv, NEW r \in Records, NEW failed \in BOOLEAN, Push(r, failed)
  PROVE  /\ Len(wire) <= Len(wire')
         /\ Len(wire') > Len(wire) => open
  <1> DEFINE b == Append(batch, r)
  <1>1. b \in Seq(Records)
    BY AppendProperties DEF PInv, PTypeOK
  <1>2. wire \in Seq(Records) /\ Len(wire) \in Nat
    BY LenProperties DEF PInv, PTypeOK
  <1> HIDE DEF b
  <1>3. CASE BatchFull(b)
    <2>1. PICK n \in Sendable(b) : FlushPrefix(b, n)
      BY <1>3 DEF Push, b
    <2> QED
      BY <1>1, <2>1, FlushNeedsSocket
  <1>4. CASE ~BatchFull(b)
    <2>1. wire' = wire
      BY <1>4 DEF Push, b
    <2> QED
      BY <1>2, <2>1
  <1> QED
    BY <1>3, <1>4

\* A step whose new wire is longer by what an open socket took delivers, in the
\* sense of Outbox: the wire is the first part of what was accepted.
LEMMA WireDelivers ==
  ASSUME PTypeOK', NothingLostOrDuplicated', PTypeOK,
         Len(wire) <= Len(wire'), Len(wire') > Len(wire) => open
  PROVE  Promise!Deliver
  <1>1. /\ wire' \in Seq(Records) /\ batch' \in Seq(Records) /\ wire \in Seq(Records)
        /\ accepted' = wire' \o batch'
    BY DEF PTypeOK, NothingLostOrDuplicated
  <1>2. Len(wire') \in Nat /\ Len(wire) \in Nat /\ Len(batch') \in Nat
    BY <1>1, LenProperties
  <1>3. Len(accepted') = Len(wire') + Len(batch')
    BY <1>1, ConcatProperties
  <1>4. Len(wire') \in Len(wire) .. Len(accepted')
    BY <1>2, <1>3
  <1>5. wire' = SubSeq(accepted', 1, Len(wire'))
    <2>1. \A i \in 1 .. Len(wire') : accepted'[i] = wire'[i] /\ wire'[i] \in Records
      BY <1>1, <1>2, ConcatProperties, ElementOfSeq
    <2>2. /\ SubSeq(accepted', 1, Len(wire')) \in Seq(Records)
          /\ Len(SubSeq(accepted', 1, Len(wire'))) = Len(wire')
          /\ \A i \in 1 .. Len(wire') :
                SubSeq(accepted', 1, Len(wire'))[i] = accepted'[i]
      <3>1. \A i \in 1 .. Len(wire') : accepted'[i] \in Records
        BY <2>1
      <3> QED
        BY <1>2, <3>1, SubSeqProperties
    <2>3. \A s, t \in Seq(Records) :
            Len(s) = Len(t) /\ (\A i \in 1 .. Len(s) : s[i] = t[i]) => s = t
      BY SeqEqual
    <2> QED
      BY <1>1, <2>1, <2>2, <2>3
  <1> QED
    BY <1>4, <1>5 DEF Promise!Deliver

\* Every step of the producer is a step of an outbox, or none.
LEMMA OutboxStep ==
  PInv /\ PInv' /\ [PNext]_pVars => [Promise!ONext]_(Promise!outboxVars)
  <1> SUFFICES ASSUME PInv, PInv', [PNext]_pVars
               PROVE  Promise!ONext \/ UNCHANGED Promise!outboxVars
    OBVIOUS
  <1>t. /\ PTypeOK /\ PTypeOK' /\ NothingLostOrDuplicated'
        /\ batch \in Seq(Records) /\ committing \in Seq(Records)
        /\ wire \in Seq(Records) /\ Len(wire) \in Nat
    BY LenProperties DEF PInv, PTypeOK
  <1>1. CASE Send
    <2>1. PICK failed \in BOOLEAN : Push(NewRecord(FALSE, TRUE), failed)
      BY <1>1 DEF Send
    <2> DEFINE r == NewRecord(FALSE, TRUE)
    <2>2. r \in Records /\ ~r.transactional
      BY <1>t, <1>1, ProducerAssumption DEF Send, NewRecord, Records, PTypeOK
    <2> HIDE DEF r
    <2>3. Promise!Deliver
      BY <1>t, <2>1, <2>2, PushNeedsSocket, WireDelivers DEF r
    <2>4. Promise!Offer(r)
      BY <1>1, <2>1, <2>2, <2>3
      DEF Send, MayCall, Push, transaction, Promise!Offer, r
    <2> QED
      BY <2>2, <2>4 DEF Promise!ONext
  <1>2. ASSUME NEW e \in refused, SendAgain(e)
        PROVE  Promise!ONext
    <2> DEFINE r == e.record
    <2>1. PICK failed \in BOOLEAN : Push(r, failed)
      BY <1>2 DEF SendAgain
    <2>2. r \in Records /\ ~r.transactional
      BY DEF PInv, PTypeOK, RefusalsAreTold
    <2>3. Promise!Deliver
      BY <1>t, <2>1, <2>2, PushNeedsSocket, WireDelivers
    <2>4. Promise!Offer(r)
      BY <1>2, <2>1, <2>2, <2>3
      DEF SendAgain, MayCall, Push, transaction, Promise!Offer
    <2> QED
      BY <2>2, <2>4 DEF Promise!ONext
  <1>3. CASE Flush \/ Disconnect
    <2>1. PICK n \in Sendable(batch) : FlushPrefix(batch, n)
      BY <1>3 DEF Flush, Disconnect
    <2>2. Promise!Deliver
      BY <1>t, <2>1, FlushNeedsSocket, WireDelivers
    <2>3. Promise!DeliverMore
      BY <1>3, <2>2 DEF Flush, Disconnect, MayCall, transaction, Promise!DeliverMore
    <2> QED
      BY <2>3 DEF Promise!ONext
  <1>4. CASE CommitSends
    <2>1. PICK failed \in BOOLEAN :
            /\ Push(Head(committing), failed)
            /\ committing' = IF failed THEN <<>> ELSE Tail(committing)
      BY <1>4 DEF CommitSends
    <2>2. Head(committing) \in Records
      BY <1>t, <1>4, ElementsOfTail DEF CommitSends
    <2>3. Promise!Deliver
      BY <1>t, <2>1, <2>2, PushNeedsSocket, WireDelivers
    <2>4. accepted' = Append(accepted, Head(committing))
      BY <2>1 DEF Push
    <2>5. Promise!OfferReleased
      BY <1>4, <2>1, <2>3, <2>4 DEF CommitSends, Promise!OfferReleased
    <2> QED
      BY <2>5 DEF Promise!ONext
  <1>5. CASE CommitRefused
    <2>1. Promise!Drop
      BY <1>5 DEF CommitRefused, batching, Promise!Drop
    <2> QED
      BY <2>1 DEF Promise!ONext
  <1>6. CASE BeginTransaction \/ AbortTransaction
    <2>1. Promise!Withdraw
      BY <1>6
      DEF BeginTransaction, AbortTransaction, MayCall, batching, Promise!Withdraw
    <2> QED
      BY <2>1 DEF Promise!ONext
  <1>7. CASE CommitTransaction
    <2>1. Promise!Release
      BY <1>7 DEF CommitTransaction, MayCall, batching, Promise!Release
    <2> QED
      BY <2>1 DEF Promise!ONext
  <1>8. ASSUME NEW valid \in Validities, SendTransactional(valid)
        PROVE  Promise!ONext
    <2> DEFINE r == NewRecord(TRUE, valid)
    <2>1. r \in Records /\ r.transactional
      BY <1>t, <1>8, ProducerAssumption DEF SendTransactional, NewRecord, Records, PTypeOK
    <2> HIDE DEF r
    <2>2. Promise!Hold(r)
      BY <1>8, <2>1 DEF SendTransactional, MayCall, batching, Promise!Hold, r
    <2> QED
      BY <2>1, <2>2 DEF Promise!ONext
  <1>9. CASE ConnectionChanges
    <2>1. Promise!Connectivity
      BY <1>9 DEF ConnectionChanges, transaction, Promise!Connectivity
    <2> QED
      BY <2>1 DEF Promise!ONext
  <1>10. CASE SendRefused \/ (\E n \in BatchSizes : SetBatchSize(n)) \/ UNCHANGED pVars
    BY <1>10
    DEF SendRefused, SetBatchSize, pVars, batching, transaction, Promise!outboxVars
  <1> QED
    BY <1>1, <1>2, <1>3, <1>4, <1>5, <1>6, <1>7, <1>8, <1>9, <1>10 DEF PNext

\* For any batch sizes, records and failures a producer is an outbox: what is
\* on the wire is the first of what was accepted, it grows over open sockets
\* only, and transactions come out whole and in order as far as they are sent.
THEOREM ProducerIsAnOutbox == PSpec => KeepsOutbox
  <1>1. PInit => Promise!OInit
    BY DEF PInit, Promise!OInit
  <1> QED
    BY <1>1, OutboxStep, PInvariant, PTL DEF PSpec, KeepsOutbox, Promise!OSpec

(***************************************************************************)
(* commit_transaction sends everything when nothing goes wrong meanwhile:  *)
(* what CommitSendsAll needs, and does not have in general.                *)
(***************************************************************************)
AllValid(q) == \A i \in DOMAIN q : q[i].valid

\* Called on an open socket, which ends only in a task of its own.
CommitsWhileOpen == [][CommitTransaction => open]_pVars

\* What was committed is on its way or still to be sent, over an open socket and
\* without an invalid topic to stop it.
CommitInv ==
    /\ PInv
    /\ committed \subseteq Elements(accepted) \union Elements(committing)
    /\ committing # <<>> => open
    /\ AllValid(transactionBuffer) /\ AllValid(committing)

\* The records of a sequence are its first and the rest.
LEMMA ElementsSplit ==
  ASSUME NEW q \in Seq(Records), q # <<>>
  PROVE  /\ Elements(q) \subseteq {Head(q)} \union Elements(Tail(q))
         /\ AllValid(q) => AllValid(Tail(q))
  <1>1. Len(q) \in Nat \ {0} /\ DOMAIN q = 1 .. Len(q)
    BY EmptySeq, LenProperties
  <1>2. /\ Tail(q) \in Seq(Records) /\ Len(Tail(q)) = Len(q) - 1
        /\ \A i \in 1 .. Len(Tail(q)) : Tail(q)[i] = q[i + 1]
    BY HeadTailProperties
  <1>3. DOMAIN Tail(q) = 1 .. Len(q) - 1
    BY <1>2, LenProperties
  <1>4. ASSUME NEW i \in DOMAIN q, i # 1
        PROVE  q[i] \in Elements(Tail(q))
    <2>1. i - 1 \in DOMAIN Tail(q) /\ i - 1 \in 1 .. Len(Tail(q)) /\ (i - 1) + 1 = i
      BY <1>1, <1>2, <1>3, <1>4
    <2>2. Tail(q)[i - 1] = q[i]
      BY <1>2, <2>1
    <2> QED
      BY <2>1, <2>2 DEF Elements
  <1>5. q[1] = Head(q)
    BY <1>1
  <1>6. Elements(q) \subseteq {Head(q)} \union Elements(Tail(q))
    BY <1>4, <1>5 DEF Elements
  <1>7. AllValid(q) => AllValid(Tail(q))
    <2> SUFFICES ASSUME AllValid(q), NEW i \in DOMAIN Tail(q)
                 PROVE  Tail(q)[i].valid
      BY DEF AllValid
    <2>1. i + 1 \in DOMAIN q /\ Tail(q)[i] = q[i + 1]
      BY <1>1, <1>2, <1>3
    <2> QED
      BY <2>1 DEF AllValid
  <1> QED
    BY <1>6, <1>7

\* On an open socket whose send() does not throw, a push returns no error.
LEMMA PushSucceeds ==
  ASSUME PInv, SendMayFail = FALSE, open,
         NEW r \in Records, NEW failed \in BOOLEAN, Push(r, failed)
  PROVE  ~failed
  <1> DEFINE b == Append(batch, r)
  <1>1. b \in Seq(Records) /\ Len(b) \in Nat
    BY AppendProperties, LenProperties DEF PInv, PTypeOK
  <1> HIDE DEF b
  <1>2. CASE BatchFull(b)
    <2>1. PICK n \in Sendable(b) : failed = (n < Len(b))
      BY <1>2 DEF Push, b
    <2>2. ~(n < Len(b))
      BY DEF Sendable
    <2> QED
      BY <2>1, <2>2, Zenon
  <1>3. CASE ~BatchFull(b)
    BY <1>3 DEF Push, b
  <1> QED
    BY <1>2, <1>3

\* A step that is no commit and adds nothing to be committed.
LEMMA CommitStands ==
  ASSUME CommitInv, PInv', Elements(accepted) \subseteq Elements(accepted'),
         UNCHANGED <<committed, committing>>, committing = <<>>,
         AllValid(transactionBuffer')
  PROVE  CommitInv'
  <1>1. (Elements(accepted))' = Elements(accepted') /\ (Elements(committing))' = Elements(committing)
    BY DEF Elements
  <1>2. (AllValid(transactionBuffer))' /\ (AllValid(committing))'
    BY DEF CommitInv, AllValid
  <1> QED
    BY <1>1, <1>2 DEF CommitInv

\* Every step keeps all that is committed on its way.
LEMMA CommitStep ==
  ASSUME SendMayFail = FALSE, Validities \subseteq {TRUE},
         CommitInv, PInv', [PNext]_pVars, [CommitTransaction => open]_pVars
  PROVE  CommitInv'
  <1>t. /\ PInv /\ committing \in Seq(Records) /\ transactionBuffer \in Seq(Records)
        /\ made \in Nat /\ MaxRecords \in Nat /\ AllValid(<<>>)
        /\ (Elements(accepted))' = Elements(accepted')
        /\ (Elements(committing))' = Elements(committing')
    BY ProducerAssumption DEF CommitInv, PInv, PTypeOK, AllValid, Elements
  <1>1. CASE CommitTransaction
    <2>1. open \/ UNCHANGED pVars
      BY <1>1
    <2>2. /\ committing' = transactionBuffer /\ transactionBuffer' = <<>>
          /\ committed' = committed \union Elements(transactionBuffer)
          /\ UNCHANGED <<open, accepted>> /\ committing = <<>>
      BY <1>1 DEF CommitTransaction, MayCall
    <2>3. Elements(committing) = {}
      BY <2>2 DEF Elements
    <2>4. committing' # <<>> => open'
      BY <2>1, <2>2 DEF pVars, transaction
    <2>5. (AllValid(transactionBuffer))' /\ (AllValid(committing))'
      BY <1>t, <2>2 DEF CommitInv, AllValid
    <2>6. committed' \subseteq Elements(accepted') \union Elements(committing')
      BY <2>2, <2>3 DEF CommitInv
    <2> QED
      BY <1>t, <2>4, <2>5, <2>6 DEF CommitInv
  <1>2. CASE CommitSends
    <2>1. PICK failed \in BOOLEAN :
            /\ Push(Head(committing), failed)
            /\ committing' = IF failed THEN <<>> ELSE Tail(committing)
      BY <1>2 DEF CommitSends
    <2>2. committing # <<>> /\ Head(committing) \in Records /\ open
      BY <1>t, <1>2, ElementsOfTail DEF CommitSends, CommitInv
    <2>3. committing' = Tail(committing)
      BY <1>t, <2>1, <2>2, PushSucceeds
    <2>4. /\ Elements(accepted) \subseteq Elements(accepted')
          /\ Head(committing) \in Elements(accepted')
      BY <1>t, <2>1, <2>2, PushAdds
    <2>5. UNCHANGED <<open, committed, transactionBuffer>>
      BY <1>2 DEF CommitSends
    <2>6. committed' \subseteq Elements(accepted') \union Elements(committing')
      BY <1>t, <2>2, <2>3, <2>4, <2>5, ElementsSplit DEF CommitInv
    <2>7. AllValid(Tail(committing))
      BY <1>t, <2>2, ElementsSplit DEF CommitInv
    <2>8. (AllValid(transactionBuffer))' /\ (AllValid(committing))'
      BY <2>3, <2>5, <2>7 DEF CommitInv, AllValid
    <2> QED
      BY <1>t, <2>2, <2>5, <2>6, <2>8 DEF CommitInv
  <1>3. CASE CommitRefused
    <2>1. committing # <<>> /\ ~Head(committing).valid
      BY <1>3 DEF CommitRefused
    <2>2. 1 \in DOMAIN committing /\ Head(committing) = committing[1]
      BY <1>t, <2>1, EmptySeq, LenProperties
    <2> QED
      BY <2>1, <2>2 DEF CommitInv, AllValid
  <1>4. ASSUME NEW valid \in Validities, SendTransactional(valid)
        PROVE  CommitInv'
    <2> DEFINE r == NewRecord(TRUE, valid)
    <2>0. valid = TRUE
      BY Zenon
    <2>1. r \in Records /\ r.valid
      BY <1>t, <1>4, <2>0 DEF SendTransactional, NewRecord, Records
    <2> HIDE DEF r
    <2>2. /\ transactionBuffer' = Append(transactionBuffer, r) /\ committing = <<>>
          /\ UNCHANGED <<committed, committing, accepted>>
      BY <1>4 DEF SendTransactional, MayCall, r
    <2>3. AllValid(transactionBuffer')
      <3>1. /\ DOMAIN transactionBuffer = 1 .. Len(transactionBuffer)
            /\ Len(transactionBuffer) \in Nat
            /\ DOMAIN transactionBuffer' = 1 .. Len(transactionBuffer) + 1
            /\ transactionBuffer'[Len(transactionBuffer) + 1] = r
            /\ \A i \in 1 .. Len(transactionBuffer) :
                  transactionBuffer'[i] = transactionBuffer[i]
        BY <1>t, <2>1, <2>2, AppendProperties, LenProperties
      <3>2. \A i \in 1 .. Len(transactionBuffer) + 1 :
              i \in 1 .. Len(transactionBuffer) \/ i = Len(transactionBuffer) + 1
        BY <3>1
      <3> QED
        BY <2>1, <3>1, <3>2 DEF CommitInv, AllValid
    <2> QED
      BY <2>2, <2>3, CommitStands DEF Elements
  <1>5. CASE BeginTransaction \/ AbortTransaction
    <2>1. /\ transactionBuffer' = <<>> /\ committing = <<>>
          /\ UNCHANGED <<committed, committing, accepted>>
      BY <1>5 DEF BeginTransaction, AbortTransaction, MayCall
    <2> QED
      BY <1>t, <2>1, CommitStands DEF Elements
  <1>6. ASSUME NEW r \in Records, NEW failed \in BOOLEAN, Push(r, failed),
               committing = <<>>, UNCHANGED transaction
        PROVE  CommitInv'
    <2>1. Elements(accepted) \subseteq Elements(accepted')
      BY <1>t, <1>6, PushAdds
    <2>2. AllValid(transactionBuffer')
      BY <1>6 DEF transaction, CommitInv, AllValid
    <2> QED
      BY <1>6, <2>1, <2>2, CommitStands DEF transaction
  <1>7. CASE Send
    <2>1. NewRecord(FALSE, TRUE) \in Records
      BY <1>t, <1>7 DEF Send, NewRecord, Records
    <2> QED
      BY <1>6, <1>7, <2>1 DEF Send, MayCall
  <1>8. ASSUME NEW e \in refused, SendAgain(e)
        PROVE  CommitInv'
    <2>1. e.record \in Records
      BY DEF CommitInv, PInv, PTypeOK
    <2> QED
      BY <1>6, <1>8, <2>1 DEF SendAgain, MayCall
  <1>9. CASE \/ Flush \/ Disconnect \/ ConnectionChanges \/ SendRefused
             \/ \E n \in BatchSizes : SetBatchSize(n)
    <2>1. /\ committing = <<>> /\ UNCHANGED <<committed, committing, accepted>>
          /\ UNCHANGED transactionBuffer
      BY <1>9 DEF SendRefused, Flush, Disconnect, ConnectionChanges, SetBatchSize, MayCall, transaction
    <2>2. AllValid(transactionBuffer')
      BY <2>1 DEF CommitInv, AllValid
    <2> QED
      BY <2>1, <2>2, CommitStands DEF Elements
  <1>10. CASE UNCHANGED pVars
    BY <1>t, <1>10 DEF pVars, transaction, CommitInv, AllValid, Elements
  <1> QED
    BY <1>1, <1>2, <1>3, <1>4, <1>5, <1>7, <1>8, <1>9, <1>10 DEF PNext

\* commit_transaction does send all that was buffered if it is called on an open
\* socket, send() does not throw there and the topics are valid: each of the
\* three is needed, as the counterexample of the property shows for the first.
THEOREM CommitComplete ==
  ASSUME SendMayFail = FALSE, Validities \subseteq {TRUE}
  PROVE  PSpec /\ CommitsWhileOpen => []CommitSendsAll
  <1>1. PInit => CommitInv
    BY PInitInv DEF PInit, CommitInv, AllValid, Elements
  <1>2. PInv /\ PInv' /\ CommitInv /\ [PNext]_pVars /\ [CommitTransaction => open]_pVars
          => CommitInv'
    BY CommitStep
  <1>3. CommitInv => CommitSendsAll
    <2>1. committing = <<>> => Elements(committing) = {}
      BY DEF Elements
    <2> QED
      BY <2>1 DEF CommitInv, CommitSendsAll, MayCall
  <1> QED
    BY <1>1, <1>2, <1>3, PInvariant, PTL DEF PSpec, CommitsWhileOpen

=============================================================================
