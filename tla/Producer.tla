------------------------------ MODULE Producer ------------------------------
(***************************************************************************)
(* The Producer of src/lib.rs: a batch that is flushed when it is full or  *)
(* on demand, and a transaction buffer.  Its connection is seen through    *)
(* what send() asks of it, an open socket; WsConnection is what makes it   *)
(* open and close.                                                         *)
(*                                                                         *)
(* A record says whether it was sent in a transaction and whether its      *)
(* topic is valid, which send_transactional does not check.                *)
(*                                                                         *)
(* The application does what error.rs shows: when send() throws an error   *)
(* that is `retryable`, it may call send() again, with a topic if it was   *)
(* refused for the want of one.                                            *)
(***************************************************************************)
EXTENDS Naturals, Sequences, Errors

CONSTANTS
    BatchSizes,     \* arguments of set_batch_size
    InitialSize,    \* the batch size to begin with (100 in new())
    Validities,     \* is the topic of a transactional record valid?
    MaxRecords,     \* bound on the records the application makes
    MaxErrors,      \* errorCount is counted up to this bound
    MaxResends,     \* bound on the calls of send() made again
    SendMayFail     \* may send() throw on an open socket?

ASSUME ProducerAssumption ==
    /\ BatchSizes \subseteq Nat /\ InitialSize \in Nat
    /\ Validities \subseteq BOOLEAN
    /\ MaxRecords \in Nat /\ MaxErrors \in Nat /\ MaxResends \in Nat
    /\ SendMayFail \in BOOLEAN

VARIABLES
    open,           \* external: the connection has an open socket
    batch, batchSize,
    sentCount, errorCount,
    inTransaction, transactionBuffer,
    committing,     \* records commit_transaction has still to send
    made,           \* history: records made so far
    refused,        \* history: records whose last send() threw, with its error
    resends,        \* history: calls of send() made again for such
    backlog,        \* history: the last flush did not empty the batch, or the
                    \* batch size was set below what it holds
    wire,           \* history: records handed to a socket, in order
    accepted,       \* history: records that entered the batch, in order
    committed       \* history: records of the transactions committed

batching == <<batch, batchSize, sentCount, errorCount, backlog>>
application == <<made, refused, resends>>
transaction == <<inTransaction, transactionBuffer, committing, committed>>
pVars == <<open, batching, transaction, application, wire, accepted>>

Records == [id : 1 .. MaxRecords, transactional : BOOLEAN, valid : BOOLEAN]
Elements(q) == {q[i] : i \in DOMAIN q}

\* Rust runs one call at a time; commit_transaction alone takes several steps.
MayCall == committing = <<>>

\* A new record, numbered in the order the application makes them.
NewRecord(transactional, valid) ==
    [id |-> made + 1, transactional |-> transactional, valid |-> valid]

(***************************************************************************)
(* flush()                                                                 *)
(***************************************************************************)
\* How many records of b a flush can send before the first failure.
Sendable(b) ==
    {n \in 0 .. Len(b) : /\ n > 0 => open
                         /\ n < Len(b) => ~open \/ SendMayFail}

CountErrors(failed) ==
    errorCount' = IF failed /\ errorCount < MaxErrors THEN errorCount + 1 ELSE errorCount

\* A flush that empties the batch although it stopped early (the bug fixed in
\* CHANGELOG.md), and one that stops and keeps what it
\* has sent with the rest.
FlushDrainingAll(b, n) ==
    /\ wire' = wire \o SubSeq(b, 1, n)
    /\ batch' = <<>>
    /\ sentCount' = sentCount + n
    /\ backlog' = (n < Len(b))
    /\ CountErrors(n < Len(b))
FlushRepeating(b, n) ==
    /\ wire' = wire \o SubSeq(b, 1, n)
    /\ batch' = IF n < Len(b) THEN b ELSE <<>>
    /\ sentCount' = sentCount + n
    /\ backlog' = (n < Len(b))
    /\ CountErrors(n < Len(b))
FlushPrefix(b, n) ==
    /\ wire' = wire \o SubSeq(b, 1, n)
    /\ batch' = SubSeq(b, n + 1, Len(b))
    /\ sentCount' = sentCount + n
    /\ backlog' = (n < Len(b))
    /\ CountErrors(n < Len(b))

Flush ==
    /\ MayCall
    /\ \E n \in Sendable(batch) : FlushPrefix(batch, n)
    /\ UNCHANGED <<open, batchSize, transaction, application, accepted>>

(***************************************************************************)
(* send() and send_keyed(): push, then flush if the batch is full.         *)
(* `failed` says whether the call returns the error of its flush.          *)
(***************************************************************************)
BatchFullOffByOne(b) == Len(b) > batchSize
BatchFull(b) == Len(b) >= batchSize

Push(r, failed) ==
    LET b == Append(batch, r) IN
    /\ accepted' = Append(accepted, r)
    /\ IF BatchFull(b)
         THEN \E n \in Sendable(b) : FlushPrefix(b, n) /\ failed = (n < Len(b))
         ELSE /\ batch' = b
              /\ ~failed
              /\ UNCHANGED <<wire, sentCount, errorCount, backlog>>

\* The error of the flush is that of WsConnection::send, or what the browser
\* threw there.
SendError == IF open THEN Exception ELSE ErrorOf.not_connected

SendErrors == {ErrorOf.not_connected, Exception, ErrorOf.produce_error,
               ErrorOf.configuration}
FlushErrors == {ErrorOf.not_connected, Exception}

Refused(r, error) == [record |-> r, error |-> error]

\* What the application knows of r when its send() has returned.
Answered(r, failed) ==
    LET others == {e \in refused : e.record # r} IN
    refused' = IF failed THEN others \union {Refused(r, SendError)} ELSE others

Send ==
    /\ MayCall
    /\ made < MaxRecords
    /\ made' = made + 1
    /\ \E failed \in BOOLEAN : /\ Push(NewRecord(FALSE, TRUE), failed)
                              /\ Answered(NewRecord(FALSE, TRUE), failed)
    /\ UNCHANGED <<open, batchSize, transaction, resends>>

\* No topic, or an invalid one: the call returns before it keeps the record,
\* in the first case with an error that is retryable.  The mutated form looks
\* at the topic after the push.
SendRefusedAfterPush ==
    /\ MayCall
    /\ made < MaxRecords
    /\ made' = made + 1
    /\ batch' = Append(batch, NewRecord(FALSE, TRUE))
    /\ accepted' = Append(accepted, NewRecord(FALSE, TRUE))
    /\ refused' = refused \union {Refused(NewRecord(FALSE, TRUE), ErrorOf.produce_error)}
    /\ UNCHANGED <<open, batchSize, sentCount, errorCount, backlog, transaction,
                   resends, wire>>
SendRefused ==
    /\ MayCall
    /\ made < MaxRecords
    /\ made' = made + 1
    /\ \E error \in {ErrorOf.produce_error, ErrorOf.configuration} :
          refused' = refused \union {Refused(NewRecord(FALSE, TRUE), error)}
    /\ UNCHANGED <<open, batching, transaction, resends, wire, accepted>>

SendAgain(e) ==
    /\ MayCall
    /\ e.error.retryable
    /\ resends < MaxResends
    /\ resends' = resends + 1
    /\ \E failed \in BOOLEAN : Push(e.record, failed) /\ Answered(e.record, failed)
    /\ UNCHANGED <<open, batchSize, transaction, made>>

SetBatchSize(n) ==
    /\ MayCall
    /\ batchSize' = n
    /\ backlog' = (backlog \/ Len(batch) >= n)
    /\ UNCHANGED <<open, batch, sentCount, errorCount, transaction, application,
                   wire, accepted>>

(***************************************************************************)
(* Transactions                                                            *)
(***************************************************************************)
BeginTransaction ==
    /\ MayCall
    /\ ~inTransaction
    /\ inTransaction' = TRUE
    /\ transactionBuffer' = <<>>
    /\ UNCHANGED <<open, batching, committing, committed, application, wire, accepted>>

SendTransactional(valid) ==
    /\ MayCall
    /\ inTransaction
    /\ made < MaxRecords
    /\ made' = made + 1
    /\ transactionBuffer' = Append(transactionBuffer, NewRecord(TRUE, valid))
    /\ UNCHANGED <<open, batching, inTransaction, committing, committed,
                   refused, resends, wire, accepted>>

\* The buffer is taken and the transaction closed before anything is sent.
CommitTransaction ==
    /\ MayCall
    /\ inTransaction
    /\ inTransaction' = FALSE
    /\ committing' = transactionBuffer
    /\ transactionBuffer' = <<>>
    /\ committed' = committed \union Elements(transactionBuffer)
    /\ UNCHANGED <<open, batching, application, wire, accepted>>

\* One turn of its loop.  The `?` on send() leaves the function at the first
\* error, and the rest of the records with it.
CommitSends ==
    /\ committing # <<>>
    /\ Head(committing).valid
    /\ \E failed \in BOOLEAN :
          /\ Push(Head(committing), failed)
          /\ committing' = IF failed THEN <<>> ELSE Tail(committing)
    /\ UNCHANGED <<open, batchSize, inTransaction, transactionBuffer, committed,
                   application>>

CommitRefused ==
    /\ committing # <<>>
    /\ ~Head(committing).valid
    /\ committing' = <<>>
    /\ UNCHANGED <<open, batching, inTransaction, transactionBuffer, committed,
                   application, wire, accepted>>

\* abort that sends what it should discard (a mutated form).
AbortTransactionSends ==
    /\ MayCall
    /\ inTransaction
    /\ inTransaction' = FALSE
    /\ committing' = transactionBuffer
    /\ transactionBuffer' = <<>>
    /\ UNCHANGED <<open, batching, committed, application, wire, accepted>>
AbortTransaction ==
    /\ MayCall
    /\ inTransaction
    /\ inTransaction' = FALSE
    /\ transactionBuffer' = <<>>
    /\ UNCHANGED <<open, batching, committing, committed, application, wire, accepted>>

(***************************************************************************)
(* The connection                                                          *)
(***************************************************************************)
\* disconnect() flushes, then closes whatever became of the flush.
Disconnect ==
    /\ MayCall
    /\ \E n \in Sendable(batch) : FlushPrefix(batch, n)
    /\ open' = FALSE
    /\ UNCHANGED <<batchSize, transaction, application, accepted>>

ConnectionChanges ==
    /\ MayCall
    /\ open' = ~open
    /\ UNCHANGED <<batching, transaction, application, wire, accepted>>

(***************************************************************************)
(* The specification                                                       *)
(***************************************************************************)
PInit ==
    /\ open = FALSE
    /\ batch = <<>> /\ batchSize = InitialSize
    /\ sentCount = 0 /\ errorCount = 0
    /\ inTransaction = FALSE /\ transactionBuffer = <<>> /\ committing = <<>>
    /\ made = 0 /\ refused = {} /\ resends = 0 /\ backlog = FALSE
    /\ wire = <<>> /\ accepted = <<>> /\ committed = {}

PNext ==
    \/ Send \/ SendRefused \/ Flush
    \/ \E e \in refused : SendAgain(e)
    \/ \E n \in BatchSizes : SetBatchSize(n)
    \/ BeginTransaction \/ CommitTransaction \/ AbortTransaction
    \/ \E valid \in Validities : SendTransactional(valid)
    \/ CommitSends \/ CommitRefused
    \/ Disconnect \/ ConnectionChanges

PSpec == PInit /\ [][PNext]_pVars

(***************************************************************************)
(* Properties                                                              *)
(***************************************************************************)
\* The types of the batch, the transaction and the histories.
PTypeOK ==
    /\ open \in BOOLEAN /\ inTransaction \in BOOLEAN
    /\ batchSize \in Nat /\ sentCount \in Nat /\ errorCount \in Nat
    /\ made \in 0 .. MaxRecords
    /\ refused \subseteq [record : Records, error : SendErrors]
    /\ resends \in 0 .. MaxResends
    /\ backlog \in BOOLEAN
    /\ batch \in Seq(Records) /\ transactionBuffer \in Seq(Records)
    /\ committing \in Seq(Records)
    /\ wire \in Seq(Records) /\ accepted \in Seq(Records)
    /\ committed \subseteq Records

\* Every record that entered the batch is, in order and once, either handed
\* to the socket or still waiting: through failed, partial and repeated
\* flushes and disconnect() (README.md: "a retry never drops or duplicates
\* records").
NothingLostOrDuplicated == wire \o batch = accepted

\* The batch grows to its size only when the broker cannot be reached: a full
\* batch is one whose last flush failed, or whose size was set to less.  While
\* flushing fails nothing bounds it.
FullOnlyAfterFailure == batch # <<>> /\ Len(batch) >= batchSize => backlog

\* Nothing of a transaction is sent before it is committed, nor ever if it is
\* aborted.
TransactionIsolated ==
    \A i \in DOMAIN accepted :
        accepted[i].transactional => accepted[i] \in committed

\* The producer keeps the promise of Outbox: records go to the socket once, in
\* the order they were accepted and only over an open one; those of a
\* transaction together, in order, and only if it is committed.
Promise == INSTANCE Outbox WITH
    Items <- Records, Free <- {r \in Records : ~r.transactional},
    offered <- accepted, delivered <- wire,
    held <- transactionBuffer, released <- committing, reachable <- open
KeepsOutbox == Promise!OSpec

\* commit_transaction sends all the buffered messages (its doc comment): none
\* of them is neither sent, nor waiting, nor to be committed again.
CommitSendsAll == MayCall => committed \subseteq Elements(accepted)

\* An application whose send() threw can tell by the error, and not by
\* `retryable` alone, what has become of the record, then and whatever happens
\* later.  With the error of the flush it was kept, and is on the wire or
\* waiting: trying again, which NotConnected invites to, sends it twice.  With
\* any other, ProduceError included, which is as retryable, nothing was kept:
\* not trying again loses it.
ErrorTellsWhatIsKept ==
    \A e \in refused :
        e.record \in Elements(wire \o batch) <=> e.error \in FlushErrors

=============================================================================
