--------------------------- MODULE EngineEventLedger ---------------------------
(***************************************************************************)
(* The engine event ledger as concurrent database transactions: the        *)
(* ingestion of event batches, with the advisory locks it takes in order,  *)
(* and the recovery of the projections, with its table lock.               *)
(*                                                                         *)
(* Transactions run at READ COMMITTED: every statement sees what is        *)
(* committed when it starts, and what its own transaction wrote.  A        *)
(* client whose connection breaks cannot know whether its transaction      *)
(* goes on; it may send the same document again while the first is still   *)
(* running, so any two sessions may carry the same document.               *)
(***************************************************************************)
EXTENDS Integers, Sequences, FiniteSets, FiniteSetsExt

CONSTANTS
  Session,   \* the transactions
  Run,       \* engine_run_id
  Message,   \* message_id: a set of numbers, for the uuid order
  Batch,     \* batch_sha256
  Content,   \* what each batch holds: its run, its first sequence, its message ids in order
  Claim,     \* the job and attempt that present a batch, part of its ingestion digest
  Completing \* the batches that complete their run (P1)

FirstEngineEventSequence == 2
NoClaim == "none"
NoBatch == "none"

\* A batch names a message once: _validate_batch_envelopes refuses one that does not.
ASSUME LedgerAssumption ==
  /\ Message \subseteq Nat
  /\ NoBatch \notin Batch /\ NoClaim \notin Claim
  /\ Completing \subseteq Batch
  /\ \A b \in Completing : Content[b].first = FirstEngineEventSequence
  /\ \A b \in Batch :
       /\ Content[b].run \in Run
       /\ Content[b].first \in Nat
       /\ Content[b].messages \in Seq(Message) /\ Content[b].messages # << >>
       /\ \A i, j \in DOMAIN Content[b].messages :
            Content[b].messages[i] = Content[b].messages[j] => i = j

VARIABLES
  events,      \* engine_events
  receipts,    \* engine_event_batch_receipts
  projections, \* engine_run_projections
  session,     \* the transaction of each session
  answer       \* what its client is told

dbVars == <<events, receipts, projections>>
ledgerVars == <<events, receipts, projections, session, answer>>

EventRow == [message : Message, run : Run, sequence : Nat, batch : Batch]
ProjectionRow == [count : Nat, last : Int, completion : Batch \cup {NoBatch}]
NoRow == [count |-> 0, last |-> FirstEngineEventSequence - 1, completion |-> NoBatch]

Rows(b) ==
  {[message |-> Content[b].messages[i], run |-> Content[b].run,
    sequence |-> Content[b].first + i - 1, batch |-> b] : i \in DOMAIN Content[b].messages}

\* The canonical text of an event names its message, run and sequence, and not its batch.
Digest(e) == <<e.message, e.run, e.sequence>>

OfRun(r, rows) == {e \in rows : e.run = r}

\* What both functions compute from the events of a run.
Project(rows, completion) ==
  IF rows = {} THEN NoRow
  ELSE [count |-> Cardinality(rows), last |-> Max({e.sequence : e \in rows}),
        completion |-> completion]

\* idle, done: before and after the transaction
\* batch, run, messages: about to take that lock      receipt, identity, expected, insert: about to
\* execute that statement     project: rows inserted, about to write the projection and commit
\* table, replay, write: the three parts of a recovery
Pc == {"idle", "batch", "run", "receipt", "messages", "identity", "expected", "insert",
       "project", "table", "replay", "write", "done"}

SessionRow ==
  [ pc     : Pc,
    batch  : Batch \cup {NoBatch},
    claim  : Claim \cup {NoClaim},
    locks  : SUBSET ({<<"batch", b>> : b \in Batch} \cup {<<"run", r>> : r \in Run}
                       \cup {<<"message", m>> : m \in Message}),
    replay : [Run -> ProjectionRow] \cup {<< >>} ]

Idle == [pc |-> "idle", batch |-> NoBatch, claim |-> NoClaim, locks |-> {}, replay |-> << >>]

LedgerTypeOK ==
  /\ events \subseteq EventRow
  /\ receipts \in [Batch -> Claim \cup {NoClaim}]
  /\ projections \in [Run -> ProjectionRow]
  /\ session \in [Session -> SessionRow]
  /\ answer \in [Session -> {"none", "receipt", "conflict", "blocked", "recovered"}]

LedgerInit ==
  /\ events = {}
  /\ receipts = [b \in Batch |-> NoClaim]
  /\ projections = [r \in Run |-> NoRow]
  /\ session = [s \in Session |-> Idle]
  /\ answer = [s \in Session |-> "none"]

At(s, pc) == session[s].pc = pc
BatchOf(s) == session[s].batch
RunOf(s) == Content[BatchOf(s)].run
Goto(s, pc) == session' = [session EXCEPT ![s].pc = pc]

\* The end of a transaction releases its locks; the client may never hear of it.
Close(s) ==
  session' = [session EXCEPT ![s].pc = "done", ![s].locks = {}, ![s].replay = << >>]

End(s, reply) ==
  /\ Close(s)
  /\ answer' \in {answer, [answer EXCEPT ![s] = reply]}

Begin(s, b, c) ==
  /\ At(s, "idle")
  /\ session' = [session EXCEPT ![s].pc = "batch", ![s].batch = b, ![s].claim = c]
  /\ UNCHANGED <<dbVars, answer>>

-----------------------------------------------------------------------------
(* ingest_engine_event_batch                                                *)

Free(lock) == \A t \in Session : lock \notin session[t].locks

Take(s, lock, pc) ==
  /\ Free(lock)
  /\ session' = [session EXCEPT ![s].locks = @ \cup {lock}, ![s].pc = pc]
  /\ UNCHANGED <<dbVars, answer>>

LockBatch(s) == At(s, "batch") /\ Take(s, <<"batch", BatchOf(s)>>, "run")

LockRun(s) == At(s, "run") /\ Take(s, <<"run", RunOf(s)>>, "receipt")

\* Mutant of FindReceipt: the receipt is given to any claim.
FindReceiptOfAnyClaim(s) ==
  /\ At(s, "receipt")
  /\ receipts[BatchOf(s)] # NoClaim
  /\ End(s, "receipt")
  /\ UNCHANGED dbVars

\* The same batch: the receipt is given again to the same claim, another one is a conflict.
FindReceipt(s) ==
  /\ At(s, "receipt")
  /\ receipts[BatchOf(s)] # NoClaim
  /\ End(s, IF receipts[BatchOf(s)] = session[s].claim THEN "receipt" ELSE "conflict")
  /\ UNCHANGED dbVars

NewBatch(s) ==
  /\ At(s, "receipt")
  /\ receipts[BatchOf(s)] = NoClaim
  /\ Goto(s, "messages")
  /\ UNCHANGED <<dbVars, answer>>

ToLock(s) == {i \in DOMAIN Content[BatchOf(s)].messages :
                <<"message", Content[BatchOf(s)].messages[i]>> \notin session[s].locks}

\* Mutant of NextMessage: the order of the document.
NextMessageInDocument(s) == Content[BatchOf(s)].messages[Min(ToLock(s))]

NextMessage(s) == Min({Content[BatchOf(s)].messages[i] : i \in ToLock(s)})

\* Mutant of LockMessages: the primary key is taken for enough.
LockMessagesSkipped(s) ==
  At(s, "messages") /\ Goto(s, "identity") /\ UNCHANGED <<dbVars, answer>>

LockMessages(s) ==
  /\ At(s, "messages")
  /\ \/ ToLock(s) # {} /\ Take(s, <<"message", NextMessage(s)>>, "messages")
     \/ ToLock(s) = {} /\ Goto(s, "identity") /\ UNCHANGED <<dbVars, answer>>

\* A message that is stored with another text.
ForeignMessages(s) ==
  {e \in events : \E row \in Rows(BatchOf(s)) : e.message = row.message /\ Digest(e) # Digest(row)}

CheckIdentity(s) ==
  /\ At(s, "identity")
  /\ IF ForeignMessages(s) = {} THEN Goto(s, "expected") /\ UNCHANGED answer ELSE End(s, "conflict")
  /\ UNCHANGED dbVars

\* Mutant of Expected: a batch may leave a gap.
ExpectedAtLeast(s) == Content[BatchOf(s)].first >= projections[RunOf(s)].last + 1

Expected(s) == Content[BatchOf(s)].first = projections[RunOf(s)].last + 1

\* Mutant of CheckSequence: the database error is passed on as it is.
CheckSequenceUntyped(s) ==
  /\ At(s, "expected")
  /\ IF Expected(s) THEN Goto(s, "insert") /\ UNCHANGED answer ELSE End(s, "P2D02")
  /\ UNCHANGED dbVars

CheckSequence(s) ==
  /\ At(s, "expected")
  /\ IF Expected(s) THEN Goto(s, "insert") /\ UNCHANGED answer ELSE End(s, "blocked")
  /\ UNCHANGED dbVars

Inserting == {s \in Session : At(s, "project")}
Replaying == {s \in Session : session[s].pc \in {"replay", "write"}}

\* The key of engine_events, and the key of run and sequence.
Duplicates(s) ==
  {e \in events \cup UNION {Rows(BatchOf(t)) : t \in Inserting} :
     \E row \in Rows(BatchOf(s)) :
       e.message = row.message \/ (e.run = row.run /\ e.sequence = row.sequence)}

\* engine_run_completion_append_guard
Completed(r) == projections[r].completion # NoBatch

\* The receipt and the rows are inserted.  The ROW EXCLUSIVE lock waits for a recovery.
InsertRows(s) ==
  /\ At(s, "insert")
  /\ Replaying = {}
  /\ IF Completed(RunOf(s)) \/ Duplicates(s) # {}
     THEN End(s, "conflict")
     ELSE Goto(s, "project") /\ UNCHANGED answer
  /\ UNCHANGED dbVars

\* A P1 batch completes the run it begins, so that no other completion can be there before it.
CompletionAfter(b, r) == IF b \in Completing THEN b ELSE projections[r].completion

\* The projection is computed, completed for a P1 batch, and everything commits.
CommitBatch(s) ==
  LET b == BatchOf(s)
      r == RunOf(s)
  IN  /\ At(s, "project")
      /\ events' = events \cup Rows(b)
      /\ receipts' = [receipts EXCEPT ![b] = session[s].claim]
      /\ projections' = [projections EXCEPT ![r] =
           Project(OfRun(r, events \cup Rows(b)), CompletionAfter(b, r))]
      /\ End(s, "receipt")

\* The transaction is rolled back: the connection, the server or the deadline ended it.
Abort(s) ==
  /\ session[s].pc \notin {"idle", "done"}
  /\ Close(s)
  /\ UNCHANGED <<dbVars, answer>>

-----------------------------------------------------------------------------
(* recover_engine_run_projections                                           *)

BeginRecovery(s) ==
  /\ At(s, "idle")
  /\ Goto(s, "table")
  /\ UNCHANGED <<dbVars, answer>>

\* Mutant of LockTable: the recovery does not wait for ingestions.
LockTableSkipped(s) == At(s, "table") /\ Goto(s, "replay") /\ UNCHANGED <<dbVars, answer>>

\* SHARE MODE
LockTable(s) ==
  /\ At(s, "table")
  /\ Inserting = {}
  /\ Goto(s, "replay")
  /\ UNCHANGED <<dbVars, answer>>

\* The statement reads the events, then meets the rows of the projections.
Replay(s) ==
  /\ At(s, "replay")
  /\ session' = [session EXCEPT
       ![s].pc = "write",
       ![s].replay = [r \in Run |-> Project(OfRun(r, events), NoBatch)]]
  /\ UNCHANGED <<dbVars, answer>>

\* Mutant of Rewritten: the row is replaced as a whole.
RewrittenWhole(s, r) == session[s].replay[r]

\* ON CONFLICT DO UPDATE leaves the completion alone; a run without events has no row.
Rewritten(s, r) ==
  IF session[s].replay[r] = NoRow THEN NoRow
  ELSE [session[s].replay[r] EXCEPT !.completion = projections[r].completion]

CommitRecovery(s) ==
  /\ At(s, "write")
  /\ projections' = [r \in Run |-> Rewritten(s, r)]
  /\ End(s, "recovered")
  /\ UNCHANGED <<events, receipts>>

-----------------------------------------------------------------------------
Ingest(s) ==
  \/ LockBatch(s) \/ LockRun(s) \/ FindReceipt(s) \/ NewBatch(s) \/ LockMessages(s)
  \/ CheckIdentity(s) \/ CheckSequence(s) \/ InsertRows(s) \/ CommitBatch(s)

Recovery(s) == LockTable(s) \/ Replay(s) \/ CommitRecovery(s)

LedgerNext ==
  \E s \in Session :
    \/ \E b \in Batch, c \in Claim : Begin(s, b, c)
    \/ BeginRecovery(s) \/ Ingest(s) \/ Recovery(s) \/ Abort(s)

LedgerSpec == LedgerInit /\ [][LedgerNext]_ledgerVars

-----------------------------------------------------------------------------
(* Properties.                                                              *)

\* "No stale replay can overwrite a newly advanced projection" (0010): whatever ingestions and
\* recoveries run at once, the projection of a run is the one its committed events give.
ProjectionsExact ==
  \A r \in Run : projections[r] = Project(OfRun(r, events), projections[r].completion)

\* The committed events of every run can be replayed: contiguous from the first sequence, no
\* message twice in the ledger, exactly the events of the batches that have a receipt.
LedgerReplays ==
  /\ \A r \in Run :
       {e.sequence : e \in OfRun(r, events)} =
         FirstEngineEventSequence .. (FirstEngineEventSequence + Cardinality(OfRun(r, events)) - 1)
  /\ \A e, f \in events : e.message = f.message => e = f
  /\ events = UNION {Rows(b) : b \in {b \in Batch : receipts[b] # NoClaim}}

\* "Cross-run races cannot escape as a raw unique error" (0010): under the locks the unique keys
\* are never what refuses a batch.
NoUniqueError == \A s \in Session : At(s, "insert") => Duplicates(s) = {}

\* A completed P1 run is final: no later ingestion, retry or recovery adds to its events or takes
\* its completion away.
CompletedRunsFinal ==
  [][\A r \in Run : projections[r].completion # NoBatch =>
       /\ OfRun(r, events') = OfRun(r, events)
       /\ projections'[r] = projections[r]]_ledgerVars

\* A client that was given a receipt has the batch in the ledger under its own claim, also when it
\* repeated a call whose first transaction was still running; one that was refused has not.
AnswersTruthful ==
  \A s \in Session :
    LET owner == receipts[BatchOf(s)] IN
    /\ answer[s] = "receipt" => owner = session[s].claim
    /\ answer[s] \in {"conflict", "blocked"} /\ owner = session[s].claim =>
         \E t \in Session \ {s} : BatchOf(t) = BatchOf(s) /\ session[t].claim = owner

Wanted(s) ==
  CASE At(s, "batch") -> {<<"batch", BatchOf(s)>>}
    [] At(s, "run") -> {<<"run", RunOf(s)>>}
    [] At(s, "messages") /\ ToLock(s) # {} -> {<<"message", NextMessage(s)>>}
    [] OTHER -> {}

\* The sessions without whose end s cannot take its step.
Blockers(s) ==
  {t \in Session \ {s} :
     \/ Wanted(s) \cap session[t].locks # {}
     \/ At(s, "insert") /\ t \in Replaying
     \/ At(s, "table") /\ t \in Inserting}

\* The transactions never wait for each other in a circle, whatever batches they carry and in
\* whatever order these name their messages: among any that run, one is not held up by the others.
NoWaitCycle == \A S \in (SUBSET Session) \ {{}} : \E s \in S : Blockers(s) \cap S = {}
=============================================================================
