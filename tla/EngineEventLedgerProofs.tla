----------------------- MODULE EngineEventLedgerProofs -----------------------
(***************************************************************************)
(* Proofs about the engine event ledger, for any sessions, runs, batches   *)
(* and claims: under the advisory locks and the table lock the projections *)
(* are the ones the committed events give, the ledger can be replayed, the *)
(* clients are told the truth and the sessions never wait in a circle.     *)
(***************************************************************************)
EXTENDS EngineEventLedger, FiniteSetTheorems, FunctionTheorems, SequenceTheorems, TLAPS

-----------------------------------------------------------------------------
(* Numbers and finite sets.                                                 *)

\* A nonempty set of numbers has a least one.
LEMMA MinOfNats ==
  ASSUME NEW S \in SUBSET Nat, S # {}
  PROVE  Min(S) \in S /\ \A x \in S : Min(S) <= x
  <1>1. PICK m \in S : \A x \in S : ~(<<x, m>> \in OpToRel(<, Nat))
    BY WFMin, NatLessThanWellFounded
  <1>2. \A x \in S : ~(x < m)
    BY <1>1 DEF OpToRel
  <1>3. \A x \in S : m <= x
    BY <1>2
  <1> QED
    BY <1>3 DEF Min

\* A finite nonempty set of numbers has an upper bound in it.
LEMMA MaxOfNats ==
  ASSUME NEW S \in SUBSET Nat, S # {}, IsFiniteSet(S)
  PROVE  \E m \in S : \A x \in S : x <= m
  <1> DEFINE Above(m) == {x \in S : m < x}
             Sizes == {Cardinality(Above(m)) : m \in S}
  <1>1. \A m \in S : IsFiniteSet(Above(m)) /\ Cardinality(Above(m)) \in Nat
    BY FS_Subset, FS_CardinalityType
  <1>2. Sizes \in SUBSET Nat /\ Sizes # {}
    BY <1>1
  <1>3. Min(Sizes) \in Sizes /\ \A n \in Sizes : Min(Sizes) <= n
    BY <1>2, MinOfNats
  <1>4. PICK m \in S : \A x \in S : Cardinality(Above(m)) <= Cardinality(Above(x))
    BY <1>3
  <1>5. ASSUME NEW x \in S, m < x PROVE FALSE
    <2>1. Above(x) \in SUBSET Above(m) /\ x \in Above(m) /\ x \notin Above(x)
      <3>1. m \in Nat /\ x \in Nat /\ ~(x < x)
        OBVIOUS
      <3>2. \A y \in Above(x) : y \in Above(m)
        BY <1>5, <3>1
      <3> QED
        BY <1>5, <3>1, <3>2
    <2>2. IsFiniteSet(Above(m)) /\ Cardinality(Above(m)) \in Nat /\ Cardinality(Above(x)) \in Nat
      BY <1>1
    <2>3. Above(m) # Above(x)
      BY <2>1
    <2> HIDE DEF Above
    <2>4. /\ Cardinality(Above(x)) <= Cardinality(Above(m))
          /\ Cardinality(Above(m)) # Cardinality(Above(x))
      BY <2>1, <2>2, <2>3, FS_Subset
    <2>5. Cardinality(Above(m)) <= Cardinality(Above(x))
      BY <1>4, <1>5
    <2> QED
      BY <2>2, <2>4, <2>5
  <1> QED
    BY <1>5

\* The greatest number of an interval.
LEMMA MaxOfInterval ==
  ASSUME NEW a \in Int, NEW b \in Int, a <= b
  PROVE  Max(a .. b) = b
  <1>1. b \in a .. b /\ \A y \in a .. b : b >= y
    OBVIOUS
  <1>2. Max(a .. b) \in a .. b /\ \A y \in a .. b : Max(a .. b) >= y
    BY <1>1 DEF Max
  <1> QED
    BY <1>1, <1>2

-----------------------------------------------------------------------------
(* Batches and projections.                                                 *)

Count(b) == Len(Content[b].messages)

\* What a batch holds.
LEMMA ContentFacts ==
  ASSUME NEW b \in Batch
  PROVE  /\ Content[b].run \in Run /\ Content[b].first \in Nat
         /\ Count(b) \in Nat \ {0}
         /\ DOMAIN Content[b].messages = 1 .. Count(b)
         /\ \A i \in 1 .. Count(b) : Content[b].messages[i] \in Message
         /\ \A i, j \in 1 .. Count(b) : Content[b].messages[i] = Content[b].messages[j] => i = j
  <1> DEFINE ms == Content[b].messages
  <1>1. /\ Content[b].run \in Run /\ Content[b].first \in Nat
        /\ ms \in Seq(Message) /\ ms # << >>
        /\ \A i, j \in DOMAIN ms : ms[i] = ms[j] => i = j
    BY LedgerAssumption
  <1> HIDE DEF ms
  <1>2. Len(ms) \in Nat \ {0} /\ DOMAIN ms = 1 .. Len(ms)
    BY <1>1, LenProperties, EmptySeq
  <1>3. \A i \in 1 .. Len(ms) : ms[i] \in Message
    BY <1>1, ElementOfSeq
  <1> QED
    BY <1>1, <1>2, <1>3 DEF Count, ms

\* The i-th row of a batch.
Row(b, i) ==
  [message |-> Content[b].messages[i], run |-> Content[b].run,
   sequence |-> Content[b].first + i - 1, batch |-> b]

\* The rows of a batch: their run, their messages and their sequences.
LEMMA RowFacts ==
  ASSUME NEW b \in Batch
  PROVE  /\ \A e : e \in Rows(b) <=> \E i \in 1 .. Count(b) : e = Row(b, i)
         /\ Rows(b) \subseteq EventRow /\ Rows(b) # {}
         /\ \A e \in Rows(b) :
              /\ e.run = Content[b].run /\ e.batch = b
              /\ e.sequence \in Content[b].first .. (Content[b].first + Count(b) - 1)
              /\ \E i \in 1 .. Count(b) : e.message = Content[b].messages[i]
         /\ \A e, f \in Rows(b) : e.message = f.message => e = f
         /\ {e.sequence : e \in Rows(b)} = Content[b].first .. (Content[b].first + Count(b) - 1)
  <1>1. \A e : e \in Rows(b) <=> \E i \in 1 .. Count(b) : e = Row(b, i)
    BY ContentFacts DEF Rows, Row
  <1>2. \A i \in 1 .. Count(b) :
          /\ Row(b, i) \in EventRow
          /\ Row(b, i).run = Content[b].run /\ Row(b, i).batch = b
          /\ Row(b, i).sequence = Content[b].first + i - 1
          /\ Row(b, i).message = Content[b].messages[i]
    BY ContentFacts DEF Row, EventRow
  <1>3. Rows(b) \subseteq EventRow
    BY <1>1, <1>2
  <1>4. Rows(b) # {}
    <2>1. 1 \in 1 .. Count(b)
      BY ContentFacts
    <2> QED
      BY <1>1, <2>1
  <1>5. \A e \in Rows(b) :
          /\ e.run = Content[b].run /\ e.batch = b
          /\ e.sequence \in Content[b].first .. (Content[b].first + Count(b) - 1)
          /\ \E i \in 1 .. Count(b) : e.message = Content[b].messages[i]
    BY <1>1, <1>2, ContentFacts
  <1>6. \A e, f \in Rows(b) : e.message = f.message => e = f
    BY <1>1, <1>2, ContentFacts
  <1>7. ASSUME NEW n \in Content[b].first .. (Content[b].first + Count(b) - 1)
        PROVE  \E e \in Rows(b) : e.sequence = n
    <2>1. n - Content[b].first + 1 \in 1 .. Count(b)
      BY ContentFacts
    <2>2. Row(b, n - Content[b].first + 1).sequence = n
      BY <1>2, <2>1, ContentFacts
    <2> QED
      BY <1>1, <2>1, <2>2
  <1>8. {e.sequence : e \in Rows(b)} = Content[b].first .. (Content[b].first + Count(b) - 1)
    BY <1>5, <1>7
  <1> QED
    BY <1>1, <1>3, <1>4, <1>5, <1>6, <1>8

\* A batch has as many rows as messages.
LEMMA RowCount ==
  ASSUME NEW b \in Batch
  PROVE  IsFiniteSet(Rows(b)) /\ Cardinality(Rows(b)) = Count(b)
  <1> DEFINE f == [i \in 1 .. Count(b) |-> Row(b, i)]
  <1>1. Count(b) \in Nat /\ Count(b) >= 1
    BY ContentFacts
  <1>2. f \in [1 .. Count(b) -> Rows(b)]
    BY RowFacts
  <1>3. \A i, j \in 1 .. Count(b) : f[i] = f[j] => i = j
    BY ContentFacts DEF Row
  <1>4. \A e \in Rows(b) : \E i \in 1 .. Count(b) : f[i] = e
    BY RowFacts
  <1> HIDE DEF f
  <1>5. f \in Bijection(1 .. Count(b), Rows(b))
    BY <1>2, <1>3, <1>4, Fun_IsBij
  <1>6. ExistsBijection(1 .. Count(b), Rows(b))
    BY <1>5, Fun_ExistsBij
  <1>7. IsFiniteSet(1 .. Count(b)) /\ Cardinality(1 .. Count(b)) = Count(b)
    BY <1>1, FS_Interval
  <1> QED
    BY <1>6, <1>7, FS_Bijection

\* The rows of a run that can be replayed: finitely many, with the sequences from the first.
Contiguous(rows) ==
  /\ IsFiniteSet(rows)
  /\ {e.sequence : e \in rows} =
       FirstEngineEventSequence .. (FirstEngineEventSequence + Cardinality(rows) - 1)

\* The projection of rows that can be replayed.
LEMMA ProjectFacts ==
  ASSUME NEW rows, Contiguous(rows), NEW completion \in Batch \cup {NoBatch}
  PROVE  /\ Cardinality(rows) \in Nat /\ (rows # {} <=> Cardinality(rows) > 0)
         /\ Project(rows, completion) \in ProjectionRow
         /\ Project(rows, completion).count = Cardinality(rows)
         /\ Project(rows, completion).last = Cardinality(rows) + 1
         /\ Project(rows, completion).completion = IF rows = {} THEN NoBatch ELSE completion
  <1>1. Cardinality(rows) \in Nat /\ (Cardinality(rows) = 0 <=> rows = {})
    BY FS_CardinalityType, FS_EmptySet DEF Contiguous
  <1>2. CASE rows = {}
    BY <1>1, <1>2 DEF Project, NoRow, FirstEngineEventSequence, ProjectionRow
  <1>3. CASE rows # {}
    <2> DEFINE n == Cardinality(rows)
    <2>1. n \in Nat /\ n > 0
      BY <1>1, <1>3
    <2> HIDE DEF n
    <2>2. {e.sequence : e \in rows} = 2 .. (n + 1)
      <3>1. {e.sequence : e \in rows} = 2 .. (2 + n - 1) /\ 2 + n - 1 = n + 1
        BY <2>1 DEF Contiguous, FirstEngineEventSequence, n
      <3> QED
        BY <3>1
    <2>3. Max({e.sequence : e \in rows}) = n + 1
      <3>1. 2 \in Int /\ n + 1 \in Int /\ 2 <= n + 1
        BY <2>1
      <3>2. Max(2 .. (n + 1)) = n + 1
        BY <3>1, MaxOfInterval
      <3> QED
        BY <2>2, <3>2, Zenon
    <2>4. Project(rows, completion) = [count |-> n, last |-> n + 1, completion |-> completion]
      BY <1>3, <2>3 DEF Project, n
    <2> QED
      BY <1>1, <1>3, <2>1, <2>4 DEF ProjectionRow, n
  <1> QED
    BY <1>2, <1>3

\* A batch that starts where the rows of its run end keeps them contiguous.
LEMMA ContiguousExtended ==
  ASSUME NEW rows, Contiguous(rows), NEW b \in Batch,
         Content[b].first = Cardinality(rows) + 2, rows \cap Rows(b) = {}
  PROVE  Contiguous(rows \cup Rows(b)) /\ rows \cup Rows(b) # {}
  <1> DEFINE n == Cardinality(rows)
             m == Count(b)
             all == rows \cup Rows(b)
  <1>1. n \in Nat /\ m \in Nat /\ m > 0 /\ IsFiniteSet(rows)
    BY FS_CardinalityType, ContentFacts DEF Contiguous
  <1>2. IsFiniteSet(Rows(b)) /\ Cardinality(Rows(b)) = m
    BY RowCount
  <1>3. IsFiniteSet(all) /\ Cardinality(all) = n + m - Cardinality({})
    BY <1>1, <1>2, FS_Union
  <1>4. Cardinality(all) = n + m
    BY <1>1, <1>3, FS_EmptySet
  <1>5. {e.sequence : e \in rows} = 2 .. (n + 1)
    BY <1>1 DEF Contiguous, FirstEngineEventSequence
  <1>6. {e.sequence : e \in Rows(b)} = (n + 2) .. (n + m + 1)
    <2>1. {e.sequence : e \in Rows(b)} = (n + 2) .. (n + 2 + m - 1)
      BY RowFacts
    <2> QED
      BY <1>1, <2>1
  <1>7. {e.sequence : e \in all} = {e.sequence : e \in rows} \cup {e.sequence : e \in Rows(b)}
    OBVIOUS
  <1> HIDE DEF n, m, all
  <1>8. {e.sequence : e \in all} = 2 .. (n + m + 1)
    BY <1>1, <1>5, <1>6, <1>7
  <1>9. 2 + (n + m) - 1 = n + m + 1
    BY <1>1
  <1>10. Contiguous(all)
    BY <1>3, <1>4, <1>8, <1>9 DEF Contiguous, FirstEngineEventSequence
  <1> QED
    BY <1>10, RowFacts DEF all

-----------------------------------------------------------------------------
(* The inductive invariant.                                                 *)

Checked == {"identity", "expected", "insert", "project"}
Ingesting == {"batch", "run", "receipt", "messages"} \cup Checked

BatchLock(b) == <<"batch", b>>
RunLock(b) == <<"run", Content[b].run>>
MessageLock(b, i) == <<"message", Content[b].messages[i]>>
MessageLocks(b) == {MessageLock(b, i) : i \in 1 .. Count(b)}

\* A session holds what it has taken so far; the messages it holds come before those it lacks.
LocksSound(k) ==
  /\ k.pc \in {"idle", "batch", "table", "replay", "write", "done"} => k.locks = {}
  /\ k.pc = "run" => k.locks = {BatchLock(k.batch)}
  /\ k.pc = "receipt" => k.locks = {BatchLock(k.batch), RunLock(k.batch)}
  /\ k.pc = "messages" =>
       /\ {BatchLock(k.batch), RunLock(k.batch)} \subseteq k.locks
       /\ k.locks \subseteq {BatchLock(k.batch), RunLock(k.batch)} \cup MessageLocks(k.batch)
       /\ \A i, j \in 1 .. Count(k.batch) :
            MessageLock(k.batch, i) \in k.locks /\ MessageLock(k.batch, j) \notin k.locks =>
              Content[k.batch].messages[i] < Content[k.batch].messages[j]
  /\ k.pc \in Checked =>
       k.locks = {BatchLock(k.batch), RunLock(k.batch)} \cup MessageLocks(k.batch)

NoForeign(b) ==
  \A e \in events, row \in Rows(b) : e.message = row.message => Digest(e) = Digest(row)

\* What a session found out is still so: its locks keep the others from changing it.
SessionSound(k) ==
  /\ k.pc \in Ingesting => k.batch \in Batch /\ k.claim \in Claim
  /\ LocksSound(k)
  /\ k.pc \in {"messages"} \cup Checked => receipts[k.batch] = NoClaim
  /\ k.pc \in {"expected", "insert", "project"} => NoForeign(k.batch)
  /\ k.pc \in {"insert", "project"} =>
       Content[k.batch].first = projections[Content[k.batch].run].last + 1
  /\ k.pc = "project" => projections[Content[k.batch].run].completion = NoBatch
  /\ k.pc = "write" => k.replay = [r \in Run |-> Project(OfRun(r, events), NoBatch)]

LocksExclusive ==
  \A s, t \in Session : s # t => session[s].locks \cap session[t].locks = {}

\* The table lock: no ingestion has inserted rows while a recovery replays.
TableExclusive ==
  \A s, t \in Session : session[s].pc = "project" => session[t].pc \notin {"replay", "write"}

\* A client hears at the end, and a receipt is one of its claim.
AnswerSound(s) ==
  /\ answer[s] # "none" => session[s].pc = "done"
  /\ answer[s] \in {"receipt", "conflict", "blocked"} =>
       session[s].batch \in Batch /\ session[s].claim \in Claim
  /\ answer[s] = "receipt" => receipts[session[s].batch] = session[s].claim

\* A receipt was written by a session whose client was not refused.
ReceiptSound(b) ==
  receipts[b] # NoClaim =>
    \E t \in Session : /\ session[t].batch = b /\ session[t].claim = receipts[b]
                       /\ session[t].pc = "done" /\ answer[t] \in {"none", "receipt"}

LedgerInv ==
  /\ LedgerTypeOK
  /\ IsFiniteSet(events)
  /\ LedgerReplays
  /\ ProjectionsExact
  /\ \A s \in Session : SessionSound(session[s])
  /\ LocksExclusive
  /\ TableExclusive
  /\ \A s \in Session : AnswerSound(s)
  /\ \A b \in Batch : ReceiptSound(b)

\* The committed events of a run can be replayed, and its projection is theirs.
LEMMA RunFacts ==
  ASSUME LedgerInv, NEW r \in Run
  PROVE  /\ Contiguous(OfRun(r, events))
         /\ Cardinality(OfRun(r, events)) \in Nat
         /\ projections[r] = Project(OfRun(r, events), projections[r].completion)
         /\ projections[r].last = Cardinality(OfRun(r, events)) + 1
         /\ projections[r].completion \in Batch \cup {NoBatch}
  <1>1. IsFiniteSet(OfRun(r, events))
    BY FS_Subset DEF LedgerInv, OfRun
  <1>2. Contiguous(OfRun(r, events))
    BY <1>1 DEF LedgerInv, LedgerReplays, Contiguous
  <1>3. projections[r].completion \in Batch \cup {NoBatch}
    BY DEF LedgerInv, LedgerTypeOK, ProjectionRow
  <1>4. projections[r] = Project(OfRun(r, events), projections[r].completion)
    BY DEF LedgerInv, ProjectionsExact
  <1> QED
    BY <1>2, <1>3, <1>4, ProjectFacts

\* No event, no receipt and no transaction at the start.
LEMMA LedgerInitInv ==
  ASSUME LedgerInit PROVE LedgerInv
  <1>1. LedgerTypeOK
    BY DEF LedgerInit, LedgerTypeOK, NoRow, ProjectionRow, FirstEngineEventSequence, Idle,
           SessionRow, Pc
  <1>2. IsFiniteSet(events) /\ \A r \in Run : OfRun(r, events) = {}
    BY FS_EmptySet DEF LedgerInit, OfRun
  <1>3. ProjectionsExact
    BY <1>2 DEF LedgerInit, ProjectionsExact, Project
  <1>4. LedgerReplays
    <2>1. \A r \in Run : {e.sequence : e \in OfRun(r, events)} = {}
      BY <1>2
    <2>2. Cardinality({}) = 0
      BY FS_EmptySet
    <2>3. FirstEngineEventSequence .. (FirstEngineEventSequence + 0 - 1) = {}
      BY DEF FirstEngineEventSequence
    <2>4. {b \in Batch : receipts[b] # NoClaim} = {}
      BY DEF LedgerInit
    <2> QED
      BY <1>2, <2>1, <2>2, <2>3, <2>4 DEF LedgerReplays, LedgerInit
  <1>5. \A s \in Session : session[s].pc = "idle" /\ session[s].locks = {}
    BY DEF LedgerInit, Idle
  <1>6. \A s \in Session : SessionSound(session[s])
    BY <1>5 DEF SessionSound, LocksSound, Ingesting, Checked
  <1>7. LocksExclusive /\ TableExclusive
    BY <1>5 DEF LocksExclusive, TableExclusive
  <1>8. (\A s \in Session : AnswerSound(s)) /\ \A b \in Batch : ReceiptSound(b)
    BY DEF LedgerInit, AnswerSound, ReceiptSound
  <1> QED
    BY <1>1, <1>2, <1>3, <1>4, <1>6, <1>7, <1>8 DEF LedgerInv

\* A step of one session that leaves the tables alone.
LEMMA QuietSession ==
  ASSUME LedgerInv, NEW s \in Session, UNCHANGED dbVars,
         session' \in [Session -> SessionRow],
         \A t \in Session \ {s} : session'[t] = session[t] /\ answer'[t] = answer[t],
         session[s].pc # "done",
         SessionSound(session'[s]),
         \A t \in Session \ {s} :
           /\ session'[s].locks \cap session[t].locks = {}
           /\ session'[s].pc = "project" => session[t].pc \notin {"replay", "write"}
           /\ session'[s].pc \in {"replay", "write"} => session[t].pc # "project",
         answer' \in [Session -> {"none", "receipt", "conflict", "blocked", "recovered"}],
         AnswerSound(s)'
  PROVE  LedgerInv'
  <1>1. LedgerTypeOK'
    BY DEF LedgerInv, LedgerTypeOK, dbVars
  <1>2. IsFiniteSet(events)' /\ LedgerReplays' /\ ProjectionsExact'
    BY DEF LedgerInv, LedgerReplays, ProjectionsExact, dbVars
  <1>3. \A t \in Session : SessionSound(session[t])'
    BY DEF LedgerInv, SessionSound, NoForeign, dbVars
  <1>4. LocksExclusive'
    BY DEF LedgerInv, LocksExclusive
  <1>5. TableExclusive'
    BY DEF LedgerInv, TableExclusive
  <1>6. \A t \in Session : AnswerSound(t)'
    BY DEF LedgerInv, AnswerSound, dbVars
  <1>7. ASSUME NEW b \in Batch PROVE ReceiptSound(b)'
    BY DEF LedgerInv, ReceiptSound, dbVars
  <1> QED
    BY <1>1, <1>2, <1>3, <1>4, <1>5, <1>6, <1>7 DEF LedgerInv

\* The end of a transaction that wrote nothing.
LEMMA InvEnd ==
  ASSUME LedgerInv, NEW s \in Session, UNCHANGED dbVars, session[s].pc # "done",
         NEW reply \in {"none", "receipt", "conflict", "blocked", "recovered"}, End(s, reply),
         reply \in {"receipt", "conflict", "blocked"} =>
           session[s].batch \in Batch /\ session[s].claim \in Claim,
         reply = "receipt" => receipts[session[s].batch] = session[s].claim
  PROVE  LedgerInv'
  <1>1. session \in [Session -> SessionRow] /\ session[s] \in SessionRow
    BY DEF LedgerInv, LedgerTypeOK
  <1>2. /\ session' \in [Session -> SessionRow]
        /\ session'[s].pc = "done" /\ session'[s].locks = {}
        /\ session'[s].batch = session[s].batch /\ session'[s].claim = session[s].claim
        /\ \A t \in Session \ {s} : session'[t] = session[t]
    BY <1>1 DEF End, Close, SessionRow, Pc
  <1>3. /\ answer' \in [Session -> {"none", "receipt", "conflict", "blocked", "recovered"}]
        /\ \A t \in Session \ {s} : answer'[t] = answer[t]
        /\ answer'[s] \in {answer[s], reply}
    BY DEF End, LedgerInv, LedgerTypeOK
  <1>4. answer[s] = "none"
    BY DEF LedgerInv, AnswerSound
  <1>5. AnswerSound(s)'
    BY <1>2, <1>3, <1>4 DEF AnswerSound, dbVars
  <1>6. SessionSound(session'[s])
    BY <1>2 DEF SessionSound, LocksSound, Ingesting, Checked
  <1> QED
    BY <1>2, <1>3, <1>5, <1>6, QuietSession

\* A transaction that is rolled back.
LEMMA InvAbort ==
  ASSUME LedgerInv, NEW s \in Session, Abort(s)
  PROVE  LedgerInv'
  <1>1. answer = [answer EXCEPT ![s] = answer[s]]
    BY DEF LedgerInv, LedgerTypeOK
  <1>2. answer[s] = "none"
    BY DEF LedgerInv, AnswerSound, Abort
  <1>3. End(s, "none")
    BY <1>1, <1>2 DEF Abort, End
  <1> QED
    BY <1>3, InvEnd DEF Abort, dbVars

\* A transaction that goes on.
LEMMA InvMove ==
  ASSUME LedgerInv, NEW s \in Session, UNCHANGED <<dbVars, answer>>,
         session' \in [Session -> SessionRow],
         \A t \in Session \ {s} : session'[t] = session[t],
         session[s].pc # "done",
         SessionSound(session'[s]),
         \A t \in Session \ {s} :
           /\ session'[s].locks \cap session[t].locks = {}
           /\ session'[s].pc = "project" => session[t].pc \notin {"replay", "write"}
           /\ session'[s].pc \in {"replay", "write"} => session[t].pc # "project"
  PROVE  LedgerInv'
  <1>1. answer[s] = "none"
    BY DEF LedgerInv, AnswerSound
  <1>2. AnswerSound(s)'
    BY <1>1 DEF AnswerSound
  <1> QED
    BY <1>2, QuietSession DEF LedgerInv, LedgerTypeOK

\* A transaction that goes on without another lock.
LEMMA InvGoto ==
  ASSUME LedgerInv, NEW s \in Session, NEW pc \in Pc, Goto(s, pc), UNCHANGED <<dbVars, answer>>,
         session[s].pc # "done",
         SessionSound([session[s] EXCEPT !.pc = pc]),
         \A t \in Session \ {s} :
           /\ pc = "project" => session[t].pc \notin {"replay", "write"}
           /\ pc \in {"replay", "write"} => session[t].pc # "project"
  PROVE  LedgerInv'
  <1>1. session \in [Session -> SessionRow] /\ session[s] \in SessionRow
    BY DEF LedgerInv, LedgerTypeOK
  <1> DEFINE k == [session[s] EXCEPT !.pc = pc]
  <1>2. k \in SessionRow /\ k.pc = pc /\ k.locks = session[s].locks
    BY <1>1 DEF SessionRow
  <1>3. session' = [session EXCEPT ![s] = k]
    BY DEF Goto
  <1> HIDE DEF k
  <1>4. /\ session' \in [Session -> SessionRow] /\ session'[s] = k
        /\ \A t \in Session \ {s} : session'[t] = session[t]
    BY <1>1, <1>2, <1>3
  <1>5. \A t \in Session \ {s} : session[s].locks \cap session[t].locks = {}
    BY DEF LedgerInv, LocksExclusive
  <1> QED
    BY <1>2, <1>4, <1>5, InvMove DEF k

Locks ==
  {<<"batch", b>> : b \in Batch} \cup {<<"run", r>> : r \in Run} \cup {<<"message", m>> : m \in Message}

\* The fields of a session that takes a lock.
LEMMA TakeFields ==
  ASSUME LedgerInv, NEW s \in Session, NEW lock, NEW pc \in Pc, Take(s, lock, pc),
         lock \in Locks
  PROVE  /\ session' \in [Session -> SessionRow]
         /\ session'[s].pc = pc /\ session'[s].locks = session[s].locks \cup {lock}
         /\ session'[s].batch = session[s].batch /\ session'[s].claim = session[s].claim
         /\ \A t \in Session \ {s} : /\ session'[t] = session[t]
                                     /\ session'[s].locks \cap session[t].locks = {}
  <1>1. session \in [Session -> SessionRow] /\ session[s] \in SessionRow
    BY DEF LedgerInv, LedgerTypeOK
  <1>2. session' = [session EXCEPT ![s].locks = @ \cup {lock}, ![s].pc = pc] /\ Free(lock)
    BY DEF Take
  <1> DEFINE k == [session[s] EXCEPT !.locks = session[s].locks \cup {lock}, !.pc = pc]
  <1>3. /\ k \in SessionRow /\ k.pc = pc /\ k.locks = session[s].locks \cup {lock}
        /\ k.batch = session[s].batch /\ k.claim = session[s].claim
    BY <1>1 DEF SessionRow, Locks
  <1>4. session' = [session EXCEPT ![s] = k]
    BY <1>1, <1>2
  <1> HIDE DEF k
  <1>5. /\ session' \in [Session -> SessionRow] /\ session'[s] = k
        /\ \A t \in Session \ {s} : session'[t] = session[t]
    BY <1>1, <1>3, <1>4
  <1>6. \A t \in Session \ {s} : session'[s].locks \cap session[t].locks = {}
    BY <1>2, <1>3, <1>5 DEF LedgerInv, LocksExclusive, Free
  <1> QED
    BY <1>3, <1>5, <1>6

\* A document arrives.
LEMMA InvBegin ==
  ASSUME LedgerInv, NEW s \in Session, NEW b \in Batch, NEW c \in Claim, Begin(s, b, c)
  PROVE  LedgerInv'
  <1>1. session \in [Session -> SessionRow] /\ session[s] \in SessionRow /\ session[s].locks = {}
    BY DEF LedgerInv, LedgerTypeOK, Begin, At, SessionSound, LocksSound
  <1>2. /\ session' \in [Session -> SessionRow]
        /\ session'[s].pc = "batch" /\ session'[s].batch = b /\ session'[s].claim = c
        /\ session'[s].locks = {}
        /\ \A t \in Session \ {s} : session'[t] = session[t]
    BY <1>1 DEF Begin, SessionRow, Pc
  <1>3. SessionSound(session'[s])
    BY <1>2 DEF SessionSound, LocksSound, Checked
  <1> QED
    BY <1>2, <1>3, InvMove DEF Begin, At

\* The lock of the batch.
LEMMA InvLockBatch ==
  ASSUME LedgerInv, NEW s \in Session, LockBatch(s)
  PROVE  LedgerInv'
  <1> DEFINE b == session[s].batch
  <1>1. /\ session[s].pc = "batch" /\ Take(s, <<"batch", b>>, "run")
        /\ b \in Batch /\ session[s].claim \in Claim /\ session[s].locks = {}
    BY DEF LockBatch, At, BatchOf, LedgerInv, SessionSound, LocksSound, Ingesting
  <1>2. "run" \in Pc /\ <<"batch", b>> \in Locks
    BY <1>1 DEF Pc, Locks
  <1>3. PICK lock \in Locks : lock = <<"batch", b>>
    BY <1>2
  <1>4. /\ session' \in [Session -> SessionRow]
        /\ session'[s].pc = "run" /\ session'[s].locks = {lock}
        /\ session'[s].batch = b /\ session'[s].claim = session[s].claim
        /\ \A t \in Session \ {s} : /\ session'[t] = session[t]
                                    /\ session'[s].locks \cap session[t].locks = {}
    BY <1>1, <1>2, <1>3, TakeFields
  <1>5. SessionSound(session'[s])
    BY <1>1, <1>3, <1>4 DEF SessionSound, LocksSound, Checked, BatchLock
  <1> QED
    BY <1>1, <1>4, <1>5, InvMove DEF Take

\* The lock of the run.
LEMMA InvLockRun ==
  ASSUME LedgerInv, NEW s \in Session, LockRun(s)
  PROVE  LedgerInv'
  <1> DEFINE b == session[s].batch
  <1>1. /\ session[s].pc = "run" /\ Take(s, RunLock(b), "receipt")
        /\ b \in Batch /\ session[s].claim \in Claim /\ session[s].locks = {BatchLock(b)}
    BY DEF LockRun, At, RunOf, BatchOf, RunLock, LedgerInv, SessionSound, LocksSound, Ingesting
  <1>2. "receipt" \in Pc
    BY DEF Pc
  <1>3. PICK lock \in Locks : lock = RunLock(b)
    BY <1>1, ContentFacts DEF RunLock, Locks
  <1>4. /\ session' \in [Session -> SessionRow]
        /\ session'[s].pc = "receipt" /\ session'[s].locks = {BatchLock(b)} \cup {lock}
        /\ session'[s].batch = b /\ session'[s].claim = session[s].claim
        /\ \A t \in Session \ {s} : /\ session'[t] = session[t]
                                    /\ session'[s].locks \cap session[t].locks = {}
    BY <1>1, <1>2, <1>3, TakeFields
  <1>5. SessionSound(session'[s])
    BY <1>1, <1>3, <1>4 DEF SessionSound, LocksSound, Checked
  <1> QED
    BY <1>1, <1>4, <1>5, InvMove DEF Take

\* A batch that has a receipt.
LEMMA InvFindReceipt ==
  ASSUME LedgerInv, NEW s \in Session, FindReceipt(s)
  PROVE  LedgerInv'
  <1> DEFINE reply == IF receipts[session[s].batch] = session[s].claim THEN "receipt" ELSE "conflict"
  <1>1. session[s].batch \in Batch /\ session[s].claim \in Claim /\ session[s].pc # "done"
    BY DEF FindReceipt, At, LedgerInv, SessionSound, Ingesting
  <1>2. End(s, reply) /\ UNCHANGED dbVars
    BY DEF FindReceipt, BatchOf
  <1>3. /\ reply \in {"none", "receipt", "conflict", "blocked", "recovered"}
        /\ reply = "receipt" => receipts[session[s].batch] = session[s].claim
    OBVIOUS
  <1> HIDE DEF reply
  <1> QED
    BY <1>1, <1>2, <1>3, InvEnd

\* A batch that has none.
LEMMA InvNewBatch ==
  ASSUME LedgerInv, NEW s \in Session, NewBatch(s)
  PROVE  LedgerInv'
  <1> DEFINE k == [session[s] EXCEPT !.pc = "messages"]
             b == session[s].batch
  <1>1. /\ session[s].pc = "receipt" /\ receipts[b] = NoClaim /\ Goto(s, "messages")
        /\ UNCHANGED <<dbVars, answer>>
    BY DEF NewBatch, At, BatchOf
  <1>2. b \in Batch /\ session[s].claim \in Claim /\ session[s].locks = {BatchLock(b), RunLock(b)}
    BY <1>1 DEF LedgerInv, SessionSound, LocksSound, Ingesting
  <1>3. session[s] \in SessionRow
    BY DEF LedgerInv, LedgerTypeOK
  <1>4. /\ k.pc = "messages" /\ k.locks = {BatchLock(b), RunLock(b)} /\ k.batch = b
        /\ k.claim = session[s].claim
    BY <1>2, <1>3 DEF SessionRow
  <1> HIDE DEF k
  <1>5. \A i \in 1 .. Count(b) : MessageLock(b, i) \notin {BatchLock(b), RunLock(b)}
    BY DEF MessageLock, BatchLock, RunLock
  <1>6. SessionSound(k)
    BY <1>1, <1>2, <1>4, <1>5 DEF SessionSound, LocksSound, Checked
  <1>7. "messages" \in Pc
    BY DEF Pc
  <1> QED
    BY <1>1, <1>6, <1>7, InvGoto DEF k

\* The locks of the messages, in the order of their ids.
LEMMA InvLockMessages ==
  ASSUME LedgerInv, NEW s \in Session, LockMessages(s)
  PROVE  LedgerInv'
  <1> DEFINE b == session[s].batch
             M(i) == Content[b].messages[i]
  <1>1. /\ session[s].pc = "messages" /\ b \in Batch /\ session[s].claim \in Claim
        /\ receipts[b] = NoClaim
        /\ {BatchLock(b), RunLock(b)} \subseteq session[s].locks
        /\ session[s].locks \subseteq {BatchLock(b), RunLock(b)} \cup MessageLocks(b)
        /\ \A i, j \in 1 .. Count(b) :
             MessageLock(b, i) \in session[s].locks /\ MessageLock(b, j) \notin session[s].locks =>
               M(i) < M(j)
    BY DEF LockMessages, At, LedgerInv, SessionSound, LocksSound, Ingesting
  <1>2. /\ DOMAIN Content[b].messages = 1 .. Count(b)
        /\ \A i \in 1 .. Count(b) : M(i) \in Message /\ M(i) \in Nat
        /\ \A i, j \in 1 .. Count(b) : M(i) = M(j) => i = j
    BY <1>1, ContentFacts, LedgerAssumption
  <1>3. ToLock(s) = {i \in 1 .. Count(b) : MessageLock(b, i) \notin session[s].locks}
    BY <1>2 DEF ToLock, BatchOf, MessageLock
  <1>4. CASE ToLock(s) # {} /\ Take(s, <<"message", NextMessage(s)>>, "messages")
    <2> DEFINE wanted == {M(i) : i \in ToLock(s)}
    <2>1. wanted \in SUBSET Nat /\ wanted # {}
      BY <1>2, <1>3, <1>4
    <2>2. Min(wanted) \in wanted /\ \A x \in wanted : Min(wanted) <= x
      BY <2>1, MinOfNats
    <2>3. NextMessage(s) = Min(wanted)
      BY DEF NextMessage, BatchOf
    <2>4. PICK i \in ToLock(s) : NextMessage(s) = M(i) /\ \A j \in ToLock(s) : M(i) <= M(j)
      BY <2>2, <2>3
    <2> HIDE DEF wanted
    <2>5. i \in 1 .. Count(b) /\ MessageLock(b, i) \notin session[s].locks
      BY <1>3
    <2>6. PICK lock \in Locks : lock = MessageLock(b, i)
      BY <1>2, <2>5 DEF Locks, MessageLock
    <2>7. Take(s, lock, "messages") /\ "messages" \in Pc
      BY <1>4, <2>4, <2>6 DEF MessageLock, Pc
    <2>8. /\ session' \in [Session -> SessionRow]
          /\ session'[s].pc = "messages" /\ session'[s].locks = session[s].locks \cup {lock}
          /\ session'[s].batch = b /\ session'[s].claim = session[s].claim
          /\ \A t \in Session \ {s} : /\ session'[t] = session[t]
                                      /\ session'[s].locks \cap session[t].locks = {}
      BY <2>7, TakeFields
    <2>9. ASSUME NEW p \in 1 .. Count(b), NEW q \in 1 .. Count(b),
                 MessageLock(b, p) \in session'[s].locks,
                 MessageLock(b, q) \notin session'[s].locks
          PROVE  M(p) < M(q)
      <3>1. q \in ToLock(s) /\ MessageLock(b, q) # MessageLock(b, i)
        BY <1>3, <2>6, <2>8, <2>9
      <3>2. M(q) # M(i) /\ M(i) <= M(q)
        BY <2>4, <3>1 DEF MessageLock
      <3>3. CASE MessageLock(b, p) \in session[s].locks
        BY <1>1, <1>3, <3>1, <3>3
      <3>4. CASE MessageLock(b, p) = MessageLock(b, i)
        <4>1. M(p) = M(i)
          BY <3>4 DEF MessageLock
        <4> QED
          BY <1>2, <2>5, <3>2, <4>1
      <3> QED
        BY <2>6, <2>8, <2>9, <3>3, <3>4
    <2>10. lock \in MessageLocks(b)
      BY <2>5, <2>6 DEF MessageLocks
    <2>11. SessionSound(session'[s])
      BY <1>1, <2>8, <2>9, <2>10 DEF SessionSound, LocksSound, Checked
    <2> QED
      BY <1>1, <2>7, <2>8, <2>11, InvMove DEF Take
  <1>5. CASE ToLock(s) = {} /\ Goto(s, "identity") /\ UNCHANGED <<dbVars, answer>>
    <2> DEFINE k == [session[s] EXCEPT !.pc = "identity"]
    <2>1. \A i \in 1 .. Count(b) : MessageLock(b, i) \in session[s].locks
      BY <1>3, <1>5
    <2>2. session[s].locks = {BatchLock(b), RunLock(b)} \cup MessageLocks(b)
      BY <1>1, <2>1 DEF MessageLocks
    <2>3. session[s] \in SessionRow
      BY DEF LedgerInv, LedgerTypeOK
    <2>4. /\ k.pc = "identity" /\ k.locks = session[s].locks /\ k.batch = b
          /\ k.claim = session[s].claim
      BY <2>3 DEF SessionRow
    <2> HIDE DEF k
    <2>5. SessionSound(k)
      BY <1>1, <2>2, <2>4 DEF SessionSound, LocksSound, Checked
    <2>6. "identity" \in Pc
      BY DEF Pc
    <2> QED
      BY <1>1, <1>5, <2>5, <2>6, InvGoto DEF k
  <1> QED
    BY <1>4, <1>5 DEF LockMessages

\* A session that has its locks moves to the next check with what it found.
LEMMA InvChecked ==
  ASSUME LedgerInv, NEW s \in Session, session[s].pc \in Checked, NEW pc \in Checked,
         Goto(s, pc), UNCHANGED <<dbVars, answer>>,
         pc \in {"expected", "insert", "project"} => NoForeign(session[s].batch),
         pc \in {"insert", "project"} =>
           Content[session[s].batch].first = projections[Content[session[s].batch].run].last + 1,
         pc = "project" =>
           /\ projections[Content[session[s].batch].run].completion = NoBatch
           /\ \A t \in Session : session[t].pc \notin {"replay", "write"}
  PROVE  LedgerInv'
  <1> DEFINE k == [session[s] EXCEPT !.pc = pc]
             b == session[s].batch
  <1>1. /\ b \in Batch /\ session[s].claim \in Claim /\ receipts[b] = NoClaim
        /\ session[s].locks = {BatchLock(b), RunLock(b)} \cup MessageLocks(b)
    BY DEF LedgerInv, SessionSound, LocksSound, Ingesting
  <1>2. session[s] \in SessionRow
    BY DEF LedgerInv, LedgerTypeOK
  <1>3. k.pc = pc /\ k.locks = session[s].locks /\ k.batch = b /\ k.claim = session[s].claim
    BY <1>2 DEF SessionRow
  <1> HIDE DEF k
  <1>4. SessionSound(k)
    BY <1>1, <1>3 DEF SessionSound, LocksSound, Checked
  <1>5. pc \in Pc /\ session[s].pc # "done" /\ pc \notin {"replay", "write"}
    BY DEF Pc, Checked
  <1> QED
    BY <1>4, <1>5, InvGoto DEF k

\* A message stored with another text is a conflict.
LEMMA InvCheckIdentity ==
  ASSUME LedgerInv, NEW s \in Session, CheckIdentity(s)
  PROVE  LedgerInv'
  <1>1. /\ session[s].pc = "identity" /\ UNCHANGED dbVars
        /\ session[s].batch \in Batch /\ session[s].claim \in Claim
    BY DEF CheckIdentity, At, LedgerInv, SessionSound, Ingesting, Checked
  <1>2. CASE ForeignMessages(s) = {}
    <2>1. NoForeign(session[s].batch)
      BY <1>2 DEF ForeignMessages, NoForeign, BatchOf
    <2>2. Goto(s, "expected") /\ UNCHANGED answer
      BY <1>2 DEF CheckIdentity
    <2> QED
      BY <1>1, <2>1, <2>2, InvChecked DEF Checked
  <1>3. CASE ForeignMessages(s) # {}
    <2>1. End(s, "conflict")
      BY <1>3 DEF CheckIdentity
    <2> QED
      BY <1>1, <2>1, InvEnd
  <1> QED
    BY <1>2, <1>3

\* A batch that does not start where its run ends is blocked.
LEMMA InvCheckSequence ==
  ASSUME LedgerInv, NEW s \in Session, CheckSequence(s)
  PROVE  LedgerInv'
  <1>1. /\ session[s].pc = "expected" /\ UNCHANGED dbVars /\ NoForeign(session[s].batch)
        /\ session[s].batch \in Batch /\ session[s].claim \in Claim
    BY DEF CheckSequence, At, LedgerInv, SessionSound, Ingesting, Checked
  <1>2. CASE Expected(s)
    <2>1. Content[session[s].batch].first = projections[Content[session[s].batch].run].last + 1
      BY <1>2 DEF Expected, RunOf, BatchOf
    <2>2. Goto(s, "insert") /\ UNCHANGED answer
      BY <1>2 DEF CheckSequence
    <2> QED
      BY <1>1, <2>1, <2>2, InvChecked DEF Checked
  <1>3. CASE ~Expected(s)
    <2>1. End(s, "blocked")
      BY <1>3 DEF CheckSequence
    <2> QED
      BY <1>1, <2>1, InvEnd
  <1> QED
    BY <1>2, <1>3

\* The rows are inserted while no recovery replays, or the run is complete.
LEMMA InvInsertRows ==
  ASSUME LedgerInv, NEW s \in Session, InsertRows(s)
  PROVE  LedgerInv'
  <1>1. /\ session[s].pc = "insert" /\ UNCHANGED dbVars /\ NoForeign(session[s].batch)
        /\ Content[session[s].batch].first = projections[Content[session[s].batch].run].last + 1
        /\ session[s].batch \in Batch /\ session[s].claim \in Claim
    BY DEF InsertRows, At, LedgerInv, SessionSound, Ingesting, Checked
  <1>2. \A t \in Session : session[t].pc \notin {"replay", "write"}
    BY DEF InsertRows, Replaying
  <1>3. CASE Completed(RunOf(s)) \/ Duplicates(s) # {}
    <2>1. End(s, "conflict")
      BY <1>3 DEF InsertRows
    <2> QED
      BY <1>1, <2>1, InvEnd
  <1>4. CASE ~(Completed(RunOf(s)) \/ Duplicates(s) # {})
    <2>1. projections[Content[session[s].batch].run].completion = NoBatch
      BY <1>4 DEF Completed, RunOf, BatchOf
    <2>2. Goto(s, "project") /\ UNCHANGED answer
      BY <1>4 DEF InsertRows
    <2> QED
      BY <1>1, <1>2, <2>1, <2>2, InvChecked DEF Checked
  <1> QED
    BY <1>3, <1>4

-----------------------------------------------------------------------------
(* The recovery.                                                            *)

\* A recovery begins.
LEMMA InvBeginRecovery ==
  ASSUME LedgerInv, NEW s \in Session, BeginRecovery(s)
  PROVE  LedgerInv'
  <1> DEFINE k == [session[s] EXCEPT !.pc = "table"]
  <1>1. session[s] \in SessionRow /\ session[s].pc = "idle" /\ session[s].locks = {}
    BY DEF BeginRecovery, At, LedgerInv, LedgerTypeOK, SessionSound, LocksSound
  <1>2. k.pc = "table" /\ k.locks = {}
    BY <1>1 DEF SessionRow
  <1> HIDE DEF k
  <1>3. SessionSound(k) /\ "table" \in Pc
    BY <1>2 DEF SessionSound, LocksSound, Ingesting, Checked, Pc
  <1> QED
    BY <1>1, <1>3, InvGoto DEF BeginRecovery, k

\* It waits for the ingestions that have inserted rows.
LEMMA InvLockTable ==
  ASSUME LedgerInv, NEW s \in Session, LockTable(s)
  PROVE  LedgerInv'
  <1> DEFINE k == [session[s] EXCEPT !.pc = "replay"]
  <1>1. session[s] \in SessionRow /\ session[s].pc = "table" /\ session[s].locks = {}
    BY DEF LockTable, At, LedgerInv, LedgerTypeOK, SessionSound, LocksSound
  <1>2. k.pc = "replay" /\ k.locks = {}
    BY <1>1 DEF SessionRow
  <1>3. \A t \in Session : session[t].pc # "project"
    BY DEF LockTable, Inserting, At
  <1> HIDE DEF k
  <1>4. SessionSound(k) /\ "replay" \in Pc
    BY <1>2 DEF SessionSound, LocksSound, Ingesting, Checked, Pc
  <1> QED
    BY <1>1, <1>3, <1>4, InvGoto DEF LockTable, k

\* It reads all events.
LEMMA InvReplay ==
  ASSUME LedgerInv, NEW s \in Session, Replay(s)
  PROVE  LedgerInv'
  <1> DEFINE image == [r \in Run |-> Project(OfRun(r, events), NoBatch)]
             k == [session[s] EXCEPT !.pc = "write", !.replay = image]
  <1>1. /\ session \in [Session -> SessionRow] /\ session[s] \in SessionRow
        /\ session[s].pc = "replay" /\ session[s].locks = {}
    BY DEF Replay, At, LedgerInv, LedgerTypeOK, SessionSound, LocksSound
  <1>2. image \in [Run -> ProjectionRow]
    BY RunFacts, ProjectFacts
  <1>3. session' = [session EXCEPT ![s] = k] /\ UNCHANGED <<dbVars, answer>>
    BY DEF Replay
  <1> HIDE DEF image
  <1>4. k \in SessionRow /\ k.pc = "write" /\ k.locks = {} /\ k.replay = image
    BY <1>1, <1>2 DEF SessionRow, Pc
  <1> HIDE DEF k
  <1>5. /\ session' \in [Session -> SessionRow] /\ session'[s] = k
        /\ \A t \in Session \ {s} : session'[t] = session[t]
    BY <1>1, <1>3, <1>4
  <1>6. SessionSound(k)
    BY <1>4 DEF SessionSound, LocksSound, Ingesting, Checked, image
  <1>7. \A t \in Session : session[t].pc # "project"
    BY <1>1 DEF LedgerInv, TableExclusive
  <1> QED
    BY <1>1, <1>3, <1>4, <1>5, <1>6, <1>7, InvMove

\* What a recovery writes is what is there.
LEMMA RecoveryWritesNothing ==
  ASSUME LedgerInv, NEW s \in Session, CommitRecovery(s)
  PROVE  projections' = projections
  <1>1. session[s].replay = [r \in Run |-> Project(OfRun(r, events), NoBatch)]
    BY DEF CommitRecovery, At, LedgerInv, SessionSound
  <1>2. projections \in [Run -> ProjectionRow] /\ projections' = [r \in Run |-> Rewritten(s, r)]
    BY DEF LedgerInv, LedgerTypeOK, CommitRecovery
  <1>3. ASSUME NEW r \in Run PROVE Rewritten(s, r) = projections[r]
    <2> DEFINE rows == OfRun(r, events)
               c == projections[r].completion
    <2>1. /\ Contiguous(rows) /\ projections[r] = Project(rows, c)
          /\ c \in Batch \cup {NoBatch}
      BY RunFacts
    <2>2. session[s].replay[r] = Project(rows, NoBatch)
      BY <1>1
    <2> HIDE DEF rows, c
    <2>3. CASE rows = {}
      BY <2>1, <2>2, <2>3 DEF Rewritten, Project
    <2>4. CASE rows # {}
      <3>1. /\ Project(rows, NoBatch).count = Cardinality(rows) /\ Cardinality(rows) > 0
            /\ NoRow.count = 0
        BY <2>1, <2>4, ProjectFacts DEF NoRow
      <3>2. Project(rows, NoBatch) # NoRow
        BY <3>1
      <3>3. Rewritten(s, r) = [Project(rows, NoBatch) EXCEPT !.completion = c]
        BY <2>2, <3>2 DEF Rewritten, c
      <3>4. [Project(rows, NoBatch) EXCEPT !.completion = c] = Project(rows, c)
        <4> DEFINE n == Cardinality(rows)
                   m == Max({e.sequence : e \in rows})
        <4>1. /\ Project(rows, NoBatch) = [count |-> n, last |-> m, completion |-> NoBatch]
              /\ Project(rows, c) = [count |-> n, last |-> m, completion |-> c]
          BY <2>4 DEF Project
        <4> HIDE DEF n, m
        <4> QED
          BY <4>1
      <3> QED
        BY <2>1, <3>3, <3>4
    <2> QED
      BY <2>3, <2>4
  <1> QED
    BY <1>2, <1>3

\* So a recovery is the end of a transaction that wrote nothing.
LEMMA InvCommitRecovery ==
  ASSUME LedgerInv, NEW s \in Session, CommitRecovery(s)
  PROVE  LedgerInv'
  <1>1. UNCHANGED dbVars
    BY RecoveryWritesNothing DEF CommitRecovery, dbVars
  <1> QED
    BY <1>1, InvEnd DEF CommitRecovery, At

-----------------------------------------------------------------------------
(* The commit of a batch.                                                   *)

\* The rows of a batch that passed the checks are new in message, and in run and sequence.
LEMMA FreshRows ==
  ASSUME LedgerInv, NEW s \in Session, session[s].pc \in {"insert", "project"}
  PROVE  /\ session[s].batch \in Batch
         /\ Content[session[s].batch].first =
              Cardinality(OfRun(Content[session[s].batch].run, events)) + 2
         /\ \A e \in events, row \in Rows(session[s].batch) :
              e.message # row.message /\ ~(e.run = row.run /\ e.sequence = row.sequence)
  <1> DEFINE b == session[s].batch
             r == Content[b].run
             n == Cardinality(OfRun(r, events))
  <1>1. b \in Batch /\ NoForeign(b) /\ Content[b].first = projections[r].last + 1
    BY DEF LedgerInv, SessionSound, Ingesting, Checked
  <1>2. r \in Run
    BY <1>1, ContentFacts
  <1>3. n \in Nat /\ projections[r].last = n + 1 /\ Contiguous(OfRun(r, events))
    BY <1>2, RunFacts
  <1>4. Content[b].first = n + 2
    BY <1>1, <1>3
  <1>5. ASSUME NEW e \in events, NEW row \in Rows(b), e.run = row.run, e.sequence = row.sequence
        PROVE  FALSE
    <2>1. /\ row.run = r /\ row.sequence \in Content[b].first .. (Content[b].first + Count(b) - 1)
          /\ Count(b) \in Nat
      BY <1>1, RowFacts, ContentFacts
    <2>2. e \in OfRun(r, events)
      BY <1>5, <2>1 DEF OfRun
    <2>3. e.sequence \in 2 .. (2 + n - 1)
      BY <1>3, <2>2 DEF Contiguous, FirstEngineEventSequence
    <2> QED
      BY <1>3, <1>4, <1>5, <2>1, <2>3
  <1>6. ASSUME NEW e \in events, NEW row \in Rows(b), e.message = row.message
        PROVE  FALSE
    <2>1. Digest(e) = Digest(row)
      BY <1>1, <1>6 DEF NoForeign
    <2>2. e.run = row.run /\ e.sequence = row.sequence
      BY <2>1 DEF Digest
    <2> QED
      BY <1>5, <2>2
  <1> QED
    BY <1>1, <1>4, <1>5, <1>6

\* Two sessions that hold their locks carry batches of different runs without a common message.
LEMMA LocksSeparate ==
  ASSUME LedgerInv, NEW s \in Session, NEW t \in Session \ {s},
         session[s].pc \in Checked, session[t].pc \in {"messages"} \cup Checked
  PROVE  /\ session[s].batch # session[t].batch
         /\ Content[session[s].batch].run # Content[session[t].batch].run
         /\ session[t].pc \in Checked =>
              \A e \in Rows(session[s].batch), f \in Rows(session[t].batch) : e.message # f.message
  <1> DEFINE b == session[s].batch
             c == session[t].batch
  <1>1. b \in Batch /\ c \in Batch
    BY DEF LedgerInv, SessionSound, Ingesting, Checked
  <1>2. /\ session[s].locks = {BatchLock(b), RunLock(b)} \cup MessageLocks(b)
        /\ {BatchLock(c), RunLock(c)} \subseteq session[t].locks
        /\ session[t].pc \in Checked =>
             session[t].locks = {BatchLock(c), RunLock(c)} \cup MessageLocks(c)
    BY DEF LedgerInv, SessionSound, LocksSound
  <1>3. session[s].locks \cap session[t].locks = {}
    BY DEF LedgerInv, LocksExclusive
  <1>4. BatchLock(b) # BatchLock(c) /\ RunLock(b) # RunLock(c)
    BY <1>2, <1>3
  <1>5. ASSUME session[t].pc \in Checked, NEW e \in Rows(b), NEW f \in Rows(c)
        PROVE  e.message # f.message
    <2>1. PICK i \in 1 .. Count(b) : e.message = Content[b].messages[i]
      BY <1>1, RowFacts
    <2>2. PICK j \in 1 .. Count(c) : f.message = Content[c].messages[j]
      BY <1>1, RowFacts
    <2>3. MessageLock(b, i) # MessageLock(c, j)
      BY <1>2, <1>3, <1>5 DEF MessageLocks
    <2> QED
      BY <2>1, <2>2, <2>3 DEF MessageLock
  <1> QED
    BY <1>4, <1>5 DEF BatchLock, RunLock

\* What a commit writes.
LEMMA CommitFacts ==
  ASSUME LedgerInv, NEW s \in Session, CommitBatch(s),
         NEW b \in Batch, b = session[s].batch, NEW r \in Run, r = Content[b].run
  PROVE  /\ session[s].pc = "project" /\ session[s].claim \in Claim /\ receipts[b] = NoClaim
         /\ events' = events \cup Rows(b) /\ IsFiniteSet(events')
         /\ receipts' = [receipts EXCEPT ![b] = session[s].claim]
         /\ Contiguous(OfRun(r, events')) /\ OfRun(r, events') # {}
         /\ \A q \in Run \ {r} :
              OfRun(q, events') = OfRun(q, events) /\ projections'[q] = projections[q]
         /\ projections' \in [Run -> ProjectionRow]
         /\ projections'[r] = Project(OfRun(r, events'), projections'[r].completion)
         /\ \A e \in events, row \in Rows(b) : e.message # row.message
         /\ End(s, "receipt")
  <1>1. /\ session[s].pc = "project" /\ session[s].claim \in Claim /\ receipts[b] = NoClaim
    BY DEF CommitBatch, At, LedgerInv, SessionSound, Ingesting, Checked
  <1> DEFINE c == CompletionAfter(b, r)
             all == OfRun(r, events \cup Rows(b))
  <1>2. /\ events' = events \cup Rows(b)
        /\ receipts' = [receipts EXCEPT ![b] = session[s].claim]
        /\ projections' = [projections EXCEPT ![r] = Project(all, c)]
        /\ End(s, "receipt")
    BY DEF CommitBatch, BatchOf, RunOf
  <1>3. IsFiniteSet(events')
    BY <1>2, RowCount, FS_Union DEF LedgerInv
  <1>4. c \in Batch \cup {NoBatch}
    BY RunFacts DEF CompletionAfter
  <1>5. /\ Content[b].first = Cardinality(OfRun(r, events)) + 2
        /\ \A e \in events, row \in Rows(b) : e.message # row.message
    BY <1>1, FreshRows
  <1>6. \A row \in Rows(b) : row.run = r
    BY RowFacts
  <1>7. all = OfRun(r, events) \cup Rows(b)
    BY <1>6 DEF OfRun
  <1>8. \A q \in Run \ {r} : OfRun(q, events \cup Rows(b)) = OfRun(q, events)
    BY <1>6 DEF OfRun
  <1>9. OfRun(r, events) \cap Rows(b) = {}
    BY <1>5 DEF OfRun
  <1>10. Contiguous(all) /\ all # {}
    <2> DEFINE old == OfRun(r, events)
    <2>1. Contiguous(old) /\ Content[b].first = Cardinality(old) + 2 /\ old \cap Rows(b) = {}
      BY <1>5, <1>9, RunFacts
    <2> HIDE DEF old
    <2>2. Contiguous(old \cup Rows(b)) /\ old \cup Rows(b) # {}
      BY <2>1, ContiguousExtended
    <2> QED
      BY <1>7, <2>2 DEF old
  <1> HIDE DEF all, c
  <1>11. Project(all, c) \in ProjectionRow /\ Project(all, c).completion = c
    BY <1>4, <1>10, ProjectFacts
  <1>12. projections \in [Run -> ProjectionRow]
    BY DEF LedgerInv, LedgerTypeOK
  <1>13. /\ projections' \in [Run -> ProjectionRow] /\ projections'[r] = Project(all, c)
         /\ \A q \in Run \ {r} : projections'[q] = projections[q]
    BY <1>2, <1>11, <1>12
  <1>14. OfRun(r, events') = all
    BY <1>2 DEF all
  <1> QED
    BY <1>1, <1>2, <1>3, <1>5, <1>8, <1>10, <1>11, <1>13, <1>14

\* The commit keeps the ledger replayable and the projections exact, and the locks keep it away
\* from what the other sessions have found out.
LEMMA InvCommitBatch ==
  ASSUME LedgerInv, NEW s \in Session, CommitBatch(s)
  PROVE  LedgerInv'
  <1>1. PICK b \in Batch : b = session[s].batch
    BY DEF CommitBatch, At, LedgerInv, SessionSound, Ingesting, Checked
  <1>2. PICK r \in Run : r = Content[b].run
    BY ContentFacts
  <1>3. /\ session[s].pc = "project" /\ session[s].claim \in Claim /\ receipts[b] = NoClaim
        /\ events' = events \cup Rows(b) /\ IsFiniteSet(events')
        /\ receipts' = [receipts EXCEPT ![b] = session[s].claim]
        /\ Contiguous(OfRun(r, events')) /\ OfRun(r, events') # {}
        /\ \A q \in Run \ {r} :
             OfRun(q, events') = OfRun(q, events) /\ projections'[q] = projections[q]
        /\ projections' \in [Run -> ProjectionRow]
        /\ projections'[r] = Project(OfRun(r, events'), projections'[r].completion)
        /\ \A e \in events, row \in Rows(b) : e.message # row.message
        /\ End(s, "receipt")
    BY <1>1, <1>2, CommitFacts
  <1>4. session \in [Session -> SessionRow] /\ session[s] \in SessionRow
    BY DEF LedgerInv, LedgerTypeOK
  <1>5. /\ session' \in [Session -> SessionRow]
        /\ session'[s].pc = "done" /\ session'[s].locks = {}
        /\ session'[s].batch = b /\ session'[s].claim = session[s].claim
        /\ \A t \in Session \ {s} : session'[t] = session[t]
    BY <1>1, <1>3, <1>4 DEF End, Close, SessionRow, Pc
  <1>6. /\ answer' \in [Session -> {"none", "receipt", "conflict", "blocked", "recovered"}]
        /\ \A t \in Session \ {s} : answer'[t] = answer[t]
        /\ answer'[s] \in {"none", "receipt"}
    BY <1>3 DEF End, LedgerInv, LedgerTypeOK, AnswerSound
  <1>7. receipts \in [Batch -> Claim \cup {NoClaim}] /\ session[s].claim # NoClaim
    BY <1>3, LedgerAssumption DEF LedgerInv, LedgerTypeOK
  <1>8. /\ receipts' \in [Batch -> Claim \cup {NoClaim}] /\ receipts'[b] = session[s].claim
        /\ \A c \in Batch \ {b} : receipts'[c] = receipts[c]
    BY <1>3, <1>7
  <1>9. LedgerTypeOK'
    BY <1>3, <1>5, <1>6, <1>8, RowFacts DEF LedgerInv, LedgerTypeOK
  <1>10. LedgerReplays'
    <2>1. ASSUME NEW q \in Run
          PROVE  {e.sequence : e \in OfRun(q, events')} =
                   FirstEngineEventSequence ..
                     (FirstEngineEventSequence + Cardinality(OfRun(q, events')) - 1)
      <3>1. CASE q = r
        BY <1>3, <3>1 DEF Contiguous
      <3>2. CASE q # r
        BY <1>3, <3>2 DEF LedgerInv, LedgerReplays
      <3> QED
        BY <3>1, <3>2
    <2>2. \A e, f \in events' : e.message = f.message => e = f
      BY <1>3, RowFacts DEF LedgerInv, LedgerReplays
    <2>3. events' = UNION {Rows(c) : c \in {c \in Batch : receipts'[c] # NoClaim}}
      <3>1. events = UNION {Rows(c) : c \in {c \in Batch : receipts[c] # NoClaim}}
        BY DEF LedgerInv, LedgerReplays
      <3>2. {c \in Batch : receipts'[c] # NoClaim} =
              {c \in Batch : receipts[c] # NoClaim} \cup {b}
        BY <1>3, <1>7, <1>8
      <3> QED
        BY <1>3, <3>1, <3>2
    <2> QED
      BY <2>1, <2>2, <2>3 DEF LedgerReplays
  <1>11. ProjectionsExact'
    BY <1>3 DEF LedgerInv, ProjectionsExact
  <1>12. ASSUME NEW t \in Session \ {s} PROVE SessionSound(session[t])'
    <2> DEFINE k == session[t]
    <2>1. SessionSound(k) /\ k.pc \notin {"write", "replay"}
      BY <1>3 DEF LedgerInv, TableExclusive
    <2>2. session[s].pc \in Checked
      BY <1>3 DEF Checked
    <2>3. k.pc \in {"messages"} \cup Checked =>
            k.batch \in Batch /\ k.batch # b /\ Content[k.batch].run \in Run \ {r}
      BY <1>1, <1>2, <2>1, <2>2, LocksSeparate, ContentFacts DEF SessionSound, Ingesting
    <2>4. k.pc \in Checked =>
            \A e \in Rows(b), f \in Rows(k.batch) : e.message # f.message
      BY <1>1, <2>2, LocksSeparate
    <2>5. k.pc \in {"messages"} \cup Checked => receipts'[k.batch] = NoClaim
      BY <1>8, <2>1, <2>3 DEF SessionSound
    <2>6. k.pc \in {"expected", "insert", "project"} =>
            \A e \in events', row \in Rows(k.batch) :
              e.message = row.message => Digest(e) = Digest(row)
      BY <1>3, <2>1, <2>4 DEF SessionSound, NoForeign, Checked
    <2>7. k.pc \in {"insert", "project"} =>
            projections'[Content[k.batch].run] = projections[Content[k.batch].run]
      BY <1>3, <2>3 DEF Checked
    <2> HIDE DEF k
    <2>8. session'[t] = k
      BY <1>5 DEF k
    <2> QED
      BY <2>1, <2>5, <2>6, <2>7, <2>8 DEF SessionSound, NoForeign
  <1>13. SessionSound(session[s])'
    BY <1>5 DEF SessionSound, LocksSound, Ingesting, Checked
  <1>14. LocksExclusive'
    BY <1>5 DEF LedgerInv, LocksExclusive
  <1>15. TableExclusive'
    BY <1>5 DEF LedgerInv, TableExclusive
  <1>16. \A t \in Session : AnswerSound(t)'
    <2>1. AnswerSound(s)'
      BY <1>3, <1>5, <1>6, <1>8 DEF AnswerSound
    <2>2. ASSUME NEW t \in Session \ {s} PROVE AnswerSound(t)'
      BY <1>3, <1>5, <1>6, <1>7, <1>8, LedgerAssumption DEF LedgerInv, AnswerSound
    <2> QED
      BY <2>1, <2>2
  <1>17. ASSUME NEW c \in Batch PROVE ReceiptSound(c)'
    <2>1. CASE c = b
      BY <1>5, <1>6, <1>8, <2>1 DEF ReceiptSound
    <2>2. CASE c # b
      BY <1>3, <1>5, <1>6, <1>8, <2>2 DEF LedgerInv, ReceiptSound
    <2> QED
      BY <2>1, <2>2
  <1> QED
    BY <1>3, <1>9, <1>10, <1>11, <1>12, <1>13, <1>14, <1>15, <1>16, <1>17 DEF LedgerInv

\* Every behaviour of the sessions satisfies the inductive invariant.
THEOREM LedgerSafety == LedgerSpec => []LedgerInv
  <1>1. LedgerInv /\ [LedgerNext]_ledgerVars => LedgerInv'
    <2> SUFFICES ASSUME LedgerInv, [LedgerNext]_ledgerVars PROVE LedgerInv'
      OBVIOUS
    <2>1. CASE UNCHANGED ledgerVars
      BY <2>1 DEF ledgerVars, LedgerInv, LedgerTypeOK, LedgerReplays, ProjectionsExact,
                  SessionSound, NoForeign, LocksExclusive, TableExclusive, AnswerSound, ReceiptSound
    <2>2. CASE LedgerNext
      BY <2>2, InvBegin, InvLockBatch, InvLockRun, InvFindReceipt, InvNewBatch, InvLockMessages,
         InvCheckIdentity, InvCheckSequence, InvInsertRows, InvCommitBatch, InvAbort,
         InvBeginRecovery, InvLockTable, InvReplay, InvCommitRecovery
         DEF LedgerNext, Ingest, Recovery
    <2> QED
      BY <2>1, <2>2
  <1> QED
    BY <1>1, LedgerInitInv, PTL DEF LedgerSpec

-----------------------------------------------------------------------------
(* What the invariant says.                                                 *)

\* The tables and the sessions keep their types.
THEOREM LedgerTypeCorrect == LedgerSpec => []LedgerTypeOK
  <1>1. LedgerInv => LedgerTypeOK
    BY DEF LedgerInv
  <1> QED
    BY <1>1, LedgerSafety, PTL

\* No ingestion or recovery leaves a projection that its events do not give.
THEOREM ExactProjections == LedgerSpec => []ProjectionsExact
  <1>1. LedgerInv => ProjectionsExact
    BY DEF LedgerInv
  <1> QED
    BY <1>1, LedgerSafety, PTL

\* The committed events are those of the receipts and can be replayed.
THEOREM LedgerCanReplay == LedgerSpec => []LedgerReplays
  <1>1. LedgerInv => LedgerReplays
    BY DEF LedgerInv
  <1> QED
    BY <1>1, LedgerSafety, PTL

\* Under the locks no batch meets a unique key.
THEOREM UniqueKeysNeverHit == LedgerSpec => []NoUniqueError
  <1>1. LedgerInv => NoUniqueError
    <2> SUFFICES ASSUME LedgerInv, NEW s \in Session, session[s].pc = "insert",
                        NEW e \in Duplicates(s)
                 PROVE  FALSE
      BY DEF NoUniqueError, At
    <2>1. PICK row \in Rows(session[s].batch) :
            e.message = row.message \/ (e.run = row.run /\ e.sequence = row.sequence)
      BY DEF Duplicates, BatchOf
    <2>2. e \notin events
      BY <2>1, FreshRows
    <2>3. PICK t \in Session : session[t].pc = "project" /\ e \in Rows(session[t].batch)
      BY <2>2 DEF Duplicates, Inserting, At, BatchOf
    <2>4. t # s /\ session[s].pc \in Checked /\ session[t].pc \in Checked
      BY <2>3 DEF Checked
    <2>5. session[s].batch \in Batch /\ session[t].batch \in Batch
      BY <2>3, FreshRows
    <2>6. /\ Content[session[s].batch].run # Content[session[t].batch].run
          /\ e.message # row.message
      BY <2>3, <2>4, LocksSeparate
    <2>7. e.run = Content[session[t].batch].run /\ row.run = Content[session[s].batch].run
      BY <2>3, <2>5, RowFacts
    <2> QED
      BY <2>1, <2>6, <2>7
  <1> QED
    BY <1>1, LedgerSafety, PTL

\* What the clients are told about their batches is so.
THEOREM TruthfulAnswers == LedgerSpec => []AnswersTruthful
  <1>1. LedgerInv => AnswersTruthful
    <2> SUFFICES ASSUME LedgerInv, NEW s \in Session
                 PROVE  /\ answer[s] = "receipt" => receipts[session[s].batch] = session[s].claim
                        /\ /\ answer[s] \in {"conflict", "blocked"}
                           /\ receipts[session[s].batch] = session[s].claim
                           => \E t \in Session \ {s} :
                                /\ session[t].batch = session[s].batch
                                /\ session[t].claim = receipts[session[s].batch]
      BY DEF AnswersTruthful, BatchOf
    <2>1. AnswerSound(s)
      BY DEF LedgerInv
    <2>2. ASSUME answer[s] \in {"conflict", "blocked"},
                 receipts[session[s].batch] = session[s].claim
          PROVE  \E t \in Session \ {s} :
                   /\ session[t].batch = session[s].batch
                   /\ session[t].claim = receipts[session[s].batch]
      <3>1. session[s].batch \in Batch /\ session[s].claim \in Claim
        BY <2>1, <2>2 DEF AnswerSound
      <3>2. receipts[session[s].batch] # NoClaim
        BY <2>2, <3>1, LedgerAssumption
      <3>3. PICK t \in Session :
              /\ session[t].batch = session[s].batch
              /\ session[t].claim = receipts[session[s].batch]
              /\ answer[t] \in {"none", "receipt"}
        BY <3>1, <3>2 DEF LedgerInv, ReceiptSound
      <3>4. t # s
        BY <2>2, <3>3
      <3> QED
        BY <3>3, <3>4
    <2> QED
      BY <2>1, <2>2 DEF AnswerSound
  <1> QED
    BY <1>1, LedgerSafety, PTL

\* Once a run is completed nothing of it changes: only the commit of a batch writes a run, and a
\* session that may insert rows has a run that is not completed.
THEOREM RunsStayCompleted == LedgerSpec => CompletedRunsFinal
  <1>1. ASSUME LedgerInv, [LedgerNext]_ledgerVars, NEW r \in Run,
               projections[r].completion # NoBatch
        PROVE  OfRun(r, events') = OfRun(r, events) /\ projections'[r] = projections[r]
    <2>1. CASE UNCHANGED dbVars
      BY <2>1 DEF dbVars
    <2>2. ASSUME NEW s \in Session, CommitBatch(s)
          PROVE  OfRun(r, events') = OfRun(r, events) /\ projections'[r] = projections[r]
      <3>1. /\ session[s].batch \in Batch
            /\ projections[Content[session[s].batch].run].completion = NoBatch
        BY <1>1, <2>2 DEF CommitBatch, At, LedgerInv, SessionSound, Ingesting, Checked
      <3>2. PICK b \in Batch : b = session[s].batch
        BY <3>1
      <3>3. PICK q \in Run : q = Content[b].run
        BY ContentFacts
      <3>4. r # q
        BY <1>1, <3>1, <3>2, <3>3
      <3> QED
        BY <1>1, <2>2, <3>2, <3>3, <3>4, CommitFacts
    <2>3. ASSUME NEW s \in Session, CommitRecovery(s)
          PROVE  OfRun(r, events') = OfRun(r, events) /\ projections'[r] = projections[r]
      <3>1. projections' = projections
        BY <1>1, <2>3, RecoveryWritesNothing
      <3> QED
        BY <2>3, <3>1 DEF CommitRecovery
    <2>4. ASSUME NEW s \in Session,
                 \/ \E b \in Batch, c \in Claim : Begin(s, b, c)
                 \/ BeginRecovery(s) \/ LockTable(s) \/ Replay(s) \/ Abort(s)
                 \/ LockBatch(s) \/ LockRun(s) \/ FindReceipt(s) \/ NewBatch(s) \/ LockMessages(s)
                 \/ CheckIdentity(s) \/ CheckSequence(s) \/ InsertRows(s)
          PROVE  UNCHANGED dbVars
      BY <2>4 DEF Begin, BeginRecovery, LockTable, Replay, Abort, LockBatch, LockRun, FindReceipt,
                  NewBatch, LockMessages, CheckIdentity, CheckSequence, InsertRows, Take
    <2>5. CASE LedgerNext
      BY <2>1, <2>2, <2>3, <2>4, <2>5 DEF LedgerNext, Ingest, Recovery
    <2>6. CASE UNCHANGED ledgerVars
      BY <2>1, <2>6 DEF ledgerVars, dbVars
    <2> QED
      BY <1>1, <2>5, <2>6
  <1>2. LedgerInv /\ [LedgerNext]_ledgerVars =>
          [\A r \in Run : projections[r].completion # NoBatch =>
             /\ OfRun(r, events') = OfRun(r, events)
             /\ projections'[r] = projections[r]]_ledgerVars
    BY <1>1
  <1> QED
    BY <1>2, LedgerSafety, PTL DEF LedgerSpec, CompletedRunsFinal

-----------------------------------------------------------------------------
(* The sessions do not wait in a circle.                                    *)

\* What a session that is held up waits for.
LEMMA WaitsFor ==
  ASSUME LedgerInv, NEW s \in Session, NEW t \in Blockers(s)
  PROVE  /\ t \in Session
         /\ \/ session[s].pc = "batch" /\ BatchLock(session[s].batch) \in session[t].locks
            \/ session[s].pc = "run" /\ RunLock(session[s].batch) \in session[t].locks
            \/ /\ session[s].pc = "messages" /\ ToLock(s) # {}
               /\ <<"message", NextMessage(s)>> \in session[t].locks
            \/ session[s].pc = "insert" /\ session[t].pc \in {"replay", "write"}
            \/ session[s].pc = "table" /\ session[t].pc = "project"
  <1>1. CASE Wanted(s) \cap session[t].locks # {}
    <2>1. CASE session[s].pc = "batch"
      BY <1>1, <2>1 DEF Blockers, Wanted, At, BatchOf, BatchLock
    <2>2. CASE session[s].pc = "run"
      BY <1>1, <2>2 DEF Blockers, Wanted, At, BatchOf, RunOf, RunLock
    <2>3. CASE session[s].pc = "messages" /\ ToLock(s) # {}
      BY <1>1, <2>3 DEF Blockers, Wanted, At
    <2>4. CASE session[s].pc \notin {"batch", "run"} /\ ~(session[s].pc = "messages" /\ ToLock(s) # {})
      BY <1>1, <2>4 DEF Wanted, At
    <2> QED
      BY <2>1, <2>2, <2>3, <2>4
  <1>2. CASE Wanted(s) \cap session[t].locks = {}
    BY <1>2 DEF Blockers, Inserting, Replaying, At
  <1> QED
    BY <1>1, <1>2

\* How far a session has come that holds a lock of each kind.
LEMMA HoldsLock ==
  ASSUME LedgerInv, NEW t \in Session, NEW v
  PROVE  /\ <<"batch", v>> \in session[t].locks =>
              session[t].pc \in {"run", "receipt", "messages"} \cup Checked
         /\ <<"run", v>> \in session[t].locks =>
              session[t].pc \in {"receipt", "messages"} \cup Checked
         /\ <<"message", v>> \in session[t].locks => session[t].pc \in {"messages"} \cup Checked
  <1>1. LocksSound(session[t]) /\ session[t].pc \in Pc
    BY DEF LedgerInv, SessionSound, LedgerTypeOK, SessionRow
  <1> QED
    BY <1>1 DEF LocksSound, Pc, Checked, BatchLock, RunLock

\* The next message of a session comes after every message it holds.
LEMMA NextAboveHeld ==
  ASSUME LedgerInv, NEW s \in Session, session[s].pc = "messages", ToLock(s) # {}
  PROVE  /\ NextMessage(s) \in Nat
         /\ \A m : <<"message", m>> \in session[s].locks => m \in Nat /\ m < NextMessage(s)
  <1> DEFINE b == session[s].batch
             M(i) == Content[b].messages[i]
             wanted == {M(i) : i \in ToLock(s)}
  <1>1. /\ b \in Batch
        /\ session[s].locks \subseteq {BatchLock(b), RunLock(b)} \cup MessageLocks(b)
        /\ \A i, j \in 1 .. Count(b) :
             MessageLock(b, i) \in session[s].locks /\ MessageLock(b, j) \notin session[s].locks =>
               M(i) < M(j)
    BY DEF LedgerInv, SessionSound, LocksSound, Ingesting
  <1>2. /\ DOMAIN Content[b].messages = 1 .. Count(b)
        /\ \A i \in 1 .. Count(b) : M(i) \in Nat
    BY <1>1, ContentFacts, LedgerAssumption
  <1>3. ToLock(s) = {i \in 1 .. Count(b) : MessageLock(b, i) \notin session[s].locks}
    BY <1>2 DEF ToLock, BatchOf, MessageLock
  <1>4. wanted \in SUBSET Nat /\ wanted # {}
    BY <1>2, <1>3
  <1>5. Min(wanted) \in wanted
    BY <1>4, MinOfNats
  <1>6. NextMessage(s) = Min(wanted)
    BY DEF NextMessage, BatchOf
  <1>7. PICK j \in ToLock(s) : NextMessage(s) = M(j)
    BY <1>5, <1>6
  <1>8. j \in 1 .. Count(b) /\ MessageLock(b, j) \notin session[s].locks
    BY <1>3
  <1>9. ASSUME NEW m, <<"message", m>> \in session[s].locks
        PROVE  m \in Nat /\ m < NextMessage(s)
    <2>1. <<"message", m>> \in MessageLocks(b)
      BY <1>1, <1>9 DEF BatchLock, RunLock
    <2>2. PICK i \in 1 .. Count(b) : <<"message", m>> = MessageLock(b, i)
      BY <2>1 DEF MessageLocks
    <2>3. m = M(i) /\ MessageLock(b, i) \in session[s].locks
      BY <1>9, <2>2 DEF MessageLock
    <2> QED
      BY <1>1, <1>2, <1>7, <1>8, <2>3
  <1> QED
    BY <1>2, <1>7, <1>8, <1>9

\* Of finitely many sessions one does not wait for another of them: a session waits for a batch
\* lock, a run lock or a message lock, each taken later than the one before and the messages in
\* the order of their ids, and one that waits for the table or for a recovery holds up nobody who
\* waits in turn.
THEOREM NobodyWaitsInACircle ==
  ASSUME IsFiniteSet(Session)
  PROVE  LedgerSpec => []NoWaitCycle
  <1>1. LedgerInv => NoWaitCycle
    <2> SUFFICES ASSUME LedgerInv, NEW S \in (SUBSET Session) \ {{}},
                        \A s \in S : Blockers(s) \cap S # {}
                 PROVE  FALSE
      BY DEF NoWaitCycle
    <2>0. S \in SUBSET Session /\ S # {} /\ \A s \in S : \E t \in S : t \in Blockers(s)
      OBVIOUS
    <2>1. \A s \in S : session[s].pc \in {"batch", "run", "messages", "insert", "table"}
      BY <2>0, WaitsFor
    <2>2. \A s \in S : session[s].pc \in {"batch", "run", "messages"}
      BY <2>0, <2>1, WaitsFor
    <2> DEFINE Locking == {s \in S : session[s].pc = "messages"}
    <2>3. \A s \in Locking : ToLock(s) # {} /\ NextMessage(s) \in Nat
      BY <2>0, WaitsFor, NextAboveHeld
    <2>4. \A s \in Locking : \E t \in Locking : NextMessage(s) < NextMessage(t)
      <3> SUFFICES ASSUME NEW s \in Locking
                   PROVE  \E t \in Locking : NextMessage(s) < NextMessage(t)
        OBVIOUS
      <3>1. PICK t \in S : t \in Blockers(s)
        BY <2>0
      <3>2. <<"message", NextMessage(s)>> \in session[t].locks
        BY <3>1, WaitsFor
      <3>3. session[t].pc \in {"messages"} \cup Checked
        BY <3>2, HoldsLock
      <3>4. t \in Locking
        BY <2>2, <3>3 DEF Checked
      <3> QED
        BY <2>3, <3>2, <3>4, NextAboveHeld
    <2>5. Locking = {}
      <3> SUFFICES ASSUME Locking # {} PROVE FALSE
        OBVIOUS
      <3> DEFINE next == [s \in Locking |-> NextMessage(s)]
                 T == {next[s] : s \in Locking}
      <3>1. T \in SUBSET Nat /\ T # {}
        BY <2>3
      <3>2. IsFiniteSet(Locking)
        BY <2>0, FS_Subset
      <3>3. next \in Surjection(Locking, T)
        BY DEF Surjection
      <3>4. IsFiniteSet(T)
        BY <3>2, <3>3, FS_Surjection
      <3>5. PICK m \in T : \A x \in T : x <= m
        BY <3>1, <3>4, MaxOfNats
      <3>6. PICK s \in Locking : \A t \in Locking : NextMessage(t) <= NextMessage(s)
        BY <3>5
      <3> QED
        BY <2>3, <2>4, <3>6
    <2>6. ASSUME NEW s \in S, session[s].pc = "run" PROVE FALSE
      <3>1. PICK t \in S : t \in Blockers(s)
        BY <2>0
      <3>2. RunLock(session[s].batch) \in session[t].locks
        BY <2>0, <2>6, <3>1, WaitsFor
      <3>3. session[t].pc \in {"receipt", "messages"} \cup Checked
        BY <2>0, <3>2, HoldsLock DEF RunLock
      <3> QED
        BY <2>2, <2>5, <3>3 DEF Checked
    <2>7. PICK s \in S : session[s].pc = "batch"
      BY <2>0, <2>2, <2>5, <2>6
    <2>8. PICK t \in S : t \in Blockers(s)
      BY <2>0
    <2>9. BatchLock(session[s].batch) \in session[t].locks
      BY <2>0, <2>7, <2>8, WaitsFor
    <2>10. session[t].pc \in {"run", "receipt", "messages"} \cup Checked
      BY <2>0, <2>9, HoldsLock DEF BatchLock
    <2> QED
      BY <2>2, <2>5, <2>6, <2>10 DEF Checked
  <1> QED
    BY <1>1, LedgerSafety, PTL
=============================================================================
