------------------------- MODULE OperatorControlProofs -------------------------
(***************************************************************************)
(* Proofs about the operator's commands, for any keys, any number of       *)
(* interrupted executions and any writes of others: the journal always     *)
(* loads, receipts of kill-switch commands are truthful, what is applied   *)
(* is not applied again, and an activation that a clear took away and its  *)
(* operator did not see is restored or kept.                               *)
(***************************************************************************)
EXTENDS OperatorControl, TLAPS

NoRecord == {None, Torn}

-----------------------------------------------------------------------------
(* The inductive invariant.                                                 *)

\* An intent on record is valid and names the bytes its command is about.
IntentSound(k, i) ==
  /\ i \in Intent
  /\ ValidIntent(i)
  /\ i.kind = "ACTIVATE" => i.desired = k
  /\ i.kind = "CLEAR" =>
       i.expected \in Source /\ i.desired = i.expected.kill /\ i.desired \in KillBytes

\* The operation of an execution is the one its intent asks for.
OpFits(i, op) ==
  /\ i.kind = "PAPER" => op \in {"NO_CHANGE", "WRITE_MODE"}
  /\ i.kind = "ACTIVATE" => op = "WRITE_KILL_SWITCH"
  /\ i.kind = "CLEAR" => op = "CLEAR_KILL_SWITCH"

\* An effect on the kill switch is the work of the command: it changed a file, and a clear left
\* the bytes its intent names in its tombstone.
EffectSound(i, t, m) ==
  /\ i.kind # "PAPER" => m > 0
  /\ i.kind = "CLEAR" => t = i.desired

\* The records of a key follow each other, its tombstone is the one of its clear.
KeySound(k, i, a, r, t, m) ==
  /\ i \notin NoRecord => IntentSound(k, i)
  /\ a # None => i \notin NoRecord /\ EffectSound(i, t, m)
  /\ r # None => a \notin NoRecord
  /\ t # NoFile => i \notin NoRecord /\ i.kind = "CLEAR" /\ m > 0
  /\ a \notin NoRecord =>
       /\ a.kind \in AllowedKinds(i.kind)
       /\ a.tombstone # None <=> i.kind = "CLEAR"
  /\ r \notin NoRecord => r = [outcome |-> OutcomeOf(a.kind), result |-> a.result]

Executing == {"check", "bind", "rename", "verify", "takeback", "applied"}

\* An execution works on the records it found; it has no tombstone before its rename.
RunSound(x, i, a, r, t, m) ==
  /\ x.pc \in Executing => i \notin NoRecord /\ a = None /\ OpFits(i, x.op)
  /\ x.pc \in {"check", "bind", "rename"} => t = NoFile
  /\ x.pc \in {"verify", "takeback"} => m > 0
  /\ x.pc = "applied" => EffectSound(i, t, m)
  /\ x.pc = "receipt" => a \notin NoRecord /\ r = None

KeyInv(k) ==
  /\ KeySound(k, intents[k], appliedRecords[k], receipts[k], tombstones[k], mutations[k])
  /\ run.key = k =>
       RunSound(run, intents[k], appliedRecords[k], receipts[k], tombstones[k], mutations[k])

\* Bytes that a command writes are only there, or in a tombstone, when that command wrote them.
BytesWritten ==
  \A k \in Key :
    /\ source.kill = k => mutations[k] > 0
    /\ \A j \in Key : tombstones[j] = k => mutations[k] > 0

\* An execution has a key, and nothing else has.
RunKeyed == IF run.pc = "idle" THEN run.key = None ELSE run.key \in Key

OperatorInv ==
  /\ OperatorTypeOK
  /\ RunKeyed
  /\ \A k \in Key : KeyInv(k)
  /\ BytesWritten

-----------------------------------------------------------------------------
(* Steps that write no record.                                              *)

\* What does not change for a key, and no execution of it begins.
LEMMA OtherKeys ==
  ASSUME NEW k \in Key, KeyInv(k),
         intents'[k] = intents[k], appliedRecords'[k] = appliedRecords[k],
         receipts'[k] = receipts[k], tombstones'[k] = tombstones[k], mutations'[k] = mutations[k],
         run' = run \/ run' = Idle \/ run'.key # k
  PROVE  KeyInv(k)'
  <1>1. CASE run' = Idle
    BY <1>1 DEF KeyInv, Idle, RunSound, Executing
  <1>2. CASE run' # Idle
    BY <1>2 DEF KeyInv
  <1> QED
    BY <1>1, <1>2

\* A step that writes no record, no tombstone and no bytes of a command, and at most ends the
\* execution.
LEMMA QuietStep ==
  ASSUME OperatorInv, OperatorTypeOK', UNCHANGED <<journal, tombstones, mutations>>,
         run' = run \/ run' = Idle, source'.kill = source.kill \/ source'.kill \notin Key
  PROVE  OperatorInv'
  <1>1. \A k \in Key : KeyInv(k)'
    BY OtherKeys DEF OperatorInv, journal
  <1>2. BytesWritten'
    BY DEF OperatorInv, BytesWritten
  <1>3. RunKeyed'
    BY DEF OperatorInv, RunKeyed, Idle
  <1> QED
    BY <1>1, <1>2, <1>3 DEF OperatorInv

\* Empty files of commands and an idle service at the start.
LEMMA OperatorInitInv == OperatorInit => OperatorInv
  <1> SUFFICES ASSUME OperatorInit PROVE OperatorInv
    OBVIOUS
  <1>1. OperatorTypeOK
    BY OperatorAssumption DEF OperatorInit, OperatorTypeOK, Source, KillBytes, RunRow, Idle, Operation, Point
  <1>2. run.pc = "idle" /\ run.key = None
    BY DEF OperatorInit, Idle
  <1>3. \A k \in Key : KeyInv(k)
    BY <1>2, OperatorAssumption DEF OperatorInit, KeyInv, KeySound, NoRecord
  <1>4. BytesWritten
    BY OperatorAssumption DEF OperatorInit, BytesWritten
  <1> QED
    BY <1>1, <1>2, <1>3, <1>4 DEF OperatorInv, RunKeyed

\* The clock.
LEMMA InvTick ==
  ASSUME OperatorInv, Tick PROVE OperatorInv'
  <1>1. OperatorTypeOK'
    BY OperatorAssumption DEF OperatorInv, OperatorTypeOK, Tick, journal
  <1> QED
    BY <1>1, QuietStep DEF Tick

\* Others write no bytes of a command.
LEMMA InvDrift ==
  ASSUME OperatorInv, NEW s \in Source, Drift(s) PROVE OperatorInv'
  <1>1. OperatorTypeOK'
    BY OperatorAssumption DEF OperatorInv, OperatorTypeOK, Drift, journal
  <1>2. source'.kill = source.kill \/ source'.kill \notin Key
    BY OperatorAssumption DEF Drift
  <1> QED
    BY <1>1, <1>2, QuietStep DEF Drift

\* The exporter.
LEMMA InvExport ==
  ASSUME OperatorInv, ExportRead \/ ExportPublish PROVE OperatorInv'
  <1>1. OperatorTypeOK'
    BY OperatorAssumption
       DEF OperatorInv, OperatorTypeOK, ExportRead, ExportPublish, journal, Evidence, Source, KillState
  <1> QED
    BY <1>1, QuietStep DEF ExportRead, ExportPublish

\* An answer changes nothing else.
LEMMA InvAnswer ==
  ASSUME OperatorInv,
         NEW code \in {"RECEIPT", "REJECTED", "CONFLICT", "INTENT_REFUSED", "UNSAFE", "UNKNOWN"},
         Answer(code)
  PROVE  OperatorInv'
  <1>1. OperatorTypeOK'
    BY DEF OperatorInv, OperatorTypeOK, Answer, journal, world
  <1> QED
    BY <1>1, QuietStep DEF Answer, world

\* The execution ends without a record.
LEMMA InvStop ==
  ASSUME OperatorInv, CheckFails \/ BindFails \/ RenameRefused \/ VerifyFails \/ Interrupt
  PROVE  OperatorInv'
  <1>1. Idle \in RunRow
    BY DEF Idle, RunRow, Operation, Point
  <1>2. CASE Interrupt
    <2>1. OperatorTypeOK'
      BY <1>1, <1>2, OperatorAssumption DEF OperatorInv, OperatorTypeOK, Interrupt, journal, world
    <2> QED
      BY <1>2, <2>1, QuietStep DEF Interrupt, world
  <1>3. CASE Refuse /\ UNCHANGED <<source, tombstones>>
    <2>1. OperatorTypeOK'
      BY <1>1, <1>3 DEF OperatorInv, OperatorTypeOK, Refuse, journal
    <2> QED
      BY <1>3, <2>1, QuietStep DEF Refuse
  <1> QED
    BY <1>2, <1>3 DEF CheckFails, BindFails, RenameRefused, VerifyFails

-----------------------------------------------------------------------------
(* Plans.                                                                   *)

\* An accepted plan: its intent names the bytes its command is about, its operation fits.
LEMMA PlanFacts ==
  ASSUME OperatorTypeOK, NEW k \in Key, NEW t, NEW u \in Nat, NEW request,
         request.kind \in CommandKind, request.expected \in Source \cup {None},
         ~Rejected(request, t), ValidIntent(PlannedIntent(k, request, u))
  PROVE  /\ IntentSound(k, PlannedIntent(k, request, u))
         /\ OpFits(PlannedIntent(k, request, u), PlannedOperation(request))
         /\ PlannedOperation(request) \in Operation
  <1> DEFINE i == PlannedIntent(k, request, u)
             op == PlannedOperation(request)
  <1>1. source \in Source /\ source.kill \in KillBytes \cup {NoFile} /\ k \in KillBytes
    BY DEF OperatorTypeOK, Source, KillBytes
  <1>2. /\ i.kind = request.kind /\ i.prior = source /\ i.expected = request.expected
        /\ i.accepted = u /\ i.reason \in BOOLEAN
        /\ i.reason <=> op = "WRITE_KILL_SWITCH"
        /\ i.evidence = IF request.kind = "CLEAR" THEN evidence ELSE None
    BY DEF PlannedIntent
  <1>3. CASE request.kind = "PAPER"
    <2>1. op \in {"NO_CHANGE", "WRITE_MODE"} /\ i.desired = "paper"
      BY <1>3 DEF PlannedOperation, PlannedIntent
    <2>2. i \in Intent
      BY <1>1, <1>2, <1>3, <2>1 DEF PlannedIntent, Intent, CommandKind
    <2> QED
      BY <1>2, <1>3, <2>1, <2>2 DEF IntentSound, OpFits, Operation
  <1>4. CASE request.kind = "ACTIVATE"
    <2>1. op = "WRITE_KILL_SWITCH"
      BY <1>2, <1>4 DEF ValidIntent
    <2>2. i.desired = k
      BY <1>4, <2>1 DEF PlannedIntent
    <2>3. i \in Intent
      BY <1>1, <1>2, <1>4, <2>1, <2>2 DEF PlannedIntent, Intent, CommandKind
    <2> QED
      BY <1>2, <1>4, <2>1, <2>2, <2>3 DEF IntentSound, OpFits, Operation
  <1>5. CASE request.kind = "CLEAR"
    <2>1. op = "CLEAR_KILL_SWITCH"
      BY <1>5 DEF PlannedOperation
    <2>2. i.desired = source.kill
      BY <1>5, <2>1 DEF PlannedIntent
    <2>3. /\ request.expected # None /\ request.expected = source
          /\ KillState(source.kill) = "ACTIVE" /\ evidence # None
      BY <1>5 DEF Rejected, EvidenceAllowsClear, EvidenceCurrent
    <2>4. source.kill \in KillBytes
      BY <1>1, <2>3 DEF KillState
    <2>5. i \in Intent
      BY <1>1, <1>2, <1>5, <2>1, <2>2, <2>3, <2>4
         DEF PlannedIntent, Intent, CommandKind, OperatorTypeOK
    <2> QED
      BY <1>1, <1>2, <1>5, <2>1, <2>2, <2>3, <2>4, <2>5 DEF IntentSound, OpFits, Operation
  <1> QED
    BY <1>3, <1>4, <1>5 DEF CommandKind

\* The end of a create keeps the types of the execution and of the faults.
LEMMA ContinueTypes ==
  ASSUME OperatorTypeOK, NEW torn \in BOOLEAN, NEW next \in RunRow, Continue(torn, next)
  PROVE  /\ run' \in RunRow
         /\ faults' \in [crashes : 0 .. MaxCrashes, drift : 0 .. MaxDrift]
         /\ run' = IF torn THEN Idle ELSE next
  <1>1. Idle \in RunRow
    BY DEF Idle, RunRow, Operation, Point
  <1>2. CASE torn
    BY <1>1, <1>2, OperatorAssumption DEF Continue, OperatorTypeOK
  <1>3. CASE ~torn
    BY <1>3 DEF Continue, OperatorTypeOK
  <1> QED
    BY <1>2, <1>3

\* The intent is created, or torn.
LEMMA InvAcceptCommand ==
  ASSUME OperatorInv, NEW k \in Key, NEW request \in Request, NEW torn \in BOOLEAN,
         AcceptCommand(k, request, torn)
  PROVE  OperatorInv'
  <1> DEFINE i == PlannedIntent(k, request, now)
             next == [pc |-> "check", key |-> k, op |-> PlannedOperation(request)]
  <1>1. /\ run.pc = "idle" /\ intents[k] = None /\ ~Rejected(request, now) /\ ValidIntent(i)
        /\ intents' = [intents EXCEPT ![k] = Recorded(torn, i)]
        /\ Continue(torn, next) /\ answer' = None
        /\ UNCHANGED <<world, appliedRecords, receipts, mutations>>
    BY DEF AcceptCommand, Fresh, Enter
  <1>2. OperatorTypeOK /\ KeyInv(k) /\ now \in Nat
    BY OperatorAssumption DEF OperatorInv, OperatorTypeOK
  <1>3. request.kind \in CommandKind /\ request.expected \in Source \cup {None}
    BY OperatorAssumption DEF Request
  <1>4. /\ IntentSound(k, i) /\ OpFits(i, PlannedOperation(request))
        /\ PlannedOperation(request) \in Operation
    BY <1>1, <1>2, <1>3, PlanFacts
  <1> HIDE DEF i
  <1>5. next \in RunRow
    BY <1>4 DEF RunRow, Point
  <1>6. /\ run' \in RunRow /\ run' = IF torn THEN Idle ELSE next
        /\ faults' \in [crashes : 0 .. MaxCrashes, drift : 0 .. MaxDrift]
    BY <1>1, <1>2, <1>5, ContinueTypes
  <1>7. i \in Intent /\ Recorded(torn, i) \in Intent \cup {None, Torn}
    BY <1>4 DEF IntentSound, Recorded
  <1>8. OperatorTypeOK'
    BY <1>1, <1>2, <1>6, <1>7 DEF OperatorTypeOK, world
  <1>9. ASSUME NEW j \in Key \ {k} PROVE KeyInv(j)'
    <2>1. run' = Idle \/ run'.key # j
      BY <1>6
    <2> QED
      BY <1>1, <1>2, <1>9, <2>1, OtherKeys DEF OperatorInv, OperatorTypeOK, world
  <1>10. KeyInv(k)'
    <2>1. /\ intents'[k] = IF torn THEN Torn ELSE i
          /\ appliedRecords'[k] = None /\ receipts'[k] = None /\ tombstones'[k] = NoFile
      BY <1>1, <1>2 DEF KeyInv, KeySound, NoRecord, OperatorTypeOK, world, Recorded
    <2>2. i \notin NoRecord
      BY <1>7, OperatorAssumption DEF NoRecord
    <2>3. KeySound(k, intents[k], appliedRecords[k], receipts[k], tombstones[k], mutations[k])'
      BY <1>4, <2>1, <2>2 DEF KeySound, NoRecord
    <2>4. ~torn => RunSound(run, intents[k], appliedRecords[k], receipts[k], tombstones[k], mutations[k])'
      BY <1>4, <1>6, <2>1, <2>2 DEF RunSound, Executing
    <2>5. torn => run'.key # k
      BY <1>6, OperatorAssumption DEF Idle
    <2> QED
      BY <2>3, <2>4, <2>5 DEF KeyInv
  <1>11. BytesWritten' /\ RunKeyed'
    BY <1>1, <1>6 DEF OperatorInv, BytesWritten, RunKeyed, world, Idle
  <1> QED
    BY <1>8, <1>9, <1>10, <1>11 DEF OperatorInv

\* An execution that goes on with records as they are.
LEMMA InvProceed ==
  ASSUME OperatorInv, NEW k \in Key, NEW next \in RunRow, next.key = k, next.pc # "idle",
         run' = next, answer' = None, UNCHANGED <<world, journal, mutations>>,
         faults' \in [crashes : 0 .. MaxCrashes, drift : 0 .. MaxDrift],
         RunSound(next, intents[k], appliedRecords[k], receipts[k], tombstones[k], mutations[k])
  PROVE  OperatorInv'
  <1>1. OperatorTypeOK'
    BY DEF OperatorInv, OperatorTypeOK, world, journal
  <1>2. \A j \in Key \ {k} : KeyInv(j)'
    BY OtherKeys DEF OperatorInv, world, journal
  <1>3. KeyInv(k)'
    BY DEF OperatorInv, KeyInv, world, journal
  <1>4. BytesWritten' /\ RunKeyed'
    BY DEF OperatorInv, BytesWritten, RunKeyed, world
  <1> QED
    BY <1>1, <1>2, <1>3, <1>4 DEF OperatorInv

\* The command is planned again.
LEMMA InvResumeRetry ==
  ASSUME OperatorInv, NEW k \in Key, ResumeRetry(k) PROVE OperatorInv'
  <1> DEFINE request == Accepted(k)
             next == [pc |-> "check", key |-> k, op |-> PlannedOperation(request)]
  <1>1. /\ intents[k] \notin NoRecord /\ appliedRecords[k] = None /\ tombstones[k] = NoFile
        /\ SamePlan(k, intents[k].accepted) /\ run' = next /\ answer' = None
        /\ UNCHANGED <<world, journal, mutations, faults>>
    BY DEF ResumeRetry, Unfinished, Enter, Loads, NoRecord, RecoveryDisposition
  <1>2. intents[k] \in Intent /\ ValidIntent(intents[k]) /\ OperatorTypeOK
    BY <1>1 DEF OperatorInv, KeyInv, KeySound, IntentSound
  <1>3. /\ request.kind \in CommandKind /\ request.expected \in Source \cup {None}
        /\ intents[k].accepted \in Nat
    BY <1>2 DEF Accepted, Intent
  <1>4. /\ ~Rejected(request, intents[k].accepted)
        /\ PlannedIntent(k, request, intents[k].accepted) = intents[k]
    BY <1>1 DEF SamePlan
  <1> HIDE DEF request
  <1>5. OpFits(intents[k], PlannedOperation(request)) /\ PlannedOperation(request) \in Operation
    BY <1>2, <1>3, <1>4, PlanFacts
  <1>6. next \in RunRow /\ next.key = k /\ next.pc # "idle"
    BY <1>5 DEF RunRow, Point
  <1>7. RunSound(next, intents[k], appliedRecords[k], receipts[k], tombstones[k], mutations[k])
    BY <1>1, <1>5 DEF RunSound
  <1>8. faults' \in [crashes : 0 .. MaxCrashes, drift : 0 .. MaxDrift]
    BY <1>1, <1>2 DEF OperatorTypeOK
  <1> QED
    BY <1>1, <1>6, <1>7, <1>8, InvProceed

\* Only the receipt is missing.
LEMMA InvResumeApplied ==
  ASSUME OperatorInv, NEW k \in Key, ResumeApplied(k) PROVE OperatorInv'
  <1> DEFINE next == [pc |-> "receipt", key |-> k, op |-> "NO_CHANGE"]
  <1>1. /\ appliedRecords[k] \notin NoRecord /\ receipts[k] = None /\ run' = next
        /\ answer' = None /\ UNCHANGED <<world, journal, mutations, faults>>
    BY DEF ResumeApplied, Enter, Loads, NoRecord
  <1>2. next \in RunRow /\ next.key = k /\ next.pc # "idle"
    BY DEF RunRow, Operation, Point
  <1>3. RunSound(next, intents[k], appliedRecords[k], receipts[k], tombstones[k], mutations[k])
    BY <1>1 DEF RunSound, Executing
  <1>4. faults' \in [crashes : 0 .. MaxCrashes, drift : 0 .. MaxDrift]
    BY <1>1 DEF OperatorInv, OperatorTypeOK
  <1> QED
    BY <1>1, <1>2, <1>3, <1>4, InvProceed

\* An execution goes on to its next point.
LEMMA InvAdvance ==
  ASSUME OperatorInv, NEW pc \in Point \ {"idle"}, run.pc # "idle",
         run' = [run EXCEPT !.pc = pc], answer' = None, UNCHANGED <<world, journal, mutations>>,
         faults' \in [crashes : 0 .. MaxCrashes, drift : 0 .. MaxDrift],
         LET k == run.key IN
         RunSound([run EXCEPT !.pc = pc], intents[k], appliedRecords[k], receipts[k], tombstones[k],
                  mutations[k])
  PROVE  OperatorInv'
  <1> DEFINE next == [run EXCEPT !.pc = pc]
  <1>1. PICK k \in Key : k = run.key
    BY DEF OperatorInv, RunKeyed
  <1>2. run \in RunRow
    BY DEF OperatorInv, OperatorTypeOK
  <1>3. next \in RunRow /\ next.key = k /\ next.pc # "idle"
    BY <1>1, <1>2 DEF RunRow
  <1>4. RunSound(next, intents[k], appliedRecords[k], receipts[k], tombstones[k], mutations[k])
    BY <1>1
  <1>5. run' = next
    OBVIOUS
  <1> HIDE DEF next
  <1> QED
    BY <1>3, <1>4, <1>5, InvProceed

\* The checks passed: those before the rename, the one after it, or the one that asks to take
\* it back.
LEMMA InvChecked ==
  ASSUME OperatorInv, Check \/ Bind \/ Verify \/ ClearFails PROVE OperatorInv'
  <1>1. PICK k \in Key : k = run.key
    BY DEF OperatorInv, RunKeyed, Check, Bind, Verify, ClearFails, At
  <1>2. /\ run \in RunRow /\ KeyInv(k) /\ OperatorTypeOK /\ run.op \in Operation
        /\ faults \in [crashes : 0 .. MaxCrashes, drift : 0 .. MaxDrift]
    BY DEF OperatorInv, OperatorTypeOK, RunRow
  <1> DEFINE Sound(pc) == RunSound([run EXCEPT !.pc = pc], intents[k], appliedRecords[k],
                                   receipts[k], tombstones[k], mutations[k])
  <1>3. \A pc : [run EXCEPT !.pc = pc].pc = pc /\ [run EXCEPT !.pc = pc].op = run.op
    BY <1>2 DEF RunRow
  <1>4. run.pc \in Executing =>
          /\ intents[k] \notin NoRecord /\ appliedRecords[k] = None /\ OpFits(intents[k], run.op)
          /\ IntentSound(k, intents[k]) /\ intents[k].kind \in CommandKind
    BY <1>1, <1>2 DEF KeyInv, RunSound, KeySound, IntentSound, Intent
  <1>5. CASE Check
    <2> DEFINE pc == IF run.op = "NO_CHANGE" THEN "applied" ELSE "bind"
    <2>1. run.pc = "check" /\ run.pc \in Executing /\ tombstones[k] = NoFile
      BY <1>1, <1>2, <1>5 DEF Check, At, Executing, KeyInv, RunSound
    <2>2. run.op = "NO_CHANGE" => EffectSound(intents[k], tombstones[k], mutations[k])
      BY <1>4, <2>1 DEF OpFits, EffectSound, CommandKind
    <2>3. Sound(pc)
      BY <1>3, <1>4, <2>1, <2>2 DEF RunSound
    <2>4. pc \in Point \ {"idle"}
      BY DEF Point
    <2>5. run' = [run EXCEPT !.pc = pc] /\ answer' = None /\ UNCHANGED <<world, journal, mutations, faults>>
      BY <1>5 DEF Check
    <2> HIDE DEF pc
    <2> QED
      BY <1>1, <1>2, <2>1, <2>3, <2>4, <2>5, InvAdvance
  <1>6. CASE Bind
    <2>1. run.pc = "bind" /\ run.pc \in Executing /\ tombstones[k] = NoFile
      BY <1>1, <1>2, <1>6 DEF Bind, At, Executing, KeyInv, RunSound
    <2>2. Sound("rename")
      BY <1>3, <1>4, <2>1 DEF RunSound
    <2> QED
      BY <1>1, <1>2, <1>6, <2>1, <2>2, InvAdvance DEF Bind, Point
  <1>7. CASE Verify
    <2>1. run.pc = "verify" /\ run.pc \in Executing /\ mutations[k] > 0
      BY <1>1, <1>2, <1>7 DEF Verify, At, Executing, KeyInv, RunSound
    <2>2. EffectSound(intents[k], tombstones[k], mutations[k])
      <3>1. intents[k].kind = "CLEAR" => tombstones[k] = intents[k].desired
        BY <1>1, <1>4, <1>7, <2>1 DEF Verify, Published, OpFits
      <3> QED
        BY <2>1, <3>1 DEF EffectSound
    <2>3. Sound("applied")
      BY <1>3, <1>4, <2>1, <2>2 DEF RunSound
    <2> QED
      BY <1>1, <1>2, <1>7, <2>1, <2>3, InvAdvance DEF Verify, Point
  <1>8. CASE ClearFails
    <2>1. run.pc = "verify" /\ run.pc \in Executing /\ mutations[k] > 0
      BY <1>1, <1>2, <1>8 DEF ClearFails, At, Executing, KeyInv, RunSound
    <2>2. Sound("takeback")
      BY <1>3, <1>4, <2>1 DEF RunSound
    <2>3. faults' \in [crashes : 0 .. MaxCrashes, drift : 0 .. MaxDrift]
      BY <1>2, <1>8, OperatorAssumption DEF ClearFails
    <2> QED
      BY <1>1, <1>8, <2>1, <2>2, <2>3, InvAdvance DEF ClearFails, Point
  <1> QED
    BY <1>5, <1>6, <1>7, <1>8

-----------------------------------------------------------------------------
(* Effects and their records.                                               *)

\* The rename: bytes of the command appear, or whatever is there goes to its tombstone.
LEMMA InvRename ==
  ASSUME OperatorInv, Rename PROVE OperatorInv'
  <1>1. PICK k \in Key : k = run.key
    BY DEF OperatorInv, RunKeyed, Rename, At
  <1> DEFINE i == intents[k]
  <1>2. /\ OperatorTypeOK /\ run \in RunRow /\ run.pc = "rename" /\ KeyInv(k)
        /\ run.op \in Operation /\ source \in Source
    BY DEF OperatorInv, OperatorTypeOK, Rename, At, RunRow
  <1>3. /\ i \notin NoRecord /\ appliedRecords[k] = None /\ receipts[k] = None
        /\ OpFits(i, run.op) /\ IntentSound(k, i) /\ tombstones[k] = NoFile
        /\ i.kind \in CommandKind
    BY <1>1, <1>2 DEF KeyInv, RunSound, KeySound, NoRecord, Executing, IntentSound, Intent
  <1>4. /\ run' \in RunRow /\ run'.pc \in {"verify", "takeback"} /\ run'.key = k
        /\ run'.op = run.op /\ answer' = None /\ UNCHANGED <<now, evidence, export, journal, faults>>
    BY <1>1, <1>2 DEF Rename, RunRow, Point
  <1>5. mutations \in [Key -> Nat] /\ tombstones \in [Key -> KillBytes \cup {NoFile}]
    BY <1>2 DEF OperatorTypeOK
  <1>6. /\ \A j \in Key : mutations'[j] \in Nat /\ mutations'[j] >= mutations[j]
        /\ \A j \in Key \ {k} : mutations'[j] = mutations[j]
        /\ mutations'[k] > 0 /\ mutations' \in [Key -> Nat]
    BY <1>1, <1>5 DEF Rename
  <1>7. run.op = "CLEAR_KILL_SWITCH" => i.kind = "CLEAR" /\ source.kill \in KillBytes
    BY <1>1, <1>2, <1>3 DEF Rename, Renameable, OpFits, CommandKind, Source
  <1>8. /\ tombstones' \in [Key -> KillBytes \cup {NoFile}]
        /\ \A j \in Key \ {k} : tombstones'[j] = tombstones[j]
        /\ tombstones'[k] = IF run.op = "CLEAR_KILL_SWITCH" THEN source.kill ELSE NoFile
    BY <1>1, <1>3, <1>5, <1>7 DEF Rename
  <1>9. source' \in Source /\ source'.kill \in {source.kill, NoFile, k}
    BY <1>1, <1>2 DEF Rename, Renameable, Source, Operation, KillBytes
  <1>10. OperatorTypeOK'
    BY <1>2, <1>4, <1>6, <1>8, <1>9 DEF OperatorTypeOK, journal
  <1>11. ASSUME NEW j \in Key \ {k} PROVE KeyInv(j)'
    BY <1>4, <1>6, <1>8, <1>11, OtherKeys DEF OperatorInv, journal
  <1>12. KeyInv(k)'
    <2>1. intents'[k] = i /\ appliedRecords'[k] = None /\ receipts'[k] = None
      BY <1>3, <1>4 DEF journal
    <2>2. KeySound(k, intents[k], appliedRecords[k], receipts[k], tombstones[k], mutations[k])'
      BY <1>3, <1>6, <1>7, <1>8, <2>1 DEF KeySound, NoRecord
    <2>3. RunSound(run, intents[k], appliedRecords[k], receipts[k], tombstones[k], mutations[k])'
      BY <1>3, <1>4, <1>6, <2>1 DEF RunSound
    <2> QED
      BY <2>2, <2>3 DEF KeyInv
  <1>13. BytesWritten'
    <2> SUFFICES ASSUME NEW j \in Key
                 PROVE  /\ source'.kill = j => mutations'[j] > 0
                        /\ \A h \in Key : tombstones'[h] = j => mutations'[j] > 0
      BY DEF BytesWritten
    <2>1. NoFile \notin Key
      BY OperatorAssumption
    <2>2. source.kill = j \/ (\E h \in Key : tombstones[h] = j) => mutations'[j] > 0
      BY <1>5, <1>6 DEF OperatorInv, BytesWritten
    <2>3. source'.kill = j => mutations'[j] > 0
      BY <1>6, <1>9, <2>1, <2>2
    <2>4. ASSUME NEW h \in Key, tombstones'[h] = j PROVE mutations'[j] > 0
      BY <1>8, <2>1, <2>2, <2>4
    <2> QED
      BY <2>3, <2>4
  <1>14. RunKeyed'
    BY <1>4 DEF RunKeyed
  <1> QED
    BY <1>10, <1>11, <1>12, <1>13, <1>14 DEF OperatorInv

\* The rename is taken back, or a newer file prevents it: in any case the execution ends.
LEMMA InvTakeBack ==
  ASSUME OperatorInv, TakeBack PROVE OperatorInv'
  <1>1. PICK k \in Key : k = run.key
    BY DEF OperatorInv, RunKeyed, TakeBack, At
  <1>2. /\ OperatorTypeOK /\ run.pc = "takeback" /\ KeyInv(k) /\ source \in Source
        /\ tombstones \in [Key -> KillBytes \cup {NoFile}] /\ Idle \in RunRow
    BY DEF OperatorInv, OperatorTypeOK, TakeBack, At, Idle, RunRow, Operation, Point
  <1>3. Refuse
    BY DEF TakeBack
  <1>4. CASE /\ source' = [source EXCEPT !.kill = tombstones[k]]
             /\ tombstones' = [tombstones EXCEPT ![k] = NoFile]
    <2>1. source' \in Source /\ source'.kill = tombstones[k]
      BY <1>2, <1>4 DEF Source
    <2>2. /\ tombstones' \in [Key -> KillBytes \cup {NoFile}]
          /\ tombstones'[k] = NoFile /\ \A j \in Key \ {k} : tombstones'[j] = tombstones[j]
      BY <1>2, <1>4
    <2>3. OperatorTypeOK'
      BY <1>2, <1>3, <2>1, <2>2 DEF OperatorTypeOK, Refuse, journal
    <2>4. ASSUME NEW j \in Key \ {k} PROVE KeyInv(j)'
      BY <1>3, <2>2, <2>4, OtherKeys DEF OperatorInv, Refuse, journal
    <2>5. KeyInv(k)'
      <3>1. appliedRecords[k] = None
        BY <1>1, <1>2 DEF KeyInv, RunSound, Executing
      <3>2. KeySound(k, intents[k], appliedRecords[k], receipts[k], tombstones[k], mutations[k])'
        BY <1>2, <1>3, <2>2, <3>1 DEF KeyInv, KeySound, Refuse, journal, NoRecord
      <3>3. run'.key # k
        BY <1>3, OperatorAssumption DEF Refuse, Idle
      <3> QED
        BY <3>2, <3>3 DEF KeyInv
    <2>6. BytesWritten'
      <3> SUFFICES ASSUME NEW j \in Key
                   PROVE  /\ source'.kill = j => mutations'[j] > 0
                          /\ \A h \in Key : tombstones'[h] = j => mutations'[j] > 0
        BY DEF BytesWritten
      <3>1. NoFile \notin Key
        BY OperatorAssumption
      <3>2. (\E h \in Key : tombstones[h] = j) => mutations[j] > 0
        BY DEF OperatorInv, BytesWritten
      <3>3. mutations' = mutations
        BY <1>3 DEF Refuse
      <3> QED
        BY <2>1, <2>2, <3>1, <3>2, <3>3
    <2>7. RunKeyed'
      BY <1>3 DEF RunKeyed, Refuse, Idle
    <2> QED
      BY <2>3, <2>4, <2>5, <2>6, <2>7 DEF OperatorInv
  <1>5. CASE source' \in {source, [source EXCEPT !.mode = "paper"]} /\ UNCHANGED tombstones
    <2>1. source' \in Source /\ source'.kill = source.kill
      BY <1>2, <1>5 DEF Source
    <2>2. OperatorTypeOK'
      BY <1>2, <1>3, <1>5, <2>1 DEF OperatorTypeOK, Refuse, journal
    <2> QED
      BY <1>3, <1>5, <2>1, <2>2, QuietStep DEF Refuse
  <1> QED
    BY <1>1, <1>4, <1>5 DEF TakeBack

\* The record of an application that fits its intent and its effect.
LEMMA InvRecordApplied ==
  ASSUME OperatorInv, NEW k \in Key, NEW torn \in BOOLEAN, NEW record \in Applied,
         NEW next \in RunRow, next.pc = "receipt", next.key = k,
         run.pc = "idle" \/ run.key = k,
         intents[k] \notin NoRecord, appliedRecords[k] = None,
         record.kind \in AllowedKinds(intents[k].kind),
         record.tombstone # None <=> intents[k].kind = "CLEAR",
         EffectSound(intents[k], tombstones[k], mutations[k]),
         appliedRecords' = [appliedRecords EXCEPT ![k] = Recorded(torn, record)],
         Continue(torn, next), answer' = None, UNCHANGED <<world, intents, receipts, mutations>>
  PROVE  OperatorInv'
  <1>1. OperatorTypeOK /\ KeyInv(k)
    BY DEF OperatorInv
  <1>2. /\ run' \in RunRow /\ run' = IF torn THEN Idle ELSE next
        /\ faults' \in [crashes : 0 .. MaxCrashes, drift : 0 .. MaxDrift]
    BY <1>1, ContinueTypes
  <1>3. Recorded(torn, record) \in Applied \cup {None, Torn}
    BY DEF Recorded
  <1>4. OperatorTypeOK'
    BY <1>1, <1>2, <1>3 DEF OperatorTypeOK, world
  <1>5. ASSUME NEW j \in Key \ {k} PROVE KeyInv(j)'
    <2>1. run' = Idle \/ run'.key # j
      BY <1>2
    <2> QED
      BY <1>1, <1>5, <2>1, OtherKeys DEF OperatorInv, OperatorTypeOK, world
  <1>6. KeyInv(k)'
    <2>1. /\ intents'[k] = intents[k] /\ receipts'[k] = None
          /\ tombstones'[k] = tombstones[k] /\ mutations'[k] = mutations[k]
          /\ appliedRecords'[k] = IF torn THEN Torn ELSE record
      BY <1>1 DEF KeyInv, KeySound, NoRecord, OperatorTypeOK, world, Recorded
    <2>2. record \notin NoRecord /\ None # Torn
      BY OperatorAssumption DEF NoRecord
    <2>3. KeySound(k, intents[k], appliedRecords[k], receipts[k], tombstones[k], mutations[k])'
      BY <1>1, <2>1, <2>2 DEF KeyInv, KeySound, NoRecord
    <2>4. ~torn => RunSound(run, intents[k], appliedRecords[k], receipts[k], tombstones[k], mutations[k])'
      BY <1>2, <2>1, <2>2 DEF RunSound, Executing
    <2>5. torn => run'.key # k
      BY <1>2, OperatorAssumption DEF Idle
    <2> QED
      BY <2>3, <2>4, <2>5 DEF KeyInv
  <1>7. BytesWritten' /\ RunKeyed'
    BY <1>2 DEF OperatorInv, BytesWritten, RunKeyed, world, Idle
  <1> QED
    BY <1>4, <1>5, <1>6, <1>7 DEF OperatorInv

\* The applied record of the execution that made the effect.
LEMMA InvCreateApplied ==
  ASSUME OperatorInv, NEW torn \in BOOLEAN, CreateApplied(torn) PROVE OperatorInv'
  <1>1. PICK k \in Key : k = run.key
    BY DEF OperatorInv, RunKeyed, CreateApplied, At
  <1> DEFINE record == [ kind |-> DirectKind,
                         result |-> IF run.op = "NO_CHANGE" THEN intents[k].prior ELSE source,
                         tombstone |-> IF run.op = "CLEAR_KILL_SWITCH" THEN tombstones[k] ELSE None ]
             next == [run EXCEPT !.pc = "receipt"]
  <1>2. /\ OperatorTypeOK /\ run \in RunRow /\ run.pc = "applied" /\ KeyInv(k)
        /\ run.op \in Operation /\ source \in Source
    BY DEF OperatorInv, OperatorTypeOK, CreateApplied, At, RunRow
  <1>3. /\ appliedRecords' = [appliedRecords EXCEPT ![k] = Recorded(torn, record)]
        /\ Continue(torn, next) /\ answer' = None
        /\ UNCHANGED <<world, intents, receipts, mutations>>
    BY <1>1 DEF CreateApplied
  <1>4. /\ intents[k] \notin NoRecord /\ appliedRecords[k] = None
        /\ OpFits(intents[k], run.op) /\ EffectSound(intents[k], tombstones[k], mutations[k])
        /\ IntentSound(k, intents[k])
    BY <1>1, <1>2 DEF KeyInv, RunSound, KeySound, Executing
  <1>5. intents[k].kind \in CommandKind /\ intents[k].prior \in Source
    BY <1>4 DEF IntentSound, Intent
  <1>6. run.op = "CLEAR_KILL_SWITCH" => tombstones[k] \in KillBytes /\ intents[k].kind = "CLEAR"
    BY <1>4, <1>5 DEF EffectSound, OpFits, IntentSound, CommandKind
  <1>7. run.op # "CLEAR_KILL_SWITCH" => intents[k].kind # "CLEAR"
    BY <1>4 DEF OpFits
  <1>8. DirectKind \in ApplicationKind /\ DirectKind \in AllowedKinds(intents[k].kind)
    BY <1>2, <1>4, <1>5 DEF DirectKind, ApplicationKind, AllowedKinds, OpFits, Operation, CommandKind
  <1>9. record \in Applied /\ record.kind = DirectKind
    BY <1>2, <1>5, <1>6, <1>8 DEF Applied
  <1>10. record.tombstone # None <=> intents[k].kind = "CLEAR"
    BY <1>6, <1>7, OperatorAssumption
  <1>11. next \in RunRow /\ next.pc = "receipt" /\ next.key = k
    BY <1>1, <1>2 DEF RunRow, Point
  <1> HIDE DEF record, next
  <1> QED
    BY <1>1, <1>3, <1>4, <1>8, <1>9, <1>10, <1>11, InvRecordApplied

\* The applied record of an effect that is found: the bytes are the command's own.
LEMMA InvResumeRecovered ==
  ASSUME OperatorInv, NEW k \in Key, NEW torn \in BOOLEAN, ResumeRecovered(k, torn)
  PROVE  OperatorInv'
  <1> DEFINE i == intents[k]
             kind == RecoveryDisposition(k)
             record == [ kind |-> kind, result |-> source,
                         tombstone |-> IF i.kind = "CLEAR" THEN tombstones[k] ELSE None ]
             next == [pc |-> "receipt", key |-> k, op |-> "NO_CHANGE"]
  <1>1. /\ run.pc = "idle" /\ i \notin NoRecord /\ appliedRecords[k] = None
        /\ kind \notin {"RETRY", "UNKNOWN"}
        /\ appliedRecords' = [appliedRecords EXCEPT ![k] = Recorded(torn, record)]
        /\ Continue(torn, next) /\ answer' = None
        /\ UNCHANGED <<world, intents, receipts, mutations>>
    BY DEF ResumeRecovered, Unfinished, Enter, Loads, NoRecord
  <1>2. /\ OperatorTypeOK /\ KeyInv(k) /\ source \in Source /\ tombstones[k] \in KillBytes \cup {NoFile}
        /\ IntentSound(k, i) /\ i.kind \in CommandKind
    BY <1>1 DEF OperatorInv, OperatorTypeOK, KeyInv, KeySound, IntentSound, Intent
  <1>3. \/ /\ i.kind = "CLEAR" /\ kind = "RECOVERED_KILL_SWITCH_CLEAR"
           /\ tombstones[k] # NoFile /\ tombstones[k] = i.desired
        \/ i.kind = "PAPER" /\ kind = "RECOVERED_MODE_REPLACEMENT"
        \/ /\ i.kind = "ACTIVATE" /\ kind = "RECOVERED_KILL_SWITCH_CREATE"
           /\ source.kill = i.desired
    BY <1>1 DEF RecoveryDisposition
  <1> HIDE DEF kind
  <1>4. EffectSound(i, tombstones[k], mutations[k])
    <2>1. CASE i.kind = "CLEAR"
      BY <1>2, <1>3, <2>1 DEF KeyInv, KeySound, EffectSound
    <2>2. CASE i.kind = "ACTIVATE"
      BY <1>2, <1>3, <2>2 DEF IntentSound, EffectSound, OperatorInv, BytesWritten
    <2>3. CASE i.kind = "PAPER"
      BY <2>3 DEF EffectSound
    <2> QED
      BY <1>3, <2>1, <2>2, <2>3
  <1>5. kind \in ApplicationKind /\ kind \in AllowedKinds(i.kind)
    BY <1>3 DEF ApplicationKind, AllowedKinds
  <1>6. record \in Applied /\ record.kind = kind
    BY <1>2, <1>3, <1>5 DEF Applied
  <1>7. record.tombstone # None <=> i.kind = "CLEAR"
    BY <1>2, <1>3, OperatorAssumption
  <1>8. next \in RunRow /\ next.pc = "receipt" /\ next.key = k
    BY DEF RunRow, Operation, Point
  <1> HIDE DEF record, next
  <1> QED
    BY <1>1, <1>4, <1>5, <1>6, <1>7, <1>8, InvRecordApplied

\* The receipt repeats the applied record.
LEMMA InvCreateReceipt ==
  ASSUME OperatorInv, NEW torn \in BOOLEAN, CreateReceipt(torn) PROVE OperatorInv'
  <1>1. PICK k \in Key : k = run.key
    BY DEF OperatorInv, RunKeyed, CreateReceipt, At
  <1> DEFINE a == appliedRecords[k]
             record == [outcome |-> OutcomeOf(a.kind), result |-> a.result]
  <1>2. /\ OperatorTypeOK /\ run.pc = "receipt" /\ KeyInv(k)
    BY DEF OperatorInv, CreateReceipt, At
  <1>3. /\ receipts' = [receipts EXCEPT ![k] = Recorded(torn, record)]
        /\ Continue(torn, Idle) /\ answer' = IF torn THEN None ELSE "RECEIPT"
        /\ UNCHANGED <<world, intents, appliedRecords, mutations>>
    BY <1>1 DEF CreateReceipt
  <1>4. a \notin NoRecord /\ receipts[k] = None /\ a \in Applied
    BY <1>1, <1>2 DEF KeyInv, RunSound, OperatorTypeOK, NoRecord
  <1>5. record \in Receipt
    BY <1>4 DEF Applied, Receipt, OutcomeOf
  <1>6. Idle \in RunRow
    BY DEF Idle, RunRow, Operation, Point
  <1>7. /\ run' \in RunRow /\ run' = Idle
        /\ faults' \in [crashes : 0 .. MaxCrashes, drift : 0 .. MaxDrift]
    BY <1>2, <1>3, <1>6, ContinueTypes
  <1>8. Recorded(torn, record) \in Receipt \cup {None, Torn}
    BY <1>5 DEF Recorded
  <1>9. OperatorTypeOK'
    BY <1>2, <1>3, <1>7, <1>8 DEF OperatorTypeOK, world
  <1>10. ASSUME NEW j \in Key \ {k} PROVE KeyInv(j)'
    BY <1>2, <1>3, <1>7, <1>10, OtherKeys DEF OperatorInv, OperatorTypeOK, world
  <1>11. KeyInv(k)'
    <2>1. /\ intents'[k] = intents[k] /\ appliedRecords'[k] = a
          /\ tombstones'[k] = tombstones[k] /\ mutations'[k] = mutations[k]
          /\ receipts'[k] = IF torn THEN Torn ELSE record
      BY <1>2, <1>3 DEF OperatorTypeOK, world, Recorded
    <2>2. run'.key # k
      BY <1>7, OperatorAssumption DEF Idle
    <2>3. KeySound(k, intents[k], appliedRecords[k], receipts[k], tombstones[k], mutations[k])'
      BY <1>2, <1>4, <2>1 DEF KeyInv, KeySound, NoRecord
    <2> QED
      BY <2>2, <2>3 DEF KeyInv
  <1>12. BytesWritten' /\ RunKeyed'
    BY <1>3, <1>7 DEF OperatorInv, BytesWritten, RunKeyed, world, Idle
  <1> QED
    BY <1>9, <1>10, <1>11, <1>12 DEF OperatorInv

-----------------------------------------------------------------------------
(* The theorems.                                                            *)

\* Every behaviour of the service, its exporter and the others satisfies the inductive invariant.
THEOREM OperatorSafety == OperatorSpec => []OperatorInv
  <1>1. OperatorInv /\ [OperatorNext]_operatorVars => OperatorInv'
    <2> SUFFICES ASSUME OperatorInv, [OperatorNext]_operatorVars PROVE OperatorInv'
      OBVIOUS
    <2>1. CASE UNCHANGED operatorVars
      <3>1. OperatorTypeOK'
        BY <2>1 DEF OperatorInv, OperatorTypeOK, operatorVars
      <3> QED
        BY <2>1, <3>1, QuietStep DEF operatorVars, journal
    <2>2. ASSUME NEW k \in Key, Execute(k) PROVE OperatorInv'
      <3>1. CASE RefuseUnsafeJournal(k)
        BY <3>1, InvAnswer DEF RefuseUnsafeJournal
      <3>2. CASE RefuseConflict(k)
        BY <3>2, InvAnswer DEF RefuseConflict
      <3>3. CASE ResumeFails(k) \/ ReturnReceipt(k)
        BY <3>3, InvAnswer DEF ResumeFails, ReturnReceipt
      <3>4. CASE Resume(k)
        BY <3>4, InvResumeRetry, InvResumeApplied, InvResumeRecovered DEF Resume
      <3>5. ASSUME NEW request \in Request, RejectCommand(k, request) \/ RefuseIntent(k, request)
            PROVE  OperatorInv'
        BY <3>5, InvAnswer DEF RejectCommand, RefuseIntent
      <3>6. ASSUME NEW request \in Request, NEW torn \in BOOLEAN, AcceptCommand(k, request, torn)
            PROVE  OperatorInv'
        BY <3>6, InvAcceptCommand
      <3> QED
        BY <2>2, <3>1, <3>2, <3>3, <3>4, <3>5, <3>6 DEF Execute
    <2>3. CASE Proceed
      BY <2>3, InvChecked, InvStop, InvRename, InvTakeBack, InvCreateApplied, InvCreateReceipt DEF Proceed
    <2> QED
      BY <2>1, <2>2, <2>3, InvTick, InvDrift, InvExport, InvStop DEF OperatorNext
  <1> QED
    BY <1>1, OperatorInitInv, PTL DEF OperatorSpec

\* The files, the journal and the execution keep their types.
THEOREM OperatorTypeCorrect == OperatorSpec => []OperatorTypeOK
  <1>1. OperatorInv => OperatorTypeOK
    BY DEF OperatorInv
  <1> QED
    BY <1>1, OperatorSafety, PTL

\* No interruption and no write of others leaves a journal that the service refuses to load.
THEOREM JournalAlwaysLoads == OperatorSpec => []JournalLoads
  <1>1. OperatorInv => JournalLoads
    <2> SUFFICES ASSUME OperatorInv, NEW k \in Key
                 PROVE  /\ intents[k] \notin {None, Torn} => ValidIntent(intents[k])
                        /\ appliedRecords[k] \notin {None, Torn} =>
                             /\ intents[k] \notin {None, Torn}
                             /\ appliedRecords[k].kind \in AllowedKinds(intents[k].kind)
                             /\ (appliedRecords[k].tombstone # None) = (intents[k].kind = "CLEAR")
                        /\ receipts[k] \notin {None, Torn} =>
                             /\ appliedRecords[k] \notin {None, Torn}
                             /\ receipts[k] = [outcome |-> OutcomeOf(appliedRecords[k].kind),
                                               result |-> appliedRecords[k].result]
      BY DEF JournalLoads
    <2>1. KeySound(k, intents[k], appliedRecords[k], receipts[k], tombstones[k], mutations[k])
      BY DEF OperatorInv, KeyInv
    <2> QED
      BY <2>1 DEF KeySound, IntentSound, NoRecord
  <1> QED
    BY <1>1, OperatorSafety, PTL

\* A receipt for a kill-switch command tells what this command did, also when the effect was
\* found by a retry.
THEOREM TruthfulKillReceipts == OperatorSpec => []KillReceiptsTruthful
  <1>1. OperatorInv => KillReceiptsTruthful
    <2> SUFFICES ASSUME OperatorInv, NEW k \in Key, receipts[k] \notin {None, Torn}
                 PROVE  /\ intents[k].kind # "PAPER" => mutations[k] > 0
                        /\ intents[k].kind = "CLEAR" =>
                             /\ tombstones[k] = intents[k].expected.kill
                             /\ tombstones[k] \in KillBytes
      BY DEF KillReceiptsTruthful
    <2>1. KeySound(k, intents[k], appliedRecords[k], receipts[k], tombstones[k], mutations[k])
      BY DEF OperatorInv, KeyInv
    <2> QED
      BY <2>1 DEF KeySound, IntentSound, EffectSound, NoRecord
  <1> QED
    BY <1>1, OperatorSafety, PTL

\* The steps that write neither a record of a command nor a count of its mutations.
LEMMA RecordsUntouched ==
  ASSUME OperatorNext,
         ~ \E k \in Key, request \in Request, torn \in BOOLEAN : AcceptCommand(k, request, torn),
         ~ \E k \in Key, torn \in BOOLEAN : ResumeRecovered(k, torn),
         ~ Rename, ~ \E torn \in BOOLEAN : CreateApplied(torn) \/ CreateReceipt(torn)
  PROVE  UNCHANGED <<intents, appliedRecords, receipts, mutations>>
  <1>1. CASE Tick \/ (\E s \in Source : Drift(s)) \/ ExportRead \/ ExportPublish \/ Interrupt
    BY <1>1 DEF Tick, Drift, ExportRead, ExportPublish, Interrupt, journal
  <1>2. ASSUME NEW k \in Key, Execute(k)
        PROVE  UNCHANGED <<intents, appliedRecords, receipts, mutations>>
    BY <1>2 DEF Execute, RefuseUnsafeJournal, RefuseConflict, RejectCommand, RefuseIntent, Resume,
                ResumeRetry, ResumeApplied, ResumeFails, ReturnReceipt, Answer, journal
  <1>3. CASE Proceed
    BY <1>3 DEF Proceed, Check, CheckFails, Bind, BindFails, RenameRefused, Verify, VerifyFails,
                ClearFails, TakeBack, Refuse, journal
  <1> QED
    BY <1>1, <1>2, <1>3 DEF OperatorNext

\* Once an application is on record its command changes no file again; no record is rewritten.
THEOREM AppliedStaysFinal == OperatorSpec => AppliedIsFinal
  <1>1. ASSUME OperatorInv, OperatorNext, NEW k \in Key
        PROVE  /\ appliedRecords[k] # None => mutations'[k] = mutations[k]
               /\ intents[k] # None => intents'[k] = intents[k]
               /\ appliedRecords[k] # None => appliedRecords'[k] = appliedRecords[k]
               /\ receipts[k] # None => receipts'[k] = receipts[k]
    <2>1. OperatorTypeOK /\ KeyInv(k)
      BY <1>1 DEF OperatorInv
    <2>2. ASSUME NEW j \in Key, NEW request \in Request, NEW torn \in BOOLEAN,
                 AcceptCommand(j, request, torn)
          PROVE  /\ UNCHANGED <<appliedRecords, receipts, mutations>>
                 /\ intents[k] # None => intents'[k] = intents[k]
      BY <2>1, <2>2 DEF AcceptCommand, Fresh, OperatorTypeOK
    <2>3. ASSUME NEW j \in Key, NEW torn \in BOOLEAN, ResumeRecovered(j, torn)
          PROVE  /\ UNCHANGED <<intents, receipts, mutations>>
                 /\ appliedRecords[k] # None => appliedRecords'[k] = appliedRecords[k]
      BY <2>1, <2>3 DEF ResumeRecovered, Unfinished, OperatorTypeOK
    <2>4. ASSUME Rename
          PROVE  /\ UNCHANGED <<intents, appliedRecords, receipts>>
                 /\ appliedRecords[k] # None => mutations'[k] = mutations[k]
      <3>1. run.key = k => appliedRecords[k] = None
        BY <2>1, <2>4 DEF Rename, At, KeyInv, RunSound, Executing
      <3> QED
        BY <2>1, <2>4, <3>1 DEF Rename, OperatorTypeOK, journal
    <2>5. ASSUME NEW torn \in BOOLEAN, CreateApplied(torn)
          PROVE  /\ UNCHANGED <<intents, receipts, mutations>>
                 /\ appliedRecords[k] # None => appliedRecords'[k] = appliedRecords[k]
      <3>1. run.key = k => appliedRecords[k] = None
        BY <2>1, <2>5 DEF CreateApplied, At, KeyInv, RunSound, Executing
      <3> QED
        BY <2>1, <2>5, <3>1 DEF CreateApplied, OperatorTypeOK
    <2>6. ASSUME NEW torn \in BOOLEAN, CreateReceipt(torn)
          PROVE  /\ UNCHANGED <<intents, appliedRecords, mutations>>
                 /\ receipts[k] # None => receipts'[k] = receipts[k]
      <3>1. run.key = k => receipts[k] = None
        BY <2>1, <2>6 DEF CreateReceipt, At, KeyInv, RunSound
      <3> QED
        BY <2>1, <2>6, <3>1 DEF CreateReceipt, OperatorTypeOK
    <2> QED
      BY <1>1, <2>2, <2>3, <2>4, <2>5, <2>6, RecordsUntouched
  <1>2. OperatorInv /\ [OperatorNext]_operatorVars =>
          [\A k \in Key :
             /\ appliedRecords[k] # None => mutations'[k] = mutations[k]
             /\ intents[k] # None => intents'[k] = intents[k]
             /\ appliedRecords[k] # None => appliedRecords'[k] = appliedRecords[k]
             /\ receipts[k] # None => receipts'[k] = receipts[k]]_operatorVars
    BY <1>1
  <1> QED
    BY <1>2, OperatorSafety, PTL DEF OperatorSpec, AppliedIsFinal

\* What a clear took away although its operator did not see it is nobody's applied clear.
LEMMA UnseenNotApplied ==
  ASSUME OperatorInv, NEW k \in Key, TookUnseen(k) PROVE appliedRecords[k] = None
  <1>1. KeySound(k, intents[k], appliedRecords[k], receipts[k], tombstones[k], mutations[k])
    BY DEF OperatorInv, KeyInv
  <1> QED
    BY <1>1 DEF KeySound, EffectSound, IntentSound, TookUnseen

\* Only a rename and a take-back touch a tombstone.
LEMMA TombstonesUntouched ==
  ASSUME OperatorNext, ~Rename, ~TakeBack PROVE UNCHANGED tombstones
  <1>1. CASE Tick \/ (\E s \in Source : Drift(s)) \/ ExportRead \/ ExportPublish \/ Interrupt
    BY <1>1 DEF Tick, Drift, ExportRead, ExportPublish, Interrupt, world
  <1>2. ASSUME NEW k \in Key, Execute(k) PROVE UNCHANGED tombstones
    BY <1>2 DEF Execute, RefuseUnsafeJournal, RefuseConflict, RejectCommand, RefuseIntent,
                AcceptCommand, Resume, ResumeRetry, ResumeApplied, ResumeRecovered, ResumeFails,
                ReturnReceipt, Answer, world
  <1>3. CASE Proceed
    BY <1>3 DEF Proceed, Check, CheckFails, Bind, BindFails, RenameRefused, Verify, VerifyFails,
                ClearFails, CreateApplied, CreateReceipt, Refuse, world
  <1> QED
    BY <1>1, <1>2, <1>3 DEF OperatorNext

\* An activation that nobody saw and a clear took away is never recorded as cleared, is not lost,
\* and is back, or replaced by a newer one, when the clear's execution ends by itself.
THEOREM UnseenActivationsRestored == OperatorSpec => UnseenActivationRestored
  <1>1. ASSUME OperatorInv, OperatorInv', OperatorNext, NEW k \in Key, TookUnseen(k)
        PROVE  /\ appliedRecords'[k] = None
               /\ \/ tombstones'[k] = tombstones[k]
                  \/ tombstones'[k] = NoFile /\ source'.kill = tombstones[k]
               /\ run.key = k /\ run'.key # k =>
                    source'.kill # NoFile \/ faults'.crashes > faults.crashes
    <2>1. /\ OperatorTypeOK /\ appliedRecords[k] = None /\ tombstones[k] # NoFile
          /\ intents[k] \notin NoRecord /\ intents[k].kind = "CLEAR"
          /\ intents[k].desired = intents[k].expected.kill
      <3>1. KeySound(k, intents[k], appliedRecords[k], receipts[k], tombstones[k], mutations[k])
        BY <1>1 DEF OperatorInv, KeyInv
      <3> QED
        BY <1>1, <3>1, UnseenNotApplied DEF KeySound, IntentSound, TookUnseen, OperatorInv
    <2>2. /\ run \in RunRow /\ source \in Source /\ faults.crashes \in Nat
          /\ tombstones \in [Key -> KillBytes \cup {NoFile}]
      BY <2>1, OperatorAssumption DEF OperatorTypeOK
    <2>3. run.key = k => run.pc \in {"verify", "takeback"} /\ run.op = "CLEAR_KILL_SWITCH"
      <3> SUFFICES ASSUME run.key = k
                   PROVE  run.pc \in {"verify", "takeback"} /\ run.op = "CLEAR_KILL_SWITCH"
        OBVIOUS
      <3>1. RunSound(run, intents[k], appliedRecords[k], receipts[k], tombstones[k], mutations[k])
        BY <1>1 DEF OperatorInv, KeyInv
      <3>2. run.pc \in Point \ {"idle"}
        BY <1>1, <2>2, OperatorAssumption DEF OperatorInv, RunKeyed, RunRow
      <3>3. run.pc \notin {"check", "bind", "rename", "receipt"}
        BY <2>1, <3>1 DEF RunSound, NoRecord
      <3>4. run.pc # "applied"
        BY <1>1, <2>1, <3>1 DEF RunSound, EffectSound, TookUnseen
      <3> QED
        BY <2>1, <3>1, <3>2, <3>3, <3>4 DEF RunSound, Executing, OpFits, Point
    <2>4. CASE Rename
      <3>1. run.key # k /\ run'.key = run.key
        BY <2>2, <2>3, <2>4 DEF Rename, At, RunRow
      <3> QED
        BY <2>1, <2>2, <2>4, <3>1 DEF Rename, journal
    <2>5. CASE TakeBack
      <3>1. UNCHANGED appliedRecords
        BY <2>5 DEF TakeBack, Refuse, journal
      <3>2. CASE run.key # k
        BY <2>1, <2>2, <2>5, <3>1, <3>2 DEF TakeBack
      <3>3. CASE run.key = k
        BY <2>1, <2>2, <2>3, <2>5, <3>1, <3>3 DEF TakeBack, Source
      <3> QED
        BY <3>2, <3>3
    <2>6. CASE ~Rename /\ ~TakeBack
      <3>1. UNCHANGED tombstones
        BY <1>1, <2>6, TombstonesUntouched
      <3>2. appliedRecords'[k] = None
        <4>1. intents'[k] = intents[k]
          <5>1. ASSUME NEW j \in Key, NEW request \in Request, NEW torn \in BOOLEAN,
                       AcceptCommand(j, request, torn)
                PROVE  intents'[k] = intents[k]
            BY <2>1, <5>1 DEF AcceptCommand, Fresh, OperatorTypeOK, NoRecord
          <5>2. ASSUME NEW torn \in BOOLEAN, CreateApplied(torn) \/ CreateReceipt(torn)
                PROVE  UNCHANGED intents
            BY <5>2 DEF CreateApplied, CreateReceipt
          <5>3. ASSUME NEW j \in Key, NEW torn \in BOOLEAN, ResumeRecovered(j, torn)
                PROVE  UNCHANGED intents
            BY <5>3 DEF ResumeRecovered
          <5> QED
            BY <1>1, <2>6, <5>1, <5>2, <5>3, RecordsUntouched
        <4>2. TookUnseen(k)'
          BY <1>1, <3>1, <4>1 DEF TookUnseen
        <4>3. KeySound(k, intents[k], appliedRecords[k], receipts[k], tombstones[k], mutations[k])'
          BY <1>1 DEF OperatorInv, KeyInv
        <4> QED
          BY <4>2, <4>3 DEF KeySound, EffectSound, IntentSound, TookUnseen
      <3>3. ASSUME run.key = k, run'.key # k PROVE faults'.crashes > faults.crashes
        <4>1. run.pc \in {"verify", "takeback"} /\ run.op = "CLEAR_KILL_SWITCH"
          BY <2>3, <3>3
        <4>2. ~ \E j \in Key : Execute(j)
          BY <4>1 DEF Execute, RefuseUnsafeJournal, RefuseConflict, RejectCommand, RefuseIntent,
                      AcceptCommand, Resume, ResumeRetry, ResumeApplied, ResumeRecovered, ResumeFails,
                      ReturnReceipt, Enter, Fresh, Unfinished
        <4>3. CASE Proceed
          <5>1. Verify \/ ClearFails
            BY <2>6, <4>1, <4>3 DEF Proceed, Check, CheckFails, Bind, BindFails, RenameRefused,
                                    VerifyFails, CreateApplied, CreateReceipt, At
          <5> QED
            BY <2>2, <3>3, <5>1 DEF Verify, ClearFails, RunRow
        <4>4. CASE Tick \/ (\E s \in Source : Drift(s)) \/ ExportRead \/ ExportPublish
          BY <3>3, <4>4 DEF Tick, Drift, ExportRead, ExportPublish
        <4>5. CASE Interrupt
          BY <2>1, <2>2, <4>5 DEF Interrupt, OperatorTypeOK
        <4> QED
          BY <1>1, <4>2, <4>3, <4>4, <4>5 DEF OperatorNext
      <3> QED
        BY <3>1, <3>2, <3>3
    <2> QED
      BY <2>4, <2>5, <2>6
  <1>2. OperatorInv /\ OperatorInv' /\ [OperatorNext]_operatorVars =>
          [\A k \in Key :
             TookUnseen(k) =>
               /\ appliedRecords'[k] = None
               /\ \/ tombstones'[k] = tombstones[k]
                  \/ tombstones'[k] = NoFile /\ source'.kill = tombstones[k]
               /\ run.key = k /\ run'.key # k =>
                    source'.kill # NoFile \/ faults'.crashes > faults.crashes]_operatorVars
    BY <1>1
  <1> QED
    BY <1>2, OperatorSafety, PTL DEF OperatorSpec, UnseenActivationRestored
=============================================================================
