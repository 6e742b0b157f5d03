---------------------------- MODULE OperatorControl ----------------------------
(***************************************************************************)
(* The operator's commands (set the requested mode to PAPER, activate the  *)
(* kill switch, clear it), journalled by services/operator_control as      *)
(* intent, applied record and receipt, composed with the exporter of       *)
(* safety evidence whose file a clear depends on.                          *)
(*                                                                         *)
(* Executions are serialised by the journal's file lock, so there is one   *)
(* execution at a time; the exporter, the clock and other writers of the   *)
(* two source files run beside it.  An execution may stop at every point:  *)
(* the process dies, or a call raises, which releases the lock and leaves  *)
(* the files as they are.  A create that is interrupted leaves a torn      *)
(* record.  Contents stand for digests: equal contents, equal digests.     *)
(*                                                                         *)
(* A source file is changed by renames (protected_fs.py): the content is   *)
(* checked, renameat2 takes whatever is there by then, what it took is     *)
(* checked again and, when it was not the expected one, renamed back.      *)
(* Each of these is a step, and others may write between them.             *)
(***************************************************************************)
EXTENDS Integers, FiniteSets

CONSTANTS
  Key,           \* idempotency keys, one command each
  Kind,          \* the commands operators send: a subset of CommandKind
  EvidenceTTL,   \* SNAPSHOT_TTL_SECONDS and _SAFETY_EVIDENCE_MAX_AGE, both 6
  MaxCrashes,    \* bound on interrupted executions
  MaxDrift,      \* bound on writes by others to the source files
  MaxTime,       \* bound on the clock
  None, Torn     \* no record, and a record whose create was interrupted

CommandKind == {"PAPER", "ACTIVATE", "CLEAR"}
NoFile == "NO_FILE"
External == "EXTERNAL"   \* kill-switch bytes that no command wrote
Renewed == "RENEWED"     \* a later activation that no command wrote
Garbage == "GARBAGE"     \* bytes that do not parse

VARIABLES
  now,        \* seconds
  source,     \* the files .mode and .kill_switch
  tombstones, \* tombstones/<key>.kill-switch
  evidence,   \* the exported file safety-state.json
  export,     \* what the exporter has read and not published
  intents, appliedRecords, receipts,   \* the journal
  run,        \* the execution that holds the lock
  answer,     \* what the last step returned to a client, if it returned
  mutations,  \* history: how often each command changed a source file
  faults      \* interrupted executions and foreign writes so far

operatorVars == <<now, source, tombstones, evidence, export, intents, appliedRecords,
                  receipts, run, answer, mutations, faults>>
journal == <<intents, appliedRecords, receipts>>
world == <<now, source, tombstones, evidence, export>>

KillBytes == Key \cup {External, Renewed, Garbage}
\* "other" is a mode file that is missing, does not parse, or says dryrun or live: one of them.
Source == [mode : {"paper", "other"}, kill : KillBytes \cup {NoFile}]
Evidence == [mode : {"paper", "other"}, kill : {"ACTIVE", "INACTIVE", "UNKNOWN"}, at : Nat]
Request == [kind : Kind, expected : Source \cup {None}]

\* An activation's bytes are its acceptance time and reason: no other command writes the same.
Operation == {"NO_CHANGE", "WRITE_MODE", "WRITE_KILL_SWITCH", "CLEAR_KILL_SWITCH"}
Intent ==
  [ kind : CommandKind, prior : Source, expected : Source \cup {None},
    desired : KillBytes \cup {"paper"}, reason : BOOLEAN, evidence : Evidence \cup {None},
    accepted : Nat ]
ApplicationKind ==
  {"NO_CHANGE", "MODE_REPLACED", "KILL_SWITCH_CREATED", "KILL_SWITCH_CLEARED_TO_TOMBSTONE",
   "RECOVERED_MODE_REPLACEMENT", "RECOVERED_KILL_SWITCH_CREATE", "RECOVERED_KILL_SWITCH_CLEAR"}
Applied == [kind : ApplicationKind, result : Source, tombstone : KillBytes \cup {None}]
Receipt == [outcome : {"APPLIED", "NO_CHANGE", "RECOVERED_APPLIED"}, result : Source]

ASSUME OperatorAssumption ==
  /\ Kind \subseteq CommandKind
  /\ EvidenceTTL \in Nat \ {0}
  /\ MaxCrashes \in Nat /\ MaxDrift \in Nat /\ MaxTime \in Nat
  /\ Key \cap {None, Torn, NoFile, External, Renewed, Garbage} = {}
  /\ None # Torn
  /\ None \notin Source /\ None \notin Evidence /\ None \notin KillBytes
  /\ \A record \in {None, Torn} : record \notin Intent /\ record \notin Applied /\ record \notin Receipt

Idle == [pc |-> "idle", key |-> None, op |-> "NO_CHANGE"]
Point == {"idle", "check", "bind", "rename", "verify", "takeback", "applied", "receipt"}
RunRow == [pc : Point, key : Key \cup {None}, op : Operation]

OperatorTypeOK ==
  /\ now \in 0 .. MaxTime
  /\ source \in Source
  /\ tombstones \in [Key -> KillBytes \cup {NoFile}]
  /\ evidence \in Evidence \cup {None}
  /\ export \in Evidence \cup {None}
  /\ intents \in [Key -> Intent \cup {None, Torn}]
  /\ appliedRecords \in [Key -> Applied \cup {None, Torn}]
  /\ receipts \in [Key -> Receipt \cup {None, Torn}]
  /\ run \in RunRow
  /\ answer \in {None, "RECEIPT", "REJECTED", "CONFLICT", "INTENT_REFUSED", "UNSAFE", "UNKNOWN"}
  /\ mutations \in [Key -> Nat]
  /\ faults \in [crashes : 0 .. MaxCrashes, drift : 0 .. MaxDrift]

OperatorInit ==
  /\ now = 0
  /\ source \in [mode : {"paper", "other"}, kill : {NoFile, External}]
  /\ tombstones = [k \in Key |-> NoFile]
  /\ evidence = None /\ export = None
  /\ intents = [k \in Key |-> None]
  /\ appliedRecords = [k \in Key |-> None]
  /\ receipts = [k \in Key |-> None]
  /\ run = Idle
  /\ answer = None
  /\ mutations = [k \in Key |-> 0]
  /\ faults = [crashes |-> 0, drift |-> 0]

(*************************** Clock, other writers, exporter ***************)

Tick ==
  /\ now < MaxTime
  /\ now' = now + 1
  /\ answer' = None
  /\ UNCHANGED <<source, tombstones, evidence, export, journal, run, mutations, faults>>

\* Somebody else writes one of the source files.
Drift(s) ==
  /\ faults.drift < MaxDrift
  /\ s # source
  /\ s.mode = source.mode \/ s.kill = source.kill
  /\ s.kill \in {source.kill, NoFile, External, Renewed, Garbage}
  /\ source' = s
  /\ faults' = [faults EXCEPT !.drift = @ + 1]
  /\ answer' = None
  /\ UNCHANGED <<now, tombstones, evidence, export, journal, run, mutations>>

\* Absence is the inactive state; a file that does not parse is no state at all.
KillState(bytes) ==
  IF bytes = NoFile THEN "INACTIVE" ELSE IF bytes = Garbage THEN "UNKNOWN" ELSE "ACTIVE"

\* SafetyStateExporter.snapshot reads the files, then the clock; both live gates are false.
ExportRead ==
  /\ export = None
  /\ export' = [mode |-> source.mode, kill |-> KillState(source.kill), at |-> now]
  /\ answer' = None
  /\ UNCHANGED <<now, source, tombstones, evidence, journal, run, mutations, faults>>

\* export_once replaces the file atomically.
ExportPublish ==
  /\ export # None
  /\ evidence' = export
  /\ export' = None
  /\ answer' = None
  /\ UNCHANGED <<now, source, tombstones, journal, run, mutations, faults>>

\* SafetyStateClient.evidence: authenticated, not from the future, not expired.
EvidenceCurrent == evidence # None /\ evidence.at <= now /\ now < evidence.at + EvidenceTTL

(*************************** Policy ****************************************)

\* The age of the evidence is judged at time t; the effective mode of PAPER is PAPER.
EvidenceAllowsClear(t) ==
  /\ EvidenceCurrent
  /\ evidence.at <= t /\ t < evidence.at + EvidenceTTL
  /\ evidence.mode = "paper" /\ evidence.kill = "ACTIVE"

\* _decide_mode and _decide_kill_switch: what makes them reject.
Rejected(request, t) ==
  \/ request.expected # None /\ request.expected # source
  \/ request.kind \in {"ACTIVATE", "CLEAR"} /\ KillState(source.kill) = "UNKNOWN"
  \/ /\ request.kind = "CLEAR"
     /\ \/ request.expected = None
        \/ KillState(source.kill) # "ACTIVE"
        \/ ~EvidenceAllowsClear(t)

PlannedOperation(request) ==
  CASE request.kind = "PAPER" -> IF source.mode = "paper" THEN "NO_CHANGE" ELSE "WRITE_MODE"
    [] request.kind = "ACTIVATE" ->
         IF KillState(source.kill) = "ACTIVE" THEN "NO_CHANGE" ELSE "WRITE_KILL_SWITCH"
    [] request.kind = "CLEAR" -> "CLEAR_KILL_SWITCH"

\* The intent that records the plan: a plan of no change carries no reason.
PlannedIntent(k, request, t) ==
  LET op == PlannedOperation(request) IN
  [ kind |-> request.kind, prior |-> source, expected |-> request.expected,
    desired |-> CASE request.kind = "PAPER" -> "paper"
                  [] op = "WRITE_KILL_SWITCH" -> k
                  [] request.kind # "PAPER" /\ op # "WRITE_KILL_SWITCH" -> source.kill,
    reason |-> op = "WRITE_KILL_SWITCH",
    evidence |-> IF request.kind = "CLEAR" THEN evidence ELSE None,
    accepted |-> t ]

\* CommandJournal._validate_intent, which create_intent and load apply.
ValidIntent(intent) ==
  \/ intent.kind = "PAPER" /\ ~intent.reason /\ intent.evidence = None
  \/ intent.kind = "ACTIVATE" /\ intent.reason /\ intent.evidence = None
  \/ intent.kind = "CLEAR" /\ ~intent.reason /\ intent.evidence # None /\ intent.expected # None

(*************************** Execution *************************************)

\* The lock is free and the key is executed, for the first time or again.
Loads(k) == intents[k] # Torn /\ appliedRecords[k] # Torn /\ receipts[k] # Torn
Enter(k) == run.pc = "idle" /\ Loads(k)
Fresh(k) == Enter(k) /\ intents[k] = None
\* Mutant of Unfinished: only a receipt ends a command.
UnfinishedUntilReceipt(k) == Enter(k) /\ intents[k] # None /\ receipts[k] = None
Unfinished(k) == Enter(k) /\ intents[k] # None /\ appliedRecords[k] = None

\* A retry brings the request the intent records; any other is IDEMPOTENCY_CONFLICT.
Accepted(k) == [kind |-> intents[k].kind, expected |-> intents[k].expected]

Answer(code) ==
  /\ answer' = code
  /\ UNCHANGED <<world, journal, run, mutations, faults>>

RefuseUnsafeJournal(k) == run.pc = "idle" /\ ~Loads(k) /\ Answer("UNSAFE")
RefuseConflict(k) == Enter(k) /\ intents[k] # None /\ Answer("CONFLICT")
RejectCommand(k, request) == Fresh(k) /\ Rejected(request, now) /\ Answer("REJECTED")
RefuseIntent(k, request) ==
  /\ Fresh(k) /\ ~Rejected(request, now)
  /\ ~ValidIntent(PlannedIntent(k, request, now))
  /\ Answer("INTENT_REFUSED")

\* A record is created whole, or the execution ends in the middle of it.
Recorded(torn, record) == IF torn THEN Torn ELSE record
Continue(torn, next) ==
  /\ torn => faults.crashes < MaxCrashes
  /\ run' = IF torn THEN Idle ELSE next
  /\ faults' = IF torn THEN [faults EXCEPT !.crashes = @ + 1] ELSE faults

\* Mutant of AcceptCommand: the intent is written without its validation.
AcceptUnvalidated(k, request, torn) ==
  /\ Fresh(k) /\ ~Rejected(request, now)
  /\ intents' = [intents EXCEPT ![k] = Recorded(torn, PlannedIntent(k, request, now))]
  /\ Continue(torn, [pc |-> "check", key |-> k, op |-> PlannedOperation(request)])
  /\ answer' = None
  /\ UNCHANGED <<world, appliedRecords, receipts, mutations>>

AcceptCommand(k, request, torn) ==
  LET intent == PlannedIntent(k, request, now) IN
  /\ Fresh(k) /\ ~Rejected(request, now) /\ ValidIntent(intent)
  /\ intents' = [intents EXCEPT ![k] = Recorded(torn, intent)]
  /\ Continue(torn, [pc |-> "check", key |-> k, op |-> PlannedOperation(request)])
  /\ answer' = None
  /\ UNCHANGED <<world, appliedRecords, receipts, mutations>>

\* Mutant of RecoveryDisposition: a tombstone that is there proves the clear, whatever is active.
DispositionIgnoringReactivation(k) ==
  LET intent == intents[k] IN
  IF tombstones[k] # NoFile
  THEN IF intent.kind = "CLEAR" THEN "RECOVERED_KILL_SWITCH_CLEAR" ELSE "UNKNOWN"
  ELSE IF source = intent.prior THEN "RETRY"
  ELSE CASE intent.kind = "PAPER" /\ source.mode = intent.desired -> "RECOVERED_MODE_REPLACEMENT"
         [] intent.kind = "ACTIVATE" /\ source.kill # NoFile -> "RECOVERED_KILL_SWITCH_CREATE"
         [] OTHER -> "UNKNOWN"

\* classify_recovery; UNKNOWN is the exception COMMAND_OUTCOME_UNKNOWN.
RecoveryDisposition(k) ==
  LET intent == intents[k] IN
  IF tombstones[k] # NoFile
  THEN IF /\ intent.kind = "CLEAR" /\ tombstones[k] = intent.desired
          /\ KillState(source.kill) = "INACTIVE"
       THEN "RECOVERED_KILL_SWITCH_CLEAR" ELSE "UNKNOWN"
  ELSE IF source = intent.prior THEN "RETRY"
  ELSE CASE intent.kind = "PAPER" /\ source.mode = intent.desired -> "RECOVERED_MODE_REPLACEMENT"
         [] intent.kind = "ACTIVATE" /\ source.kill = intent.desired -> "RECOVERED_KILL_SWITCH_CREATE"
         [] OTHER -> "UNKNOWN"

\* Mutant of SamePlan: the activation is planned anew, with the time of the retry.
SamePlanNow(k, t) ==
  /\ intents[k].evidence # None => EvidenceCurrent
  /\ ~Rejected(Accepted(k), t)
  /\ PlannedIntent(k, Accepted(k), now) = intents[k]

\* The request, judged as of its acceptance, must still give the plan of the intent.
SamePlan(k, t) ==
  /\ intents[k].evidence # None => EvidenceCurrent
  /\ ~Rejected(Accepted(k), t)
  /\ PlannedIntent(k, Accepted(k), intents[k].accepted) = intents[k]

ResumeRetry(k) ==
  /\ Unfinished(k) /\ RecoveryDisposition(k) = "RETRY" /\ SamePlan(k, intents[k].accepted)
  /\ run' = [pc |-> "check", key |-> k, op |-> PlannedOperation(Accepted(k))]
  /\ answer' = None
  /\ UNCHANGED <<world, journal, mutations, faults>>

\* The outcome is unknown, or the plan is no longer the one of the intent.
ResumeFails(k) ==
  /\ Unfinished(k)
  /\ \/ RecoveryDisposition(k) = "UNKNOWN"
     \/ RecoveryDisposition(k) = "RETRY" /\ ~SamePlan(k, intents[k].accepted)
  /\ Answer("UNKNOWN")

\* A mutation found done: its applied record is written without repeating it.
ResumeRecovered(k, torn) ==
  /\ Unfinished(k) /\ RecoveryDisposition(k) \notin {"RETRY", "UNKNOWN"}
  /\ appliedRecords' = [appliedRecords EXCEPT ![k] = Recorded(torn,
       [ kind |-> RecoveryDisposition(k), result |-> source,
         tombstone |-> IF intents[k].kind = "CLEAR" THEN tombstones[k] ELSE None ])]
  /\ Continue(torn, [pc |-> "receipt", key |-> k, op |-> "NO_CHANGE"])
  /\ answer' = None
  /\ UNCHANGED <<world, intents, receipts, mutations>>

ResumeApplied(k) ==
  /\ Enter(k) /\ appliedRecords[k] # None /\ receipts[k] = None
  /\ run' = [pc |-> "receipt", key |-> k, op |-> "NO_CHANGE"]
  /\ answer' = None
  /\ UNCHANGED <<world, journal, mutations, faults>>

ReturnReceipt(k) == Enter(k) /\ receipts[k] # None /\ Answer("RECEIPT")

At(pc) == run.pc = pc /\ run.key # None

\* _apply up to the mutation: the evidence is the one of the intent and still fresh, the plan
\* still the same, the state still the prior one.
CheckPassed ==
  LET k == run.key IN
  /\ intents[k].evidence # None => SamePlan(k, now)
  /\ source = intents[k].prior

\* Without a change to make, the state that was just read is the result.
Check ==
  /\ At("check") /\ CheckPassed
  /\ run' = [run EXCEPT !.pc = IF run.op = "NO_CHANGE" THEN "applied" ELSE "bind"]
  /\ answer' = None
  /\ UNCHANGED <<world, journal, mutations, faults>>

\* The execution ends and its client is told that the outcome is unknown.
Refuse ==
  /\ run' = Idle
  /\ answer' = "UNKNOWN"
  /\ UNCHANGED <<now, evidence, export, journal, mutations, faults>>

CheckFails == At("check") /\ ~CheckPassed /\ Refuse /\ UNCHANGED <<source, tombstones>>

\* The state store reads the state again, and the content of the file it is about to rename.
Bind ==
  /\ At("bind") /\ source = intents[run.key].prior
  /\ run' = [run EXCEPT !.pc = "rename"]
  /\ answer' = None
  /\ UNCHANGED <<world, journal, mutations, faults>>

BindFails ==
  At("bind") /\ source # intents[run.key].prior /\ Refuse /\ UNCHANGED <<source, tombstones>>

\* Mode file that is not the one that was read; the plan writes the mode only if it is "other".
ModeChanged == run.op = "WRITE_MODE" /\ source.mode # intents[run.key].prior.mode

\* renameat2: RENAME_EXCHANGE with a mode file takes any, RENAME_NOREPLACE needs a source and no
\* target.
Renameable ==
  CASE run.op = "WRITE_MODE" -> TRUE
    [] run.op = "WRITE_KILL_SWITCH" -> source.kill = NoFile
    [] run.op = "CLEAR_KILL_SWITCH" -> source.kill # NoFile /\ tombstones[run.key] = NoFile
    [] run.op = "NO_CHANGE" -> FALSE

\* The rename takes what is there.  The file that an exchange displaced is nobody else's, so
\* that its check needs no step of its own.
Rename ==
  LET k == run.key IN
  /\ At("rename") /\ Renameable
  /\ source' = CASE run.op = "WRITE_MODE" -> [source EXCEPT !.mode = "paper"]
                 [] run.op = "WRITE_KILL_SWITCH" -> [source EXCEPT !.kill = k]
                 [] run.op = "CLEAR_KILL_SWITCH" -> [source EXCEPT !.kill = NoFile]
  /\ tombstones' = IF run.op = "CLEAR_KILL_SWITCH" THEN [tombstones EXCEPT ![k] = source.kill]
                   ELSE tombstones
  /\ mutations' = [mutations EXCEPT ![k] = @ + 1]
  /\ run' = [run EXCEPT !.pc = IF ModeChanged THEN "takeback" ELSE "verify"]
  /\ answer' = None
  /\ UNCHANGED <<now, evidence, export, journal, faults>>

\* A missing mode file that was created since, or the other way round, is refused too.
RenameRefused ==
  At("rename") /\ (~Renameable \/ ModeChanged) /\ Refuse /\ UNCHANGED <<source, tombstones>>

\* The files are as the rename should leave them.
Published ==
  LET k == run.key IN
  CASE run.op = "WRITE_MODE" -> source.mode = "paper"
    [] run.op = "WRITE_KILL_SWITCH" -> source.kill = k
    [] run.op = "CLEAR_KILL_SWITCH" -> source.kill = NoFile /\ tombstones[k] = intents[k].desired
    [] run.op = "NO_CHANGE" -> FALSE

Verify ==
  /\ At("verify") /\ Published
  /\ run' = [run EXCEPT !.pc = "applied"]
  /\ answer' = None
  /\ UNCHANGED <<world, journal, mutations, faults>>

\* A file that was published stays.
VerifyFails ==
  /\ At("verify") /\ ~Published /\ run.op # "CLEAR_KILL_SWITCH"
  /\ Refuse /\ UNCHANGED <<source, tombstones>>

\* Mutant of ClearFails: what was moved stays in the tombstone.
ClearFailsForGood ==
  /\ At("verify") /\ run.op = "CLEAR_KILL_SWITCH" /\ ~Published
  /\ Refuse /\ UNCHANGED <<source, tombstones>>

\* The switch is there again, its bytes are others, or a file call raises: the rename has to
\* be taken back.
ClearFails ==
  /\ At("verify") /\ run.op = "CLEAR_KILL_SWITCH"
  /\ \/ ~Published /\ UNCHANGED faults
     \/ Published /\ faults.crashes < MaxCrashes /\ faults' = [faults EXCEPT !.crashes = @ + 1]
  /\ run' = [run EXCEPT !.pc = "takeback"]
  /\ answer' = None
  /\ UNCHANGED <<world, journal, mutations>>

\* A clear is taken back unless somebody made a new file; the mode file that was exchanged, which
\* was "paper", comes back whatever is there by then.
TakeBack ==
  LET k == run.key IN
  /\ At("takeback")
  /\ \/ /\ run.op = "CLEAR_KILL_SWITCH" /\ source.kill = NoFile
        /\ source' = [source EXCEPT !.kill = tombstones[k]]
        /\ tombstones' = [tombstones EXCEPT ![k] = NoFile]
     \/ /\ run.op = "CLEAR_KILL_SWITCH" /\ source.kill # NoFile
        /\ UNCHANGED <<source, tombstones>>
     \/ /\ run.op = "WRITE_MODE"
        /\ source' = [source EXCEPT !.mode = "paper"]
        /\ UNCHANGED tombstones
  /\ Refuse

DirectKind ==
  CASE run.op = "NO_CHANGE" -> "NO_CHANGE"
    [] run.op = "WRITE_MODE" -> "MODE_REPLACED"
    [] run.op = "WRITE_KILL_SWITCH" -> "KILL_SWITCH_CREATED"
    [] run.op = "CLEAR_KILL_SWITCH" -> "KILL_SWITCH_CLEARED_TO_TOMBSTONE"

CreateApplied(torn) ==
  LET k == run.key IN
  /\ At("applied")
  /\ appliedRecords' = [appliedRecords EXCEPT ![k] = Recorded(torn,
       [ kind |-> DirectKind,
         result |-> IF run.op = "NO_CHANGE" THEN intents[k].prior ELSE source,
         tombstone |-> IF run.op = "CLEAR_KILL_SWITCH" THEN tombstones[k] ELSE None ])]
  /\ Continue(torn, [run EXCEPT !.pc = "receipt"])
  /\ answer' = None
  /\ UNCHANGED <<world, intents, receipts, mutations>>

\* allowed_kinds of _validate_relations.
AllowedKinds(kind) ==
  CASE kind = "PAPER" -> {"NO_CHANGE", "MODE_REPLACED", "RECOVERED_MODE_REPLACEMENT"}
    [] kind = "ACTIVATE" -> {"NO_CHANGE", "KILL_SWITCH_CREATED", "RECOVERED_KILL_SWITCH_CREATE"}
    [] kind = "CLEAR" -> {"KILL_SWITCH_CLEARED_TO_TOMBSTONE", "RECOVERED_KILL_SWITCH_CLEAR"}

\* Mutant of OutcomeOf: the receipt repeats the application kind.
OutcomeIsKind(kind) == kind
OutcomeOf(kind) ==
  IF kind = "NO_CHANGE" THEN "NO_CHANGE"
  ELSE IF kind \in {"RECOVERED_MODE_REPLACEMENT", "RECOVERED_KILL_SWITCH_CREATE",
                    "RECOVERED_KILL_SWITCH_CLEAR"} THEN "RECOVERED_APPLIED"
  ELSE "APPLIED"

CreateReceipt(torn) ==
  LET k == run.key IN
  /\ At("receipt")
  /\ receipts' = [receipts EXCEPT ![k] = Recorded(torn,
       [outcome |-> OutcomeOf(appliedRecords[k].kind), result |-> appliedRecords[k].result])]
  /\ answer' = IF torn THEN None ELSE "RECEIPT"
  /\ Continue(torn, Idle)
  /\ UNCHANGED <<world, intents, appliedRecords, mutations>>

\* The process dies, the release authority is withdrawn, or a file call raises.
Interrupt ==
  /\ run.pc # "idle"
  /\ faults.crashes < MaxCrashes
  /\ run' = Idle
  /\ faults' = [faults EXCEPT !.crashes = @ + 1]
  /\ answer' = None
  /\ UNCHANGED <<world, journal, mutations>>

Resume(k) ==
  \/ ResumeRetry(k) \/ ResumeApplied(k)
  \/ \E torn \in BOOLEAN : ResumeRecovered(k, torn)

Execute(k) ==
  \/ RefuseUnsafeJournal(k) \/ RefuseConflict(k)
  \/ \E request \in Request :
       \/ RejectCommand(k, request) \/ RefuseIntent(k, request)
       \/ \E torn \in BOOLEAN : AcceptCommand(k, request, torn)
  \/ Resume(k) \/ ResumeFails(k) \/ ReturnReceipt(k)

Proceed ==
  \/ Check \/ CheckFails \/ Bind \/ BindFails \/ Rename \/ RenameRefused
  \/ Verify \/ VerifyFails \/ ClearFails \/ TakeBack
  \/ \E torn \in BOOLEAN : CreateApplied(torn) \/ CreateReceipt(torn)

OperatorNext ==
  \/ Tick
  \/ \E s \in Source : Drift(s)
  \/ ExportRead \/ ExportPublish
  \/ \E k \in Key : Execute(k)
  \/ Proceed
  \/ Interrupt

OperatorSpec == OperatorInit /\ [][OperatorNext]_operatorVars

\* A client that has no receipt sends its request again, an execution that is not interrupted
\* goes on, and the exporter's loop publishes again and again.
OperatorFairness ==
  /\ \A k \in Key : WF_operatorVars(Resume(k))
  /\ WF_operatorVars(Proceed)
  /\ WF_operatorVars(ExportRead) /\ WF_operatorVars(ExportPublish)
  /\ WF_operatorVars(Tick)
OperatorFairSpec == OperatorSpec /\ OperatorFairness

(*************************** Properties ************************************)

\* Whatever executions were interrupted and whatever others wrote, the service never leaves a
\* journal that its own _validate_relations refuses: the only records that do not load are torn.
JournalLoads ==
  \A k \in Key :
    LET intent == intents[k]
        applied == appliedRecords[k]
        receipt == receipts[k] IN
    /\ intent \notin {None, Torn} => ValidIntent(intent)
    /\ applied \notin {None, Torn} =>
         /\ intent \notin {None, Torn}
         /\ applied.kind \in AllowedKinds(intent.kind)
         /\ (applied.tombstone # None) = (intent.kind = "CLEAR")
    /\ receipt \notin {None, Torn} =>
         /\ applied \notin {None, Torn}
         /\ receipt = [outcome |-> OutcomeOf(applied.kind), result |-> applied.result]

\* A receipt for a kill-switch command is the truth, a recovered one too: this command wrote its
\* bytes, or moved the very bytes the operator named to its tombstone.
KillReceiptsTruthful ==
  \A k \in Key :
    receipts[k] \notin {None, Torn} =>
      /\ intents[k].kind # "PAPER" => mutations[k] > 0
      /\ intents[k].kind = "CLEAR" =>
           tombstones[k] = intents[k].expected.kill /\ tombstones[k] \in KillBytes

\* The clear of k took away bytes that are not those of the state its operator saw.
TookUnseen(k) == tombstones[k] # NoFile /\ tombstones[k] # intents[k].expected.kill

\* Somebody may activate the switch again between the check of a clear and its rename, which then
\* takes away an activation that the operator did not see.  No command records that as applied,
\* and the bytes are never lost: they stay in the tombstone or come back.  An execution that is
\* not interrupted ends with a switch that is there: the bytes are back or a newer file is.
UnseenActivationRestored ==
  [][ \A k \in Key :
        TookUnseen(k) =>
          /\ appliedRecords'[k] = None
          /\ \/ tombstones'[k] = tombstones[k]
             \/ tombstones'[k] = NoFile /\ source'.kill = tombstones[k]
          /\ run.key = k /\ run'.key # k =>
               source'.kill # NoFile \/ faults'.crashes > faults.crashes ]_operatorVars

\* Once the application of a command is on record, no execution of the command, first or
\* retried, changes a source file again, and no record is ever rewritten.
AppliedIsFinal ==
  [][ \A k \in Key :
        /\ appliedRecords[k] # None => mutations'[k] = mutations[k]
        /\ intents[k] # None => intents'[k] = intents[k]
        /\ appliedRecords[k] # None => appliedRecords'[k] = appliedRecords[k]
        /\ receipts[k] # None => receipts'[k] = receipts[k] ]_operatorVars

\* A mode or activation command whose intent is journalled and that its client retries ends with
\* its receipt, or with a record that was torn, or in a state that is neither the one before nor
\* the one after it, which the service declares unknown.
Concluded(k) ==
  \/ receipts[k] # None \/ ~Loads(k)
  \/ appliedRecords[k] = None /\ RecoveryDisposition(k) = "UNKNOWN"
Journalled(k, kinds) == intents[k] \notin {None, Torn} /\ intents[k].kind \in kinds
IntentsConclude ==
  \A k \in Key :
    Journalled(k, {"PAPER", "ACTIVATE"}) ~> (Journalled(k, CommandKind) /\ Concluded(k))
=============================================================================
