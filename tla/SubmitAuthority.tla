---------------------------- MODULE SubmitAuthority ----------------------------
(***************************************************************************)
(* The global halt and the one-shot submit permits of packages/runtime_risk*)
(* on one stream of the event ledger.  Callers record halts, recover from  *)
(* them, prepare permits and consume them.  A call verifies its safety     *)
(* reading, loads and replays the stream, and compare-and-appends one      *)
(* event at the sequence it loaded; a consumption that lost the race to    *)
(* unrelated permits is tried once more.  Calls of several processes       *)
(* interleave at every read and append, with clocks of their own.          *)
(*                                                                         *)
(* A call whose arguments fail a check against themselves (digests, ages,  *)
(* limits) raises without an effect and is not a step here.                *)
(***************************************************************************)
EXTENDS Naturals, Sequences, FiniteSets

CONSTANTS
  Caller, Permit,
  EventId,       \* the event ids callers choose; a retried call brings the same
  PermitTTL,     \* _PERMIT_LIFETIME, 5 seconds
  MaxTime,       \* bound on the callers' clocks
  MaxDisturbances, \* bound on kill-switch changes, events of other streams and dead calls
  None

ASSUME AuthorityAssumption ==
  /\ PermitTTL \in Nat /\ MaxTime \in Nat /\ MaxDisturbances \in Nat
  /\ None \notin Permit \cup EventId

VARIABLES
  stream,     \* the authority stream, in sequence
  foreign,    \* how many events the other streams hold
  kill,       \* the kill-switch file, and how often it changed
  authorized, \* the halted generations for which a recovery authorization was issued
  call,       \* the call each caller is in
  granted,    \* history: how often each permit's authority was returned
  crashes

authorityVars == <<stream, foreign, kill, authorized, call, granted, crashes>>

Time == 0 .. MaxTime
Event ==
  [ type : {"transition", "prepared", "consumed"}, id : EventId, permit : Permit \cup {None},
    gen : Nat, status : {"ACTIVE", "HALTED", None}, at : Time ]

Idle == [pc |-> "idle"]
\* breach: the observation or the kill switch trips the breaker.
Verified == [pc : {"load"}, op : {"record", "recover", "prepare"}, permit : Permit \cup {None},
             id : EventId, at : Time, breach : BOOLEAN]
Consuming == [pc : {"load"}, op : {"consume"}, ref : Event, id : EventId, at : Time]
Appending == [pc : {"append", "again", "reload"}, event : Event, base : Nat, others : Nat,
              ref : Event \cup {None}]
ReadingBack == [pc : {"readback"}, event : Event]
Call == {Idle} \cup Verified \cup Consuming \cup Appending \cup ReadingBack

AuthorityTypeOK ==
  /\ stream \in Seq(Event)
  /\ foreign \in Nat
  /\ kill \in [active : BOOLEAN, changes : Nat]
  /\ authorized \subseteq Nat
  /\ call \in [Caller -> Call]
  /\ granted \in [Permit -> Nat]
  /\ crashes \in Nat

AuthorityInit ==
  /\ stream = <<>> /\ foreign = 0
  /\ kill = [active |-> FALSE, changes |-> 0]
  /\ authorized = {}
  /\ call = [c \in Caller |-> Idle]
  /\ granted = [p \in Permit |-> 0]
  /\ crashes = 0

(*************************** Replay ****************************************)

Prefix(s, n) == SubSeq(s, 1, n)
Of(s, type) == {i \in DOMAIN s : s[i].type = type}

\* The transition that gives the halt state: the last one.
Current(s, i) == i \in Of(s, "transition") /\ \A j \in Of(s, "transition") : j <= i
ActiveGeneration(s, g) == \E i \in DOMAIN s : Current(s, i) /\ s[i].status = "ACTIVE" /\ s[i].gen = g

Known(s, p) == \E i \in Of(s, "prepared") : s[i].permit = p
ConsumedPermit(s, p) == \E i \in Of(s, "consumed") : s[i].permit = p
\* Mutant of Open: a consumed permit stays among the prepared ones.
OpenUntilRetired(s, ref) ==
  \E i \in Of(s, "prepared") : s[i] = ref /\ \A j \in Of(s, "transition") : j < i
\* prepared and neither retired by a later transition nor consumed
Open(s, ref) ==
  /\ ~ConsumedPermit(s, ref.permit)
  /\ \E i \in Of(s, "prepared") : s[i] = ref /\ \A j \in Of(s, "transition") : j < i

HeadAt(s) == IF s = <<>> THEN 0 ELSE s[Len(s)].at

\* One round of replay_global_halt_authority's loop accepts e after s.
Admissible(s, e) ==
  /\ e.at >= HeadAt(s)
  /\ \A i \in DOMAIN s : s[i].id # e.id
  /\ \/ /\ e.type = "transition"
        /\ \/ Of(s, "transition") = {} /\ e.gen = 1
           \/ \E i \in DOMAIN s :
                Current(s, i) /\ e.gen = s[i].gen + 1 /\ e.status # s[i].status
     \/ /\ e.type = "prepared"
        /\ ActiveGeneration(s, e.gen) /\ ~Known(s, e.permit)
     \/ /\ e.type = "consumed"
        /\ ActiveGeneration(s, e.gen)
        /\ \E i \in DOMAIN s :
             /\ Open(s, s[i]) /\ s[i].type = "prepared" /\ s[i].permit = e.permit
             /\ s[i].gen = e.gen
             /\ s[i].at <= e.at /\ e.at <= s[i].at + PermitTTL

Replays(s) == \A i \in DOMAIN s : Admissible(Prefix(s, i - 1), s[i])

(*************************** Calls *****************************************)

Becomes(c, state) == call' = [call EXCEPT ![c] = state]
World == <<stream, foreign, kill, authorized, granted, crashes>>

\* verify_global_safety_observation: the kill-switch file is read here and not again.
StartRecord(c, id, at, loss) ==
  /\ call[c] = Idle
  /\ Becomes(c, [pc |-> "load", op |-> "record", permit |-> None, id |-> id, at |-> at,
                 breach |-> loss \/ kill.active])
  /\ UNCHANGED World

StartRecover(c, id, at) ==
  /\ call[c] = Idle /\ ~kill.active
  /\ Becomes(c, [pc |-> "load", op |-> "recover", permit |-> None, id |-> id, at |-> at,
                 breach |-> FALSE])
  /\ UNCHANGED World

StartPrepare(c, p, id, at) ==
  /\ call[c] = Idle /\ ~kill.active
  /\ Becomes(c, [pc |-> "load", op |-> "prepare", permit |-> p, id |-> id, at |-> at,
                 breach |-> FALSE])
  /\ UNCHANGED World

\* A caller may hold the reference of any permit that was ever prepared.
StartConsume(c, ref, id, at) ==
  /\ call[c] = Idle /\ ~kill.active
  /\ Becomes(c, [pc |-> "load", op |-> "consume", ref |-> ref, id |-> id, at |-> at])
  /\ UNCHANGED World

ToAppend(c, event, ref) ==
  /\ Becomes(c, [pc |-> "append", event |-> event, base |-> Len(stream), others |-> foreign,
                 ref |-> ref])
  /\ UNCHANGED World

Loading(c, op) == call[c].pc = "load" /\ call[c].op = op /\ Replays(stream)

\* Mutant of TransitionAfter: the transition does not say what it leads to.
TransitionWithoutStatus(id, i, status, at) ==
  [ type |-> "transition", id |-> id, permit |-> None, status |-> "UNKNOWN", at |-> at,
    gen |-> IF i = 0 THEN 1 ELSE stream[i].gen + 1 ]

TransitionAfter(id, i, status, at) ==
  [ type |-> "transition", id |-> id, permit |-> None, status |-> status, at |-> at,
    gen |-> IF i = 0 THEN 1 ELSE stream[i].gen + 1 ]

\* record_global_halt_observation: the first transition, or ACTIVE to HALTED.
LoadRecord(c) ==
  LET k == call[c] IN
  /\ Loading(c, "record")
  /\ k.at >= HeadAt(stream)
  /\ \/ /\ Of(stream, "transition") = {}
        /\ ToAppend(c, TransitionAfter(k.id, 0, IF k.breach THEN "HALTED" ELSE "ACTIVE", k.at), None)
     \/ \E i \in DOMAIN stream :
          /\ Current(stream, i) /\ stream[i].status = "ACTIVE" /\ k.breach
          /\ ToAppend(c, TransitionAfter(k.id, i, "HALTED", k.at), None)

\* Mutant of LoadRecover: an authorization is not bound to one halt.
LoadRecoverUnbound(c) ==
  LET k == call[c] IN
  /\ Loading(c, "recover")
  /\ k.at >= HeadAt(stream)
  /\ \E i \in DOMAIN stream :
       /\ Current(stream, i) /\ stream[i].status = "HALTED"
       /\ authorized # {}
       /\ ToAppend(c, TransitionAfter(k.id, i, "ACTIVE", k.at), None)

\* recover_global_halt: HALTED to ACTIVE, for the halt that was authorized.
LoadRecover(c) ==
  LET k == call[c] IN
  /\ Loading(c, "recover")
  /\ k.at >= HeadAt(stream)
  /\ \E i \in DOMAIN stream :
       /\ Current(stream, i) /\ stream[i].status = "HALTED"
       /\ stream[i].gen \in authorized
       /\ ToAppend(c, TransitionAfter(k.id, i, "ACTIVE", k.at), None)

\* prepare_submit_permit
LoadPrepare(c) ==
  LET k == call[c] IN
  /\ Loading(c, "prepare")
  /\ k.at >= HeadAt(stream)
  /\ ~Known(stream, k.permit)
  /\ \E i \in DOMAIN stream :
       /\ ActiveGeneration(stream, stream[i].gen)
       /\ ToAppend(c, [ type |-> "prepared", id |-> k.id, permit |-> k.permit, status |-> None,
                        gen |-> stream[i].gen, at |-> k.at ], None)

\* _require_exact_prepared_authority and _require_current_consumption_authority
MayConsume(s, ref, at) ==
  /\ Open(s, ref)
  /\ ref.at <= at /\ at <= ref.at + PermitTTL
  /\ at >= HeadAt(s)
  /\ ActiveGeneration(s, ref.gen)

LoadConsume(c) ==
  LET k == call[c] IN
  /\ Loading(c, "consume")
  /\ MayConsume(stream, k.ref, k.at)
  /\ ToAppend(c, [ type |-> "consumed", id |-> k.id, permit |-> k.ref.permit, status |-> None,
                   gen |-> k.ref.gen, at |-> k.at ], k.ref)

\* A check failed, or the answer is the state or the permit that is there already: no append.
Done(c) == Becomes(c, Idle) /\ UNCHANGED World
LoadedWithoutAppend(c) ==
  LET k == call[c] IN
  /\ k.pc = "load"
  /\ CASE k.op = "record" ->
            \/ k.at < HeadAt(stream)
            \/ \E i \in DOMAIN stream :
                 Current(stream, i) /\ (stream[i].status = "HALTED" \/ ~k.breach)
       [] k.op = "recover" ->
            \/ k.at < HeadAt(stream)
            \/ ~ \E i \in DOMAIN stream :
                   Current(stream, i) /\ stream[i].status = "HALTED" /\ stream[i].gen \in authorized
       [] k.op = "prepare" ->
            \/ k.at < HeadAt(stream) \/ Known(stream, k.permit)
            \/ ~ \E i \in DOMAIN stream : ActiveGeneration(stream, stream[i].gen)
       [] k.op = "consume" -> ~MayConsume(stream, k.ref, k.at)
  /\ Done(c)

(*************************** Append ****************************************)

\* append_domain_event: the same event again is no insertion, an id with other content and a
\* sequence that is taken are conflicts.
Present(k) == k.base + 1 \in DOMAIN stream /\ stream[k.base + 1] = k.event
\* Mutant of Conflict: the sequence is taken from the stream and not compared.
ConflictById(k) == ~Present(k) /\ \E i \in DOMAIN stream : stream[i].id = k.event.id
Conflict(k) ==
  ~Present(k) /\ (Len(stream) # k.base \/ \E i \in DOMAIN stream : stream[i].id = k.event.id)
Attempting(c) == call[c].pc \in {"append", "again"}

Insert(c) ==
  LET k == call[c] IN
  /\ Attempting(c) /\ ~Present(k) /\ ~Conflict(k)
  /\ stream' = Append(stream, k.event)
  /\ Becomes(c, IF k.event.type = "consumed" THEN [pc |-> "readback", event |-> k.event] ELSE Idle)
  /\ UNCHANGED <<foreign, kill, authorized, granted, crashes>>

\* Mutant of FindPresent: a consumption that is already there counts as this caller's.
PresentAsInserted(c) ==
  /\ Attempting(c) /\ Present(call[c])
  /\ Becomes(c, IF call[c].event.type = "consumed"
                THEN [pc |-> "readback", event |-> call[c].event] ELSE Idle)
  /\ UNCHANGED World

\* Transitions and preparations return what is there; a consumption is refused.
FindPresent(c) == Attempting(c) /\ Present(call[c]) /\ Done(c)

\* Only a consumption's first attempt looks at the cause.
AppendConflicts(c) ==
  LET k == call[c] IN
  /\ Attempting(c) /\ Conflict(k)
  /\ Becomes(c, IF k.event.type = "consumed" /\ k.pc = "append" THEN [k EXCEPT !.pc = "reload"]
                ELSE Idle)
  /\ UNCHANGED World

\* _only_unrelated_permit_events_advanced; an event of another stream is not allowed either.
OnlyUnrelatedAdvanced(k) ==
  /\ Len(stream) > k.base /\ foreign = k.others
  /\ \A i \in DOMAIN stream :
       i > k.base => stream[i].type # "transition" /\ stream[i].permit # k.ref.permit
  /\ Open(stream, k.ref)

\* The stream is loaded again; the safety reading is the one of the first attempt.
RetryConsume(c) ==
  LET k == call[c] IN
  /\ k.pc = "reload" /\ Replays(stream)
  /\ OnlyUnrelatedAdvanced(k) /\ MayConsume(stream, k.ref, k.event.at)
  /\ Becomes(c, [k EXCEPT !.pc = "again", !.base = Len(stream), !.others = foreign])
  /\ UNCHANGED World

GiveUpConsume(c) ==
  LET k == call[c] IN
  /\ k.pc = "reload"
  /\ ~(OnlyUnrelatedAdvanced(k) /\ MayConsume(stream, k.ref, k.event.at))
  /\ Done(c)

\* The event is read back and replayed, and the authority returned.
ReturnAuthority(c) ==
  LET p == call[c].event.permit IN
  /\ call[c].pc = "readback"
  /\ Replays(stream) /\ ConsumedPermit(stream, p)
  /\ granted' = [granted EXCEPT ![p] = @ + 1]
  /\ Becomes(c, Idle)
  /\ UNCHANGED <<stream, foreign, kill, authorized, crashes>>

(*************************** Environment ***********************************)

Undisturbed == foreign + kill.changes + crashes < MaxDisturbances

\* The caller dies, or a repository call raises: after an append too.
Crash(c) ==
  /\ call[c] # Idle /\ Undisturbed
  /\ Becomes(c, Idle)
  /\ crashes' = crashes + 1
  /\ UNCHANGED <<stream, foreign, kill, authorized, granted>>

SetKillSwitch ==
  /\ Undisturbed
  /\ kill' = [active |-> ~kill.active, changes |-> kill.changes + 1]
  /\ UNCHANGED <<stream, foreign, authorized, call, granted, crashes>>

\* The operator authorizes the recovery from the halt that is current.
Authorize ==
  /\ \E i \in DOMAIN stream :
       /\ Current(stream, i) /\ stream[i].status = "HALTED" /\ stream[i].gen \notin authorized
       /\ authorized' = authorized \cup {stream[i].gen}
  /\ UNCHANGED <<stream, foreign, kill, call, granted, crashes>>

OtherStreamAppends ==
  /\ Undisturbed
  /\ foreign' = foreign + 1
  /\ UNCHANGED <<stream, kill, authorized, call, granted, crashes>>

Start(c) ==
  \E id \in EventId, at \in Time :
    \/ \E loss \in BOOLEAN : StartRecord(c, id, at, loss)
    \/ StartRecover(c, id, at)
    \/ \E p \in Permit : StartPrepare(c, p, id, at)
    \/ \E i \in Of(stream, "prepared") : StartConsume(c, stream[i], id, at)

Step(c) ==
  \/ LoadRecord(c) \/ LoadRecover(c) \/ LoadPrepare(c) \/ LoadConsume(c)
  \/ LoadedWithoutAppend(c)
  \/ Insert(c) \/ FindPresent(c) \/ AppendConflicts(c)
  \/ RetryConsume(c) \/ GiveUpConsume(c) \/ ReturnAuthority(c)

AuthorityNext ==
  \/ \E c \in Caller : Start(c) \/ Step(c) \/ Crash(c)
  \/ SetKillSwitch \/ Authorize \/ OtherStreamAppends

AuthoritySpec == AuthorityInit /\ [][AuthorityNext]_authorityVars

(*************************** Properties ************************************)

\* However the calls interleave, the stream is one that replay accepts: a stream it refuses would
\* end all submission for good.
StreamReplays == Replays(stream)

\* The authority of a permit is returned to one call, once, and only if the consumption is
\* durable: not to two callers with the same event, nor to a retried call.
AuthorityReturnedOnce == \A p \in Permit : granted[p] <= 1 /\ (granted[p] = 1 => ConsumedPermit(stream, p))

\* A consumption is alone for its permit, within the lifetime of the preparation before it, and
\* no halt or recovery lies between the two.
ConsumptionsJustified ==
  \A i \in Of(stream, "consumed") :
    /\ \A j \in Of(stream, "consumed") : stream[j].permit = stream[i].permit => j = i
    /\ \E j \in Of(stream, "prepared") :
         /\ j < i /\ stream[j].permit = stream[i].permit
         /\ stream[i].at - stream[j].at \in 0 .. PermitTTL
         /\ \A t \in Of(stream, "transition") : t < j \/ i < t

\* An authorization ends the halt it was issued for, and no later one.
RecoveriesAuthorized ==
  \A i \in Of(stream, "transition") :
    stream[i].status = "ACTIVE" /\ stream[i].gen > 1 => stream[i].gen - 1 \in authorized

\* The stream implements the permits the design promises.
StatusOf(s) ==
  IF Of(s, "transition") = {} THEN "UNINITIALIZED"
  ELSE s[CHOOSE i \in DOMAIN s : Current(s, i)].status
PermitOf(s, p) ==
  IF ConsumedPermit(s, p) THEN "CONSUMED"
  ELSE IF \E i \in Of(s, "prepared") : s[i].permit = p /\ Open(s, s[i]) THEN "PREPARED"
  ELSE IF Known(s, p) THEN "RETIRED"
  ELSE "NEW"
Promise ==
  INSTANCE SubmitPermits WITH
    status <- StatusOf(stream),
    permits <- [p \in Permit |-> PermitOf(stream, p)],
    handedOut <- {p \in Permit : granted[p] > 0}
PermitsPromise == Promise!PermitsSpec
=============================================================================
