------------------------ MODULE SubmitAuthorityProofs ------------------------
(***************************************************************************)
(* Proofs about the submit permits, for any callers, permits, event ids    *)
(* and clocks: the stream is always one that replay accepts, a permit's    *)
(* authority is returned once, and the stream implements SubmitPermits.    *)
(***************************************************************************)
EXTENDS SubmitAuthority, SequenceTheorems, TLAPS

-----------------------------------------------------------------------------
(* The stream grows at its end.                                             *)

\* The elements and the length of a prefix.
LEMMA PrefixElements ==
  ASSUME NEW s \in Seq(Event), NEW n \in 0 .. Len(s)
  PROVE  /\ Prefix(s, n) \in Seq(Event)
         /\ Len(Prefix(s, n)) = n
         /\ DOMAIN Prefix(s, n) = 1 .. n
         /\ \A i \in 1 .. n : Prefix(s, n)[i] = s[i]
  <1>1. \A i \in 1 .. n : s[i] \in Event
    BY ElementOfSeq, LenProperties
  <1>2. /\ Prefix(s, n) \in Seq(Event)
        /\ Len(Prefix(s, n)) = n
        /\ \A i \in 1 .. n : Prefix(s, n)[i] = s[i]
    BY <1>1, SubSeqProperties, LenProperties DEF Prefix
  <1> QED
    BY <1>2, LenProperties

\* The elements and the length of a stream with one more event.
LEMMA Appended ==
  ASSUME NEW s \in Seq(Event), NEW e \in Event
  PROVE  /\ Append(s, e) \in Seq(Event)
         /\ Len(s) \in Nat
         /\ Len(Append(s, e)) = Len(s) + 1
         /\ DOMAIN s = 1 .. Len(s)
         /\ DOMAIN Append(s, e) = 1 .. (Len(s) + 1)
         /\ \A i \in 1 .. Len(s) : Append(s, e)[i] = s[i] /\ s[i] \in Event
         /\ Append(s, e)[Len(s) + 1] = e
  BY LenProperties, AppendProperties, ElementOfSeq

\* What was a prefix stays one.
LEMMA PrefixKept ==
  ASSUME NEW s \in Seq(Event), NEW e \in Event, NEW n \in 0 .. Len(s)
  PROVE  Prefix(Append(s, e), n) = Prefix(s, n)
  <1>1. n \in 0 .. Len(Append(s, e)) /\ Append(s, e) \in Seq(Event)
    BY Appended
  <1>2. \A i \in 1 .. n : Append(s, e)[i] = s[i]
    BY Appended
  <1> DEFINE t == Append(s, e)
  <1> HIDE DEF t
  <1>3. /\ Prefix(s, n) \in Seq(Event) /\ Len(Prefix(s, n)) = n
        /\ \A i \in 1 .. n : Prefix(s, n)[i] = s[i]
    BY PrefixElements
  <1>4. /\ Prefix(t, n) \in Seq(Event) /\ Len(Prefix(t, n)) = n
        /\ \A i \in 1 .. n : Prefix(t, n)[i] = t[i]
    BY <1>1, PrefixElements DEF t
  <1> QED
    BY <1>2, <1>3, <1>4, SeqEqual DEF t

\* The whole stream is a prefix of itself.
LEMMA PrefixWhole ==
  ASSUME NEW s \in Seq(Event)
  PROVE  Prefix(s, Len(s)) = s
  BY SubSeqFull DEF Prefix

\* An event that replay accepts after the stream keeps the stream replayable.
LEMMA ReplaysAppended ==
  ASSUME NEW s \in Seq(Event), NEW e \in Event, Replays(s), Admissible(s, e)
  PROVE  Replays(Append(s, e))
  <1> DEFINE t == Append(s, e)
  <1> SUFFICES ASSUME NEW i \in DOMAIN t PROVE Admissible(Prefix(t, i - 1), t[i])
    BY DEF Replays
  <1>1. i \in 1 .. (Len(s) + 1) /\ Len(s) \in Nat
    BY Appended
  <1>2. CASE i = Len(s) + 1
    <2>1. i - 1 = Len(s) /\ t[i] = e
      BY <1>1, <1>2, Appended
    <2>2. Prefix(t, i - 1) = s
      BY <2>1, <1>1, PrefixKept, PrefixWhole
    <2> QED
      BY <2>1, <2>2
  <1>3. CASE i # Len(s) + 1
    <2>1. i \in DOMAIN s /\ i - 1 \in 0 .. Len(s) /\ t[i] = s[i]
      BY <1>1, <1>3, Appended
    <2>2. Prefix(t, i - 1) = Prefix(s, i - 1)
      BY <2>1, PrefixKept
    <2> HIDE DEF t
    <2> QED
      BY <2>1, <2>2 DEF Replays
  <1> QED
    BY <1>2, <1>3

\* A consumption that is in the stream stays there.
LEMMA ConsumedKept ==
  ASSUME NEW s \in Seq(Event), NEW e \in Event, NEW p, ConsumedPermit(s, p)
  PROVE  ConsumedPermit(Append(s, e), p)
  BY Appended DEF ConsumedPermit, Of

\* A consumption that is appended is in the stream.
LEMMA ConsumedNow ==
  ASSUME NEW s \in Seq(Event), NEW e \in Event, e.type = "consumed"
  PROVE  ConsumedPermit(Append(s, e), e.permit)
  BY Appended DEF ConsumedPermit, Of

-----------------------------------------------------------------------------
(* The inductive invariant.                                                 *)

\* The event of a call is one that replay accepts after s, unless its id is taken.
Ready(s, e) == (\A i \in DOMAIN s : s[i].id # e.id) => Admissible(s, e)

\* An authorized recovery, if it is one.
Recovers(e, auth) ==
  e.type = "transition" /\ e.status = "ACTIVE" /\ e.gen > 1 => e.gen - 1 \in auth

\* A transition says what it leads to, the other events name a permit.
WellFormed(e) ==
  /\ e.type = "transition" => e.status \in {"ACTIVE", "HALTED"}
  /\ e.type # "transition" => e.permit \in Permit

\* A call that loaded the first k.base events brings an event that fits there; a
\* consumption belongs to its reference, and only a consumption is tried again.
AppendSound(k, s, auth) ==
  /\ k.base <= Len(s)
  /\ k.pc # "reload" => Ready(Prefix(s, k.base), k.event)
  /\ WellFormed(k.event) /\ Recovers(k.event, auth)
  /\ k.pc \in {"again", "reload"} => k.event.type = "consumed"
  /\ k.event.type = "consumed" =>
       k.ref \in Event /\ k.ref.permit = k.event.permit /\ k.ref.gen = k.event.gen

\* A call that prepares names a permit, and one that consumes holds a permit's reference.
LoadSound(k) ==
  /\ k.op = "prepare" => k.permit \in Permit
  /\ k.op = "consume" => k.ref.permit \in Permit

\* A call reads back a consumption that is durable.
ReadBackSound(k, s) ==
  k.event.type = "consumed" /\ k.event.permit \in Permit /\ ConsumedPermit(s, k.event.permit)

CallSound(k, s, auth) ==
  /\ k.pc = "load" => LoadSound(k)
  /\ k.pc \in {"append", "again", "reload"} => AppendSound(k, s, auth)
  /\ k.pc = "readback" => ReadBackSound(k, s)

\* One call at most is about to return the authority of a permit, and nobody has it.
ReadersSound ==
  \A c \in Caller : call[c].pc = "readback" =>
    /\ granted[call[c].event.permit] = 0
    /\ \A d \in Caller \ {c} :
         call[d].pc = "readback" => call[d].event.permit # call[c].event.permit

AuthorityInv ==
  /\ AuthorityTypeOK
  /\ StreamReplays
  /\ \A i \in DOMAIN stream : WellFormed(stream[i])
  /\ RecoveriesAuthorized
  /\ \A c \in Caller : CallSound(call[c], stream, authorized)
  /\ ReadersSound
  /\ AuthorityReturnedOnce

\* The forms of a call are told apart by pc and op.
LEMMA CallForms ==
  ASSUME NEW k \in Call
  PROVE  /\ k.pc \in {"append", "again", "reload"} => k \in Appending
         /\ k.pc = "readback" => k \in ReadingBack
         /\ k.pc = "load" /\ k.op = "consume" => k \in Consuming
         /\ k.pc = "load" /\ k.op \in {"record", "recover", "prepare"} => k \in Verified
  BY DEF Call, Idle, Verified, Consuming, Appending, ReadingBack

\* An event appended by another call leaves a call sound.
LEMMA CallSoundKept ==
  ASSUME NEW s \in Seq(Event), NEW e \in Event, NEW auth, NEW k \in Call,
         CallSound(k, s, auth)
  PROVE  CallSound(k, Append(s, e), auth)
  <1>1. CASE k.pc \in {"append", "again", "reload"}
    <2>1. k.base \in Nat
      BY <1>1, CallForms DEF Appending
    <2>2. k.base \in 0 .. Len(s) /\ k.base <= Len(Append(s, e))
      BY <1>1, <2>1, Appended DEF CallSound, AppendSound
    <2>3. Prefix(Append(s, e), k.base) = Prefix(s, k.base)
      BY <2>2, PrefixKept
    <2> QED
      BY <1>1, <2>2, <2>3 DEF CallSound, AppendSound
  <1>2. CASE k.pc \notin {"append", "again", "reload"}
    BY <1>2, ConsumedKept DEF CallSound, ReadBackSound
  <1> QED
    BY <1>1, <1>2

\* The empty stream and idle callers satisfy the invariant.
LEMMA AuthorityInitInv ==
  ASSUME AuthorityInit PROVE AuthorityInv
  <1>1. AuthorityTypeOK
    BY EmptySeq DEF AuthorityInit, AuthorityTypeOK, Call
  <1>2. DOMAIN stream = {}
    BY DEF AuthorityInit
  <1>3. StreamReplays /\ RecoveriesAuthorized /\ \A i \in DOMAIN stream : WellFormed(stream[i])
    BY <1>2 DEF StreamReplays, Replays, RecoveriesAuthorized, Of
  <1>4. \A c \in Caller : call[c].pc = "idle"
    BY DEF AuthorityInit, Idle
  <1>5. (\A c \in Caller : CallSound(call[c], stream, authorized)) /\ ReadersSound
    BY <1>4 DEF CallSound, ReadersSound
  <1>6. AuthorityReturnedOnce
    BY DEF AuthorityInit, AuthorityReturnedOnce
  <1> QED
    BY <1>1, <1>3, <1>5, <1>6 DEF AuthorityInv

\* The events of the stream are events.
LEMMA StreamElement ==
  ASSUME AuthorityTypeOK, NEW i \in DOMAIN stream
  PROVE  stream[i] \in Event /\ stream[i].gen \in Nat
  <1>1. stream[i] \in Event
    BY LenProperties, ElementOfSeq DEF AuthorityTypeOK
  <1> QED
    BY <1>1 DEF Event

\* A call that moves on soundly, without appending or returning anything, keeps the
\* invariant.
LEMMA QuietCall ==
  ASSUME AuthorityInv, NEW c \in Caller, NEW k \in Call, Becomes(c, k),
         UNCHANGED <<stream, authorized, granted, foreign, kill>>, crashes' \in Nat,
         CallSound(k, stream, authorized), k.pc # "readback"
  PROVE  AuthorityInv'
  <1>1. /\ call'[c] = k /\ \A d \in Caller \ {c} : call'[d] = call[d]
        /\ call' \in [Caller -> Call]
    BY DEF AuthorityInv, AuthorityTypeOK, Becomes
  <1>2. AuthorityTypeOK'
    BY <1>1 DEF AuthorityInv, AuthorityTypeOK
  <1>3. \A d \in Caller : CallSound(call'[d], stream, authorized)
    BY <1>1 DEF AuthorityInv
  <1>4. ReadersSound'
    BY <1>1 DEF AuthorityInv, ReadersSound
  <1>5. StreamReplays' /\ RecoveriesAuthorized' /\ AuthorityReturnedOnce'
    BY DEF AuthorityInv, StreamReplays, RecoveriesAuthorized, AuthorityReturnedOnce
  <1>6. \A i \in DOMAIN stream' : WellFormed(stream'[i])
    BY DEF AuthorityInv
  <1> QED
    BY <1>2, <1>3, <1>4, <1>5, <1>6 DEF AuthorityInv

-----------------------------------------------------------------------------
(* The steps of a call.                                                     *)

\* An event that a call builds on the stream it loaded and that replay accepts there.
LEMMA InvToAppend ==
  ASSUME AuthorityInv, NEW c \in Caller, NEW e \in Event, NEW ref \in Event \cup {None},
         ToAppend(c, e, ref), Ready(stream, e), WellFormed(e), Recovers(e, authorized),
         e.type = "consumed" => ref \in Event /\ ref.permit = e.permit /\ ref.gen = e.gen
  PROVE  AuthorityInv'
  <1> DEFINE k == [pc |-> "append", event |-> e, base |-> Len(stream), others |-> foreign,
                   ref |-> ref]
  <1>1. stream \in Seq(Event) /\ Len(stream) \in Nat /\ foreign \in Nat /\ crashes \in Nat
    BY LenProperties DEF AuthorityInv, AuthorityTypeOK
  <1>2. k \in Call
    BY <1>1 DEF Call, Appending
  <1>3. k.pc = "append" /\ k.event = e /\ k.base = Len(stream) /\ k.ref = ref
    OBVIOUS
  <1>4. Becomes(c, k) /\ UNCHANGED World
    BY DEF ToAppend
  <1> HIDE DEF k
  <1>5. Prefix(stream, k.base) = stream
    BY <1>1, <1>3, PrefixWhole
  <1>6. CallSound(k, stream, authorized)
    BY <1>1, <1>3, <1>5 DEF CallSound, AppendSound
  <1> QED
    BY <1>1, <1>2, <1>3, <1>4, <1>6, QuietCall DEF World

\* A call that ends without an effect.
LEMMA InvToIdle ==
  ASSUME AuthorityInv, NEW c \in Caller, Becomes(c, Idle),
         UNCHANGED <<stream, authorized, granted, foreign, kill>>, crashes' \in Nat
  PROVE  AuthorityInv'
  <1>1. Idle \in Call /\ Idle.pc = "idle"
    BY DEF Idle, Call
  <1>2. CallSound(Idle, stream, authorized)
    BY <1>1 DEF CallSound
  <1> QED
    BY <1>1, <1>2, QuietCall

\* A call starts with a safety reading.
LEMMA InvStart ==
  ASSUME AuthorityInv, NEW c \in Caller, Start(c)
  PROVE  AuthorityInv'
  <1>1. PICK id \in EventId, at \in Time :
          \/ \E loss \in BOOLEAN : StartRecord(c, id, at, loss)
          \/ StartRecover(c, id, at)
          \/ \E p \in Permit : StartPrepare(c, p, id, at)
          \/ \E i \in Of(stream, "prepared") : StartConsume(c, stream[i], id, at)
    BY DEF Start
  <1>2. crashes \in Nat /\ stream \in Seq(Event) /\ kill.active \in BOOLEAN
    BY DEF AuthorityInv, AuthorityTypeOK
  <1>3. ASSUME NEW op \in {"record", "recover", "prepare"}, NEW p \in Permit \cup {None},
               NEW breach \in BOOLEAN, op = "prepare" => p \in Permit,
               Becomes(c, [pc |-> "load", op |-> op, permit |-> p, id |-> id, at |-> at,
                           breach |-> breach]),
               UNCHANGED World
        PROVE  AuthorityInv'
    <2> DEFINE k == [pc |-> "load", op |-> op, permit |-> p, id |-> id, at |-> at,
                     breach |-> breach]
    <2>1. k \in Call /\ k.pc = "load" /\ k.op = op /\ k.permit = p
      BY DEF Call, Verified
    <2> HIDE DEF k
    <2>2. CallSound(k, stream, authorized)
      BY <1>3, <2>1 DEF CallSound, LoadSound
    <2> QED
      BY <1>2, <1>3, <2>1, <2>2, QuietCall DEF World, k
  <1>4. ASSUME NEW loss \in BOOLEAN, StartRecord(c, id, at, loss)
        PROVE  AuthorityInv'
    BY <1>2, <1>3, <1>4 DEF StartRecord
  <1>5. ASSUME StartRecover(c, id, at) PROVE AuthorityInv'
    BY <1>3, <1>5 DEF StartRecover
  <1>6. ASSUME NEW p \in Permit, StartPrepare(c, p, id, at)
        PROVE  AuthorityInv'
    BY <1>3, <1>6 DEF StartPrepare
  <1>7. ASSUME NEW i \in Of(stream, "prepared"), StartConsume(c, stream[i], id, at)
        PROVE  AuthorityInv'
    <2> DEFINE k == [pc |-> "load", op |-> "consume", ref |-> stream[i], id |-> id, at |-> at]
    <2>1. i \in DOMAIN stream /\ stream[i].type = "prepared" /\ stream[i] \in Event
      BY <1>2, LenProperties, ElementOfSeq DEF Of
    <2>2. stream[i].permit \in Permit
      BY <2>1 DEF AuthorityInv, WellFormed
    <2>3. k \in Call /\ k.pc = "load" /\ k.op = "consume" /\ k.ref = stream[i]
      BY <2>1 DEF Call, Consuming
    <2>4. Becomes(c, k) /\ UNCHANGED World
      BY <1>7 DEF StartConsume
    <2> HIDE DEF k
    <2>5. CallSound(k, stream, authorized)
      BY <2>2, <2>3 DEF CallSound, LoadSound
    <2> QED
      BY <1>2, <2>3, <2>4, <2>5, QuietCall DEF World
  <1> QED
    BY <1>1, <1>4, <1>5, <1>6, <1>7

\* The transition a call builds after the i-th event, or as the first one.
LEMMA TransitionFields ==
  ASSUME AuthorityInv, NEW id \in EventId, NEW at \in Time, NEW status \in {"ACTIVE", "HALTED"},
         NEW i \in {0} \cup DOMAIN stream
  PROVE  LET e == TransitionAfter(id, i, status, at)
         IN  /\ e \in Event /\ e.type = "transition" /\ e.status = status /\ e.at = at
             /\ e.gen = IF i = 0 THEN 1 ELSE stream[i].gen + 1
  <1>1. i # 0 => stream[i].gen \in Nat
    BY StreamElement DEF AuthorityInv
  <1> QED
    BY <1>1 DEF TransitionAfter, Event

\* record_global_halt_observation builds an event that fits.
LEMMA InvLoadRecord ==
  ASSUME AuthorityInv, NEW c \in Caller, LoadRecord(c)
  PROVE  AuthorityInv'
  <1> DEFINE k == call[c]
  <1>1. k \in Verified /\ k.at >= HeadAt(stream)
    BY CallForms DEF LoadRecord, Loading, AuthorityInv, AuthorityTypeOK
  <1>2. k.id \in EventId /\ k.at \in Time
    BY <1>1 DEF Verified
  <1>3. DOMAIN stream = 1 .. Len(stream)
    BY LenProperties DEF AuthorityInv, AuthorityTypeOK
  <1>4. ASSUME Of(stream, "transition") = {},
               NEW status \in {"ACTIVE", "HALTED"},
               ToAppend(c, TransitionAfter(k.id, 0, status, k.at), None)
        PROVE  AuthorityInv'
    <2> DEFINE e == TransitionAfter(k.id, 0, status, k.at)
    <2>1. e \in Event /\ e.type = "transition" /\ e.status = status /\ e.at = k.at /\ e.gen = 1
      BY <1>2, TransitionFields
    <2>2. ToAppend(c, e, None)
      BY <1>4
    <2> HIDE DEF e
    <2>3. Ready(stream, e)
      BY <1>1, <1>4, <2>1 DEF Ready, Admissible
    <2>4. WellFormed(e) /\ Recovers(e, authorized)
      BY <2>1 DEF WellFormed, Recovers
    <2> QED
      BY <2>1, <2>2, <2>3, <2>4, InvToAppend
  <1>5. ASSUME NEW i \in DOMAIN stream, Current(stream, i), stream[i].status = "ACTIVE",
               ToAppend(c, TransitionAfter(k.id, i, "HALTED", k.at), None)
        PROVE  AuthorityInv'
    <2> DEFINE e == TransitionAfter(k.id, i, "HALTED", k.at)
    <2>1. /\ e \in Event /\ e.type = "transition" /\ e.status = "HALTED" /\ e.at = k.at
          /\ e.gen = stream[i].gen + 1
      BY <1>2, <1>3, TransitionFields
    <2>2. ToAppend(c, e, None)
      BY <1>5
    <2> HIDE DEF e
    <2>3. Ready(stream, e)
      BY <1>1, <1>5, <2>1 DEF Ready, Admissible
    <2>4. WellFormed(e) /\ Recovers(e, authorized)
      BY <2>1 DEF WellFormed, Recovers
    <2> QED
      BY <2>1, <2>2, <2>3, <2>4, InvToAppend
  <1> QED
    BY <1>4, <1>5 DEF LoadRecord

\* recover_global_halt builds an event that fits, for a halt that was authorized.
LEMMA InvLoadRecover ==
  ASSUME AuthorityInv, NEW c \in Caller, LoadRecover(c)
  PROVE  AuthorityInv'
  <1> DEFINE k == call[c]
  <1>1. k \in Verified /\ k.at >= HeadAt(stream)
    BY CallForms DEF LoadRecover, Loading, AuthorityInv, AuthorityTypeOK
  <1>2. k.id \in EventId /\ k.at \in Time
    BY <1>1 DEF Verified
  <1>3. stream \in Seq(Event) /\ DOMAIN stream = 1 .. Len(stream)
    BY LenProperties DEF AuthorityInv, AuthorityTypeOK
  <1>4. PICK i \in DOMAIN stream :
          /\ Current(stream, i) /\ stream[i].status = "HALTED" /\ stream[i].gen \in authorized
          /\ ToAppend(c, TransitionAfter(k.id, i, "ACTIVE", k.at), None)
    BY DEF LoadRecover
  <1> DEFINE e == TransitionAfter(k.id, i, "ACTIVE", k.at)
  <1>5. /\ e \in Event /\ e.type = "transition" /\ e.status = "ACTIVE" /\ e.at = k.at
        /\ e.gen = stream[i].gen + 1
    BY <1>2, <1>3, TransitionFields
  <1>6. ToAppend(c, e, None)
    BY <1>4
  <1> HIDE DEF e
  <1>7. Ready(stream, e)
    BY <1>1, <1>4, <1>5 DEF Ready, Admissible
  <1>8. stream[i].gen \in Nat
    BY StreamElement DEF AuthorityInv
  <1>9. WellFormed(e) /\ Recovers(e, authorized)
    BY <1>4, <1>5, <1>8 DEF WellFormed, Recovers
  <1> QED
    BY <1>5, <1>6, <1>7, <1>9, InvToAppend

\* prepare_submit_permit builds an event that fits.
LEMMA InvLoadPrepare ==
  ASSUME AuthorityInv, NEW c \in Caller, LoadPrepare(c)
  PROVE  AuthorityInv'
  <1> DEFINE k == call[c]
  <1>1. k \in Verified /\ k.at >= HeadAt(stream) /\ ~Known(stream, k.permit)
    BY CallForms DEF LoadPrepare, Loading, AuthorityInv, AuthorityTypeOK
  <1>2. k.id \in EventId /\ k.at \in Time /\ k.permit \in Permit
    BY <1>1 DEF LoadPrepare, Loading, AuthorityInv, CallSound, LoadSound, Verified
  <1>3. PICK i \in DOMAIN stream :
          /\ ActiveGeneration(stream, stream[i].gen)
          /\ ToAppend(c, [ type |-> "prepared", id |-> k.id, permit |-> k.permit,
                           status |-> None, gen |-> stream[i].gen, at |-> k.at ], None)
    BY DEF LoadPrepare
  <1>4. stream[i].gen \in Nat
    BY StreamElement DEF AuthorityInv
  <1> DEFINE e == [ type |-> "prepared", id |-> k.id, permit |-> k.permit,
                    status |-> None, gen |-> stream[i].gen, at |-> k.at ]
  <1>5. /\ e \in Event /\ e.type = "prepared" /\ e.permit = k.permit /\ e.at = k.at
        /\ e.gen = stream[i].gen
    BY <1>2, <1>4 DEF Event
  <1>6. ToAppend(c, e, None)
    BY <1>3
  <1> HIDE DEF e
  <1>7. Ready(stream, e)
    BY <1>1, <1>3, <1>5 DEF Ready, Admissible
  <1>8. WellFormed(e) /\ Recovers(e, authorized)
    BY <1>2, <1>5 DEF WellFormed, Recovers
  <1> QED
    BY <1>5, <1>6, <1>7, <1>8, InvToAppend

\* What the checks before a consumption see is what replay asks of it.
LEMMA MayConsumeReady ==
  ASSUME NEW s \in Seq(Event), NEW ref \in Event, NEW e \in Event,
         e.type = "consumed", e.permit = ref.permit, e.gen = ref.gen,
         MayConsume(s, ref, e.at)
  PROVE  Ready(s, e)
  <1>1. PICK i \in Of(s, "prepared") : s[i] = ref
    BY DEF MayConsume, Open
  <1>2. i \in DOMAIN s /\ s[i].type = "prepared" /\ Open(s, s[i])
    BY <1>1 DEF MayConsume, Of
  <1> QED
    BY <1>1, <1>2 DEF Ready, Admissible, MayConsume

\* consume_submit_permit builds an event that fits.
LEMMA InvLoadConsume ==
  ASSUME AuthorityInv, NEW c \in Caller, LoadConsume(c)
  PROVE  AuthorityInv'
  <1> DEFINE k == call[c]
             e == [ type |-> "consumed", id |-> k.id, permit |-> k.ref.permit, status |-> None,
                    gen |-> k.ref.gen, at |-> k.at ]
  <1>1. k \in Consuming /\ MayConsume(stream, k.ref, k.at) /\ k.ref.permit \in Permit
    BY CallForms DEF LoadConsume, Loading, AuthorityInv, AuthorityTypeOK, CallSound, LoadSound
  <1>2. k.id \in EventId /\ k.at \in Time /\ k.ref \in Event /\ k.ref.gen \in Nat
    BY <1>1 DEF Consuming, Event
  <1>3. /\ e \in Event /\ e.type = "consumed" /\ e.permit = k.ref.permit /\ e.gen = k.ref.gen
        /\ e.at = k.at
    BY <1>1, <1>2 DEF Event
  <1>4. ToAppend(c, e, k.ref)
    BY DEF LoadConsume
  <1> HIDE DEF e
  <1>5. Ready(stream, e)
    BY <1>1, <1>2, <1>3, MayConsumeReady DEF AuthorityInv, AuthorityTypeOK
  <1>6. WellFormed(e) /\ Recovers(e, authorized)
    BY <1>1, <1>3 DEF WellFormed, Recovers
  <1> QED
    BY <1>2, <1>3, <1>4, <1>5, <1>6, InvToAppend

\* A conflict ends the call, or makes a consumption look at its cause.
LEMMA InvAppendConflicts ==
  ASSUME AuthorityInv, NEW c \in Caller, AppendConflicts(c)
  PROVE  AuthorityInv'
  <1> DEFINE k == call[c]
             m == [k EXCEPT !.pc = "reload"]
  <1>1. k \in Appending /\ CallSound(k, stream, authorized) /\ crashes \in Nat
    BY CallForms DEF AppendConflicts, Attempting, AuthorityInv, AuthorityTypeOK
  <1>2. UNCHANGED World
    BY DEF AppendConflicts
  <1>3. CASE k.event.type = "consumed" /\ k.pc = "append"
    <2>1. m \in Call /\ m.pc = "reload" /\ m.event = k.event /\ m.base = k.base /\ m.ref = k.ref
      BY <1>1 DEF Call, Appending
    <2>2. Becomes(c, m)
      BY <1>3 DEF AppendConflicts
    <2>3. CallSound(m, stream, authorized)
      BY <1>1, <1>3, <2>1 DEF CallSound, AppendSound
    <2> HIDE DEF m
    <2> QED
      BY <1>1, <1>2, <2>1, <2>2, <2>3, QuietCall DEF World
  <1>4. CASE ~(k.event.type = "consumed" /\ k.pc = "append")
    BY <1>1, <1>2, <1>4, InvToIdle DEF AppendConflicts, World
  <1> QED
    BY <1>3, <1>4

\* The second attempt is checked against the stream as it is now.
LEMMA InvRetryConsume ==
  ASSUME AuthorityInv, NEW c \in Caller, RetryConsume(c)
  PROVE  AuthorityInv'
  <1> DEFINE k == call[c]
             m == [k EXCEPT !.pc = "again", !.base = Len(stream), !.others = foreign]
  <1>1. /\ k \in Appending /\ CallSound(k, stream, authorized) /\ crashes \in Nat
        /\ k.pc = "reload"
    BY CallForms DEF RetryConsume, AuthorityInv, AuthorityTypeOK
  <1>2. Becomes(c, m) /\ UNCHANGED World /\ MayConsume(stream, k.ref, k.event.at)
    BY DEF RetryConsume
  <1>3. stream \in Seq(Event) /\ Len(stream) \in Nat /\ foreign \in Nat
    BY LenProperties DEF AuthorityInv, AuthorityTypeOK
  <1>4. /\ m \in Call /\ m.pc = "again" /\ m.event = k.event /\ m.base = Len(stream)
        /\ m.ref = k.ref
    BY <1>1, <1>3 DEF Call, Appending
  <1>5. /\ k.event \in Event /\ k.event.type = "consumed" /\ k.ref \in Event
        /\ k.ref.permit = k.event.permit /\ k.ref.gen = k.event.gen
    BY <1>1 DEF CallSound, AppendSound, Appending
  <1>6. Ready(stream, k.event)
    BY <1>2, <1>3, <1>5, MayConsumeReady
  <1> HIDE DEF m
  <1>7. Prefix(stream, m.base) = stream
    BY <1>3, <1>4, PrefixWhole
  <1>8. CallSound(m, stream, authorized)
    BY <1>1, <1>3, <1>4, <1>5, <1>6, <1>7 DEF CallSound, AppendSound
  <1> QED
    BY <1>1, <1>2, <1>4, <1>8, QuietCall DEF World

-----------------------------------------------------------------------------
(* The steps that change the stream, the authorizations or what was granted. *)

\* At the append, the event is one that replay accepts after the whole stream.
LEMMA InsertedIsAdmissible ==
  ASSUME AuthorityInv, NEW c \in Caller, Insert(c)
  PROVE  /\ call[c] \in Appending /\ call[c].event \in Event
         /\ AppendSound(call[c], stream, authorized)
         /\ Admissible(stream, call[c].event)
  <1> DEFINE k == call[c]
  <1>1. k.pc \in {"append", "again"} /\ ~Present(k) /\ ~Conflict(k)
    BY DEF Insert, Attempting
  <1>2. k \in Appending /\ AppendSound(k, stream, authorized)
    BY <1>1, CallForms DEF AuthorityInv, AuthorityTypeOK, CallSound
  <1>3. Len(stream) = k.base /\ \A i \in DOMAIN stream : stream[i].id # k.event.id
    BY <1>1 DEF Conflict
  <1>4. Prefix(stream, k.base) = stream
    BY <1>3, PrefixWhole DEF AuthorityInv, AuthorityTypeOK
  <1>5. Ready(stream, k.event)
    BY <1>1, <1>2, <1>4 DEF AppendSound
  <1> QED
    BY <1>2, <1>3, <1>5 DEF Ready, Appending

\* What replay asks of a consumption: its permit was not consumed before.
LEMMA FirstConsumption ==
  ASSUME NEW s, NEW e, Admissible(s, e), e.type = "consumed"
  PROVE  ~ConsumedPermit(s, e.permit)
  BY DEF Admissible, Open

\* The append: the stream stays replayable, the other calls stay sound, and the caller of a
\* consumption is the only one that reads it back.
LEMMA InvInsert ==
  ASSUME AuthorityInv, NEW c \in Caller, Insert(c)
  PROVE  AuthorityInv'
  <1> DEFINE k == call[c]
             e == k.event
             m == IF e.type = "consumed" THEN [pc |-> "readback", event |-> e] ELSE Idle
  <1>1. /\ k \in Appending /\ e \in Event /\ AppendSound(k, stream, authorized)
        /\ Admissible(stream, e)
    BY InsertedIsAdmissible
  <1>2. /\ stream' = Append(stream, e) /\ call' = [call EXCEPT ![c] = m]
        /\ UNCHANGED <<foreign, kill, authorized, granted, crashes>>
    BY DEF Insert, Becomes
  <1>3. stream \in Seq(Event) /\ call \in [Caller -> Call]
    BY DEF AuthorityInv, AuthorityTypeOK
  <1>4. /\ m \in Call
        /\ e.type = "consumed" => m.pc = "readback" /\ m.event = e
        /\ e.type # "consumed" => m.pc = "idle"
    BY <1>1 DEF Call, Idle, ReadingBack
  <1> HIDE DEF e, m
  <1>5. /\ call'[c] = m /\ \A d \in Caller \ {c} : call'[d] = call[d]
        /\ call' \in [Caller -> Call]
    BY <1>2, <1>3, <1>4
  <1>6. /\ stream' \in Seq(Event) /\ Len(stream) \in Nat
        /\ DOMAIN stream = 1 .. Len(stream) /\ DOMAIN stream' = 1 .. (Len(stream) + 1)
        /\ \A i \in DOMAIN stream : stream'[i] = stream[i]
        /\ stream'[Len(stream) + 1] = e
    BY <1>1, <1>2, <1>3, Appended
  <1>7. AuthorityTypeOK'
    BY <1>2, <1>5, <1>6 DEF AuthorityInv, AuthorityTypeOK
  <1>8. StreamReplays'
    BY <1>1, <1>2, <1>3, ReplaysAppended DEF AuthorityInv, StreamReplays
  <1>9. WellFormed(e) /\ Recovers(e, authorized)
    BY <1>1 DEF AppendSound, e
  <1>10. \A i \in DOMAIN stream' : i \in DOMAIN stream \/ i = Len(stream) + 1
    BY <1>6
  <1>11. \A i \in DOMAIN stream' : WellFormed(stream'[i])
    BY <1>6, <1>9, <1>10 DEF AuthorityInv
  <1>12. RecoveriesAuthorized'
    BY <1>2, <1>6, <1>9, <1>10 DEF AuthorityInv, RecoveriesAuthorized, Recovers, Of
  <1>13. \A p : ConsumedPermit(stream, p) => ConsumedPermit(stream', p)
    BY <1>1, <1>2, <1>3, ConsumedKept
  <1>14. AuthorityReturnedOnce'
    BY <1>2, <1>13 DEF AuthorityInv, AuthorityReturnedOnce
  <1>15. e.type = "consumed" =>
           e.permit \in Permit /\ ~ConsumedPermit(stream, e.permit)
           /\ ConsumedPermit(stream', e.permit)
    BY <1>1, <1>2, <1>3, <1>9, FirstConsumption, ConsumedNow DEF WellFormed
  <1>16. \A d \in Caller \ {c} : CallSound(call'[d], stream', authorized')
    BY <1>1, <1>2, <1>3, <1>5, CallSoundKept DEF AuthorityInv
  <1>17. CallSound(call'[c], stream', authorized')
    BY <1>4, <1>5, <1>15 DEF CallSound, ReadBackSound
  <1>18. ReadersSound'
    <2>1. \A d \in Caller \ {c} : call[d].pc = "readback" =>
            ConsumedPermit(stream, call[d].event.permit)
      BY DEF AuthorityInv, CallSound, ReadBackSound
    <2>2. e.type = "consumed" => granted[e.permit] = 0
      BY <1>15 DEF AuthorityInv, AuthorityTypeOK, AuthorityReturnedOnce
    <2> QED
      BY <1>2, <1>4, <1>5, <1>15, <2>1, <2>2 DEF AuthorityInv, ReadersSound
  <1> QED
    BY <1>7, <1>8, <1>11, <1>12, <1>14, <1>16, <1>17, <1>18 DEF AuthorityInv

\* The authority is returned to the only call that read its consumption back.
LEMMA InvReturnAuthority ==
  ASSUME AuthorityInv, NEW c \in Caller, ReturnAuthority(c)
  PROVE  AuthorityInv'
  <1> DEFINE p == call[c].event.permit
  <1>1. p \in Permit /\ granted[p] = 0 /\ call[c].pc = "readback" /\ ConsumedPermit(stream, p)
    BY DEF ReturnAuthority, AuthorityInv, CallSound, ReadBackSound, ReadersSound
  <1>2. granted \in [Permit -> Nat] /\ call \in [Caller -> Call]
    BY DEF AuthorityInv, AuthorityTypeOK
  <1>3. /\ granted' = [granted EXCEPT ![p] = granted[p] + 1]
        /\ call' = [call EXCEPT ![c] = Idle]
        /\ UNCHANGED <<stream, foreign, kill, authorized, crashes>>
    BY DEF ReturnAuthority, Becomes
  <1>4. \A d \in Caller \ {c} : call[d].pc = "readback" => call[d].event.permit # p
    BY <1>1 DEF AuthorityInv, ReadersSound
  <1> HIDE DEF p
  <1>5. Idle \in Call /\ Idle.pc = "idle"
    BY DEF Idle, Call
  <1>6. /\ granted' \in [Permit -> Nat] /\ granted'[p] = 1
        /\ \A q \in Permit \ {p} : granted'[q] = granted[q]
    BY <1>1, <1>2, <1>3
  <1>7. /\ call' \in [Caller -> Call] /\ call'[c] = Idle
        /\ \A d \in Caller \ {c} : call'[d] = call[d]
    BY <1>2, <1>3, <1>5
  <1>8. AuthorityTypeOK'
    BY <1>3, <1>6, <1>7 DEF AuthorityInv, AuthorityTypeOK
  <1>9. StreamReplays' /\ RecoveriesAuthorized' /\ \A i \in DOMAIN stream' : WellFormed(stream'[i])
    BY <1>3 DEF AuthorityInv, StreamReplays, RecoveriesAuthorized
  <1>10. \A d \in Caller : CallSound(call'[d], stream', authorized')
    BY <1>3, <1>5, <1>7 DEF AuthorityInv, CallSound
  <1>11. \A d \in Caller : call[d].pc = "readback" => call[d].event.permit \in Permit
    BY DEF AuthorityInv, CallSound, ReadBackSound
  <1>12. ReadersSound'
    BY <1>4, <1>5, <1>6, <1>7, <1>11 DEF AuthorityInv, ReadersSound
  <1>13. AuthorityReturnedOnce'
    BY <1>1, <1>3, <1>6 DEF AuthorityInv, AuthorityReturnedOnce
  <1> QED
    BY <1>8, <1>9, <1>10, <1>12, <1>13 DEF AuthorityInv

\* The operator's authorizations only grow.
LEMMA InvAuthorize ==
  ASSUME AuthorityInv, Authorize
  PROVE  AuthorityInv'
  <1>1. PICK i \in DOMAIN stream : authorized' = authorized \cup {stream[i].gen}
    BY DEF Authorize
  <1>2. UNCHANGED <<stream, foreign, kill, call, granted, crashes>>
    BY DEF Authorize
  <1>3. AuthorityTypeOK'
    BY <1>1, <1>2, StreamElement DEF AuthorityInv, AuthorityTypeOK
  <1>4. \A c \in Caller : CallSound(call'[c], stream', authorized')
    BY <1>1, <1>2 DEF AuthorityInv, CallSound, AppendSound, Recovers
  <1>5. RecoveriesAuthorized'
    BY <1>1, <1>2 DEF AuthorityInv, RecoveriesAuthorized
  <1> QED
    BY <1>2, <1>3, <1>4, <1>5 DEF AuthorityInv, StreamReplays, ReadersSound, AuthorityReturnedOnce

\* The kill switch and the other streams are not what the invariant is about.
LEMMA InvEnvironment ==
  ASSUME AuthorityInv, SetKillSwitch \/ OtherStreamAppends
  PROVE  AuthorityInv'
  <1>1. UNCHANGED <<stream, authorized, call, granted, crashes>>
    BY DEF SetKillSwitch, OtherStreamAppends
  <1>2. foreign' \in Nat /\ kill' \in [active : BOOLEAN, changes : Nat]
    <2>1. foreign \in Nat /\ kill \in [active : BOOLEAN, changes : Nat]
      BY DEF AuthorityInv, AuthorityTypeOK
    <2>2. (~kill.active) \in BOOLEAN /\ kill.changes + 1 \in Nat
      BY <2>1
    <2>3. CASE SetKillSwitch
      BY <2>1, <2>2, <2>3 DEF SetKillSwitch
    <2>4. CASE OtherStreamAppends
      BY <2>1, <2>4 DEF OtherStreamAppends
    <2> QED
      BY <2>3, <2>4
  <1>3. AuthorityTypeOK'
    BY <1>1, <1>2 DEF AuthorityInv, AuthorityTypeOK
  <1> QED
    BY <1>1, <1>3 DEF AuthorityInv, StreamReplays, RecoveriesAuthorized,
                      ReadersSound, AuthorityReturnedOnce

\* Every step of a call keeps the invariant.
LEMMA InvStep ==
  ASSUME AuthorityInv, NEW c \in Caller, Step(c)
  PROVE  AuthorityInv'
  <1>1. ASSUME Done(c) PROVE AuthorityInv'
    BY <1>1, InvToIdle DEF Done, World, AuthorityInv, AuthorityTypeOK
  <1>2. CASE LoadedWithoutAppend(c) \/ FindPresent(c) \/ GiveUpConsume(c)
    BY <1>1, <1>2 DEF LoadedWithoutAppend, FindPresent, GiveUpConsume
  <1> QED
    BY <1>2, InvLoadRecord, InvLoadRecover, InvLoadPrepare, InvLoadConsume, InvInsert,
       InvAppendConflicts, InvRetryConsume, InvReturnAuthority DEF Step

\* A call may die anywhere.
LEMMA InvCrash ==
  ASSUME AuthorityInv, NEW c \in Caller, Crash(c)
  PROVE  AuthorityInv'
  <1>1. crashes' \in Nat
    BY DEF Crash, AuthorityInv, AuthorityTypeOK
  <1> QED
    BY <1>1, InvToIdle DEF Crash

\* Every behaviour of the callers and their environment satisfies the inductive invariant.
THEOREM AuthoritySafety == AuthoritySpec => []AuthorityInv
  <1>1. AuthorityInv /\ [AuthorityNext]_authorityVars => AuthorityInv'
    <2> SUFFICES ASSUME AuthorityInv, [AuthorityNext]_authorityVars PROVE AuthorityInv'
      OBVIOUS
    <2>1. CASE UNCHANGED authorityVars
      BY <2>1 DEF authorityVars, AuthorityInv, AuthorityTypeOK, StreamReplays,
                  RecoveriesAuthorized, ReadersSound, AuthorityReturnedOnce
    <2>2. CASE AuthorityNext
      BY <2>2, InvStart, InvStep, InvCrash, InvAuthorize, InvEnvironment DEF AuthorityNext
    <2> QED
      BY <2>1, <2>2
  <1> QED
    BY <1>1, AuthorityInitInv, PTL DEF AuthoritySpec

-----------------------------------------------------------------------------
(* What the invariant says of the permits.                                  *)

\* The stream and the calls keep their types.
THEOREM AuthorityTypeCorrect == AuthoritySpec => []AuthorityTypeOK
  <1>1. AuthorityInv => AuthorityTypeOK
    BY DEF AuthorityInv
  <1> QED
    BY <1>1, AuthoritySafety, PTL

\* No interleaving of callers leaves a stream that replay_global_halt_authority refuses.
THEOREM StreamAlwaysReplays == AuthoritySpec => []StreamReplays
  <1>1. AuthorityInv => StreamReplays
    BY DEF AuthorityInv
  <1> QED
    BY <1>1, AuthoritySafety, PTL

\* consume_submit_permit returns the authority of a permit to one caller, once.
THEOREM ReturnedOnce == AuthoritySpec => []AuthorityReturnedOnce
  <1>1. AuthorityInv => AuthorityReturnedOnce
    BY DEF AuthorityInv
  <1> QED
    BY <1>1, AuthoritySafety, PTL

\* recover_global_halt ends a halt only under the authorization issued for it.
THEOREM AuthorizedRecoveries == AuthoritySpec => []RecoveriesAuthorized
  <1>1. AuthorityInv => RecoveriesAuthorized
    BY DEF AuthorityInv
  <1> QED
    BY <1>1, AuthoritySafety, PTL

\* In a stream that replays, a consumption follows the open preparation of its permit.
LEMMA ConsumptionFollows ==
  ASSUME NEW s \in Seq(Event), Replays(s), NEW i \in Of(s, "consumed")
  PROVE  /\ \A j \in Of(s, "consumed") : j < i => s[j].permit # s[i].permit
         /\ \E j \in Of(s, "prepared") :
              /\ j < i /\ s[j].permit = s[i].permit
              /\ s[i].at - s[j].at \in 0 .. PermitTTL
              /\ \A t \in Of(s, "transition") : t < j \/ i < t
  <1> DEFINE q == Prefix(s, i - 1)
  <1>1. DOMAIN s = 1 .. Len(s) /\ Len(s) \in Nat /\ i \in 1 .. Len(s) /\ s[i].type = "consumed"
    BY LenProperties DEF Of
  <1>2. i - 1 \in 0 .. Len(s)
    BY <1>1
  <1>3. DOMAIN q = 1 .. (i - 1) /\ \A j \in 1 .. (i - 1) : q[j] = s[j]
    BY <1>2, PrefixElements
  <1>4. Admissible(q, s[i])
    BY <1>1 DEF Replays
  <1> HIDE DEF q
  <1>5. PICK m \in DOMAIN q :
          /\ Open(q, q[m]) /\ q[m].permit = s[i].permit
          /\ q[m].at <= s[i].at /\ s[i].at <= q[m].at + PermitTTL
    BY <1>1, <1>4 DEF Admissible
  <1>6. PICK j \in Of(q, "prepared") : q[j] = q[m] /\ \A t \in Of(q, "transition") : t < j
    BY <1>5 DEF Open
  <1>7. /\ j \in 1 .. (i - 1) /\ s[j].type = "prepared" /\ s[j] = q[m] /\ j \in Of(s, "prepared")
        /\ j < i
    BY <1>1, <1>3, <1>6 DEF Of
  <1>8. s[i].at \in Nat /\ s[j].at \in Nat
    <2>1. s[i] \in Event /\ s[j] \in Event
      BY <1>1, <1>7, ElementOfSeq
    <2> QED
      BY <2>1, AuthorityAssumption DEF Event, Time
  <1>9. s[i].at - s[j].at \in 0 .. PermitTTL
    BY <1>5, <1>7, <1>8, AuthorityAssumption
  <1>10. ASSUME NEW t \in Of(s, "transition") PROVE t < j \/ i < t
    <2>1. t \in 1 .. Len(s) /\ t # i /\ s[t].type = "transition"
      BY <1>1 DEF Of
    <2>2. CASE t < i
      BY <1>1, <1>3, <1>6, <2>1, <2>2 DEF Of
    <2> QED
      BY <1>1, <2>1, <2>2
  <1>11. ASSUME NEW t \in Of(s, "consumed"), t < i PROVE s[t].permit # s[i].permit
    <2>1. t \in Of(q, "consumed") /\ q[t] = s[t]
      BY <1>1, <1>3, <1>11 DEF Of
    <2>2. ~ConsumedPermit(q, s[i].permit)
      BY <1>5 DEF Open
    <2> QED
      BY <2>1, <2>2 DEF ConsumedPermit
  <1> QED
    BY <1>5, <1>7, <1>9, <1>10, <1>11

\* A consumption is alone for its permit, within its lifetime, with no rotation in between.
THEOREM JustifiedConsumptions == AuthoritySpec => []ConsumptionsJustified
  <1>1. AuthorityInv => ConsumptionsJustified
    <2> SUFFICES ASSUME AuthorityInv PROVE ConsumptionsJustified
      OBVIOUS
    <2>1. stream \in Seq(Event) /\ Replays(stream)
      BY DEF AuthorityInv, AuthorityTypeOK, StreamReplays
    <2>2. ASSUME NEW i \in Of(stream, "consumed"), NEW j \in Of(stream, "consumed"),
                 stream[j].permit = stream[i].permit
          PROVE  j = i
      <3>1. ~(j < i) /\ ~(i < j)
        BY <2>1, <2>2, ConsumptionFollows
      <3>2. i \in Nat /\ j \in Nat
        BY <2>1, LenProperties DEF Of
      <3> QED
        BY <3>1, <3>2
    <2> QED
      BY <2>1, <2>2, ConsumptionFollows DEF ConsumptionsJustified
  <1> QED
    BY <1>1, AuthoritySafety, PTL

-----------------------------------------------------------------------------
(* The stream implements SubmitPermits.                                     *)

\* The halt state is the status of the last transition.
LEMMA StatusIs ==
  ASSUME NEW s \in Seq(Event), NEW i \in DOMAIN s, Current(s, i)
  PROVE  StatusOf(s) = s[i].status
  <1>1. DOMAIN s = 1 .. Len(s) /\ Len(s) \in Nat
    BY LenProperties
  <1>2. Of(s, "transition") # {}
    BY DEF Current
  <1> DEFINE m == CHOOSE j \in DOMAIN s : Current(s, j)
  <1>3. m \in DOMAIN s /\ Current(s, m)
    OBVIOUS
  <1>4. m = i
    BY <1>1, <1>3 DEF Current, Of
  <1> QED
    BY <1>2, <1>4 DEF StatusOf

\* What an append does to the events of a type.
LEMMA OfAppended ==
  ASSUME NEW s \in Seq(Event), NEW e \in Event, NEW type
  PROVE  /\ Of(Append(s, e), type) =
              (IF e.type = type THEN Of(s, type) \cup {Len(s) + 1} ELSE Of(s, type))
         /\ \A i \in Of(s, type) : Append(s, e)[i] = s[i] /\ i < Len(s) + 1 /\ i \in DOMAIN s
         /\ Append(s, e)[Len(s) + 1] = e
  <1>1. /\ DOMAIN s = 1 .. Len(s) /\ DOMAIN Append(s, e) = 1 .. (Len(s) + 1) /\ Len(s) \in Nat
        /\ \A i \in 1 .. Len(s) : Append(s, e)[i] = s[i]
        /\ Append(s, e)[Len(s) + 1] = e
    BY Appended
  <1> DEFINE t == Append(s, e)
  <1> HIDE DEF t
  <1>2. \A i : i \in DOMAIN t <=> i \in DOMAIN s \/ i = Len(s) + 1
    BY <1>1 DEF t
  <1>3. \A i : i \in Of(t, type) <=> i \in Of(s, type) \/ (i = Len(s) + 1 /\ e.type = type)
    BY <1>1, <1>2 DEF Of, t
  <1>4. Of(t, type) = (IF e.type = type THEN Of(s, type) \cup {Len(s) + 1} ELSE Of(s, type))
    BY <1>3
  <1> QED
    BY <1>1, <1>4 DEF Of, t

\* A stream with a prepared or a consumed event has a transition before it, and a consumed
\* permit was prepared.
LEMMA ReplayedEvents ==
  ASSUME NEW s \in Seq(Event), Replays(s)
  PROVE  /\ \A i \in Of(s, "prepared") : Of(s, "transition") # {}
         /\ \A p : ConsumedPermit(s, p) => Known(s, p)
  <1>1. ASSUME NEW i \in Of(s, "prepared") PROVE Of(s, "transition") # {}
    <2> DEFINE q == Prefix(s, i - 1)
    <2>1. DOMAIN s = 1 .. Len(s) /\ Len(s) \in Nat /\ i \in 1 .. Len(s) /\ s[i].type = "prepared"
      BY LenProperties DEF Of
    <2>2. i - 1 \in 0 .. Len(s)
      BY <2>1
    <2>3. DOMAIN q = 1 .. (i - 1) /\ \A j \in 1 .. (i - 1) : q[j] = s[j]
      BY <2>2, PrefixElements
    <2>4. Admissible(q, s[i])
      BY <2>1 DEF Replays
    <2> HIDE DEF q
    <2>5. PICK j \in DOMAIN q : Current(q, j)
      BY <2>1, <2>4 DEF Admissible, ActiveGeneration
    <2>6. j \in Of(s, "transition")
      BY <2>1, <2>3, <2>5 DEF Current, Of
    <2> QED
      BY <2>6
  <1>2. ASSUME NEW p, ConsumedPermit(s, p) PROVE Known(s, p)
    <2>1. PICK i \in Of(s, "consumed") : s[i].permit = p
      BY <1>2 DEF ConsumedPermit
    <2> QED
      BY <2>1, ConsumptionFollows DEF Known
  <1> QED
    BY <1>1, <1>2

\* The preparation of a permit that is neither consumed nor retired.
Prepared(s, p) == \E i \in Of(s, "prepared") : s[i].permit = p /\ Open(s, s[i])

\* PermitOf in its cases, with what Open asks spelled out.
LEMMA PermitCases ==
  ASSUME NEW s, NEW p
  PROVE  /\ PermitOf(s, p) = IF ConsumedPermit(s, p) THEN "CONSUMED"
                             ELSE IF Prepared(s, p) THEN "PREPARED"
                             ELSE IF Known(s, p) THEN "RETIRED" ELSE "NEW"
         /\ Prepared(s, p) <=>
              /\ ~ConsumedPermit(s, p)
              /\ \E i \in Of(s, "prepared") :
                   s[i].permit = p /\ \A j \in Of(s, "transition") : j < i
         /\ Prepared(s, p) => Known(s, p)
  <1>1. PermitOf(s, p) = IF ConsumedPermit(s, p) THEN "CONSUMED"
                         ELSE IF Prepared(s, p) THEN "PREPARED"
                         ELSE IF Known(s, p) THEN "RETIRED" ELSE "NEW"
    BY DEF PermitOf, Prepared
  <1>2. ASSUME Prepared(s, p)
        PROVE  /\ ~ConsumedPermit(s, p)
               /\ \E i \in Of(s, "prepared") :
                    s[i].permit = p /\ \A j \in Of(s, "transition") : j < i
    BY <1>2 DEF Prepared, Open
  <1>3. ASSUME ~ConsumedPermit(s, p), NEW i \in Of(s, "prepared"), s[i].permit = p,
               \A j \in Of(s, "transition") : j < i
        PROVE  Prepared(s, p)
    BY <1>3 DEF Prepared, Open
  <1> QED
    BY <1>1, <1>2, <1>3 DEF Prepared, Known

\* A transition retires the permits that were open and changes nothing else.
LEMMA PermitsAfterTransition ==
  ASSUME NEW s \in Seq(Event), NEW e \in Event, e.type = "transition", NEW p
  PROVE  PermitOf(Append(s, e), p) =
           IF PermitOf(s, p) = "PREPARED" THEN "RETIRED" ELSE PermitOf(s, p)
  <1> DEFINE t == Append(s, e)
  <1>1. ConsumedPermit(t, p) <=> ConsumedPermit(s, p)
    BY OfAppended DEF ConsumedPermit
  <1>2. Known(t, p) <=> Known(s, p)
    BY OfAppended DEF Known
  <1>3. ~Prepared(t, p)
    <2>1. Len(s) + 1 \in Of(t, "transition")
      BY OfAppended
    <2>2. \A i \in Of(t, "prepared") : i < Len(s) + 1 /\ i \in Nat
      BY OfAppended, LenProperties
    <2>3. Len(s) \in Nat
      BY LenProperties
    <2> HIDE DEF t
    <2> QED
      BY <2>1, <2>2, <2>3, PermitCases
  <1> HIDE DEF t
  <1> QED
    BY <1>1, <1>2, <1>3, PermitCases DEF t

\* A preparation opens its permit and changes no other.
LEMMA PermitsAfterPreparation ==
  ASSUME NEW s \in Seq(Event), NEW e \in Event, e.type = "prepared", NEW p,
         ~ConsumedPermit(s, e.permit)
  PROVE  PermitOf(Append(s, e), p) = IF p = e.permit THEN "PREPARED" ELSE PermitOf(s, p)
  <1> DEFINE t == Append(s, e)
  <1>1. ConsumedPermit(t, p) <=> ConsumedPermit(s, p)
    BY OfAppended DEF ConsumedPermit
  <1>2. /\ Of(t, "transition") = Of(s, "transition")
        /\ Of(t, "prepared") = Of(s, "prepared") \cup {Len(s) + 1}
        /\ t[Len(s) + 1] = e
        /\ \A i \in Of(s, "prepared") : t[i] = s[i]
        /\ \A i \in Of(s, "transition") : i < Len(s) + 1
    BY OfAppended
  <1> HIDE DEF t
  <1>3. p # e.permit => (Known(t, p) <=> Known(s, p))
    BY <1>2 DEF Known
  <1>4. p # e.permit => (Prepared(t, p) <=> Prepared(s, p))
    BY <1>1, <1>2, PermitCases
  <1>5. p = e.permit => Prepared(t, p)
    BY <1>1, <1>2, PermitCases
  <1> QED
    BY <1>1, <1>3, <1>4, <1>5, PermitCases DEF t

\* A consumption uses its permit up and changes no other.
LEMMA PermitsAfterConsumption ==
  ASSUME NEW s \in Seq(Event), NEW e \in Event, e.type = "consumed", NEW p
  PROVE  PermitOf(Append(s, e), p) = IF p = e.permit THEN "CONSUMED" ELSE PermitOf(s, p)
  <1> DEFINE t == Append(s, e)
  <1>1. /\ Of(t, "transition") = Of(s, "transition")
        /\ Of(t, "prepared") = Of(s, "prepared")
        /\ Of(t, "consumed") = Of(s, "consumed") \cup {Len(s) + 1}
        /\ t[Len(s) + 1] = e
        /\ \A i \in Of(s, "prepared") : t[i] = s[i]
        /\ \A i \in Of(s, "consumed") : t[i] = s[i]
    BY OfAppended
  <1> HIDE DEF t
  <1>2. ConsumedPermit(t, p) <=> ConsumedPermit(s, p) \/ p = e.permit
    BY <1>1 DEF ConsumedPermit
  <1>3. Known(t, p) <=> Known(s, p)
    BY <1>1 DEF Known
  <1>4. p # e.permit => (Prepared(t, p) <=> Prepared(s, p))
    BY <1>1, <1>2, PermitCases
  <1> QED
    BY <1>2, <1>3, <1>4, PermitCases DEF t

\* The halt state changes with a transition and with nothing else.
LEMMA StatusAfter ==
  ASSUME NEW s \in Seq(Event), NEW e \in Event, Admissible(s, e)
  PROVE  /\ e.type = "transition" => StatusOf(Append(s, e)) = e.status
         /\ e.type # "transition" =>
              StatusOf(s) = "ACTIVE" /\ StatusOf(Append(s, e)) = "ACTIVE"
  <1> DEFINE t == Append(s, e)
  <1>1. t \in Seq(Event) /\ DOMAIN s \subseteq DOMAIN t /\ Len(s) + 1 \in DOMAIN t
    BY Appended
  <1>2. CASE e.type = "transition"
    <2>1. /\ Of(t, "transition") = Of(s, "transition") \cup {Len(s) + 1}
          /\ t[Len(s) + 1] = e
          /\ \A i \in Of(s, "transition") : i < Len(s) + 1 /\ i \in DOMAIN s
          /\ DOMAIN s = 1 .. Len(s) /\ Len(s) \in Nat
      BY <1>2, OfAppended, LenProperties
    <2> HIDE DEF t
    <2>2. Current(t, Len(s) + 1)
      BY <2>1 DEF Current
    <2>3. StatusOf(t) = e.status
      BY <1>1, <2>1, <2>2, StatusIs
    <2> QED
      BY <1>2, <2>3 DEF t
  <1>3. CASE e.type # "transition"
    <2>1. PICK i \in DOMAIN s : Current(s, i) /\ s[i].status = "ACTIVE"
      BY <1>3 DEF Admissible, ActiveGeneration
    <2>2. Of(t, "transition") = Of(s, "transition") /\ t[i] = s[i] /\ i \in DOMAIN t
      BY <1>1, <1>3, <2>1, OfAppended DEF Current
    <2> HIDE DEF t
    <2>3. Current(t, i)
      BY <2>1, <2>2 DEF Current
    <2>4. StatusOf(t) = "ACTIVE" /\ StatusOf(s) = "ACTIVE"
      BY <1>1, <2>1, <2>2, <2>3, StatusIs
    <2> QED
      BY <1>3, <2>4 DEF t
  <1> QED
    BY <1>2, <1>3

\* The abstract state of the refinement mapping.
PermitsBar == [p \in Permit |-> PermitOf(stream, p)]
HandedOutBar == {p \in Permit : granted[p] > 0}

\* A step that leaves the stream and what was granted alone is no step of the promise.
LEMMA PromiseStutter ==
  ASSUME UNCHANGED <<stream, granted>>
  PROVE  UNCHANGED Promise!permitVars
  BY DEF Promise!permitVars

\* The first transition initializes the promise, a later one rotates it.
LEMMA PromiseTransition ==
  ASSUME AuthorityInv, NEW e \in Event, e.type = "transition", WellFormed(e),
         Admissible(stream, e), stream' = Append(stream, e), UNCHANGED granted
  PROVE  Promise!PermitsNext
  <1>1. stream \in Seq(Event) /\ Replays(stream)
    BY DEF AuthorityInv, AuthorityTypeOK, StreamReplays
  <1>2. e.status \in {"ACTIVE", "HALTED"} /\ StatusOf(stream') = e.status
    BY <1>1, StatusAfter DEF WellFormed
  <1>3. PermitsBar' = [p \in Permit |-> IF PermitOf(stream, p) = "PREPARED" THEN "RETIRED"
                                        ELSE PermitOf(stream, p)]
    BY <1>1, PermitsAfterTransition DEF PermitsBar
  <1>4. HandedOutBar' = HandedOutBar
    BY DEF HandedOutBar
  <1>5. CASE Of(stream, "transition") = {}
    <2>1. StatusOf(stream) = "UNINITIALIZED"
      BY <1>5 DEF StatusOf
    <2>2. \A p \in Permit : PermitOf(stream, p) # "PREPARED"
      BY <1>1, <1>5, ReplayedEvents, PermitCases DEF Prepared
    <2>3. PermitsBar' = PermitsBar
      BY <1>3, <2>2 DEF PermitsBar
    <2>4. Promise!Initialize
      BY <1>2, <1>4, <2>1, <2>3 DEF Promise!Initialize, PermitsBar, HandedOutBar
    <2> QED
      BY <2>4 DEF Promise!PermitsNext
  <1>6. CASE Of(stream, "transition") # {}
    <2>1. PICK i \in DOMAIN stream : Current(stream, i) /\ e.status # stream[i].status
      BY <1>6 DEF Admissible
    <2>2. stream[i].status \in {"ACTIVE", "HALTED"}
      BY <2>1 DEF AuthorityInv, WellFormed, Current, Of
    <2>3. StatusOf(stream) = stream[i].status
      BY <1>1, <2>1, StatusIs
    <2>4. Promise!Rotate
      BY <1>2, <1>3, <1>4, <2>1, <2>2, <2>3 DEF Promise!Rotate, PermitsBar, HandedOutBar
    <2> QED
      BY <2>4 DEF Promise!PermitsNext
  <1> QED
    BY <1>5, <1>6

\* The event of a preparation is the promise's Prepare.
LEMMA PromisePreparation ==
  ASSUME AuthorityInv, NEW e \in Event, e.type = "prepared", e.permit \in Permit,
         Admissible(stream, e), stream' = Append(stream, e), UNCHANGED granted
  PROVE  Promise!PermitsNext
  <1>1. stream \in Seq(Event) /\ Replays(stream)
    BY DEF AuthorityInv, AuthorityTypeOK, StreamReplays
  <1>2. StatusOf(stream) = "ACTIVE" /\ StatusOf(stream') = "ACTIVE"
    BY <1>1, StatusAfter
  <1>3. ~Known(stream, e.permit) /\ ~ConsumedPermit(stream, e.permit)
    BY <1>1, ReplayedEvents DEF Admissible
  <1>4. PermitOf(stream, e.permit) = "NEW"
    BY <1>3, PermitCases
  <1>5. PermitsBar' = [PermitsBar EXCEPT ![e.permit] = "PREPARED"]
    BY <1>1, <1>3, PermitsAfterPreparation DEF PermitsBar
  <1>6. HandedOutBar' = HandedOutBar
    BY DEF HandedOutBar
  <1>7. Promise!Prepare(e.permit)
    BY <1>2, <1>4, <1>5, <1>6 DEF Promise!Prepare, PermitsBar, HandedOutBar
  <1> QED
    BY <1>7 DEF Promise!PermitsNext

\* The event of a consumption is the promise's Consume.
LEMMA PromiseConsumption ==
  ASSUME AuthorityInv, NEW e \in Event, e.type = "consumed", e.permit \in Permit,
         Admissible(stream, e), stream' = Append(stream, e), UNCHANGED granted
  PROVE  Promise!PermitsNext
  <1>1. stream \in Seq(Event)
    BY DEF AuthorityInv, AuthorityTypeOK
  <1>2. StatusOf(stream) = "ACTIVE" /\ StatusOf(stream') = "ACTIVE"
    BY <1>1, StatusAfter
  <1>3. Prepared(stream, e.permit) /\ ~ConsumedPermit(stream, e.permit)
    BY DEF Admissible, Prepared, Of, Open
  <1>4. PermitOf(stream, e.permit) = "PREPARED"
    BY <1>3, PermitCases
  <1>5. PermitsBar' = [PermitsBar EXCEPT ![e.permit] = "CONSUMED"]
    BY <1>1, PermitsAfterConsumption DEF PermitsBar
  <1>6. HandedOutBar' = HandedOutBar
    BY DEF HandedOutBar
  <1>7. Promise!Consume(e.permit)
    BY <1>2, <1>4, <1>5, <1>6 DEF Promise!Consume, PermitsBar, HandedOutBar
  <1> QED
    BY <1>7 DEF Promise!PermitsNext

\* Returning the authority is the promise's HandOut.
LEMMA PromiseHandOut ==
  ASSUME AuthorityInv, NEW c \in Caller, ReturnAuthority(c)
  PROVE  Promise!PermitsNext
  <1>1. PICK p \in Permit : p = call[c].event.permit
    BY DEF ReturnAuthority, AuthorityInv, CallSound, ReadBackSound
  <1>2. granted[p] = 0 /\ ConsumedPermit(stream, p)
    BY <1>1 DEF ReturnAuthority, AuthorityInv, ReadersSound
  <1>3. granted' = [granted EXCEPT ![p] = granted[p] + 1] /\ UNCHANGED stream
    BY <1>1 DEF ReturnAuthority
  <1>4. granted \in [Permit -> Nat]
    BY DEF AuthorityInv, AuthorityTypeOK
  <1>5. HandedOutBar' = HandedOutBar \cup {p} /\ p \notin HandedOutBar
    BY <1>2, <1>3, <1>4 DEF HandedOutBar
  <1>6. PermitOf(stream, p) = "CONSUMED"
    BY <1>2 DEF PermitOf
  <1>7. Promise!HandOut(p)
    BY <1>2, <1>3, <1>5, <1>6 DEF Promise!HandOut, PermitsBar, HandedOutBar
  <1> QED
    BY <1>7 DEF Promise!PermitsNext

\* Every step is a step of the promise or none.
LEMMA PromiseStep ==
  ASSUME AuthorityInv, [AuthorityNext]_authorityVars
  PROVE  [Promise!PermitsNext]_(Promise!permitVars)
  <1>1. CASE UNCHANGED <<stream, granted>>
    BY <1>1, PromiseStutter
  <1>2. ASSUME NEW c \in Caller, Insert(c) PROVE Promise!PermitsNext
    <2> DEFINE e == call[c].event
    <2>1. e \in Event /\ AppendSound(call[c], stream, authorized) /\ Admissible(stream, e)
      BY <1>2, InsertedIsAdmissible
    <2>2. stream' = Append(stream, e) /\ UNCHANGED granted
      BY <1>2 DEF Insert
    <2>3. WellFormed(e) /\ e.type \in {"transition", "prepared", "consumed"}
      BY <2>1 DEF AppendSound, Event
    <2> HIDE DEF e
    <2> QED
      BY <2>1, <2>2, <2>3, PromiseTransition, PromisePreparation, PromiseConsumption
         DEF WellFormed
  <1>3. ASSUME NEW c \in Caller, Start(c) \/ Crash(c) PROVE UNCHANGED <<stream, granted>>
    BY <1>3 DEF Start, StartRecord, StartRecover, StartPrepare, StartConsume, Crash, World
  <1>4. ASSUME NEW c \in Caller, Step(c), ~Insert(c), ~ReturnAuthority(c)
        PROVE  UNCHANGED <<stream, granted>>
    BY <1>4 DEF Step, LoadRecord, LoadRecover, LoadPrepare, LoadConsume, LoadedWithoutAppend,
                FindPresent, AppendConflicts, RetryConsume, GiveUpConsume, ToAppend, Done, World
  <1>5. ASSUME SetKillSwitch \/ Authorize \/ OtherStreamAppends
        PROVE  UNCHANGED <<stream, granted>>
    BY <1>5 DEF SetKillSwitch, Authorize, OtherStreamAppends
  <1>6. CASE UNCHANGED authorityVars
    BY <1>1, <1>6 DEF authorityVars
  <1>7. CASE AuthorityNext
    BY <1>1, <1>2, <1>3, <1>4, <1>5, <1>7, PromiseHandOut DEF AuthorityNext
  <1> QED
    BY <1>6, <1>7

\* For every instance: the ledger stream, the compare-and-append and the retry of a lost race
\* implement the permits that SubmitPermits promises.
THEOREM PermitsRefinement == AuthoritySpec => PermitsPromise
  <1>1. AuthorityInit => Promise!PermitsInit
    <2> SUFFICES ASSUME AuthorityInit PROVE Promise!PermitsInit
      OBVIOUS
    <2>1. \A type : Of(stream, type) = {}
      BY DEF AuthorityInit, Of
    <2>2. StatusOf(stream) = "UNINITIALIZED"
      BY <2>1 DEF StatusOf
    <2>3. \A p \in Permit : PermitOf(stream, p) = "NEW"
      BY <2>1 DEF PermitOf, ConsumedPermit, Known
    <2>4. HandedOutBar = {}
      BY DEF AuthorityInit, HandedOutBar
    <2> QED
      BY <2>2, <2>3, <2>4 DEF Promise!PermitsInit, HandedOutBar
  <1> QED
    BY <1>1, PromiseStep, AuthoritySafety, PTL
       DEF AuthoritySpec, PermitsPromise, Promise!PermitsSpec
=============================================================================
