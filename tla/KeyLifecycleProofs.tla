------------------------- MODULE KeyLifecycleProofs -------------------------
(***************************************************************************)
(* Proofs about KeyLifecycle, for any set of interactions, number of days, *)
(* of commands and of dashboard calls.                                     *)
(***************************************************************************)
EXTENDS KeyLifecycle, FiniteSetTheorems, TLAPS

-----------------------------------------------------------------------------
(* The inductive invariants. *)

Begun == {t \in Task : Busy(t)}
AboutToCreate == {t \in Task : At(t, "channel")}

\* Every channel is the work of a command of its own; what names one names one that was
\* created.
CountSound ==
  /\ IsFiniteSet(Begun) /\ created + Cardinality(AboutToCreate) <= ops
  /\ user.channel <= created
  /\ \A t \in Task : /\ handler[t].channel <= created
                     /\ At(t, "insert") => ~handler[t].existing
                     /\ At(t, "update") => handler[t].existing
                     /\ t \notin Handler => handler[t].pc \in {"idle", "delete", "remove"}

\* With no mishap so far there is one handler at a time, and what it is to write as the
\* webhook is that of the channel it writes.
WebhookSound ==
  mishaps = 0 =>
    /\ \A t, u \in Begun : t = u
    /\ \A t \in Task :
         /\ At(t, "webhook") => handler[t].channel \in channels
         /\ (handler[t].pc \in {"role", "insert", "update"} /\ handler[t].webhook # 0)
              => handler[t].webhook = handler[t].channel /\ handler[t].channel \in channels
    /\ user.webhook # 0 =>
         /\ user.webhook = user.channel
         /\ user.channel \in channels \/ \E t \in Task : At(t, "remove")

Gone == user.channel \notin channels

\* The write of t would leave no channel behind if it came now.
Fresh(t) ==
  /\ At(t, "delete") /\ user.exists => handler[t].channel = user.channel \/ Gone
  /\ At(t, "remove") /\ user.exists => handler[t].keep \/ Gone
  /\ At(t, "channel") => user.exists = handler[t].existing /\ Gone
  /\ handler[t].pc \in {"webhook", "role", "insert", "update"} =>
       user.exists = handler[t].existing /\ (handler[t].channel = user.channel \/ Gone)

\* Of the handlers that run together, the first to write leaves no channel behind, and each
\* of the others began as a mishap: what has leaked, and what may, is accounted for.
Leaked == channels \ Recorded
AllFresh == \A t \in Begun : Fresh(t)
Allowance == IF Begun # {} /\ AllFresh THEN 1 ELSE 0
LeaksSound ==
  mishaps < MaxOps => Cardinality(Leaked) + Cardinality(Begun) <= mishaps + Allowance

-----------------------------------------------------------------------------
(* Types, and channels created. *)

LEMMA ConstantsTyped ==
  /\ 0 \in Channel /\ 0 \in 0..MaxTime /\ 1 \in 1..MaxTime /\ NoUser \in User /\ Idle \in Frame
  /\ ~NoUser.exists /\ NoUser.channel = 0 /\ Idle.pc = "idle" /\ Idle.channel = 0
<1>1. 0 \in Channel /\ 0 \in 0..MaxTime /\ 1 \in 1..MaxTime
  BY DaysAssumption DEF Channel
<1>2. NoUser \in User /\ ~NoUser.exists /\ NoUser.channel = 0
  BY <1>1 DEF NoUser, User
<1>3. Idle \in Frame /\ Idle.pc = "idle" /\ Idle.channel = 0
  BY <1>1 DEF Idle, Frame
<1> QED
  BY <1>1, <1>2, <1>3

LEMMA InitTyped == Init => TypeOK /\ CountSound
<1> SUFFICES ASSUME Init PROVE TypeOK /\ CountSound
  OBVIOUS
<1>1. TypeOK
  <2>1. running \in BOOLEAN
    BY Zenon DEF Init
  <2>2. /\ clock = 1 /\ per_user \in BOOLEAN /\ user = NoUser /\ channels = {} /\ created = 0
        /\ handler = [t \in Task |-> Idle] /\ ops = 0 /\ mishaps = 0
    BY DEF Init
  <2> QED
    BY <2>1, <2>2, ConstantsTyped, DaysAssumption DEF TypeOK
<1>2. Begun = {} /\ AboutToCreate = {}
  BY ConstantsTyped DEF Init, Begun, AboutToCreate, Busy, At
<1>3. IsFiniteSet(Begun) /\ Cardinality(AboutToCreate) = 0
  BY <1>2, FS_EmptySet
<1>4. \A t \in Task : handler[t] = Idle
  BY DEF Init
<1> QED
  BY <1>1, <1>3, <1>4, ConstantsTyped DEF Init, CountSound, At

\* What is known of the variables, in one place.
LEMMA Known ==
  ASSUME TypeOK, CountSound
  PROVE  /\ created \in Nat /\ ops \in Nat /\ ops <= MaxOps /\ created <= ops
         /\ mishaps \in Nat /\ mishaps <= MaxOps /\ MaxOps \in Nat
         /\ user.channel \in Nat /\ user.channel <= created /\ channels \subseteq Nat
         /\ IsFiniteSet(AboutToCreate) /\ IsFiniteSet(channels)
         /\ Cardinality(AboutToCreate) \in Nat /\ Cardinality(Begun) \in Nat
<1>1. created \in Nat /\ ops \in Nat /\ ops <= MaxOps /\ mishaps \in Nat /\ mishaps <= MaxOps
      /\ user.channel \in Nat /\ MaxOps \in Nat
  BY DaysAssumption DEF TypeOK, User, Channel
<1>2. AboutToCreate \subseteq Begun
  BY DEF AboutToCreate, Begun, At, Busy
<1>3. IsFiniteSet(AboutToCreate) /\ Cardinality(AboutToCreate) \in Nat
      /\ Cardinality(Begun) \in Nat
  BY <1>2, FS_Subset, FS_CardinalityType DEF CountSound
<1>4. channels \subseteq 1..created
  BY DEF TypeOK
<1>5. IsFiniteSet(1..created)
  BY <1>1, FS_Interval
<1>6. IsFiniteSet(channels)
  BY <1>4, <1>5, FS_Subset
<1> QED
  BY <1>1, <1>3, <1>4, <1>6 DEF CountSound

\* A step of task t alone.
LEMMA OneTask ==
  ASSUME TypeOK, CountSound, NEW t \in Task, NEW f, handler' = [handler EXCEPT ![t] = f]
  PROVE  /\ handler'[t] = f /\ \A u \in Task \ {t} : handler'[u] = handler[u]
         /\ Begun' = IF f.pc = "idle" THEN Begun \ {t} ELSE Begun \cup {t}
         /\ IsFiniteSet(Begun')
         /\ f.pc = "idle" /\ Busy(t) => Cardinality(Begun') = Cardinality(Begun) - 1
         /\ f.pc # "idle" /\ Busy(t) => Begun' = Begun
         /\ f.pc # "idle" /\ ~Busy(t) => Cardinality(Begun') = Cardinality(Begun) + 1
         /\ f.pc # "channel" => Cardinality(AboutToCreate') <= Cardinality(AboutToCreate)
         /\ f.pc # "channel" /\ At(t, "channel") =>
              Cardinality(AboutToCreate') = Cardinality(AboutToCreate) - 1
         /\ Cardinality(AboutToCreate') <= Cardinality(AboutToCreate) + 1
<1>1. handler'[t] = f /\ \A u \in Task \ {t} : handler'[u] = handler[u]
  BY DEF TypeOK
<1>2. Begun' = IF f.pc = "idle" THEN Begun \ {t} ELSE Begun \cup {t}
  BY <1>1 DEF Begun, Busy
<1>3. AboutToCreate' = IF f.pc = "channel" THEN AboutToCreate \cup {t} ELSE AboutToCreate \ {t}
  BY <1>1 DEF AboutToCreate, At
<1>4. IsFiniteSet(Begun) /\ IsFiniteSet(AboutToCreate)
      /\ Cardinality(Begun) \in Nat /\ Cardinality(AboutToCreate) \in Nat
  BY Known DEF CountSound
<1>5. (t \in Begun <=> Busy(t)) /\ (t \in AboutToCreate <=> At(t, "channel"))
  BY DEF Begun, AboutToCreate
<1>6. /\ IsFiniteSet(Begun \ {t}) /\ IsFiniteSet(Begun \cup {t})
      /\ Busy(t) => Cardinality(Begun \ {t}) = Cardinality(Begun) - 1
      /\ ~Busy(t) => Cardinality(Begun \cup {t}) = Cardinality(Begun) + 1
      /\ Busy(t) => Begun \cup {t} = Begun
  BY <1>4, <1>5, FS_AddElement, FS_RemoveElement
<1>7. /\ At(t, "channel") => Cardinality(AboutToCreate \ {t}) = Cardinality(AboutToCreate) - 1
      /\ Cardinality(AboutToCreate \ {t}) <= Cardinality(AboutToCreate)
      /\ Cardinality(AboutToCreate \ {t}) <= Cardinality(AboutToCreate) + 1
      /\ Cardinality(AboutToCreate \cup {t}) <= Cardinality(AboutToCreate) + 1
  <2>1. Cardinality(AboutToCreate \ {t}) =
          IF t \in AboutToCreate THEN Cardinality(AboutToCreate) - 1 ELSE Cardinality(AboutToCreate)
    BY <1>4, FS_RemoveElement
  <2>2. Cardinality(AboutToCreate \cup {t}) =
          IF t \in AboutToCreate THEN Cardinality(AboutToCreate) ELSE Cardinality(AboutToCreate) + 1
    BY <1>4, FS_AddElement
  <2> QED
    BY <1>4, <1>5, <2>1, <2>2
<1>8. /\ IsFiniteSet(Begun')
      /\ f.pc = "idle" /\ Busy(t) => Cardinality(Begun') = Cardinality(Begun) - 1
      /\ f.pc # "idle" /\ Busy(t) => Begun' = Begun
      /\ f.pc # "idle" /\ ~Busy(t) => Cardinality(Begun') = Cardinality(Begun) + 1
  BY <1>2, <1>6
<1>9. /\ f.pc # "channel" => Cardinality(AboutToCreate') <= Cardinality(AboutToCreate)
      /\ f.pc # "channel" /\ At(t, "channel") =>
           Cardinality(AboutToCreate') = Cardinality(AboutToCreate) - 1
      /\ Cardinality(AboutToCreate') <= Cardinality(AboutToCreate) + 1
  <2>1. CASE f.pc = "channel"
    BY <1>3, <1>7, <2>1
  <2>2. CASE f.pc # "channel"
    <3>1. AboutToCreate' = AboutToCreate \ {t}
      BY <1>3, <2>2
    <3> QED
      BY <1>7, <2>2, <3>1
  <2> QED
    BY <2>1, <2>2
<1> QED
  BY <1>1, <1>2, <1>8, <1>9

LEMMA OneMoreTyped ==
  ASSUME TypeOK
  PROVE  OneMore \in 0..MaxOps /\ OneMore # 0
         /\ (OneMore < MaxOps => mishaps < MaxOps /\ OneMore = mishaps + 1)
BY DaysAssumption DEF TypeOK, OneMore

\* Where a step of a command or of the purge leaves its task, and what of the rest.
LEMMA BeginTyped ==
  ASSUME TypeOK, CountSound, NEW t \in Task,
         (\E h \in Handler : t = h /\ (CreateRead(h) \/ RevokeRead(h))) \/ PurgeRead(t)
  PROVE  /\ TypeOK' /\ CountSound'
<1>0. /\ user \in User /\ user.channel \in Channel /\ user.webhook \in Channel
      /\ user.exists \in BOOLEAN /\ user.channel <= created /\ created \in Nat
  BY Known DEF TypeOK, User
<1>1. /\ UNCHANGED <<clock, per_user, user, channels, created>> /\ ~Busy(t)
      /\ mishaps' \in {mishaps, OneMore} /\ ops' \in {ops, ops + 1} /\ ops' \in 0..MaxOps
  <2>1. /\ UNCHANGED <<clock, per_user, user, channels, created>>
        /\ Command \/ UNCHANGED ops
        /\ \E f : Begin(t, f)
    BY DEF CreateRead, RevokeRead, PurgeRead
  <2>2. ~Busy(t) /\ mishaps' \in {mishaps, OneMore}
    BY <2>1 DEF Begin
  <2>3. ops' \in {ops, ops + 1} /\ ops' \in 0..MaxOps
    BY <2>1, DaysAssumption DEF Command, TypeOK
  <2> QED
    BY <2>1, <2>2, <2>3
<1>2. \E f \in Frame :
        /\ handler' = [handler EXCEPT ![t] = f] /\ f.channel <= created
        /\ f.pc = "channel" => ops' = ops + 1
        /\ f.pc = "insert" => ~f.existing
        /\ f.pc = "update" => f.existing
        /\ t \notin Handler => f.pc \in {"delete", "remove"}
  <2>1. CASE \E h \in Handler : t = h /\ CreateRead(h)
    <3> DEFINE f == [pc |-> IF ~per_user THEN WriteStep(user.exists)
                            ELSE IF user.channel \in channels THEN "role" ELSE "channel",
                     channel |-> user.channel, webhook |-> user.webhook,
                     existing |-> user.exists, keep |-> FALSE]
    <3>1. handler' = [handler EXCEPT ![t] = f] /\ ops' = ops + 1
      BY <2>1 DEF CreateRead, Begin, Command
    <3>2. f \in Frame
      BY <1>0 DEF Frame, WriteStep
    <3>3. /\ f.pc = "insert" => ~f.existing
          /\ f.pc = "update" => f.existing
      BY DEF WriteStep
    <3>4. f.channel <= created
      BY <1>0
    <3> HIDE DEF f
    <3> QED
      BY <2>1, <3>1, <3>2, <3>3, <3>4
  <2>2. CASE (\E h \in Handler : t = h /\ RevokeRead(h)) \/ PurgeRead(t)
    <3>1. PICK keep \in BOOLEAN : Begin(t, Removal(keep))
      BY <2>2 DEF RevokeRead, PurgeRead
    <3>2. Removal(keep) \in Frame /\ Removal(keep).channel = user.channel
          /\ Removal(keep).pc \in {"delete", "remove"}
      BY <1>0, ConstantsTyped DEF Removal, Idle, Frame
    <3> QED
      BY <1>0, <3>1, <3>2 DEF Begin
  <2> QED
    BY <2>1, <2>2
<1>3. PICK f \in Frame :
        /\ handler' = [handler EXCEPT ![t] = f] /\ f.channel <= created
        /\ f.pc = "channel" => ops' = ops + 1
        /\ f.pc = "insert" => ~f.existing
        /\ f.pc = "update" => f.existing
        /\ t \notin Handler => f.pc \in {"delete", "remove"}
  BY <1>2
<1>4. TypeOK'
  <2>1. running' \in BOOLEAN
    BY DEF CreateRead, RevokeRead, PurgeRead, TypeOK
  <2> QED
    BY <1>1, <1>3, <2>1, OneMoreTyped DEF TypeOK
<1>5. created + Cardinality(AboutToCreate') <= ops'
  <2>1. f.pc # "channel" => Cardinality(AboutToCreate') <= Cardinality(AboutToCreate)
    BY <1>3, OneTask
  <2>2. Cardinality(AboutToCreate') <= Cardinality(AboutToCreate) + 1
        /\ Cardinality(AboutToCreate') \in Nat
    <3>1. IsFiniteSet(Begun') /\ AboutToCreate' \subseteq Begun'
      BY <1>3, OneTask DEF AboutToCreate, Begun, At, Busy
    <3> QED
      BY <1>3, <3>1, OneTask, FS_Subset, FS_CardinalityType
  <2>3. created + Cardinality(AboutToCreate) <= ops
    BY DEF CountSound
  <2> QED
    BY <1>1, <1>3, <2>1, <2>2, <2>3, Known
<1>6. IsFiniteSet(Begun') /\ handler'[t] = f /\ \A u \in Task \ {t} : handler'[u] = handler[u]
  BY <1>3, OneTask
<1> QED
  BY <1>1, <1>3, <1>4, <1>5, <1>6 DEF CountSound, At

\* A step that neither begins a command nor makes a channel, and leaves its task with f.
LEMMA GoesOnTyped ==
  ASSUME TypeOK, CountSound, NEW t \in Task, NEW f \in Frame,
         handler' = [handler EXCEPT ![t] = f], f.channel <= created', f.pc # "channel",
         f.pc = "insert" => ~f.existing,
         f.pc = "update" => f.existing,
         t \notin Handler => f.pc \in {"idle", "delete", "remove"},
         created' = created \/ (At(t, "channel") /\ created' = created + 1),
         ops' = ops, user' \in User, user'.channel <= created'
  PROVE  CountSound'
<1>1. IsFiniteSet(Begun') /\ handler'[t] = f /\ \A u \in Task \ {t} : handler'[u] = handler[u]
  BY OneTask
<1>2. Cardinality(AboutToCreate') \in Nat
  <2>1. AboutToCreate' \subseteq Begun'
    BY DEF AboutToCreate, Begun, At, Busy
  <2> QED
    BY <1>1, <2>1, FS_Subset, FS_CardinalityType
<1>3. created' + Cardinality(AboutToCreate') <= ops'
  <2>1. Cardinality(AboutToCreate') <= Cardinality(AboutToCreate)
        /\ (At(t, "channel") => Cardinality(AboutToCreate') = Cardinality(AboutToCreate) - 1)
    BY OneTask
  <2>2. created + Cardinality(AboutToCreate) <= ops
    BY DEF CountSound
  <2> QED
    BY <1>2, <2>1, <2>2, Known
<1>4. created <= created' /\ created' \in Nat
  BY Known
<1>5. \A u \in Task : handler[u].channel \in Nat
  BY DEF TypeOK, Frame, Channel
<1>6. \A u \in Task : handler'[u].channel <= created'
  BY <1>1, <1>4, <1>5, Known DEF CountSound
<1> QED
  BY <1>1, <1>3, <1>6 DEF CountSound, At

LEMMA TypeStep == TypeOK /\ CountSound /\ [Next]_vars => TypeOK' /\ CountSound'
<1> SUFFICES ASSUME TypeOK, CountSound, [Next]_vars PROVE TypeOK' /\ CountSound'
  OBVIOUS
<1>0. /\ \A t \in Task : /\ handler[t] \in Frame /\ handler[t].channel \in Channel
                         /\ handler[t].webhook \in Channel /\ handler[t].channel <= created
                         /\ handler[t].existing \in BOOLEAN
      /\ user.channel \in Channel /\ user.channel <= created /\ created \in Nat
      /\ clock \in 0..MaxTime /\ Idle.pc # "channel" /\ Idle.pc # "insert" /\ Idle.pc # "update"
      /\ Idle.channel <= created
  BY Known, ConstantsTyped DEF TypeOK, Frame, User, CountSound
<1>r. running' \in BOOLEAN
  BY DEF Next, CreateStep, Tick, SetMode, Request, DeleteUser, SetActive, CreateRead,
         CreateChannel, CreateWebhook, GrantRole, CreateInsert, CreateUpdate, RevokeRead,
         PurgeRead, DeleteChannel, RemoveWrite, HandlerFails, OnReady, LoopEnds, vars, TypeOK
<1>1. ASSUME NEW t \in Task,
             (\E h \in Handler : t = h /\ (CreateRead(h) \/ RevokeRead(h))) \/ PurgeRead(t)
      PROVE  TypeOK' /\ CountSound'
  BY <1>1, BeginTyped
<1>2. ASSUME NEW h \in Handler, CreateChannel(h) PROVE TypeOK' /\ CountSound'
  <2> DEFINE f == [handler[h] EXCEPT !.pc = "webhook", !.channel = created + 1]
  <2>1. /\ h \in Task /\ handler' = [handler EXCEPT ![h] = f] /\ At(h, "channel")
        /\ created' = created + 1 /\ channels' = channels \cup {created + 1}
        /\ UNCHANGED <<clock, per_user, user, ops, mishaps>>
    BY <1>2 DEF CreateChannel, Task
  <2>2. created + 1 <= ops /\ created' \in Channel
    <3>1. h \in AboutToCreate
      BY <2>1 DEF AboutToCreate
    <3>2. Cardinality(AboutToCreate) # 0
      BY <3>1, Known, FS_EmptySet
    <3>3. created + Cardinality(AboutToCreate) <= ops
      BY DEF CountSound
    <3>4. created + 1 <= ops
      BY <3>2, <3>3, Known
    <3> QED
      BY <2>1, <3>4, Known DEF Channel
  <2>3. f \in Frame /\ f.channel <= created' /\ f.pc = "webhook"
    <3>1. handler[h] \in Frame /\ created + 1 \in Channel
      BY <1>0, <2>1, <2>2
    <3>2. f \in Frame /\ f.pc = "webhook"
      BY <3>1 DEF Frame
    <3>3. f.channel = created + 1
      BY <3>1 DEF Frame
    <3>4. created + 1 <= created'
      BY <1>0, <2>1
    <3> QED
      BY <3>2, <3>3, <3>4
  <2>4. channels' \subseteq 1..created'
    BY <1>0, <2>1 DEF TypeOK
  <2> HIDE DEF f
  <2>5. TypeOK'
    BY <1>r, <2>1, <2>2, <2>3, <2>4 DEF TypeOK
  <2>6. CountSound'
    <3>1. user' \in User /\ user'.channel <= created'
      <4>1. user' = user /\ user.channel <= created + 1
        BY <1>0, <2>1, Known
      <4> QED
        BY <2>1, <4>1 DEF TypeOK
    <3> QED
      BY <2>1, <2>3, <3>1, GoesOnTyped
  <2> QED
    BY <2>5, <2>6
<1>3. ASSUME NEW h \in Handler, CreateWebhook(h) \/ GrantRole(h) PROVE TypeOK' /\ CountSound'
  <2>1. h \in Task /\ UNCHANGED <<clock, per_user, user, channels, created, ops, mishaps>>
    BY <1>3 DEF CreateWebhook, GrantRole, Task
  <2>2. \E f \in Frame : /\ handler' = [handler EXCEPT ![h] = f] /\ f.channel <= created
                         /\ f.pc # "channel"
                         /\ f.pc = "insert" => ~f.existing
                         /\ f.pc = "update" => f.existing
    <3>1. CASE CreateWebhook(h)
      <4> DEFINE f == [handler[h] EXCEPT !.pc = "role", !.webhook = handler[h].channel]
      <4>1. f \in Frame /\ f.channel <= created /\ f.pc = "role"
        BY <1>0, <2>1 DEF Frame
      <4>2. handler' = [handler EXCEPT ![h] = f]
        BY <3>1 DEF CreateWebhook
      <4> HIDE DEF f
      <4> QED
        BY <4>1, <4>2
    <3>2. CASE GrantRole(h)
      <4> DEFINE f == [handler[h] EXCEPT !.pc = WriteStep(handler[h].existing)]
      <4>1. f \in Frame /\ f.channel <= created /\ f.pc = WriteStep(handler[h].existing)
            /\ f.existing = handler[h].existing
        BY <1>0, <2>1 DEF Frame, WriteStep
      <4>2. handler' = [handler EXCEPT ![h] = f]
        BY <3>2 DEF GrantRole
      <4> HIDE DEF f
      <4>3. f.pc # "channel" /\ (f.pc = "insert" => ~f.existing) /\ (f.pc = "update" => f.existing)
        BY <4>1 DEF WriteStep
      <4> QED
        BY <4>1, <4>2, <4>3
    <3> QED
      BY <1>3, <3>1, <3>2
  <2>3. PICK f \in Frame : /\ handler' = [handler EXCEPT ![h] = f] /\ f.channel <= created
                           /\ f.pc # "channel"
                           /\ f.pc = "insert" => ~f.existing
                           /\ f.pc = "update" => f.existing
    BY <2>2
  <2>4. TypeOK'
    BY <1>r, <2>1, <2>3 DEF TypeOK
  <2>5. user' \in User /\ user'.channel <= created' /\ created' = created /\ ops' = ops
    BY <1>0, <2>1 DEF TypeOK
  <2> QED
    BY <2>1, <2>3, <2>4, <2>5, GoesOnTyped
<1>4. ASSUME NEW t \in Task, (\E h \in Handler : t = h /\ (CreateInsert(h) \/ CreateUpdate(h)))
                             \/ RemoveWrite(t)
      PROVE  TypeOK' /\ CountSound'
  <2>1. /\ End(t) /\ UNCHANGED <<clock, per_user, channels, created, ops, mishaps>>
    BY <1>4 DEF CreateInsert, CreateUpdate, RemoveWrite
  <2>2. user' \in User /\ user'.channel \in {user.channel, handler[t].channel, 0}
        /\ (~user'.exists => user' = NoUser)
    <3>1. CASE user' = user
      BY <3>1 DEF TypeOK
    <3>2. CASE CreateInsert(t) /\ ~user.exists
      BY <1>0, <3>2, ConstantsTyped DEF CreateInsert, User
    <3>3. CASE CreateUpdate(t) /\ user.exists
      BY <1>0, <3>3 DEF CreateUpdate, TypeOK, User
    <3>4. CASE RemoveWrite(t) /\ user.exists
      BY <1>0, <3>4, ConstantsTyped DEF RemoveWrite, TypeOK, User, ChannelAfter, WebhookAfter
    <3> QED
      BY <1>4, <3>1, <3>2, <3>3, <3>4 DEF CreateInsert, CreateUpdate, RemoveWrite
  <2>3. handler' = [handler EXCEPT ![t] = Idle]
    BY <2>1 DEF End
  <2>4. TypeOK'
    BY <1>r, <2>1, <2>2, <2>3, ConstantsTyped DEF TypeOK
  <2>5. user'.channel <= created'
    BY <1>0, <2>1, <2>2
  <2> QED
    BY <1>0, <2>1, <2>2, <2>3, <2>4, <2>5, ConstantsTyped, GoesOnTyped
<1>5. ASSUME NEW t \in Task, DeleteChannel(t) PROVE TypeOK' /\ CountSound'
  <2> DEFINE f == [handler[t] EXCEPT !.pc = "remove"]
  <2>1. /\ handler' = [handler EXCEPT ![t] = f] /\ channels' \subseteq channels
        /\ mishaps' \in {mishaps, OneMore} /\ UNCHANGED <<clock, per_user, user, created, ops>>
    BY <1>5 DEF DeleteChannel
  <2>2. f \in Frame /\ f.pc = "remove" /\ f.channel <= created
    BY <1>0 DEF Frame
  <2> HIDE DEF f
  <2>3. TypeOK'
    BY <1>r, <2>1, <2>2, OneMoreTyped DEF TypeOK
  <2>4. user' \in User /\ user'.channel <= created' /\ created' = created /\ ops' = ops
    BY <1>0, <2>1 DEF TypeOK
  <2> QED
    BY <2>1, <2>2, <2>3, <2>4, GoesOnTyped
<1>6. ASSUME NEW t \in Task, HandlerFails(t) \/ (t = "purge_loop" /\ LoopEnds)
      PROVE  TypeOK' /\ CountSound'
  <2>1. /\ handler' = [handler EXCEPT ![t] = Idle] /\ mishaps' \in {mishaps, OneMore}
        /\ UNCHANGED <<clock, per_user, user, channels, created, ops>>
    BY <1>6 DEF HandlerFails, LoopEnds, End
  <2>2. TypeOK'
    BY <1>r, <2>1, OneMoreTyped, ConstantsTyped DEF TypeOK
  <2>3. user' \in User /\ user'.channel <= created' /\ created' = created /\ ops' = ops
    BY <1>0, <2>1 DEF TypeOK
  <2> QED
    BY <1>0, <2>1, <2>2, <2>3, ConstantsTyped, GoesOnTyped
<1>7. CASE Tick \/ SetMode \/ Request \/ DeleteUser \/ \E active \in BOOLEAN : SetActive(active)
  <2>1. UNCHANGED <<channels, created, handler>> /\ mishaps' \in {mishaps, OneMore}
    BY <1>7 DEF Tick, SetMode, Request, DeleteUser, SetActive
  <2>2. user' \in User /\ (~user'.exists => user' = NoUser) /\ user'.channel <= created
    <3>1. CASE user' = user
      BY <1>0, <3>1 DEF TypeOK
    <3>2. CASE Request
      <4>1. user.exists /\ user' = [user EXCEPT !.seen = clock]
        BY <3>2 DEF Request, TypeOK, NoUser
      <4> QED
        BY <1>0, <4>1 DEF TypeOK, User
    <3>3. CASE DeleteUser
      BY <1>0, <3>3, ConstantsTyped DEF DeleteUser
    <3>4. ASSUME NEW active \in BOOLEAN, SetActive(active)
          PROVE  user' \in User /\ user'.exists /\ user'.channel <= created
      BY <1>0, <3>4 DEF SetActive, TypeOK, User
    <3> QED
      BY <1>7, <3>1, <3>2, <3>3, <3>4 DEF Tick, SetMode
  <2>3. clock' \in 1..MaxTime /\ per_user' \in BOOLEAN
    <3>1. clock' = clock \/ (clock < MaxTime /\ clock' = clock + 1)
      BY <1>7 DEF Tick, SetMode, Request, DeleteUser, SetActive
    <3>2. per_user' = per_user \/ per_user' = ~per_user
      BY <1>7 DEF Tick, SetMode, Request, DeleteUser, SetActive
    <3>3. clock' \in 1..MaxTime
      BY <3>1, DaysAssumption DEF TypeOK
    <3>4. per_user' \in BOOLEAN
      BY <3>2 DEF TypeOK
    <3> QED
      BY <3>3, <3>4
  <2>4. ops' \in {ops, ops + 1} /\ ops' \in 0..MaxOps
    BY <1>7, DaysAssumption DEF Tick, SetMode, Request, DeleteUser, SetActive, TypeOK, Command
  <2>5. TypeOK'
    BY <1>r, <2>1, <2>2, <2>3, <2>4, OneMoreTyped DEF TypeOK
  <2>6. Begun' = Begun /\ AboutToCreate' = AboutToCreate
    BY <2>1 DEF Begun, AboutToCreate, Busy, At
  <2>7. created + Cardinality(AboutToCreate) <= ops'
    BY <2>4, Known DEF CountSound
  <2> QED
    BY <2>1, <2>2, <2>5, <2>6, <2>7 DEF CountSound, At
<1>8. CASE OnReady \/ UNCHANGED vars
  BY <1>8 DEF OnReady, vars, TypeOK, CountSound, Begun, AboutToCreate, Busy, At
<1> QED
  <2>1. Handler \subseteq Task /\ "purge_loop" \in Task
    BY DEF Task
  <2> QED
    BY <1>1, <1>2, <1>3, <1>4, <1>5, <1>6, <1>7, <1>8, <2>1 DEF Next, CreateStep

\* A document that is gone leaves no half of itself, whatever handler was about to write to
\* it, and no more channels are created than commands were given.
THEOREM TypeCorrect == Spec => []TypeOK
<1> QED
  BY InitTyped, TypeStep, PTL DEF Spec

-----------------------------------------------------------------------------
(* The webhook on record. *)

LEMMA WebhookInit == Init => WebhookSound
BY DEF Init, WebhookSound, Begun, Busy, At, Idle, NoUser

LEMMA WebhookStep ==
  TypeOK /\ CountSound /\ WebhookSound /\ [Next]_vars => WebhookSound'
<1> SUFFICES ASSUME TypeOK, CountSound, WebhookSound, [Next]_vars, mishaps' = 0
             PROVE  WebhookSound'
  BY DEF WebhookSound
<1>a. OneMore # 0 /\ mishaps \in Nat
  BY OneMoreTyped, Known
<1>b. mishaps = 0
  BY <1>a, OneMoreTyped
     DEF Next, CreateStep, Tick, SetMode, Request, DeleteUser, SetActive, CreateRead, CreateChannel,
         CreateWebhook, GrantRole, CreateInsert, CreateUpdate, RevokeRead, PurgeRead, Begin,
         DeleteChannel, RemoveWrite, HandlerFails, OnReady, LoopEnds, vars
<1>c. \A t, u \in Begun : t = u
  BY <1>b DEF WebhookSound
<1>d. /\ \A t \in Task :
         /\ At(t, "webhook") => handler[t].channel \in channels
         /\ (handler[t].pc \in {"role", "insert", "update"} /\ handler[t].webhook # 0)
              => handler[t].webhook = handler[t].channel /\ handler[t].channel \in channels
      /\ user.webhook # 0 =>
         /\ user.webhook = user.channel
         /\ user.channel \in channels \/ \E t \in Task : At(t, "remove")
  BY <1>b DEF WebhookSound
<1>e. Handler \subseteq Task /\ handler \in [Task -> Frame]
  BY DEF Task, TypeOK
<1> DEFINE Alive == user.webhook # 0 => user.webhook = user.channel /\ user.channel \in channels
           Alone(t) == \A u \in Task \ {t} : handler[u].pc = "idle"
\* A task that runs is the only one.
<1>f. ASSUME NEW t \in Task, Busy(t) PROVE Alone(t)
  BY <1>c, <1>f DEF Begun, Busy
\* What is left to show of a step of t, the only task that runs.
<1>g. ASSUME NEW t \in Task, Alone(t), \A u \in Task \ {t} : handler'[u] = handler[u],
             handler'[t].pc = "webhook" => handler'[t].channel \in channels',
             (handler'[t].pc \in {"role", "insert", "update"} /\ handler'[t].webhook # 0)
               => handler'[t].webhook = handler'[t].channel /\ handler'[t].channel \in channels',
             user'.webhook # 0 => /\ user'.webhook = user'.channel
                                  /\ user'.channel \in channels' \/ handler'[t].pc = "remove"
      PROVE  WebhookSound'
  BY <1>g DEF WebhookSound, Begun, Busy, At
<1>h. ASSUME NEW t \in Task, Alone(t), handler[t].pc # "remove" PROVE Alive
  BY <1>d, <1>h DEF At
<1>1. ASSUME NEW t \in Task, NEW f, Begin(t, f), UNCHANGED <<user, channels>>,
             \/ f.pc \in {"delete", "remove"}
             \/ /\ f.pc \in {"insert", "update", "role", "channel"}
                /\ f.webhook = user.webhook /\ f.channel = user.channel
      PROVE  WebhookSound'
  <2>1. Alone(t) /\ handler[t].pc = "idle"
    BY <1>1, <1>a DEF Begin, Busy
  <2>2. Alive
    BY <1>h, <2>1
  <2>3. handler'[t] = f /\ \A u \in Task \ {t} : handler'[u] = handler[u]
    BY <1>1, <1>e DEF Begin
  <2> QED
    BY <1>1, <1>g, <2>1, <2>2, <2>3
<1>2. ASSUME NEW h \in Handler, CreateRead(h) PROVE WebhookSound'
  <2> DEFINE f == [pc |-> IF ~per_user THEN WriteStep(user.exists)
                          ELSE IF user.channel \in channels THEN "role" ELSE "channel",
                   channel |-> user.channel, webhook |-> user.webhook,
                   existing |-> user.exists, keep |-> FALSE]
  <2>1. Begin(h, f) /\ UNCHANGED <<user, channels>> /\ h \in Task
    BY <1>2, <1>e DEF CreateRead
  <2>2. /\ f.pc \in {"insert", "update", "role", "channel"}
        /\ f.webhook = user.webhook /\ f.channel = user.channel
    BY DEF WriteStep
  <2> HIDE DEF f
  <2> QED
    BY <1>1, <2>1, <2>2
<1>3. ASSUME NEW t \in Task, RevokeRead(t) \/ PurgeRead(t) PROVE WebhookSound'
  <2>1. PICK keep \in BOOLEAN : Begin(t, Removal(keep))
    BY <1>3 DEF RevokeRead, PurgeRead
  <2>2. UNCHANGED <<user, channels>>
    BY <1>3 DEF RevokeRead, PurgeRead
  <2>3. Removal(keep).pc \in {"delete", "remove"}
    BY DEF Removal, Idle
  <2> QED
    BY <1>1, <2>1, <2>2, <2>3
<1>4. ASSUME NEW h \in Handler, CreateChannel(h) \/ CreateWebhook(h) \/ GrantRole(h)
      PROVE  WebhookSound'
  <2>0. h \in Task /\ handler[h] \in Frame
    BY <1>e
  <2>1. Alone(h) /\ Alive
    <3>1. Busy(h) /\ handler[h].pc # "remove"
      BY <1>4 DEF CreateChannel, CreateWebhook, GrantRole, At, Busy
    <3> QED
      BY <1>f, <1>h, <2>0, <3>1
  <2>2. \A u \in Task \ {h} : handler'[u] = handler[u]
    BY <1>4, <1>e DEF CreateChannel, CreateWebhook, GrantRole
  <2>3. UNCHANGED user /\ channels \subseteq channels'
    BY <1>4 DEF CreateChannel, CreateWebhook, GrantRole
  <2>4. /\ handler'[h].pc = "webhook" => handler'[h].channel \in channels'
        /\ (handler'[h].pc \in {"role", "insert", "update"} /\ handler'[h].webhook # 0)
             => handler'[h].webhook = handler'[h].channel /\ handler'[h].channel \in channels'
    <3>1. CASE CreateChannel(h)
      <4>1. handler'[h].pc = "webhook" /\ handler'[h].channel = created + 1
            /\ channels' = channels \cup {created + 1}
        BY <1>e, <2>0, <3>1 DEF CreateChannel, Frame
      <4> QED
        BY <4>1
    <3>2. CASE CreateWebhook(h)
      <4>1. handler'[h].pc = "role" /\ handler'[h].channel = handler[h].channel
            /\ handler'[h].webhook = handler[h].channel /\ At(h, "webhook") /\ channels' = channels
        BY <1>e, <2>0, <3>2 DEF CreateWebhook, Frame
      <4> QED
        BY <1>d, <2>0, <4>1
    <3>3. CASE GrantRole(h)
      <4>1. handler'[h].pc = WriteStep(handler[h].existing) /\ handler[h].pc = "role"
            /\ handler'[h].channel = handler[h].channel /\ handler'[h].webhook = handler[h].webhook
            /\ channels' = channels
        BY <1>e, <2>0, <3>3 DEF GrantRole, Frame, At
      <4>2. handler'[h].pc # "webhook"
        BY <4>1 DEF WriteStep
      <4> QED
        BY <1>d, <2>0, <4>1, <4>2
    <3> QED
      BY <1>4, <3>1, <3>2, <3>3
  <2> QED
    BY <1>g, <2>0, <2>1, <2>2, <2>3, <2>4
<1>5. ASSUME NEW t \in Task, CreateInsert(t) \/ CreateUpdate(t) \/ RemoveWrite(t)
      PROVE  WebhookSound'
  <2>1. Alone(t) /\ handler' = [handler EXCEPT ![t] = Idle] /\ channels' = channels
    BY <1>5, <1>f DEF CreateInsert, CreateUpdate, RemoveWrite, At, Busy, End
  <2>2. handler'[t].pc = "idle" /\ \A u \in Task \ {t} : handler'[u] = handler[u]
    BY <1>e, <2>1, ConstantsTyped
  <2>3. user'.webhook # 0 => user'.webhook = user'.channel /\ user'.channel \in channels
    <3>1. CASE CreateInsert(t) \/ CreateUpdate(t)
      <4>1. Alive /\ handler[t].pc \in {"insert", "update"}
        BY <1>h, <2>1, <3>1 DEF CreateInsert, CreateUpdate, At
      <4>2. \/ user' = user
            \/ user'.webhook = handler[t].webhook /\ user'.channel = handler[t].channel
        <5>1. CASE CreateInsert(t)
          BY <5>1 DEF CreateInsert
        <5>2. CASE CreateUpdate(t)
          BY <5>2 DEF CreateUpdate, TypeOK, User
        <5> QED
          BY <3>1, <5>1, <5>2
      <4> QED
        BY <1>d, <4>1, <4>2
    <3>2. CASE RemoveWrite(t)
      <4>1. user'.webhook = 0
        BY <3>2 DEF RemoveWrite, WebhookAfter, TypeOK, User, NoUser
      <4> QED
        BY <4>1
    <3> QED
      BY <1>5, <3>1, <3>2
  <2> QED
    BY <1>g, <2>1, <2>2, <2>3
<1>6. ASSUME NEW t \in Task, DeleteChannel(t) PROVE WebhookSound'
  <2>1. Alone(t) /\ Alive
    BY <1>f, <1>h, <1>6 DEF DeleteChannel, At, Busy
  <2>2. handler'[t].pc = "remove" /\ UNCHANGED user
        /\ \A u \in Task \ {t} : handler'[u] = handler[u]
    BY <1>e, <1>6 DEF DeleteChannel, Frame
  <2> QED
    BY <1>g, <2>1, <2>2
<1>7. CASE Tick \/ SetMode \/ Request \/ \E active \in BOOLEAN : SetActive(active)
  <2>1. UNCHANGED <<channels, handler>>
    BY <1>7 DEF Tick, SetMode, Request, SetActive
  <2>2. user'.channel = user.channel /\ user'.webhook = user.webhook
    BY <1>7 DEF Tick, SetMode, Request, SetActive, TypeOK, User
  <2> QED
    BY <1>c, <1>d, <2>1, <2>2 DEF WebhookSound, Begun, Busy, At
<1>10. CASE LoopEnds
  <2>1. /\ handler["purge_loop"].pc = "idle" /\ UNCHANGED <<user, channels>>
        /\ handler' = [handler EXCEPT !["purge_loop"] = Idle]
    BY <1>a, <1>10 DEF LoopEnds, Busy, End
  <2>2. \A t \in Task : handler'[t] = handler[t] \/ (handler[t].pc = "idle" /\ handler'[t].pc = "idle")
    BY <1>e, <2>1, ConstantsTyped
  <2>3. Begun' = Begun
    BY <2>2 DEF Begun, Busy
  <2> QED
    BY <1>c, <1>d, <2>1, <2>2, <2>3 DEF WebhookSound, At
<1>8. CASE OnReady \/ UNCHANGED vars
  BY <1>8 DEF OnReady, vars, WebhookSound, Begun, Busy, At
<1>9. ~DeleteUser /\ \A t \in Task : ~HandlerFails(t)
  BY <1>a DEF DeleteUser, HandlerFails
<1> QED
  BY <1>e, <1>2, <1>3, <1>4, <1>5, <1>6, <1>7, <1>8, <1>9, <1>10 DEF Next, CreateStep

\* While no mishap happened, the webhook on record is that of the recorded channel, and
\* alive unless a handler has just deleted the channel and is about to write.
THEOREM WebhookIsAlive == Spec => []WebhookAlive
<1>1. WebhookSound => WebhookAlive
  BY DEF WebhookSound, WebhookAlive
<1> QED
  BY <1>1, InitTyped, TypeStep, WebhookInit, WebhookStep, PTL DEF Spec

-----------------------------------------------------------------------------
(* Channels that leak. *)

LEMMA LeaksInit == Init => LeaksSound
<1> SUFFICES ASSUME Init PROVE LeaksSound
  OBVIOUS
<1>1. Begun = {} /\ Leaked = {}
  BY ConstantsTyped DEF Init, Begun, Busy, Leaked
<1> QED
  BY <1>1, FS_EmptySet DEF Init, LeaksSound, Allowance

LEMMA LeaksFinite ==
  ASSUME TypeOK, CountSound
  PROVE  IsFiniteSet(Leaked) /\ Cardinality(Leaked) \in Nat /\ Cardinality(Leaked) <= created
<1>1. created \in Nat /\ channels \subseteq 1..created
  BY Known DEF TypeOK
<1>2. IsFiniteSet(1..created) /\ Cardinality(1..created) = created
  BY <1>1, FS_Interval
<1>3. Leaked \subseteq 1..created
  BY <1>1 DEF Leaked
<1>4. IsFiniteSet(Leaked) /\ Cardinality(Leaked) <= created
  BY <1>2, <1>3, FS_Subset
<1> QED
  BY <1>4, FS_CardinalityType

\* Counting channels that have leaked: one at most more, or none.
LEMMA LeaksCounted ==
  ASSUME TypeOK, CountSound, TypeOK', CountSound'
  PROVE  /\ Cardinality(Leaked) \in Nat /\ Cardinality(Leaked') \in Nat
         /\ Leaked' \subseteq Leaked => Cardinality(Leaked') <= Cardinality(Leaked)
         /\ \A x : Leaked' \subseteq Leaked \cup {x} => Cardinality(Leaked') <= Cardinality(Leaked) + 1
<1>1. IsFiniteSet(Leaked) /\ Cardinality(Leaked) \in Nat
  BY LeaksFinite
<1>2. IsFiniteSet(Leaked') /\ Cardinality(Leaked') \in Nat
  <2>1. created' \in Nat /\ channels' \subseteq 1..created'
    BY DEF TypeOK, Channel
  <2>2. IsFiniteSet(1..created')
    BY <2>1, FS_Interval
  <2>3. IsFiniteSet(Leaked')
    BY <2>1, <2>2, FS_Subset DEF Leaked
  <2> QED
    BY <2>3, FS_CardinalityType
<1>3. Leaked' \subseteq Leaked => Cardinality(Leaked') <= Cardinality(Leaked)
  BY <1>1, FS_Subset
<1>4. ASSUME NEW x, Leaked' \subseteq Leaked \cup {x}
      PROVE  Cardinality(Leaked') <= Cardinality(Leaked) + 1
  <2>1. IsFiniteSet(Leaked \cup {x}) /\ Cardinality(Leaked \cup {x}) =
          IF x \in Leaked THEN Cardinality(Leaked) ELSE Cardinality(Leaked) + 1
    BY <1>1, FS_AddElement
  <2>2. Cardinality(Leaked') <= Cardinality(Leaked \cup {x})
    BY <1>4, <2>1, FS_Subset
  <2> QED
    BY <1>1, <1>2, <2>1, <2>2
<1> QED
  BY <1>1, <1>2, <1>3, <1>4

\* The accounts of a step of task t, or of none, that writes nothing to the document and
\* leaves no channel behind: if it upsets what another was to write, it is a mishap.
LEMMA AccountSame ==
  ASSUME TypeOK, CountSound, TypeOK', CountSound', LeaksSound,
         Begun' = Begun, Leaked' \subseteq Leaked,
         \/ mishaps' = OneMore
         \/ mishaps' = mishaps /\ (AllFresh => AllFresh')
  PROVE  LeaksSound'
<1> SUFFICES ASSUME mishaps' < MaxOps
             PROVE  Cardinality(Leaked') + Cardinality(Begun') <= mishaps' + Allowance'
  BY DEF LeaksSound
<1>1. Cardinality(Leaked) \in Nat /\ Cardinality(Leaked') \in Nat
      /\ Cardinality(Leaked') <= Cardinality(Leaked) /\ Cardinality(Begun) \in Nat
      /\ mishaps \in Nat /\ MaxOps \in Nat
  BY LeaksCounted, Known
<1>2. mishaps < MaxOps /\ (mishaps' = mishaps + 1 \/ (mishaps' = mishaps /\ (AllFresh => AllFresh')))
  BY OneMoreTyped
<1>3. Cardinality(Leaked) + Cardinality(Begun) <= mishaps + Allowance
  BY <1>2 DEF LeaksSound
<1>4. Allowance \in {0, 1} /\ Allowance' \in {0, 1}
      /\ (mishaps' = mishaps => Allowance <= Allowance')
  BY <1>1, <1>2 DEF Allowance
<1> QED
  BY <1>1, <1>2, <1>3, <1>4

\* The accounts of a mishap that leaves a channel behind, and upsets no write.
LEMMA AccountDelete ==
  ASSUME TypeOK, CountSound, TypeOK', CountSound', LeaksSound,
         Begun' = Begun, NEW x, Leaked' \subseteq Leaked \cup {x},
         mishaps' = OneMore, AllFresh => AllFresh'
  PROVE  LeaksSound'
<1> SUFFICES ASSUME mishaps' < MaxOps
             PROVE  Cardinality(Leaked') + Cardinality(Begun') <= mishaps' + Allowance'
  BY DEF LeaksSound
<1>1. Cardinality(Leaked) \in Nat /\ Cardinality(Leaked') \in Nat
      /\ Cardinality(Leaked') <= Cardinality(Leaked) + 1 /\ Cardinality(Begun) \in Nat
      /\ mishaps \in Nat /\ MaxOps \in Nat
  BY LeaksCounted, Known
<1>2. mishaps < MaxOps /\ mishaps' = mishaps + 1
  BY OneMoreTyped
<1>3. Cardinality(Leaked) + Cardinality(Begun) <= mishaps + Allowance
  BY <1>2 DEF LeaksSound
<1>4. Allowance \in {0, 1} /\ Allowance' \in {0, 1} /\ Allowance <= Allowance'
  BY DEF Allowance
<1> QED
  BY <1>1, <1>2, <1>3, <1>4

\* The accounts of the last step of task t: it leaves a channel behind only when something
\* was written since it began to run with others, or as a mishap.
LEMMA AccountEnd ==
  ASSUME TypeOK, CountSound, TypeOK', CountSound', LeaksSound, NEW t \in Task, Busy(t),
         handler' = [handler EXCEPT ![t] = Idle], NEW x, Leaked' \subseteq Leaked \cup {x},
         \/ mishaps' = OneMore
         \/ mishaps' = mishaps /\ (AllFresh => Leaked' \subseteq Leaked)
  PROVE  LeaksSound'
<1> SUFFICES ASSUME mishaps' < MaxOps
             PROVE  Cardinality(Leaked') + Cardinality(Begun') <= mishaps' + Allowance'
  BY DEF LeaksSound
<1>1. Cardinality(Leaked) \in Nat /\ Cardinality(Leaked') \in Nat
      /\ Cardinality(Leaked') <= Cardinality(Leaked) + 1 /\ Cardinality(Begun) \in Nat
      /\ mishaps \in Nat /\ MaxOps \in Nat
      /\ (Leaked' \subseteq Leaked => Cardinality(Leaked') <= Cardinality(Leaked))
  BY LeaksCounted, Known
<1>2. mishaps < MaxOps /\ (mishaps' = mishaps + 1 \/ (mishaps' = mishaps /\ (AllFresh => Leaked' \subseteq Leaked)))
  BY OneMoreTyped
<1>3. Cardinality(Leaked) + Cardinality(Begun) <= mishaps + Allowance
  BY <1>2 DEF LeaksSound
<1>4. Cardinality(Begun') = Cardinality(Begun) - 1
  BY OneTask, ConstantsTyped
<1>5. Allowance \in {0, 1} /\ Allowance' \in {0, 1} /\ (Allowance = 1 => AllFresh)
  BY DEF Allowance
<1> QED
  BY <1>1, <1>2, <1>3, <1>4, <1>5

\* The accounts of the first step of task t.
LEMMA AccountBegin ==
  ASSUME TypeOK, CountSound, TypeOK', CountSound', LeaksSound, NEW t \in Task, NEW f,
         Begin(t, f), f.pc # "idle", Leaked' \subseteq Leaked,
         Fresh(t)', AllFresh => \A u \in Begun : Fresh(u)'
  PROVE  LeaksSound'
<1> SUFFICES ASSUME mishaps' < MaxOps
             PROVE  Cardinality(Leaked') + Cardinality(Begun') <= mishaps' + Allowance'
  BY DEF LeaksSound
<1>1. Cardinality(Leaked) \in Nat /\ Cardinality(Leaked') \in Nat
      /\ Cardinality(Leaked') <= Cardinality(Leaked) /\ Cardinality(Begun) \in Nat
      /\ mishaps \in Nat /\ MaxOps \in Nat
  BY LeaksCounted, Known
<1>2. mishaps < MaxOps /\ (mishaps' = mishaps + 1 \/ (mishaps' = mishaps /\ Begun = {}))
  BY OneMoreTyped DEF Begin, Begun
<1>3. Cardinality(Leaked) + Cardinality(Begun) <= mishaps + Allowance
  BY <1>2 DEF LeaksSound
<1>4. Cardinality(Begun') = Cardinality(Begun) + 1 /\ Begun' = Begun \cup {t}
  BY OneTask DEF Begin
<1>5. AllFresh => AllFresh'
  BY <1>4 DEF AllFresh
<1>6. Begun = {} => Allowance = 0 /\ AllFresh
  BY DEF Allowance, AllFresh
<1>7. Allowance \in {0, 1} /\ Allowance' \in {0, 1} /\ (AllFresh' => Allowance' = 1)
      /\ (Allowance = 1 => AllFresh)
  BY <1>4 DEF Allowance
<1> QED
  BY <1>1, <1>2, <1>3, <1>4, <1>5, <1>6, <1>7

\* What the others were to write is not upset.
LEMMA StaysFresh ==
  ASSUME NEW u \in Task, Fresh(u), handler'[u] = handler[u],
         user'.exists = user.exists, user'.channel = user.channel, Gone => Gone'
  PROVE  Fresh(u)'
BY DEF Fresh, At, Gone

\* What is recorded, after a step of a handler h that leaves the document alone.
LEMMA RecordedBy ==
  ASSUME NEW h \in Task, \A u \in Task \ {h} : handler'[u] = handler[u],
         user'.channel = user.channel,
         h \in Handler /\ Making(h) => Making(h)' /\ handler'[h].channel = handler[h].channel
  PROVE  Recorded \subseteq Recorded'
BY DEF Recorded, Making, Task

LEMMA LeaksStep == TypeOK /\ CountSound /\ LeaksSound /\ [Next]_vars => LeaksSound'
<1> SUFFICES ASSUME TypeOK, CountSound, LeaksSound, [Next]_vars PROVE LeaksSound'
  OBVIOUS
<1>a. TypeOK' /\ CountSound'
  BY TypeStep
<1>b. Handler \subseteq Task /\ handler \in [Task -> Frame] /\ 0 \notin channels
      /\ user.channel # created + 1 /\ (~user.exists => user.channel = 0)
  BY Known, ConstantsTyped DEF Task, TypeOK
<1>c. ASSUME NEW t \in Task, NEW f, handler' = [handler EXCEPT ![t] = f]
      PROVE  handler'[t] = f /\ \A u \in Task \ {t} : handler'[u] = handler[u]
  BY <1>b, <1>c
\* The others stay fresh in a step of t that leaves user.exists and user.channel.
<1>d. ASSUME NEW t \in Task, \A u \in Task \ {t} : handler'[u] = handler[u],
             user'.exists = user.exists, user'.channel = user.channel, Gone => Gone',
             Begun' = Begun, Fresh(t) => Fresh(t)'
      PROVE  AllFresh => AllFresh'
  <2> SUFFICES ASSUME AllFresh, NEW u \in Begun PROVE Fresh(u)'
    BY <1>d DEF AllFresh
  <2>1. CASE u = t
    BY <1>d, <2>1 DEF AllFresh
  <2>2. CASE u # t
    BY <1>d, <2>2, StaysFresh DEF AllFresh, Begun
  <2> QED
    BY <2>1, <2>2
<1>1. ASSUME NEW t \in Task, NEW f, Begin(t, f), UNCHANGED <<user, channels>>, f.pc # "idle",
             Fresh(t)'
      PROVE  LeaksSound'
  <2>1. handler'[t] = f /\ (\A u \in Task \ {t} : handler'[u] = handler[u]) /\ ~Busy(t)
    BY <1>1, <1>c DEF Begin
  <2>2. ~Making(t)
    BY <2>1 DEF Making, Busy
  <2>3. Leaked' \subseteq Leaked
    BY <1>1, <2>1, <2>2, RecordedBy DEF Leaked
  <2>4. ASSUME AllFresh, NEW u \in Begun PROVE Fresh(u)'
    <3>1. u \in Task /\ u # t /\ Fresh(u)
      BY <2>1, <2>4 DEF Begun, AllFresh
    <3> QED
      BY <1>1, <2>1, <3>1, StaysFresh DEF Gone
  <2> QED
    BY <1>1, <1>a, <2>3, <2>4, AccountBegin
<1>2. ASSUME NEW h \in Handler, CreateRead(h) PROVE LeaksSound'
  <2> DEFINE f == [pc |-> IF ~per_user THEN WriteStep(user.exists)
                          ELSE IF user.channel \in channels THEN "role" ELSE "channel",
                   channel |-> user.channel, webhook |-> user.webhook,
                   existing |-> user.exists, keep |-> FALSE]
  <2>1. Begin(h, f) /\ UNCHANGED <<user, channels>> /\ h \in Task
    BY <1>2, <1>b DEF CreateRead
  <2>2. /\ f.pc \in {"insert", "update", "role", "channel"} /\ f.existing = user.exists
        /\ f.channel = user.channel /\ (f.pc = "channel" => user.channel \notin channels)
    BY DEF WriteStep
  <2> HIDE DEF f
  <2>3. handler'[h] = f
    BY <1>c, <2>1 DEF Begin
  <2>4. Fresh(h)'
    BY <2>1, <2>2, <2>3 DEF Fresh, At, Gone
  <2> QED
    BY <1>1, <2>1, <2>2, <2>4
<1>3. ASSUME NEW t \in Task, RevokeRead(t) \/ PurgeRead(t) PROVE LeaksSound'
  <2>1. PICK keep \in BOOLEAN : Begin(t, Removal(keep))
    BY <1>3 DEF RevokeRead, PurgeRead
  <2>2. UNCHANGED <<user, channels>>
    BY <1>3 DEF RevokeRead, PurgeRead
  <2> DEFINE f == Removal(keep)
  <2>3. /\ f.pc \in {"delete", "remove"} /\ f.channel = user.channel
        /\ f.pc = "remove" => f.keep \/ user.channel = 0
    BY DEF Removal, Idle
  <2>4. handler'[t] = f
    BY <1>c, <2>1 DEF Begin
  <2> HIDE DEF f
  <2>5. Fresh(t)'
    BY <1>b, <2>2, <2>3, <2>4 DEF Fresh, At, Gone
  <2>6. f.pc # "idle" /\ Begin(t, f)
    BY <2>1, <2>3 DEF f
  <2> QED
    BY <1>1, <2>2, <2>5, <2>6
<1>4. ASSUME NEW h \in Handler, CreateChannel(h) PROVE LeaksSound'
  <2> DEFINE f == [handler[h] EXCEPT !.pc = "webhook", !.channel = created + 1]
  <2>1. /\ h \in Task /\ handler' = [handler EXCEPT ![h] = f] /\ At(h, "channel")
        /\ channels' = channels \cup {created + 1} /\ UNCHANGED <<user, mishaps>>
    BY <1>4, <1>b DEF CreateChannel
  <2>2. f.pc = "webhook" /\ f.channel = created + 1 /\ f.existing = handler[h].existing
    BY <1>b, <2>1 DEF Frame
  <2> HIDE DEF f
  <2>3. handler'[h] = f /\ \A u \in Task \ {h} : handler'[u] = handler[u]
    BY <1>c, <2>1
  <2>4. Begun' = Begun
    BY <2>1, <2>2, OneTask DEF At, Busy
  <2>5. Leaked' \subseteq Leaked
    <3>1. Recorded \subseteq Recorded'
      BY <2>1, <2>3, RecordedBy DEF Making, At
    <3>2. created + 1 \in Recorded'
      BY <2>2, <2>3 DEF Recorded, Making
    <3> QED
      BY <2>1, <3>1, <3>2 DEF Leaked
  <2>6. Gone => Gone'
    BY <1>b, <2>1 DEF Gone
  <2>7. Fresh(h) => Fresh(h)'
    BY <2>1, <2>2, <2>3, <2>6 DEF Fresh, At
  <2>8. AllFresh => AllFresh'
    BY <1>d, <2>1, <2>3, <2>4, <2>6, <2>7
  <2> QED
    BY <1>a, <2>1, <2>4, <2>5, <2>8, AccountSame
<1>5. ASSUME NEW h \in Handler, CreateWebhook(h) \/ GrantRole(h) PROVE LeaksSound'
  <2>1. h \in Task /\ handler[h].pc \in {"webhook", "role"} /\ UNCHANGED <<user, channels, mishaps>>
    BY <1>5, <1>b DEF CreateWebhook, GrantRole, At
  <2>2. \E f : /\ handler' = [handler EXCEPT ![h] = f] /\ f.pc \in {"role", "insert", "update"}
               /\ f.channel = handler[h].channel /\ f.existing = handler[h].existing
    <3>1. handler[h] \in Frame
      BY <1>b, <2>1
    <3>2. CASE CreateWebhook(h)
      <4> DEFINE f == [handler[h] EXCEPT !.pc = "role", !.webhook = handler[h].channel]
      <4>1. /\ f.pc = "role"
            /\ f.channel = handler[h].channel /\ f.existing = handler[h].existing
        BY <3>1 DEF Frame
      <4>2. handler' = [handler EXCEPT ![h] = f]
        BY <3>2 DEF CreateWebhook
      <4> HIDE DEF f
      <4> QED
        BY <4>1, <4>2
    <3>3. CASE GrantRole(h)
      <4> DEFINE f == [handler[h] EXCEPT !.pc = WriteStep(handler[h].existing)]
      <4>1. /\ f.pc = WriteStep(handler[h].existing)
            /\ f.channel = handler[h].channel /\ f.existing = handler[h].existing
        BY <3>1 DEF Frame
      <4>2. handler' = [handler EXCEPT ![h] = f]
        BY <3>3 DEF GrantRole
      <4> HIDE DEF f
      <4>3. f.pc \in {"role", "insert", "update"}
        BY <4>1 DEF WriteStep
      <4> QED
        BY <4>1, <4>2, <4>3
    <3> QED
      BY <1>5, <3>2, <3>3
  <2>3. PICK f : /\ handler' = [handler EXCEPT ![h] = f] /\ f.pc \in {"role", "insert", "update"}
                 /\ f.channel = handler[h].channel /\ f.existing = handler[h].existing
    BY <2>2
  <2>4. handler'[h] = f /\ \A u \in Task \ {h} : handler'[u] = handler[u]
    BY <1>c, <2>1, <2>3
  <2>5. Begun' = Begun
    BY <2>1, <2>3, OneTask DEF Busy
  <2>6. Leaked' \subseteq Leaked
    <3>1. Recorded \subseteq Recorded'
      BY <2>1, <2>3, <2>4, RecordedBy DEF Making
    <3> QED
      BY <2>1, <3>1 DEF Leaked
  <2>7. (Gone => Gone') /\ (Fresh(h) => Fresh(h)')
    BY <2>1, <2>3, <2>4 DEF Fresh, At, Gone
  <2>8. AllFresh => AllFresh'
    BY <1>d, <2>1, <2>4, <2>5, <2>7
  <2> QED
    BY <1>a, <2>1, <2>5, <2>6, <2>8, AccountSame
<1>6. ASSUME NEW t \in Task,
             (t \in Handler /\ (CreateInsert(t) \/ CreateUpdate(t))) \/ RemoveWrite(t)
      PROVE  LeaksSound'
  <2>1. /\ handler' = [handler EXCEPT ![t] = Idle] /\ Busy(t) /\ UNCHANGED <<channels, mishaps>>
    BY <1>6 DEF CreateInsert, CreateUpdate, RemoveWrite, End, At, Busy
  <2>2. handler'[t].pc = "idle" /\ \A u \in Task \ {t} : handler'[u] = handler[u]
    BY <1>c, <2>1, ConstantsTyped
  \* What is recorded after: what the document names, and what the others make.
  <2>3. {handler[u].channel : u \in {g \in Handler \ {t} : Making(g)}} \subseteq Recorded'
        /\ user'.channel \in Recorded'
    BY <1>b, <2>2 DEF Recorded, Making
  <2>4. AllFresh => Fresh(t)
    BY <2>1 DEF AllFresh, Begun
  <2>5. CASE t \in Handler /\ (CreateInsert(t) \/ CreateUpdate(t))
    <3>1. CASE user' = user /\ (CreateInsert(t) => user.exists) /\ (CreateUpdate(t) => ~user.exists)
      <4>1. Leaked' \subseteq Leaked \cup {handler[t].channel}
        BY <2>1, <2>3, <3>1 DEF Leaked, Recorded
      <4>2. ~Fresh(t)
        BY <1>b, <2>5, <3>1 DEF CreateInsert, CreateUpdate, Fresh, At, CountSound
      <4> QED
        BY <1>a, <2>1, <2>4, <4>1, <4>2, AccountEnd
    <3>2. CASE user'.channel = handler[t].channel /\ (CreateInsert(t) => ~user.exists)
      <4>1. Leaked' \subseteq Leaked \cup {user.channel}
        BY <2>1, <2>3, <3>2 DEF Leaked, Recorded
      <4>2. Fresh(t) => user.channel = handler[t].channel \/ user.channel \notin channels
        BY <2>5 DEF CreateInsert, CreateUpdate, Fresh, At, Gone
      <4>3. Fresh(t) => Leaked' \subseteq Leaked
        BY <2>1, <2>3, <3>2, <4>2 DEF Leaked, Recorded
      <4> QED
        BY <1>a, <2>1, <2>4, <4>1, <4>3, AccountEnd
    <3>3. CASE CreateInsert(t)
      <4>1. ~CreateUpdate(t)
        BY <3>3 DEF CreateInsert, CreateUpdate, At
      <4>2. user.exists => user' = user
        BY <3>3 DEF CreateInsert
      <4>3. ~user.exists => user'.channel = handler[t].channel
        BY <3>3 DEF CreateInsert
      <4> QED
        BY <3>1, <3>2, <4>1, <4>2, <4>3
    <3>4. CASE CreateUpdate(t)
      <4>1. ~CreateInsert(t)
        BY <3>4 DEF CreateInsert, CreateUpdate, At
      <4>2. ~user.exists => user' = user
        BY <3>4 DEF CreateUpdate
      <4>3. user.exists => user'.channel = handler[t].channel
        BY <3>4 DEF CreateUpdate, TypeOK, User
      <4> QED
        BY <3>1, <3>2, <4>1, <4>2, <4>3
    <3> QED
      BY <2>5, <3>3, <3>4
  <2>6. CASE RemoveWrite(t)
    <3>0. ~Making(t)
      BY <2>6 DEF RemoveWrite, Making, At
    <3>1. CASE user'.channel = user.channel
      <4>1. Leaked' \subseteq Leaked
        BY <2>1, <2>3, <3>0, <3>1 DEF Leaked, Recorded
      <4> QED
        BY <1>a, <2>1, <4>1, AccountEnd
    <3>2. CASE user'.channel # user.channel
      <4>1. user.exists /\ ~handler[t].keep
        BY <2>6, <3>2 DEF RemoveWrite, ChannelAfter, TypeOK, User
      <4>2. Leaked' \subseteq Leaked \cup {user.channel}
        BY <2>1, <2>3, <3>0 DEF Leaked, Recorded
      <4>3. Fresh(t) => user.channel \notin channels
        BY <2>6, <4>1 DEF RemoveWrite, Fresh, Gone
      <4>4. Fresh(t) => Leaked' \subseteq Leaked
        BY <2>1, <4>2, <4>3 DEF Leaked
      <4> QED
        BY <1>a, <2>1, <2>4, <4>2, <4>4, AccountEnd
    <3> QED
      BY <3>1, <3>2
  <2> QED
    BY <1>6, <2>5, <2>6
<1>7. ASSUME NEW t \in Task, DeleteChannel(t) PROVE LeaksSound'
  <2> DEFINE f == [handler[t] EXCEPT !.pc = "remove"]
  <2>1. /\ handler' = [handler EXCEPT ![t] = f] /\ At(t, "delete") /\ UNCHANGED user
        /\ channels' \subseteq channels
        /\ \/ channels' = channels \ {handler[t].channel} /\ mishaps' = mishaps
           \/ mishaps' = OneMore
    BY <1>7 DEF DeleteChannel
  <2>2. f.pc = "remove" /\ f.channel = handler[t].channel
    BY <1>b DEF Frame
  <2> HIDE DEF f
  <2>3. handler'[t] = f /\ \A u \in Task \ {t} : handler'[u] = handler[u]
    BY <1>c, <2>1
  <2>4. Begun' = Begun
    BY <2>1, <2>2, OneTask DEF At, Busy
  <2>5. Leaked' \subseteq Leaked
    <3>1. Recorded \subseteq Recorded'
      BY <2>1, <2>3, RecordedBy DEF Making, At
    <3> QED
      BY <2>1, <3>1 DEF Leaked
  <2>6. CASE mishaps' = OneMore
    BY <1>a, <2>4, <2>5, <2>6, AccountSame
  <2>7. CASE channels' = channels \ {handler[t].channel} /\ mishaps' = mishaps
    <3>1. (Gone => Gone') /\ (Fresh(t) => Fresh(t)')
      BY <2>1, <2>2, <2>3, <2>7 DEF Fresh, At, Gone
    <3>2. AllFresh => AllFresh'
      BY <1>d, <2>1, <2>3, <2>4, <3>1
    <3> QED
      BY <1>a, <2>4, <2>5, <2>7, <3>2, AccountSame
  <2> QED
    BY <2>1, <2>6, <2>7
<1>8. ASSUME NEW t \in Task, HandlerFails(t) \/ (t = "purge_loop" /\ LoopEnds /\ Busy(t))
      PROVE  LeaksSound'
  <2>1. /\ handler' = [handler EXCEPT ![t] = Idle] /\ Busy(t) /\ mishaps' = OneMore
        /\ UNCHANGED <<user, channels>>
    BY <1>8 DEF HandlerFails, LoopEnds, End
  <2>2. \A u \in Task \ {t} : handler'[u] = handler[u]
    BY <1>c, <2>1
  <2>3. Leaked' \subseteq Leaked \cup {handler[t].channel}
    BY <1>b, <2>1, <2>2 DEF Leaked, Recorded, Making
  <2> QED
    BY <1>a, <2>1, <2>3, AccountEnd
<1>9. CASE DeleteUser
  <2>1. UNCHANGED <<channels, handler>> /\ mishaps' = OneMore /\ user.exists /\ user' = NoUser
    BY <1>9 DEF DeleteUser
  <2>2. Begun' = Begun
    BY <2>1 DEF Begun, Busy
  <2>3. CASE user.channel \in Recorded' \/ Gone
    <3>1. Leaked' \subseteq Leaked
      BY <2>1, <2>3 DEF Leaked, Recorded, Making, Gone
    <3> QED
      BY <1>a, <2>1, <2>2, <3>1, AccountSame
  <2>4. CASE user.channel \notin Recorded' /\ ~Gone
    <3>1. ~user'.exists /\ user'.channel = 0
      BY <2>1, ConstantsTyped
    \* No create in progress has read this document and kept its channel.
    <3>2. ASSUME AllFresh, NEW t \in Begun
          PROVE  handler[t].pc \in {"delete", "remove"}
      <4>1. Fresh(t) /\ t \in Task /\ Busy(t)
        BY <3>2 DEF AllFresh, Begun
      <4>0. CASE t \notin Handler
        BY <4>0, <4>1 DEF CountSound, Busy
      <4>2. CASE At(t, "channel")
        BY <2>4, <4>1, <4>2 DEF Fresh
      <4>3. CASE handler[t].pc \in {"webhook", "role", "insert", "update"}
        <5>1. handler[t].channel = user.channel
          BY <2>4, <4>1, <4>3 DEF Fresh
        <5>2. t \in Handler => handler[t].channel \in Recorded'
          BY <2>1, <4>3 DEF Recorded, Making
        <5> QED
          BY <2>4, <4>0, <5>1, <5>2
      <4> QED
        BY <1>b, <4>1, <4>2, <4>3 DEF Busy, At, Frame
    <3>3. AllFresh => AllFresh'
      BY <2>1, <2>2, <3>1, <3>2 DEF AllFresh, Fresh, At
    <3>4. Leaked' \subseteq Leaked \cup {user.channel}
      BY <2>1 DEF Leaked, Recorded, Making
    <3> QED
      BY <1>a, <2>1, <2>2, <3>3, <3>4, AccountDelete
  <2> QED
    BY <2>3, <2>4
<1>10. CASE Tick \/ SetMode \/ Request \/ \E active \in BOOLEAN : SetActive(active)
  <2>1. UNCHANGED <<channels, handler, mishaps>>
    BY <1>10 DEF Tick, SetMode, Request, SetActive
  <2>2. user'.channel = user.channel /\ user'.exists = user.exists
    BY <1>10 DEF Tick, SetMode, Request, SetActive, TypeOK, User
  <2>3. Begun' = Begun /\ Leaked' = Leaked
    BY <2>1, <2>2 DEF Begun, Busy, Leaked, Recorded, Making
  <2>4. AllFresh => AllFresh'
    BY <2>1, <2>2, <2>3 DEF AllFresh, Fresh, At, Gone
  <2> QED
    BY <1>a, <2>1, <2>3, <2>4, AccountSame
<1>12. CASE LoopEnds /\ ~Busy("purge_loop")
  <2>1. /\ handler["purge_loop"].pc = "idle" /\ UNCHANGED <<user, channels, mishaps>>
        /\ handler' = [handler EXCEPT !["purge_loop"] = Idle]
    BY <1>12 DEF LoopEnds, Busy, End
  <2>2. \A t \in Task : handler'[t] = handler[t] \/ (handler[t].pc = "idle" /\ handler'[t].pc = "idle")
    BY <1>b, <2>1, ConstantsTyped
  <2>3. Begun' = Begun /\ \A t \in Begun : handler'[t] = handler[t]
    BY <2>2 DEF Begun, Busy
  <2>4. Recorded' = Recorded
    <3>1. \A h \in Handler : /\ Making(h)' <=> Making(h)
                             /\ Making(h) => handler'[h].channel = handler[h].channel
      BY <1>b, <2>2 DEF Making
    <3> QED
      BY <2>1, <3>1 DEF Recorded
  <2>5. Leaked' = Leaked /\ (AllFresh => AllFresh')
    BY <2>1, <2>3, <2>4 DEF Leaked, AllFresh, Fresh, At, Gone
  <2> QED
    BY <1>a, <2>1, <2>3, <2>5, AccountSame
<1>11. CASE OnReady \/ UNCHANGED vars
  BY <1>11 DEF OnReady, vars, LeaksSound, Leaked, Recorded, Making, Begun, Busy, Allowance, AllFresh,
               Fresh, At, Gone
<1> QED
  <2>1. "purge_loop" \in Task
    BY DEF Task
  <2> QED
    BY <1>b, <1>2, <1>3, <1>4, <1>5, <1>6, <1>7, <1>8, <1>9, <1>10, <1>11, <1>12, <2>1
       DEF Next, CreateStep

\* Each mishap costs one channel at most, whatever the order of commands, modes and purges.
THEOREM LeaksAreAccounted == Spec => []LeaksAccounted
<1>1. TypeOK /\ CountSound /\ LeaksSound => LeaksAccounted
  <2> SUFFICES ASSUME TypeOK, CountSound, LeaksSound PROVE Cardinality(Leaked) <= mishaps
    BY DEF LeaksAccounted, Leaked
  <2>1. Cardinality(Leaked) \in Nat /\ Cardinality(Begun) \in Nat /\ mishaps \in Nat
    BY LeaksFinite, Known
  <2>2. CASE mishaps < MaxOps
    <3>1. Cardinality(Leaked) + Cardinality(Begun) <= mishaps + Allowance
      BY <2>2 DEF LeaksSound
    <3>2. Allowance = 1 => Cardinality(Begun) # 0
      BY FS_EmptySet DEF Allowance, CountSound
    <3>3. Allowance \in {0, 1}
      BY DEF Allowance
    <3> QED
      BY <2>1, <3>1, <3>2, <3>3
  <2>3. CASE ~(mishaps < MaxOps)
    <3>1. mishaps = MaxOps /\ created <= MaxOps
      BY <2>3, Known
    <3>2. Cardinality(Leaked) <= created
      BY LeaksFinite
    <3> QED
      BY <2>1, <3>1, <3>2, Known
  <2> QED
    BY <2>2, <2>3
<1> QED
  BY <1>1, InitTyped, TypeStep, LeaksInit, LeaksStep, PTL DEF Spec
=============================================================================
