---------------------------- MODULE MailIntakeProofs ----------------------------
(***************************************************************************)
(* The intake of mail for any number of messages, any limits and any       *)
(* number of failures and restarts: types, and that no checkpoint passes   *)
(* over a message.                                                         *)
(***************************************************************************)
EXTENDS MCMail, TLAPS

ReceiverType == [pc : {"idle", "matched", "inserted"}, mail : Mail \cup {NoMail},
                 parent : Mail \cup {NoMail}, orphans : SUBSET Mail]
TickType == [pc : {"idle", "listing", "storing"}, start : Times, todo : SUBSET Mail, hold : Times]
MemoryType == [checkpoint : Times, fails : [Mail -> 0 .. RetryAttempts - 1], seeded : BOOLEAN]

\* A call under way holds a message of the mailbox; the poller's is on its list.
ReceiverKnows(r) == receiver[r].pc # "idle" =>
    /\ receiver[r].mail \in Mail /\ arrived[receiver[r].mail] # 0
    /\ r = "poll" => tick.pc = "storing" /\ receiver[r].mail \in tick.todo

\* Nothing has arrived after now, and only a tick that stores has a list.
TimesInOrder ==
    /\ tick.start <= instant /\ tick.hold <= instant
    /\ \A m \in Mail : arrived[m] <= instant
    /\ \A m \in tick.todo : arrived[m] # 0
    /\ tick.pc # "storing" => tick.todo = {} /\ tick.hold = 0

\* What arrives from now on is behind both checkpoints.
Behind(c) == c < instant \/ c <= tick.start
CheckpointsAreBehind == Behind(memory.checkpoint) /\ Behind(saved)

Waiting(m) == arrived[m] # 0 /\ ~Handled(m) /\ m \notin outOfSight

\* A message that waits is on the list, or holds the checkpoint back, or came later
\* than the list.
Accounted(m) == tick.pc = "storing" /\ Waiting(m) =>
    \/ m \in tick.todo
    \/ /\ tick.hold <= arrived[m]
       /\ \/ tick.hold # 0
          \/ arrived[m] > tick.start /\ \A n \in tick.todo : arrived[n] <= arrived[m]

IInv ==
    /\ IntakeTypeOK
    /\ \A r \in Receivers : ReceiverKnows(r)
    /\ TimesInOrder
    /\ CheckpointsAreBehind
    /\ NothingIsPassedOver
    /\ \A m \in Mail : Accounted(m)

---------------------------------------------------------------------------
(* Operators                                                               *)

LEMMA Division ==
    ASSUME NEW t \in Nat, NEW s \in Nat, s > 0
    PROVE  t - (t % s) \in 0 .. t
<1>1. t % s \in 0 .. (s - 1) /\ t \div s \in Nat
  OBVIOUS
<1>2. t = (s * (t \div s)) + (t % s)
  OBVIOUS
<1>3. ASSUME NEW d \in Nat PROVE s * d \in Nat
  OBVIOUS
<1>4. ASSUME NEW u \in Nat, NEW v \in Nat, t = u + v PROVE t - v \in 0 .. t
  BY <1>4
<1> QED BY <1>1, <1>2, <1>3, <1>4

\* The filter of a listing is never later than the instant it is made from.
LEMMA LiteralIsEarlier ==
    ASSUME NEW t \in Nat
    PROVE  Literal(t) \in 0 .. t
BY Division, IntakeAssumption DEF Literal

LEMMA SinceType == IntakeTypeOK => Since \in Times /\ (memory.checkpoint # 0 => Since = memory.checkpoint)
<1> SUFFICES ASSUME IntakeTypeOK PROVE Since \in Times /\ (memory.checkpoint # 0 => Since = memory.checkpoint)
  OBVIOUS
<1>1. memory.checkpoint \in Times /\ instant \in Times
  BY DEF IntakeTypeOK
<1> QED BY <1>1, IntakeAssumption DEF Since, Times

\* The steps that leave the poller's books, the clock and the arrivals alone.
LEMMA BooksUntouched ==
    ASSUME IInv, UNCHANGED <<instant, arrived, tick, memory, saved, outOfSight>>,
           stored \subseteq stored', refused \subseteq refused', givenUp \subseteq givenUp'
    PROVE  /\ TimesInOrder' /\ CheckpointsAreBehind' /\ NothingIsPassedOver'
           /\ \A m \in Mail : Accounted(m)'
<1>1. \A m \in Mail : Waiting(m)' => Waiting(m)
  BY DEF Waiting, Handled
<1>2. TimesInOrder' /\ CheckpointsAreBehind'
  BY DEF IInv, TimesInOrder, CheckpointsAreBehind, Behind
<1>3. NothingIsPassedOver'
  BY DEF IInv, NothingIsPassedOver, Handled
<1>4. \A m \in Mail : Accounted(m)'
  BY <1>1 DEF IInv, Accounted
<1> QED BY <1>2, <1>3, <1>4

---------------------------------------------------------------------------
(* Types                                                                   *)

LEMMA NewCheckpointType == IntakeTypeOK => NewCheckpoint \in Times
<1> SUFFICES ASSUME IntakeTypeOK PROVE NewCheckpoint \in Times
  OBVIOUS
<1>1. tick.hold \in Times /\ tick.start \in Times
  BY DEF IntakeTypeOK
<1> QED BY <1>1, IntakeAssumption DEF NewCheckpoint, Times

LEMMA TickTypeStep ==
    ASSUME IntakeTypeOK,
           TimePasses \/ (\E m \in Mail : Arrive(m) \/ Act(m))
           \/ BeginTick \/ ListMail \/ TickFails \/ EndTick \/ Reboot
    PROVE  IntakeTypeOK'
<1> USE IntakeAssumption
<1>0. 0 \in Times /\ Times \subseteq Nat /\ instant \in Times
  BY DEF Times, IntakeTypeOK
<1>1. CASE TimePasses
  BY <1>1 DEF IntakeTypeOK, TimePasses, Times, threadVars, ghostVars
<1>2. ASSUME NEW m \in Mail, Arrive(m) \/ Act(m) PROVE IntakeTypeOK'
  BY <1>0, <1>2 DEF IntakeTypeOK, Arrive, Act, mailboxVars, threadVars, ghostVars
<1>3. CASE BeginTick
  <2>0. memory \in MemoryType /\ saved \in Times /\ troubles \in 0 .. MaxTroubles
    BY DEF IntakeTypeOK, MemoryType
  <2>a. \/ memory' = [memory EXCEPT !.seeded = TRUE]
        \/ memory' = [memory EXCEPT !.seeded = TRUE, !.checkpoint = saved]
    BY <1>3 DEF BeginTick, Seed
  <2>b. memory' \in MemoryType
    BY <2>0, <2>a DEF MemoryType
  <2>c. troubles' \in 0 .. MaxTroubles
    BY <2>0, <1>3 DEF BeginTick, Seed, Trouble
  <2>1. memory' \in MemoryType /\ troubles' \in 0 .. MaxTroubles
    BY <2>b, <2>c
  <2>2. tick' \in TickType
    BY <1>0, <1>3 DEF BeginTick, TickType
  <2> QED BY <1>3, <2>1, <2>2
          DEF BeginTick, IntakeTypeOK, MemoryType, TickType, mailboxVars, threadVars, ghostVars
<1>4. CASE ListMail
  <2>1. tick' \in TickType
    BY <1>4 DEF ListMail, Listed, Matching, IntakeTypeOK, TickType
  <2>2. outOfSight' \subseteq Mail
    BY <1>4 DEF ListMail, Listed, Matching, IntakeTypeOK
  <2> QED BY <1>4, <2>1, <2>2 DEF ListMail, IntakeTypeOK, TickType, mailboxVars, threadVars
<1>5. CASE TickFails
  <2>1. tick' \in TickType
    BY <1>0, <1>5 DEF TickFails, IntakeTypeOK, TickType
  <2> QED BY <1>5, <2>1
          DEF TickFails, Trouble, IntakeTypeOK, TickType, mailboxVars, threadVars, ghostVars
<1>6. CASE EndTick
  <2>1. tick' \in TickType
    BY <1>0, <1>6 DEF EndTick, IntakeTypeOK, TickType
  <2>2. memory' \in MemoryType /\ saved' \in Times /\ troubles' \in 0 .. MaxTroubles
    BY <1>6, NewCheckpointType DEF EndTick, Trouble, IntakeTypeOK, MemoryType
  <2> QED BY <1>6, <2>1, <2>2
          DEF EndTick, IntakeTypeOK, TickType, MemoryType, mailboxVars, threadVars, ghostVars
<1>7. CASE Reboot
  <2>1. tick' \in TickType
    BY <1>0, <1>7 DEF Reboot, IntakeTypeOK, TickType
  <2>2. memory' \in MemoryType
    BY <1>0, <1>7 DEF Reboot, NewProcess, MemoryType
  <2>3. receiver' \in [Receivers -> ReceiverType]
    BY <1>7 DEF Reboot, IdleReceiver, ReceiverType
  <2> QED BY <1>7, <2>1, <2>2, <2>3 DEF Reboot, Trouble, IntakeTypeOK, TickType, MemoryType,
             ReceiverType, mailboxVars, threadVars, ghostVars
<1> QED BY <1>1, <1>2, <1>3, <1>4, <1>5, <1>6, <1>7

\* Being through with a message.
LEMMA DoneType ==
    ASSUME IntakeTypeOK, NEW r \in Receivers, NEW m \in Mail, Done(r, m)
    PROVE  tick' \in TickType /\ memory' \in MemoryType
<1> DEFINE counts == [memory.fails EXCEPT ![m] = 0]
<1>1. counts \in [Mail -> 0 .. RetryAttempts - 1]
  BY IntakeAssumption DEF IntakeTypeOK
<1>2. r = "poll" => memory' = [memory EXCEPT !.fails = counts]
  BY DEF Done
<1> HIDE DEF counts
<1> QED BY <1>1, <1>2 DEF Done, IntakeTypeOK, TickType, MemoryType

LEMMA FailureType ==
    ASSUME IntakeTypeOK, NEW r \in Receivers, ReceiverKnows(r), ReceiveFails(r)
    PROVE  tick' \in TickType /\ memory' \in MemoryType /\ givenUp' \subseteq Mail
<1> DEFINE m == receiver[r].mail
           attempts == memory.fails[m] + 1
           last == attempts >= RetryAttempts
           count == IF last THEN 0 ELSE attempts
           counts == [memory.fails EXCEPT ![m] = count]
           hold == IF last THEN tick.hold ELSE Earlier(arrived[m], tick.hold)
<1>1. m \in Mail /\ memory.fails \in [Mail -> 0 .. RetryAttempts - 1]
  BY DEF ReceiveFails, ReceiverKnows, IntakeTypeOK
<1>2. memory.fails[m] \in 0 .. RetryAttempts - 1
  BY <1>1
<1>3. count \in 0 .. RetryAttempts - 1
  BY <1>2, IntakeAssumption
<1>4. arrived[m] \in Times /\ tick.hold \in Times
  BY <1>1 DEF IntakeTypeOK
<1>5. hold \in Times
  BY <1>4 DEF Earlier
<1>6. r = "poll" => /\ tick' = [tick EXCEPT !.todo = tick.todo \ {m}, !.hold = hold]
                    /\ memory' = [memory EXCEPT !.fails = counts]
                    /\ givenUp' \subseteq givenUp \cup {m}
  BY DEF ReceiveFails
<1>7. r # "poll" => UNCHANGED <<tick, memory, givenUp>>
  BY DEF ReceiveFails
<1>8. counts \in [Mail -> 0 .. RetryAttempts - 1]
  BY <1>1, <1>3
<1> HIDE DEF counts, hold, m, count, last, attempts
<1>9. tick \in TickType /\ memory \in MemoryType /\ givenUp \subseteq Mail
  BY DEF IntakeTypeOK, TickType, MemoryType
<1>10. CASE r = "poll"
  <2>1. tick' \in TickType
    BY <1>5, <1>6, <1>9, <1>10 DEF TickType
  <2>2. memory' \in MemoryType
    BY <1>6, <1>8, <1>9, <1>10 DEF MemoryType
  <2> QED BY <1>1, <1>6, <1>9, <1>10, <2>1, <2>2
<1> QED BY <1>7, <1>9, <1>10

LEMMA ReceiveTypeStep ==
    ASSUME IntakeTypeOK, NEW r \in Receivers, ReceiverKnows(r), Receive(r) \/ ReceiveFails(r)
    PROVE  IntakeTypeOK'
<1>0. IdleReceiver \in ReceiverType /\ receiver \in [Receivers -> ReceiverType]
  BY DEF IdleReceiver, ReceiverType, IntakeTypeOK
<1>1. ASSUME NEW m \in Mail, Refuse(r, m) PROVE IntakeTypeOK'
  BY <1>1, DoneType DEF Refuse, IntakeTypeOK, TickType, MemoryType, mailboxVars, threadVars
<1>2. ASSUME NEW m \in Mail, Match(r, m) PROVE IntakeTypeOK'
  <2>1. PICK p \in ThreadsOf(m) : receiver' = [receiver EXCEPT ![r] =
           [pc |-> "matched", mail |-> m, parent |-> p, orphans |-> {}]]
    BY <1>2 DEF Match
  <2>2. p \in Mail \cup {NoMail}
    <3>1. \A n : Roots(n) \subseteq Mail
      BY DEF Roots, WalkUp
    <3> QED BY <3>1 DEF ThreadsOf
  <2>3. [pc |-> "matched", mail |-> m, parent |-> p, orphans |-> {}] \in ReceiverType
    BY <2>2 DEF ReceiverType
  <2>4. receiver' \in [Receivers -> ReceiverType]
    BY <1>0, <2>1, <2>3
  <2> QED BY <1>2, <2>4 DEF Match, IntakeTypeOK, ReceiverType, mailboxVars, threadVars, ghostVars
<1>3. CASE Insert(r)
  <2> DEFINE found == IF kind[receiver[r].mail] = "email" THEN Orphans(receiver[r].mail) ELSE {}
             call == [receiver[r] EXCEPT !.pc = "inserted", !.orphans = found]
  <2>1. found \subseteq Mail
    BY DEF Orphans, IntakeTypeOK
  <2>2. call \in ReceiverType
    BY <1>0, <2>1 DEF ReceiverType
  <2>3. receiver' = [receiver EXCEPT ![r] = call]
    BY <1>3 DEF Insert
  <2> HIDE DEF call, found
  <2>4. receiver' \in [Receivers -> ReceiverType]
    BY <1>0, <2>2, <2>3
  <2> QED BY <1>3, <2>4 DEF Insert, IntakeTypeOK, ReceiverType, mailboxVars, threadVars, ghostVars
<1>4. CASE LostInsertRace(r)
  <2>1. receiver[r].mail \in Mail
    BY <1>4 DEF LostInsertRace, ReceiverKnows
  <2>2. receiver' \in [Receivers -> ReceiverType]
    BY <1>0, <1>4 DEF LostInsertRace
  <2> QED BY <1>4, <2>1, <2>2, DoneType DEF LostInsertRace, IntakeTypeOK, TickType, MemoryType,
             ReceiverType, mailboxVars, threadVars, ghostVars
<1>5. CASE Store(r)
  <2>1. receiver[r].mail \in Mail /\ receiver[r].parent \in Mail \cup {NoMail}
    BY <1>0, <1>5 DEF Store, ReceiverKnows, ReceiverType
  <2>2. receiver' \in [Receivers -> ReceiverType]
    BY <1>0, <1>5 DEF Store
  <2>3. parent' \in [Mail -> Mail \cup {NoMail}] /\ stored' \subseteq Mail
    BY <1>5, <2>1 DEF Store, IntakeTypeOK
  <2> QED BY <1>5, <2>1, <2>2, <2>3, DoneType DEF Store, IntakeTypeOK, TickType, MemoryType,
             ReceiverType, mailboxVars, ghostVars
<1>6. CASE ReceiveFails(r)
  <2>1. receiver' \in [Receivers -> ReceiverType]
    BY <1>0, <1>6 DEF ReceiveFails
  <2>a. troubles < MaxTroubles /\ troubles' = troubles + 1
    BY <1>6 DEF ReceiveFails, Trouble
  <2>b. troubles \in 0 .. MaxTroubles
    BY DEF IntakeTypeOK
  <2>2. troubles' \in 0 .. MaxTroubles
    BY <2>a, <2>b, IntakeAssumption
  <2>3. tick' \in TickType /\ memory' \in MemoryType /\ givenUp' \subseteq Mail
    BY <1>6, FailureType
  <2>4. UNCHANGED <<instant, kind, arrived, stored, parent, acted, refused, outOfSight, saved>>
    BY <1>6 DEF ReceiveFails, mailboxVars, threadVars
  <2> QED BY <2>1, <2>2, <2>3, <2>4 DEF IntakeTypeOK, TickType, MemoryType, ReceiverType
<1> QED BY <1>1, <1>2, <1>3, <1>4, <1>5, <1>6 DEF Receive

---------------------------------------------------------------------------
(* The poller's accounts                                                   *)

Books == TimesInOrder /\ CheckpointsAreBehind /\ NothingIsPassedOver
         /\ \A m \in Mail : Accounted(m)

LEMMA NumbersAreNatural ==
    ASSUME IntakeTypeOK
    PROVE  /\ instant \in Nat /\ tick.start \in Nat /\ tick.hold \in Nat
           /\ memory.checkpoint \in Nat /\ saved \in Nat
           /\ \A m \in Mail : arrived[m] \in Nat
           /\ tick.todo \subseteq Mail
<1> QED BY IntakeAssumption DEF IntakeTypeOK, Times

\* Time, the mailbox and the agents: what arrives now is later than both checkpoints.
LEMMA MailboxStep ==
    ASSUME IInv, TimePasses \/ \E m \in Mail : Arrive(m) \/ Act(m)
    PROVE  Books' /\ \A r \in Receivers : ReceiverKnows(r)'
<1>0. IntakeTypeOK /\ Books /\ \A r \in Receivers : ReceiverKnows(r)
  BY DEF IInv, Books
<1> USE NumbersAreNatural, <1>0
<1>1. CASE TimePasses
  <2>1. UNCHANGED <<arrived, tick, memory, saved, outOfSight, receiver, stored, refused, givenUp>>
        /\ instant' = instant + 1
    BY <1>1 DEF TimePasses, threadVars, ghostVars
  <2>2. TimesInOrder' /\ CheckpointsAreBehind'
    BY <2>1 DEF Books, TimesInOrder, CheckpointsAreBehind, Behind
  <2>3. NothingIsPassedOver' /\ \A m \in Mail : Accounted(m)'
    BY <2>1 DEF Books, NothingIsPassedOver, Accounted, Waiting, Handled
  <2> QED BY <2>1, <2>2, <2>3 DEF Books, ReceiverKnows
<1>2. ASSUME NEW m \in Mail, Arrive(m)
      PROVE  Books' /\ \A r \in Receivers : ReceiverKnows(r)'
  <2>1. UNCHANGED <<instant, tick, memory, saved, outOfSight, receiver, stored, refused, givenUp>>
        /\ instant > tick.start /\ arrived[m] = 0
    BY <1>2 DEF Arrive, threadVars, ghostVars
  <2>2. arrived'[m] = instant /\ \A n \in Mail : n # m => arrived'[n] = arrived[n]
    BY <1>2 DEF Arrive, IntakeTypeOK
  <2>3. TimesInOrder' /\ CheckpointsAreBehind'
    BY <2>1, <2>2 DEF Books, TimesInOrder, CheckpointsAreBehind, Behind
  <2>4. memory.checkpoint < instant /\ saved < instant
    BY <2>1 DEF Books, CheckpointsAreBehind, Behind
  <2>5. NothingIsPassedOver'
    BY <2>1, <2>2, <2>4 DEF Books, NothingIsPassedOver, Handled
  <2>6. m \notin tick.todo /\ \A n \in tick.todo : arrived'[n] = arrived[n] /\ arrived[n] <= instant
    BY <2>1, <2>2 DEF Books, TimesInOrder
  <2>7. Accounted(m)'
    BY <2>1, <2>2, <2>6 DEF Books, TimesInOrder, Accounted
  <2>8. \A n \in Mail \ {m} : Accounted(n)'
    BY <2>1, <2>2, <2>6 DEF Books, Accounted, Waiting, Handled
  <2>9. \A r \in Receivers : ReceiverKnows(r)'
    BY <2>1, <2>2 DEF ReceiverKnows
  <2> QED BY <2>3, <2>5, <2>7, <2>8, <2>9 DEF Books
<1>3. ASSUME NEW m \in Mail, Act(m)
      PROVE  Books' /\ \A r \in Receivers : ReceiverKnows(r)'
  <2>1. UNCHANGED <<instant, arrived, tick, memory, saved, outOfSight, receiver, stored,
                    refused, givenUp>>
    BY <1>3 DEF Act, mailboxVars, ghostVars
  <2> QED BY <2>1, BooksUntouched DEF Books, ReceiverKnows
<1> QED BY <1>1, <1>2, <1>3

\* The poller begins: the checkpoint is its own or the saved one, which was behind too.
LEMMA BeginStep ==
    ASSUME IInv, BeginTick
    PROVE  Books' /\ \A r \in Receivers : ReceiverKnows(r)'
<1>0. IntakeTypeOK /\ Books /\ \A r \in Receivers : ReceiverKnows(r)
  BY DEF IInv, Books
<1> USE NumbersAreNatural, <1>0
<1>1. UNCHANGED <<instant, arrived, saved, outOfSight, receiver, stored, refused, givenUp>>
  BY DEF BeginTick, mailboxVars, threadVars, ghostVars
<1>2. memory \in MemoryType
  BY DEF IntakeTypeOK, MemoryType
<1>3. memory'.checkpoint = memory.checkpoint \/ memory'.checkpoint = saved
  BY <1>2 DEF BeginTick, Seed, MemoryType
<1>4. tick.pc = "idle" /\ tick'.pc = "listing" /\ tick'.start = instant
      /\ tick'.todo = {} /\ tick'.hold = 0
  BY DEF BeginTick
<1>5. TimesInOrder' /\ CheckpointsAreBehind'
  BY <1>1, <1>3, <1>4 DEF Books, TimesInOrder, CheckpointsAreBehind, Behind
<1>6. NothingIsPassedOver'
  BY <1>1, <1>3 DEF Books, NothingIsPassedOver, Handled
<1>7. \A m \in Mail : Accounted(m)'
  BY <1>4 DEF Accounted
<1>8. \A r \in Receivers : ReceiverKnows(r)'
  BY <1>1, <1>4 DEF ReceiverKnows
<1> QED BY <1>5, <1>6, <1>7, <1>8 DEF Books

\* The listing has every message that waits.
LEMMA ListStep ==
    ASSUME IInv, ListMail
    PROVE  Books' /\ \A r \in Receivers : ReceiverKnows(r)'
<1>0. IntakeTypeOK /\ Books /\ \A r \in Receivers : ReceiverKnows(r)
  BY DEF IInv, Books
<1> USE NumbersAreNatural, <1>0
<1>1. UNCHANGED <<instant, arrived, memory, saved, receiver, stored, refused, givenUp>>
  BY DEF ListMail, mailboxVars, threadVars
<1>2. tick.pc = "listing" /\ tick'.pc = "storing" /\ tick'.todo = Listed
      /\ tick'.hold = tick.hold /\ tick'.start = tick.start
  BY DEF ListMail, IntakeTypeOK
<1>3. Since \in Nat /\ Literal(Since) \in 0 .. Since
      /\ (memory.checkpoint # 0 => Since = memory.checkpoint)
  BY SinceType, LiteralIsEarlier, IntakeAssumption DEF Times
<1>4. Listed \subseteq Matching /\ Matching \subseteq Mail
      /\ \A m \in Matching : arrived[m] > Literal(Since)
  BY DEF Listed, Matching
<1>5. outOfSight \subseteq outOfSight'
  BY DEF ListMail
<1>6. ASSUME NEW m \in Mail, arrived[m] # 0, ~Handled(m), m \notin outOfSight'
      PROVE  m \in Listed
  <2>1. arrived[m] > Since
    <3>1. CASE memory.checkpoint = 0
      <4>1. m \notin {n \in Mail : memory.checkpoint = 0 /\ arrived[n] \in 1 .. Since}
        BY <1>6 DEF ListMail
      <4> QED BY <1>3, <1>6, <3>1, <4>1
    <3>2. CASE memory.checkpoint # 0
      BY <1>3, <1>5, <1>6, <3>2 DEF Books, NothingIsPassedOver
    <3> QED BY <3>1, <3>2
  <2>2. m \in Matching
    BY <1>3, <2>1 DEF Matching
  <2>3. m \notin Matching \ Listed
    BY <1>6 DEF ListMail
  <2> QED BY <2>2, <2>3
<1> HIDE DEF Listed, Matching
<1>7. TimesInOrder' /\ CheckpointsAreBehind'
  <2>1. \A m \in Listed : arrived[m] # 0
    BY <1>3, <1>4
  <2> QED BY <1>1, <1>2, <2>1 DEF Books, TimesInOrder, CheckpointsAreBehind, Behind
<1>8. NothingIsPassedOver'
  BY <1>1, <1>5 DEF Books, NothingIsPassedOver, Handled
<1>9. \A m \in Mail : Accounted(m)'
  BY <1>1, <1>2, <1>6 DEF Accounted, Waiting, Handled
<1>10. \A r \in Receivers : ReceiverKnows(r)'
  BY <1>1, <1>2 DEF ReceiverKnows
<1> QED BY <1>7, <1>8, <1>9, <1>10 DEF Books

\* The tick ends: nothing is left on the list, so what waits is later than the new checkpoint.
LEMMA EndStep ==
    ASSUME IInv, EndTick
    PROVE  Books' /\ \A r \in Receivers : ReceiverKnows(r)'
<1>0. IntakeTypeOK /\ Books /\ \A r \in Receivers : ReceiverKnows(r)
  BY DEF IInv, Books
<1> USE NumbersAreNatural, <1>0
<1>1. UNCHANGED <<instant, arrived, outOfSight, receiver, stored, refused, givenUp>>
  BY DEF EndTick, mailboxVars, threadVars, ghostVars
<1>2. /\ tick.pc = "storing" /\ tick.todo = {} /\ receiver["poll"].pc = "idle"
      /\ tick'.pc = "idle" /\ tick'.todo = {} /\ tick'.hold = 0 /\ tick'.start = tick.start
  BY DEF EndTick, IntakeTypeOK
<1>3. memory'.checkpoint = NewCheckpoint /\ saved' \in {saved, NewCheckpoint}
  BY DEF EndTick, IntakeTypeOK
<1>4. Behind(NewCheckpoint)
  BY DEF Behind, NewCheckpoint, Books, TimesInOrder
<1>5. \A m \in Mail : Waiting(m) => arrived[m] > NewCheckpoint
  BY <1>2 DEF Books, Accounted, NewCheckpoint
<1> HIDE DEF NewCheckpoint
<1>6. TimesInOrder' /\ CheckpointsAreBehind'
  BY <1>1, <1>2, <1>3, <1>4 DEF Books, TimesInOrder, CheckpointsAreBehind, Behind
<1>7. NothingIsPassedOver'
  BY <1>1, <1>3, <1>5 DEF Books, NothingIsPassedOver, Handled, Waiting
<1>8. \A m \in Mail : Accounted(m)'
  BY <1>2 DEF Accounted
<1>9. \A r \in Receivers : ReceiverKnows(r)'
  BY <1>1, <1>2 DEF ReceiverKnows
<1> QED BY <1>6, <1>7, <1>8, <1>9 DEF Books

\* A tick that fails and a process that restarts leave the saved checkpoint as it was.
LEMMA StopStep ==
    ASSUME IInv, TickFails \/ Reboot
    PROVE  Books' /\ \A r \in Receivers : ReceiverKnows(r)'
<1>0. IntakeTypeOK /\ Books /\ \A r \in Receivers : ReceiverKnows(r)
  BY DEF IInv, Books
<1> USE NumbersAreNatural, <1>0
<1>1. UNCHANGED <<instant, arrived, outOfSight, saved, stored, refused, givenUp>>
  BY DEF TickFails, Reboot, mailboxVars, threadVars, ghostVars
<1>2. tick'.pc = "idle" /\ tick'.todo = {} /\ tick'.hold = 0 /\ tick'.start = tick.start
  BY DEF TickFails, Reboot, IntakeTypeOK
<1>3. memory'.checkpoint \in {memory.checkpoint, 0}
  BY DEF TickFails, Reboot, NewProcess
<1>4. TimesInOrder' /\ CheckpointsAreBehind'
  <2>1. Behind(0)
    BY DEF Behind
  <2> QED BY <1>1, <1>2, <1>3, <2>1 DEF Books, TimesInOrder, CheckpointsAreBehind, Behind
<1>5. NothingIsPassedOver'
  BY <1>1, <1>3 DEF Books, NothingIsPassedOver, Handled
<1>6. \A m \in Mail : Accounted(m)'
  BY <1>2 DEF Accounted
<1>7. \A r \in Receivers : ReceiverKnows(r)'
  <2>1. CASE TickFails
    <3>1. receiver' = receiver /\ receiver["poll"].pc = "idle"
      BY <2>1 DEF TickFails
    <3> QED BY <1>1, <3>1 DEF ReceiverKnows
  <2>2. CASE Reboot
    BY <2>2 DEF Reboot, IdleReceiver, ReceiverKnows
  <2> QED BY <2>1, <2>2
<1> QED BY <1>4, <1>5, <1>6, <1>7 DEF Books

\* A message leaves the list of the poller once it is handled.
LEMMA DoneStep ==
    ASSUME IInv, NEW r \in Receivers, NEW m \in Mail, Done(r, m),
           UNCHANGED <<instant, arrived, saved, outOfSight>>,
           stored \subseteq stored', refused \subseteq refused', givenUp \subseteq givenUp',
           m \in stored' \cup refused' \cup givenUp',
           receiver'[r].pc = "idle", \A q \in Receivers \ {r} : receiver'[q] = receiver[q]
    PROVE  Books' /\ \A q \in Receivers : ReceiverKnows(q)'
<1>0. IntakeTypeOK /\ Books /\ \A q \in Receivers : ReceiverKnows(q)
  BY DEF IInv, Books
<1> USE NumbersAreNatural, <1>0
<1>1. CASE r = "poll"
  <2>1. /\ tick'.pc = tick.pc /\ tick'.todo = tick.todo \ {m}
        /\ tick'.hold = tick.hold /\ tick'.start = tick.start
    BY <1>1 DEF Done, IntakeTypeOK
  <2>2. memory'.checkpoint = memory.checkpoint
    BY <1>1 DEF Done, IntakeTypeOK
  <2>3. \A n \in Mail : Waiting(n)' => Waiting(n) /\ n # m
    BY DEF Waiting, Handled
  <2>4. TimesInOrder' /\ CheckpointsAreBehind'
    BY <2>1, <2>2 DEF Books, TimesInOrder, CheckpointsAreBehind, Behind
  <2>5. NothingIsPassedOver'
    BY <2>2 DEF Books, NothingIsPassedOver, Handled
  <2>6. \A n \in Mail : Accounted(n)'
    BY <2>1, <2>3 DEF Books, Accounted
  <2>7. \A q \in Receivers : ReceiverKnows(q)'
    BY <1>1 DEF ReceiverKnows
  <2> QED BY <2>4, <2>5, <2>6, <2>7 DEF Books
<1>2. CASE r # "poll"
  <2>1. UNCHANGED <<tick, memory>>
    BY <1>2 DEF Done
  <2>2. Books'
    BY <2>1, BooksUntouched DEF Books
  <2>3. \A q \in Receivers : ReceiverKnows(q)'
    BY <2>1 DEF ReceiverKnows
  <2> QED BY <2>2, <2>3
<1> QED BY <1>1, <1>2

LEMMA ReceiveStep ==
    ASSUME IInv, NEW r \in Receivers, Receive(r)
    PROVE  Books' /\ \A q \in Receivers : ReceiverKnows(q)'
<1>0. /\ IntakeTypeOK /\ Books /\ \A q \in Receivers : ReceiverKnows(q)
      /\ receiver \in [Receivers -> ReceiverType]
  BY DEF IInv, Books, IntakeTypeOK, ReceiverType
<1> USE <1>0
<1>1. ASSUME NEW m \in Mail, Refuse(r, m)
      PROVE  Books' /\ \A q \in Receivers : ReceiverKnows(q)'
  <2>1. receiver' = receiver /\ receiver[r].pc = "idle" /\ Done(r, m)
    BY <1>1 DEF Refuse, MayReceive
  <2>2. /\ UNCHANGED <<instant, arrived, saved, outOfSight, stored, givenUp>>
        /\ refused \subseteq refused' /\ m \in stored' \cup refused' \cup givenUp'
    BY <1>1 DEF Refuse, mailboxVars, threadVars
  <2> QED BY <2>1, <2>2, DoneStep
<1>2. ASSUME NEW m \in Mail, Match(r, m)
      PROVE  Books' /\ \A q \in Receivers : ReceiverKnows(q)'
  <2>1. UNCHANGED <<instant, arrived, tick, memory, saved, outOfSight, stored, refused, givenUp>>
    BY <1>2 DEF Match, mailboxVars, threadVars, ghostVars
  <2>2. /\ receiver'[r].mail = m /\ \A q \in Receivers \ {r} : receiver'[q] = receiver[q]
        /\ arrived[m] # 0 /\ (r = "poll" => tick.pc = "storing" /\ m \in tick.todo)
    BY <1>2 DEF Match, MayReceive
  <2>3. \A q \in Receivers : ReceiverKnows(q)'
    BY <2>1, <2>2 DEF ReceiverKnows
  <2> QED BY <2>1, <2>3, BooksUntouched DEF Books
<1>3. CASE Insert(r)
  <2>1. UNCHANGED <<instant, arrived, tick, memory, saved, outOfSight, stored, refused, givenUp>>
    BY <1>3 DEF Insert, mailboxVars, threadVars, ghostVars
  <2>2. /\ receiver'[r].mail = receiver[r].mail /\ receiver[r].pc = "matched"
        /\ \A q \in Receivers \ {r} : receiver'[q] = receiver[q]
    BY <1>3 DEF Insert, ReceiverType
  <2>3. \A q \in Receivers : ReceiverKnows(q)'
    BY <2>1, <2>2 DEF ReceiverKnows
  <2> QED BY <2>1, <2>3, BooksUntouched DEF Books
<1>4. CASE LostInsertRace(r)
  <2>1. receiver[r].mail \in Mail /\ receiver[r].mail \in stored /\ Done(r, receiver[r].mail)
    BY <1>4 DEF LostInsertRace, ReceiverKnows
  <2>2. UNCHANGED <<instant, arrived, saved, outOfSight, stored, refused, givenUp>>
    BY <1>4 DEF LostInsertRace, mailboxVars, threadVars, ghostVars
  <2>3. receiver'[r].pc = "idle" /\ \A q \in Receivers \ {r} : receiver'[q] = receiver[q]
    BY <1>4 DEF LostInsertRace, IdleReceiver
  <2> QED BY <2>1, <2>2, <2>3, DoneStep
<1>5. CASE Store(r)
  <2>1. receiver[r].mail \in Mail /\ Done(r, receiver[r].mail)
        /\ stored' = stored \cup {receiver[r].mail}
    BY <1>5 DEF Store, ReceiverKnows
  <2>2. UNCHANGED <<instant, arrived, saved, outOfSight, refused, givenUp>>
    BY <1>5 DEF Store, mailboxVars, ghostVars
  <2>3. receiver'[r].pc = "idle" /\ \A q \in Receivers \ {r} : receiver'[q] = receiver[q]
    BY <1>5 DEF Store, IdleReceiver
  <2> QED BY <2>1, <2>2, <2>3, DoneStep
<1> QED BY <1>1, <1>2, <1>3, <1>4, <1>5 DEF Receive

\* A message that fails holds the checkpoint back, or is given up.
LEMMA FailStep ==
    ASSUME IInv, NEW r \in Receivers, ReceiveFails(r)
    PROVE  Books' /\ \A q \in Receivers : ReceiverKnows(q)'
<1> DEFINE m == receiver[r].mail
<1>0. /\ IntakeTypeOK /\ Books /\ \A q \in Receivers : ReceiverKnows(q)
      /\ receiver \in [Receivers -> ReceiverType]
  BY DEF IInv, Books, IntakeTypeOK, ReceiverType
<1> USE NumbersAreNatural, <1>0
<1>1. m \in Mail /\ arrived[m] # 0 /\ (r = "poll" => tick.pc = "storing" /\ m \in tick.todo)
  BY DEF ReceiveFails, ReceiverKnows
<1>2. UNCHANGED <<instant, arrived, saved, outOfSight, stored, refused>>
  BY DEF ReceiveFails, mailboxVars, threadVars
<1>3. receiver'[r].pc = "idle" /\ \A q \in Receivers \ {r} : receiver'[q] = receiver[q]
  BY DEF ReceiveFails, IdleReceiver
<1> HIDE DEF m
<1>4. CASE r = "poll"
  <2>1. /\ tick'.pc = tick.pc /\ tick'.todo = tick.todo \ {m} /\ tick'.start = tick.start
        /\ memory'.checkpoint = memory.checkpoint
    BY <1>4 DEF ReceiveFails, IntakeTypeOK, m
  <2>2. \/ tick'.hold = tick.hold /\ givenUp' = givenUp \cup {m}
        \/ tick'.hold = Earlier(arrived[m], tick.hold) /\ givenUp' = givenUp
    BY <1>4 DEF ReceiveFails, IntakeTypeOK, m
  <2>3. TimesInOrder'
    BY <1>1, <1>2, <1>4, <2>1, <2>2 DEF Books, TimesInOrder, Earlier
  <2>4. CheckpointsAreBehind'
    BY <1>2, <2>1 DEF Books, CheckpointsAreBehind, Behind
  <2>5. NothingIsPassedOver'
    BY <1>2, <2>1, <2>2 DEF Books, NothingIsPassedOver, Handled
  <2>6. ASSUME NEW n \in Mail PROVE Accounted(n)'
    <3>1. CASE n = m
      BY <1>1, <1>2, <2>1, <2>2, <3>1 DEF Accounted, Waiting, Handled, Earlier
    <3>2. CASE n # m
      <4>1. Waiting(n)' => Waiting(n)
        BY <1>2, <2>2 DEF Waiting, Handled
      <4>2. /\ arrived[m] \in Nat /\ arrived[n] \in Nat /\ tick.hold \in Nat
            /\ arrived' = arrived
        BY <1>1, <1>2
      <4>3. \/ tick'.hold = tick.hold
            \/ tick.hold = 0 /\ tick'.hold = arrived[m] /\ tick'.hold # 0
            \/ tick.hold # 0 /\ tick'.hold # 0 /\ tick'.hold <= tick.hold
        BY <1>1, <2>2, <4>2 DEF Earlier
      <4>4. Accounted(n)
        BY DEF Books
      <4> SUFFICES ASSUME tick'.pc = "storing", Waiting(n)', n \notin tick'.todo
                   PROVE  /\ tick'.hold <= arrived[n]
                          /\ \/ tick'.hold # 0
                             \/ /\ arrived[n] > tick'.start
                                /\ \A p \in tick'.todo : arrived[p] <= arrived[n]
        BY <4>2 DEF Accounted
      <4>5. n \notin tick.todo /\ m \in tick.todo
        BY <1>1, <1>4, <2>1, <3>2
      <4>6. /\ tick.hold <= arrived[n]
            /\ \/ tick.hold # 0
               \/ arrived[n] > tick.start /\ \A p \in tick.todo : arrived[p] <= arrived[n]
        BY <2>1, <4>1, <4>4, <4>5 DEF Accounted
      <4>7. CASE tick'.hold = tick.hold
        BY <2>1, <4>6, <4>7
      <4>8. CASE tick.hold = 0 /\ tick'.hold = arrived[m] /\ tick'.hold # 0
        BY <4>2, <4>5, <4>6, <4>8
      <4>9. CASE tick.hold # 0 /\ tick'.hold # 0 /\ tick'.hold <= tick.hold
        <5>1. tick'.hold \in Nat
          BY <2>2, <4>2 DEF Earlier
        <5> QED BY <4>2, <4>6, <4>9, <5>1
      <4> QED BY <4>3, <4>7, <4>8, <4>9
    <3> QED BY <3>1, <3>2
  <2>7. \A q \in Receivers : ReceiverKnows(q)'
    BY <1>2, <1>3, <1>4 DEF ReceiverKnows
  <2> QED BY <2>3, <2>4, <2>5, <2>6, <2>7 DEF Books
<1>5. CASE r # "poll"
  <2>1. UNCHANGED <<tick, memory, givenUp>>
    BY <1>5 DEF ReceiveFails
  <2>2. Books'
    BY <1>2, <2>1, BooksUntouched DEF Books
  <2>3. \A q \in Receivers : ReceiverKnows(q)'
    BY <1>2, <1>3, <2>1 DEF ReceiverKnows
  <2> QED BY <2>2, <2>3
<1> QED BY <1>4, <1>5

---------------------------------------------------------------------------
(* Threads.  With a conversation of its own for every message, only        *)
(* In-Reply-To puts a reply under its original; with the poller alone, the *)
(* two cannot be stored at once.                                           *)

OwnConversations == \A m, n \in Mail : Conversation[m] = Conversation[n] => m = n

\* A message answers an earlier one.
Dated(date) == \A m \in Mail : ReplyTo[m] # NoMail => date[ReplyTo[m]] < date[m]
AnswersEarlier == \E date \in [Mail -> Nat] : Dated(date)
Date == CHOOSE date \in [Mail -> Nat] : Dated(date)

IsReplyTo(o, m) == o \in stored /\ kind[o] = "email" /\ ReplyTo[o] = m

\* A row is under another one only once its original is stored, and then the walk
\* up goes back in time.
RowsKnowTheirPlace == \A m \in Mail :
    IF m \notin stored THEN IsRoot(m)
    ELSE IsRoot(m) \/ /\ parent[m] \in Mail /\ ReplyTo[m] \in stored
                      /\ Date[parent[m]] < Date[m]

\* What the poller found for the message in its hands is still what there is.
MatchHolds ==
    LET m == receiver["poll"].mail
        p == receiver["poll"].parent
    IN  receiver["poll"].pc # "idle" =>
            /\ m \in Mail /\ m \notin stored
            /\ IF p = NoMail THEN kind[m] = "email" => ReplyTo[m] \notin stored
               ELSE kind[m] = "email" /\ ReplyTo[m] \in stored /\ p \in Roots(ReplyTo[m])

\* It moves replies that wait for that message, and every one nobody has touched.
OrphansHold ==
    LET m == receiver["poll"].mail
        O == receiver["poll"].orphans
    IN  receiver["poll"].pc = "inserted" =>
            /\ \A o \in O : IsReplyTo(o, m) /\ IsRoot(o)
            /\ kind[m] = "email" => \A o \in Mail \ acted : IsReplyTo(o, m) => o \in O

ThreadInv ==
    /\ receiver["hook"] = IdleReceiver
    /\ RowsKnowTheirPlace /\ MatchHolds /\ OrphansHold
    /\ ThreadsHaveARoot /\ RepliesFindTheirThread

\* Walking up, for any table of parents.
Up(par, m) == {x \in Mail : \A S \in SUBSET Mail :
    m \in S /\ (\A y \in S : par[y] = NoMail \/ par[y] \in S) => x \in S}
Tops(par, m) == {x \in Up(par, m) : par[x] = NoMail}

LEMMA RootsAreTops ==
    ASSUME NEW m PROVE Roots(m) = Tops(parent, m) /\ Roots(m)' = Tops(parent', m)
BY DEF Roots, WalkUp, IsRoot, Tops, Up

LEMMA TopOfItself ==
    ASSUME NEW par, NEW m \in Mail, par[m] = NoMail PROVE m \in Tops(par, m)
BY DEF Tops, Up

\* A row has the roots of its parent.
LEMMA TopsOfParent ==
    ASSUME NEW par, NEW m \in Mail, par[m] # NoMail, par[m] \in Mail
    PROVE  Tops(par, m) = Tops(par, par[m])
<1> DEFINE Closed(S) == \A y \in S : par[y] = NoMail \/ par[y] \in S
<1>1. ASSUME NEW x \in Tops(par, par[m]) PROVE x \in Tops(par, m)
  <2>1. \A S \in SUBSET Mail : m \in S /\ Closed(S) => par[m] \in S
    OBVIOUS
  <2> QED BY <1>1, <2>1 DEF Tops, Up
<1>2. ASSUME NEW x \in Tops(par, m) PROVE x \in Tops(par, par[m])
  <2>1. x \in Mail /\ par[x] = NoMail /\ x # m
    BY <1>2 DEF Tops, Up
  <2>2. ASSUME NEW S \in SUBSET Mail, par[m] \in S, Closed(S) PROVE x \in S
    <3>1. (S \cup {m}) \in SUBSET Mail /\ m \in S \cup {m} /\ Closed(S \cup {m})
      BY <2>2
    <3>2. x \in S \cup {m}
      BY <1>2, <3>1 DEF Tops, Up
    <3> QED BY <2>1, <3>2
  <2> QED BY <2>1, <2>2 DEF Tops, Up
<1> QED BY <1>1, <1>2

\* When only roots get a parent, a row keeps company with its root.
LEMMA RootTakesAlong ==
    ASSUME NEW old, NEW new \in [Mail -> Mail \cup {NoMail}],
           \A y \in Mail : old[y] # NoMail => new[y] = old[y],
           NEW x \in Mail, NEW r \in Tops(old, x)
    PROVE  Tops(new, x) = Tops(new, r)
<1> DEFINE S == {y \in Mail : Tops(new, y) = Tops(new, x)}
<1>1. x \in S /\ S \in SUBSET Mail
  OBVIOUS
<1>2. ASSUME NEW y \in S, old[y] # NoMail PROVE old[y] \in S
  <2>1. y \in Mail /\ new[y] = old[y] /\ new[y] # NoMail /\ new[y] \in Mail
    BY <1>2
  <2>2. Tops(new, y) = Tops(new, new[y])
    BY <2>1, TopsOfParent
  <2> QED BY <2>1, <2>2
<1>3. r \in S
  <2> HIDE DEF S
  <2> QED BY <1>1, <1>2 DEF Tops, Up
<1> QED BY <1>3

\* The walk goes back in time.
LEMMA UpIsEarlier ==
    ASSUME NEW par, NEW date \in [Mail -> Nat],
           \A y \in Mail : par[y] # NoMail => par[y] \in Mail /\ date[par[y]] < date[y],
           NEW x \in Mail, NEW r \in Up(par, x)
    PROVE  date[r] <= date[x]
<1> DEFINE S == {y \in Mail : date[y] <= date[x]}
<1>1. x \in S /\ S \in SUBSET Mail
  OBVIOUS
<1>2. ASSUME NEW y \in S, par[y] # NoMail PROVE par[y] \in S
  <2>1. par[y] \in Mail /\ date[par[y]] < date[y] /\ date[y] <= date[x]
    BY <1>2
  <2>2. date[par[y]] \in Nat /\ date[y] \in Nat /\ date[x] \in Nat
    BY <1>2, <2>1
  <2> QED BY <2>1, <2>2
<1>3. r \in S
  <2> HIDE DEF S
  <2> QED BY <1>1, <1>2 DEF Up
<1> QED BY <1>3

LEMMA DateIsDated == AnswersEarlier => Date \in [Mail -> Nat] /\ Dated(Date)
BY DEF AnswersEarlier, Date

\* A conversation of its own leaves a message only what it answers.
LEMMA MatchedIsOriginal ==
    ASSUME OwnConversations, stored \subseteq Mail, NEW m \in Mail, m \notin stored
    PROVE  Matched(m) = IF kind[m] = "email" THEN {ReplyTo[m]} \cap stored ELSE {}
<1>1. {n \in stored : kind[n] = "email" /\ Conversation[n] = Conversation[m]} = {}
  BY DEF OwnConversations
<1> QED BY <1>1 DEF Matched

\* Steps that leave the rows alone, and the poller's call as it is or ended.
LEMMA RowsUntouched ==
    ASSUME ThreadInv, UNCHANGED <<stored, parent, kind>>, acted \subseteq acted',
           receiver'["hook"] = IdleReceiver,
           receiver'["poll"] = receiver["poll"] \/ receiver'["poll"].pc = "idle"
    PROVE  ThreadInv'
<1>1. RowsKnowTheirPlace'
  BY DEF ThreadInv, RowsKnowTheirPlace, IsRoot
<1>2. \A m : Roots(m)' = Roots(m)
  BY RootsAreTops
<1>3. MatchHolds'
  BY <1>2 DEF ThreadInv, MatchHolds
<1>4. \A o, m : IsReplyTo(o, m)' = IsReplyTo(o, m)
  BY DEF IsReplyTo
<1>5. OrphansHold'
  BY <1>4 DEF ThreadInv, OrphansHold, IsRoot
<1>6. ThreadsHaveARoot' /\ RepliesFindTheirThread'
  BY <1>2 DEF ThreadInv, ThreadsHaveARoot, RepliesFindTheirThread
<1> QED BY <1>1, <1>3, <1>5, <1>6 DEF ThreadInv

LEMMA MatchThread ==
    ASSUME OwnConversations, IntakeTypeOK, ThreadInv, NEW m \in Mail, Match("poll", m),
           receiver'["hook"] = IdleReceiver
    PROVE  ThreadInv'
<1>1. PICK p \in ThreadsOf(m) : receiver' = [receiver EXCEPT !["poll"] =
          [pc |-> "matched", mail |-> m, parent |-> p, orphans |-> {}]]
  BY DEF Match
<1>2. receiver'["poll"] = [pc |-> "matched", mail |-> m, parent |-> p, orphans |-> {}]
  BY <1>1 DEF IntakeTypeOK, Receivers
<1>3. UNCHANGED <<stored, parent, acted, kind>> /\ m \notin stored /\ stored \subseteq Mail
  BY DEF Match, mailboxVars, threadVars, IntakeTypeOK
<1>4. Matched(m) = IF kind[m] = "email" THEN {ReplyTo[m]} \cap stored ELSE {}
  BY <1>3, MatchedIsOriginal
<1>5. \A n : Roots(n)' = Roots(n) /\ NoMail \notin Roots(n)
  <2>1. \A n : Roots(n)' = Roots(n)
    BY <1>3, RootsAreTops
  <2>2. \A n : NoMail \notin Roots(n)
    BY IntakeAssumption DEF Roots, WalkUp
  <2> QED BY <2>1, <2>2
<1>6. IF p = NoMail THEN kind[m] = "email" => ReplyTo[m] \notin stored
      ELSE kind[m] = "email" /\ ReplyTo[m] \in stored /\ p \in Roots(ReplyTo[m])
  <2>1. CASE Matched(m) = {}
    BY <1>4, <2>1 DEF ThreadsOf
  <2>2. CASE Matched(m) # {}
    <3>1. kind[m] = "email" /\ ReplyTo[m] \in stored /\ Matched(m) = {ReplyTo[m]}
      BY <1>4, <2>2
    <3>2. p \in Roots(ReplyTo[m])
      BY <2>2, <3>1 DEF ThreadsOf
    <3> QED BY <1>5, <3>1, <3>2
  <2> QED BY <2>1, <2>2
<1>7. MatchHolds'
  BY <1>2, <1>3, <1>5, <1>6 DEF MatchHolds
<1>8. OrphansHold'
  BY <1>2 DEF OrphansHold
<1>9. RowsKnowTheirPlace'
  BY <1>3 DEF ThreadInv, RowsKnowTheirPlace, IsRoot
<1>10. ThreadsHaveARoot' /\ RepliesFindTheirThread'
  BY <1>3, <1>5 DEF ThreadInv, ThreadsHaveARoot, RepliesFindTheirThread
<1> QED BY <1>7, <1>8, <1>9, <1>10 DEF ThreadInv

LEMMA InsertThread ==
    ASSUME IntakeTypeOK, ThreadInv, Insert("poll"), receiver'["hook"] = IdleReceiver
    PROVE  ThreadInv'
<1>1. PICK m : m = receiver["poll"].mail
  OBVIOUS
<1>2. PICK O : O = IF kind[m] = "email" THEN Orphans(m) ELSE {}
  OBVIOUS
<1>3. receiver["poll"] \in ReceiverType
  BY DEF IntakeTypeOK, ReceiverType, Receivers
<1>4. receiver'["poll"] = [receiver["poll"] EXCEPT !.pc = "inserted", !.orphans = O]
  <2>1. receiver' = [receiver EXCEPT !["poll"] =
                       [receiver["poll"] EXCEPT !.pc = "inserted", !.orphans = O]]
    BY <1>1, <1>2 DEF Insert
  <2> QED BY <2>1 DEF IntakeTypeOK, Receivers
<1>5. /\ receiver["poll"].pc = "matched"
      /\ receiver'["poll"].pc = "inserted" /\ receiver'["poll"].orphans = O
      /\ receiver'["poll"].mail = m /\ receiver'["poll"].parent = receiver["poll"].parent
  <2>1. receiver["poll"].pc = "matched"
    BY DEF Insert
  <2> QED BY <1>1, <1>3, <1>4, <2>1 DEF ReceiverType
<1>6. UNCHANGED <<stored, parent, acted, kind>> /\ stored \subseteq Mail
  BY DEF Insert, mailboxVars, threadVars, IntakeTypeOK
<1>7. \A n : Roots(n)' = Roots(n)
  BY <1>6, RootsAreTops
<1>8. MatchHolds'
  BY <1>1, <1>5, <1>6, <1>7 DEF ThreadInv, MatchHolds
<1>9. m \in Mail
  BY <1>1, <1>5 DEF ThreadInv, MatchHolds
<1>10. OrphansHold'
  <2>1. \A o \in O : o \in stored /\ kind[o] = "email" /\ ReplyTo[o] = m /\ parent[o] = NoMail
    BY <1>2 DEF Orphans
  <2>2. ASSUME kind[m] = "email", NEW o \in Mail \ acted,
               o \in stored, kind[o] = "email", ReplyTo[o] = m
        PROVE  o \in O
    <3>1. m \notin stored
      BY <1>1, <1>5 DEF ThreadInv, MatchHolds
    <3>2. parent[o] = NoMail
      BY <2>2, <3>1 DEF ThreadInv, RowsKnowTheirPlace, IsRoot
    <3> QED BY <1>2, <2>2, <3>2 DEF Orphans
  <2> QED BY <1>5, <1>6, <2>1, <2>2 DEF OrphansHold, IsReplyTo, IsRoot
<1>11. RowsKnowTheirPlace'
  BY <1>6 DEF ThreadInv, RowsKnowTheirPlace, IsRoot
<1>12. ThreadsHaveARoot' /\ RepliesFindTheirThread'
  BY <1>6, <1>7 DEF ThreadInv, ThreadsHaveARoot, RepliesFindTheirThread
<1> QED BY <1>8, <1>10, <1>11, <1>12 DEF ThreadInv

\* The row of m goes under the root p, the orphans O under the row of m.
LEMMA StoreThread ==
    ASSUME AnswersEarlier, IntakeTypeOK, ThreadInv, Store("poll"),
           receiver'["hook"] = IdleReceiver
    PROVE  ThreadInv'
<1>1. PICK m, p, O : m = receiver["poll"].mail /\ p = receiver["poll"].parent
                     /\ O = receiver["poll"].orphans
  OBVIOUS
<1>2. Date \in [Mail -> Nat] /\ Dated(Date)
  BY DateIsDated
<1>3. receiver["poll"].pc = "inserted" /\ p \in Mail \cup {NoMail} /\ stored \subseteq Mail
  BY <1>1 DEF Store, IntakeTypeOK, Receivers
<1>4. m \in Mail /\ m \notin stored /\ parent[m] = NoMail
  BY <1>1, <1>3 DEF ThreadInv, MatchHolds, RowsKnowTheirPlace, IsRoot
<1>5. /\ stored' = stored \cup {m} /\ acted' = acted /\ kind' = kind
      /\ parent' = [o \in Mail |-> IF o = m THEN p ELSE IF o \in O THEN m ELSE parent[o]]
      /\ receiver'["poll"] = IdleReceiver
  BY <1>1 DEF Store, mailboxVars, IntakeTypeOK, Receivers
<1>6. ASSUME NEW o \in O
      PROVE  /\ o \in stored /\ o \in Mail /\ o # m /\ parent[o] = NoMail
             /\ ReplyTo[o] = m /\ Date[m] < Date[o] /\ parent'[o] = m
  <2>1. o \in stored /\ ReplyTo[o] = m /\ parent[o] = NoMail
    BY <1>1, <1>3 DEF ThreadInv, OrphansHold, IsReplyTo, IsRoot
  <2>2. ReplyTo[o] # NoMail
    BY <1>4, <2>1, IntakeAssumption
  <2> QED BY <1>2, <1>3, <1>4, <1>5, <2>1, <2>2 DEF Dated
<1>7. parent' \in [Mail -> Mail \cup {NoMail}] /\ parent \in [Mail -> Mail \cup {NoMail}]
  BY <1>3, <1>4, <1>5 DEF IntakeTypeOK
<1>8. \A y \in Mail : parent[y] # NoMail => parent'[y] = parent[y]
  BY <1>4, <1>5, <1>6
<1>9. \A y \in Mail : parent[y] # NoMail => parent[y] \in Mail /\ Date[parent[y]] < Date[y]
  BY DEF ThreadInv, RowsKnowTheirPlace, IsRoot
<1>10. ASSUME p # NoMail
       PROVE  /\ kind[m] = "email" /\ ReplyTo[m] \in stored /\ p \in Tops(parent, ReplyTo[m])
              /\ Date[p] < Date[m] /\ parent'[p] = NoMail
  <2>1. kind[m] = "email" /\ ReplyTo[m] \in stored /\ p \in Tops(parent, ReplyTo[m])
    BY <1>1, <1>3, <1>10, RootsAreTops DEF ThreadInv, MatchHolds
  <2>2. p \in Up(parent, ReplyTo[m]) /\ p \in Mail /\ parent[p] = NoMail
    BY <2>1 DEF Tops, Up
  <2>3. ReplyTo[m] \in Mail /\ ReplyTo[m] # NoMail
    BY <1>3, <2>1, IntakeAssumption
  <2>4. Date[p] <= Date[ReplyTo[m]] /\ Date[ReplyTo[m]] < Date[m]
    BY <1>2, <1>4, <1>9, <2>2, <2>3, UpIsEarlier DEF Dated
  <2>5. Date[p] \in Nat /\ Date[ReplyTo[m]] \in Nat /\ Date[m] \in Nat
    BY <1>2, <1>4, <2>2, <2>3
  <2>6. Date[p] < Date[m]
    BY <2>4, <2>5
  <2>7. p # m /\ p \notin O
    BY <1>6, <2>5, <2>6
  <2> QED BY <1>5, <2>1, <2>2, <2>6, <2>7
<1>11. Tops(parent', m) # {}
  <2>1. parent'[m] = p
    BY <1>4, <1>5
  <2>2. CASE p = NoMail
    BY <1>4, <2>1, <2>2, TopOfItself
  <2>3. CASE p # NoMail
    <3>1. p \in Mail /\ p \in Tops(parent', p)
      BY <1>3, <1>10, <2>3, TopOfItself
    <3>2. Tops(parent', m) = Tops(parent', p)
      BY <1>4, <2>1, <2>3, <3>1, TopsOfParent
    <3> QED BY <3>1, <3>2
  <2> QED BY <2>2, <2>3
<1>12. ASSUME NEW o \in O PROVE Tops(parent', o) = Tops(parent', m)
  <2>1. o \in Mail /\ parent'[o] = m /\ m # NoMail
    BY <1>4, <1>6, IntakeAssumption
  <2> QED BY <1>4, <2>1, TopsOfParent
<1>13. ASSUME NEW r \in Mail, parent[r] = NoMail PROVE Tops(parent', r) # {}
  <2>1. CASE r = m
    BY <1>11, <2>1
  <2>2. CASE r \in O
    BY <1>11, <1>12, <2>2
  <2>3. CASE r # m /\ r \notin O
    <3>1. parent'[r] = NoMail
      BY <1>5, <1>13, <2>3
    <3> QED BY <3>1, TopOfItself
  <2> QED BY <2>1, <2>2, <2>3
<1>14. ASSUME NEW x \in Mail, NEW r \in Tops(parent, x)
       PROVE  Tops(parent', x) = Tops(parent', r) /\ Tops(parent', x) # {}
  <2>1. Tops(parent', x) = Tops(parent', r)
    BY <1>7, <1>8, RootTakesAlong
  <2>2. r \in Mail /\ parent[r] = NoMail
    BY DEF Tops, Up
  <2> QED BY <1>13, <2>1, <2>2
<1>15. RowsKnowTheirPlace'
  <2> SUFFICES ASSUME NEW x \in Mail
               PROVE  IF x \notin stored' THEN parent'[x] = NoMail
                      ELSE \/ parent'[x] = NoMail
                           \/ /\ parent'[x] \in Mail /\ ReplyTo[x] \in stored'
                              /\ Date[parent'[x]] < Date[x]
    BY DEF RowsKnowTheirPlace, IsRoot
  <2>1. CASE x = m
    BY <1>3, <1>4, <1>5, <1>10, <2>1
  <2>2. CASE x \in O
    BY <1>4, <1>5, <1>6, <2>2
  <2>3. CASE x # m /\ x \notin O
    <3>1. parent'[x] = parent[x]
      BY <1>5, <2>3
    <3> QED BY <1>5, <2>3, <3>1 DEF ThreadInv, RowsKnowTheirPlace, IsRoot
  <2> QED BY <2>1, <2>2, <2>3
<1>16. ThreadsHaveARoot'
  <2>1. ASSUME NEW x \in stored PROVE Tops(parent', x) # {}
    <3>1. PICK r : r \in Tops(parent, x)
      BY RootsAreTops DEF ThreadInv, ThreadsHaveARoot
    <3> QED BY <1>3, <1>14, <3>1
  <2> QED BY <1>5, <1>11, <2>1, RootsAreTops DEF ThreadsHaveARoot
<1>17. RepliesFindTheirThread'
  <2> SUFFICES ASSUME NEW a \in stored', kind[a] = "email", NEW n, n = ReplyTo[a],
                      n \in stored', kind[n] = "email", a \notin acted
               PROVE  Tops(parent', a) \cap Tops(parent', n) # {}
    BY <1>5, RootsAreTops DEF RepliesFindTheirThread
  <2>1. CASE a = m
    <3>1. n # m
      <4>1. n \in Mail /\ n # NoMail
        BY <1>3, <1>4, <1>5, IntakeAssumption
      <4> QED BY <1>2, <1>4, <2>1, <4>1 DEF Dated
    <3>2. n \in stored /\ p # NoMail
      BY <1>1, <1>3, <1>5, <2>1, <3>1 DEF ThreadInv, MatchHolds
    <3>3. p \in Tops(parent, n) /\ p \in Mail
      BY <1>3, <1>10, <2>1, <3>2
    <3>4. Tops(parent', n) = Tops(parent', p)
      BY <1>3, <1>14, <3>2, <3>3
    <3>5. parent'[m] = p
      BY <1>4, <1>5
    <3>6. Tops(parent', m) = Tops(parent', p)
      BY <1>4, <3>2, <3>3, <3>5, TopsOfParent
    <3> QED BY <1>11, <2>1, <3>4, <3>6
  <2>2. CASE a # m /\ n = m
    <3>1. a \in stored /\ a \in Mail \ acted
      BY <1>3, <1>5, <2>2
    <3>2. a \in O
      BY <1>1, <1>3, <2>2, <3>1 DEF ThreadInv, OrphansHold, IsReplyTo
    <3> QED BY <1>11, <1>12, <2>2, <3>2
  <2>3. CASE a # m /\ n # m
    <3>1. a \in stored /\ n \in stored
      BY <1>5, <2>3
    <3>2. PICK r : r \in Tops(parent, a) /\ r \in Tops(parent, n)
      BY <3>1, RootsAreTops DEF ThreadInv, RepliesFindTheirThread
    <3>3. Tops(parent', a) = Tops(parent', r) /\ Tops(parent', a) # {}
      BY <1>3, <1>14, <3>1, <3>2
    <3>4. Tops(parent', n) = Tops(parent', r)
      BY <1>3, <1>14, <3>1, <3>2
    <3> QED BY <3>3, <3>4
  <2> QED BY <2>1, <2>2, <2>3
<1>18. MatchHolds' /\ OrphansHold'
  BY <1>5 DEF MatchHolds, OrphansHold, IdleReceiver
<1> QED BY <1>15, <1>16, <1>17, <1>18 DEF ThreadInv

LEMMA ThreadStep ==
    ASSUME OwnConversations, AnswersEarlier, IntakeTypeOK, ThreadInv, [IntakeNext]_inVars,
           receiver'["hook"] = IdleReceiver
    PROVE  ThreadInv'
<1>0. receiver["hook"].pc = "idle" /\ receiver'["hook"].pc = "idle"
  BY DEF ThreadInv, IdleReceiver
<1> DEFINE Kept == /\ UNCHANGED <<stored, parent, kind>> /\ acted \subseteq acted'
                   /\ receiver'["poll"] = receiver["poll"] \/ receiver'["poll"].pc = "idle"
<1>1. CASE TimePasses \/ BeginTick \/ ListMail \/ TickFails \/ EndTick
  <2>1. Kept
    BY <1>1 DEF TimePasses, BeginTick, ListMail, TickFails, EndTick, mailboxVars, threadVars
  <2> QED BY <2>1, RowsUntouched
<1>2. ASSUME NEW m \in Mail, Arrive(m) \/ Act(m) PROVE ThreadInv'
  <2>1. Kept
    BY <1>2 DEF Arrive, Act, mailboxVars, threadVars
  <2> QED BY <2>1, RowsUntouched
<1>3. CASE Reboot
  <2>1. Kept
    BY <1>3 DEF Reboot, mailboxVars, threadVars, IdleReceiver, Receivers
  <2> QED BY <2>1, RowsUntouched
<1>4. ASSUME NEW r \in Receivers, NEW m \in Mail, Refuse(r, m) PROVE ThreadInv'
  <2>1. Kept
    BY <1>4 DEF Refuse, mailboxVars, threadVars
  <2> QED BY <2>1, RowsUntouched
<1>5. ASSUME NEW r \in Receivers, NEW m \in Mail, Match(r, m) PROVE ThreadInv'
  <2>1. CASE r = "poll"
    BY <1>5, <2>1, MatchThread
  <2>2. CASE r = "hook"
    BY <1>0, <1>5, <2>2 DEF Match, IntakeTypeOK
  <2> QED BY <2>1, <2>2 DEF Receivers
<1>6. ASSUME NEW r \in Receivers, Insert(r) \/ Store(r) PROVE ThreadInv'
  <2>1. r = "poll"
    BY <1>0, <1>6 DEF Insert, Store, Receivers
  <2> QED BY <1>6, <2>1, InsertThread, StoreThread
<1>7. ASSUME NEW r \in Receivers, LostInsertRace(r) \/ ReceiveFails(r) PROVE ThreadInv'
  <2>1. r = "poll"
    BY <1>0, <1>7 DEF LostInsertRace, ReceiveFails, Receivers
  <2>2. Kept
    BY <1>7, <2>1 DEF LostInsertRace, ReceiveFails, mailboxVars, threadVars, IdleReceiver,
       IntakeTypeOK, Receivers
  <2> QED BY <2>2, RowsUntouched
<1>8. CASE UNCHANGED inVars
  <2>1. Kept
    BY <1>8 DEF inVars, mailboxVars, threadVars
  <2> QED BY <2>1, RowsUntouched
<1> QED BY <1>1, <1>2, <1>3, <1>4, <1>5, <1>6, <1>7, <1>8 DEF IntakeNext, Receive

LEMMA ThreadStarts == IntakeInit => ThreadInv
BY DEF IntakeInit, ThreadInv, Receivers, IdleReceiver, RowsKnowTheirPlace, IsRoot, MatchHolds,
   OrphansHold, ThreadsHaveARoot, RepliesFindTheirThread

---------------------------------------------------------------------------
(* Theorems                                                                *)

LEMMA IntakeStarts == IntakeInit => IInv
<1> SUFFICES ASSUME IntakeInit PROVE IInv
  OBVIOUS
<1> USE IntakeAssumption DEF IntakeInit
<1>1. IntakeTypeOK
  <2>1. instant \in Times /\ saved \in Times /\ 0 \in Times
    BY DEF Times
  <2>2. kind \in [Mail -> KindsOfMail]
    OBVIOUS
  <2>3. receiver \in [Receivers -> ReceiverType] /\ tick \in TickType /\ memory \in MemoryType
    BY <2>1 DEF IdleReceiver, ReceiverType, TickType, NewProcess, MemoryType
  <2> QED BY <2>1, <2>2, <2>3 DEF IntakeTypeOK, ReceiverType, TickType, MemoryType
<1>2. \A r \in Receivers : ReceiverKnows(r)
  BY DEF ReceiverKnows, IdleReceiver
<1>3. TimesInOrder /\ CheckpointsAreBehind
  BY DEF TimesInOrder, CheckpointsAreBehind, Behind, NewProcess
<1>4. NothingIsPassedOver /\ \A m \in Mail : Accounted(m)
  BY DEF NothingIsPassedOver, Accounted
<1> QED BY <1>1, <1>2, <1>3, <1>4 DEF IInv

LEMMA IntakeStep == IInv /\ [IntakeNext]_inVars => IInv'
<1> SUFFICES ASSUME IInv, [IntakeNext]_inVars PROVE IInv'
  OBVIOUS
<1>0. IntakeTypeOK /\ \A r \in Receivers : ReceiverKnows(r)
  BY DEF IInv
<1>1. CASE TimePasses \/ \E m \in Mail : Arrive(m) \/ Act(m)
  BY <1>0, <1>1, TickTypeStep, MailboxStep DEF IInv, Books
<1>2. CASE BeginTick
  BY <1>0, <1>2, TickTypeStep, BeginStep DEF IInv, Books
<1>3. CASE ListMail
  BY <1>0, <1>3, TickTypeStep, ListStep DEF IInv, Books
<1>4. CASE EndTick
  BY <1>0, <1>4, TickTypeStep, EndStep DEF IInv, Books
<1>5. CASE TickFails \/ Reboot
  BY <1>0, <1>5, TickTypeStep, StopStep DEF IInv, Books
<1>6. ASSUME NEW r \in Receivers, Receive(r) PROVE IInv'
  BY <1>0, <1>6, ReceiveTypeStep, ReceiveStep DEF IInv, Books
<1>7. ASSUME NEW r \in Receivers, ReceiveFails(r) PROVE IInv'
  BY <1>0, <1>7, ReceiveTypeStep, FailStep DEF IInv, Books
<1>8. CASE UNCHANGED inVars
  BY <1>8 DEF inVars, mailboxVars, threadVars, ghostVars, IInv, IntakeTypeOK, ReceiverKnows,
     TimesInOrder, CheckpointsAreBehind, Behind, NothingIsPassedOver, Accounted, Waiting, Handled
<1> QED BY <1>1, <1>2, <1>3, <1>4, <1>5, <1>6, <1>7, <1>8 DEF IntakeNext

\* The accounts of the poller add up in every behaviour of the intake.
THEOREM IntakeInvariance == IntakeSpec => []IInv
BY IntakeStarts, IntakeStep, PTL DEF IntakeSpec

\* Every variable of the intake keeps its type (receive_email, _poll_one_mailbox).
THEOREM IntakeTypeCorrect == IntakeSpec => []IntakeTypeOK
<1>1. IInv => IntakeTypeOK
  BY DEF IInv
<1> QED BY <1>1, IntakeInvariance, PTL

\* No checkpoint of the poller moves past a message that waits, for any page cap,
\* lookback and number of tries (_poll_one_mailbox).
THEOREM NothingIsPassedOverHolds == IntakeSpec => []NothingIsPassedOver
<1>1. IInv => NothingIsPassedOver
  BY DEF IInv
<1> QED BY <1>1, IntakeInvariance, PTL

\* With the poller alone, and no help of the conversation, every row is in a thread
\* with a root, and a reply is in the thread of its original whichever of them came
\* first, unless an agent acted on the reply (receive_email,
\* _reconcile_orphaned_replies): for any number of messages that answer one another.
PolledSpec == IntakeInit /\ [][IntakeNext /\ receiver'["hook"] = IdleReceiver]_inVars

THEOREM PolledThreadsHold ==
    ASSUME OwnConversations, AnswersEarlier
    PROVE  PolledSpec => [](ThreadsHaveARoot /\ RepliesFindTheirThread)
<1>1. IInv /\ ThreadInv /\ [IntakeNext /\ receiver'["hook"] = IdleReceiver]_inVars
      => IInv' /\ ThreadInv'
  <2> SUFFICES ASSUME IInv, ThreadInv, [IntakeNext /\ receiver'["hook"] = IdleReceiver]_inVars
               PROVE  IInv' /\ ThreadInv'
    OBVIOUS
  <2>1. receiver'["hook"] = IdleReceiver
    BY DEF inVars, ThreadInv
  <2> QED BY <2>1, IntakeStep, ThreadStep DEF IInv
<1>2. ThreadInv => ThreadsHaveARoot /\ RepliesFindTheirThread
  BY DEF ThreadInv
<1> QED BY <1>1, <1>2, IntakeStarts, ThreadStarts, PTL DEF PolledSpec

\* The same of the setting "poll" of the run, for any Mail, ReplyTo and bounds.
THEOREM PolledRepliesFindTheirThreadHolds ==
    ASSUME OwnConversations, AnswersEarlier
    PROVE  MCSpec => []PolledRepliesFindTheirThread
<1> DEFINE P == setting = "poll" => IInv /\ ThreadInv
<1>1. MCInit => P
  BY IntakeStarts, ThreadStarts DEF MCInit
<1>2. P /\ [MCNext]_mailVarsAll => P'
  <2> SUFFICES ASSUME P, [MCNext]_mailVarsAll, setting' = "poll" PROVE IInv' /\ ThreadInv'
    OBVIOUS
  <2>1. setting = "poll"
    BY DEF MCNext, mailVarsAll
  <2>2. [IntakeNext]_inVars /\ receiver'["hook"] = IdleReceiver
    BY <2>1 DEF MCNext, mailVarsAll, inVars, ThreadInv
  <2> QED BY <2>1, <2>2, IntakeStep, ThreadStep DEF IInv
<1>3. P => PolledRepliesFindTheirThread
  BY DEF PolledRepliesFindTheirThread, ThreadInv
<1> QED BY <1>1, <1>2, <1>3, PTL DEF MCSpec
=============================================================================
