-------------------------- MODULE DBusCallsProofs --------------------------
(***************************************************************************)
(* Theorems about DBusCalls, for any timers, any number of suspends and    *)
(* shutdowns and any limit of logind.                                      *)
(***************************************************************************)
EXTENDS DBusCalls, SequenceTheorems, FiniteSetTheorems, TLAPS

NextElapses == {"NextElapseUSecRealtime", "NextElapseUSecMonotonic"}
InTimer     == pc \in {"getUnit", "realtime", "monotonic"}

\* The calls that are made on the bus: the daemon's, and those for an operation.
LoginCalls   == {Call(Proxy("login1", "manager"), "Login1Manager", m) :
                   m \in LoginSleeps \cup LoginShutdowns \cup {"Inhibit"}}
ManagerCalls == {Call(Proxy("systemd1", "manager"), "Systemd1Manager", "GetUnit")}
TimerCalls   == {Call(Proxy("systemd1", u), "Systemd1Timer", m) : u \in Units, m \in NextElapses}

Messages == {Message(c, n, a) : c \in LoginCalls \cup ManagerCalls \cup TimerCalls, n \in Nat,
                                a \in Units \cup {"none"}}

Signals == [kind : {"signal"}, member : Members, arg0 : BOOLEAN]
Inbound == Signals \cup {Reply(n, v) : n \in Nat, v \in Units \cup {"fd"}} \cup {Refusal(n) : n \in Nat}

\* The call that is waited for is the one the callback is at...
IsCurrent(msg) ==
  /\ pc = "inhibit" => msg.member = "Inhibit"
  /\ pc = "getUnit" => msg.member = "GetUnit" /\ msg.arg = TimerUnits[unit]
  /\ pc \in {"realtime", "monotonic"} => msg.interface = "Systemd1Timer" /\ msg.to.path = path

\* ...and its answer is about the timer the callback is at.
Wanted == IF pc = "inhibit" THEN "fd" ELSE TimerUnits[unit]

OnBus == {msg \in Messages :
            /\ msg.serial <= serial
            /\ msg.member = "Inhibit" => msg.serial # Others
            /\ msg.serial \in waiting => IsCurrent(msg)}

Received == {msg \in Inbound :
               IsAnswer(msg) =>
                 /\ msg.serial \in 1..serial
                 /\ msg.kind = "reply" /\ msg.serial \in waiting => msg.value = Wanted}

MessageInv == /\ \A s \in Services : bus[s] \in Seq(OnBus)
              /\ DOMAIN bus = Services
              /\ inbox \in Seq(Received)

CallInv ==
  /\ \A m, n \in waiting : m = n
  /\ waiting = {} => waited = 0
  /\ InTimer => unit \in 1..Len(TimerUnits)
  /\ pc \in {"realtime", "monotonic"} => path = TimerUnits[unit]

MatchInv == matches = Members

\* An open lock is the daemon's or on its way to it.
Replies(box) == {box[i].serial : i \in {j \in 1..Len(box) : box[j].kind = "reply"}}
LockInv ==
  /\ locks \subseteq inhibitor \cup Replies(inbox)
  /\ pc = "inhibit" => inhibitor = {}
  /\ InTimer => waiting \cap locks = {}

\* Announcements come in pairs: that an operation begins, and that it is over.
SentInv ==
  /\ sent \in Seq(Signals) /\ handled \in Seq(Signals)
  /\ Len(sent) = IF power = "up" THEN 2 * op ELSE 2 * op - 1
  /\ \A i \in 1..Len(sent) : sent[i].arg0 <=> i % 2 = 1

\* EveryAnnouncementHandled, with a witness that never decreases along the inbox.
Due(box, from, all) ==
  {due \in [0..Len(box) -> from..Len(all)] :
     /\ due[0] = from /\ due[Len(box)] = Len(all)
     /\ \A i, j \in 0..Len(box) : i <= j => due[i] <= due[j]
     /\ \A i \in 1..Len(box) :
          IF box[i].kind = "signal" THEN due[i] = due[i - 1] + 1 /\ box[i] = all[due[i]]
                                    ELSE due[i] = due[i - 1]}

DueInv ==
  /\ Len(handled) <= Len(sent) /\ \A i \in 1..Len(handled) : handled[i] = sent[i]
  /\ Due(inbox, Len(handled), sent) # {}

\* The announcements after which the callback runs, and the ticks its calls may take.
IsShutdown(sig) == sig.member = "PrepareForShutdown" /\ sig.arg0
Shutdowns(signals) == Cardinality({i \in 1..Len(signals) : IsShutdown(signals[i])})
Worth(signals) == 3 * Len(TimerUnits) * Shutdowns(signals)

\* What the daemon does is due to the announcement it has handled last.
HandlerInv ==
  /\ pc = "inhibit" => Len(handled) % 2 = 0 /\ Len(handled) >= 2
  /\ InTimer => Worth(handled) >= 3 * Len(TimerUnits)
  /\ InDelay /\ pc = "loop" /\ Len(handled) = Len(sent) => inhibitor = {}

\* The ticks that the calls may take: one for every operation that is over, and three for
\* every timer after every shutdown that has been announced.
Paid == (Len(handled) \div 2) + Worth(handled)
\* Those that are still due to the timer the callback is at, and to the timers after it.
Left == 3 * (Len(TimerUnits) - unit + 1)

\* The ticks that the calls have taken.
Spent ==
  CASE pc = "inhibit"   -> Paid - 1 + waited
    [] pc = "getUnit"   -> Paid - Left + waited
    [] pc = "realtime"  -> Paid - Left + 1 + waited
    [] pc = "monotonic" -> Paid - Left + 2 + waited
    [] OTHER -> Paid
TimeInv == InDelay => delayed <= Spent

IInv ==
  /\ TypeOK /\ MessageInv /\ CallInv /\ MatchInv /\ LockInv
  /\ SentInv /\ DueInv /\ HandlerInv /\ TimeInv
  /\ AnswersBelong /\ LocksRespected

-----------------------------------------------------------------------------
(* Sequences.                                                              *)

LEMMA TailProperties ==
  ASSUME NEW S, NEW s \in Seq(S), s # <<>>
  PROVE  /\ Tail(s) \in Seq(S) /\ Head(s) \in S /\ Head(s) = s[1]
         /\ Len(s) \in Nat /\ Len(s) >= 1 /\ Len(Tail(s)) = Len(s) - 1
         /\ \A j \in 1..(Len(s) - 1) : Tail(s)[j] = s[j + 1]
<1>1. /\ Tail(s) \in Seq(S) /\ Len(Tail(s)) = Len(s) - 1 /\ Head(s) \in S
      /\ \A j \in 1..Len(Tail(s)) : Tail(s)[j] = s[j + 1]
  BY HeadTailProperties
<1>2. Len(s) \in Nat \ {0} /\ Head(s) = s[1]
  BY EmptySeq
<1> QED BY <1>1, <1>2

LEMMA RemoveAtProperties ==
  ASSUME NEW S, NEW s \in Seq(S), NEW i \in 1..Len(s)
  PROVE  /\ RemoveAt(s, i) \in Seq(S)
         /\ Len(RemoveAt(s, i)) = Len(s) - 1
         /\ \A j \in 1..(Len(s) - 1) :
              RemoveAt(s, i)[j] = IF j < i THEN s[j] ELSE s[j + 1]
<1> DEFINE n == Len(s)
           l == SubSeq(s, 1, i - 1)
           r == SubSeq(s, i + 1, n)
           c == l \o r
<1>1. n \in Nat /\ i \in 1..n /\ \A j \in 1..n : s[j] \in S
  BY LenProperties, ElementOfSeq
<1>2. l \in Seq(S) /\ Len(l) = i - 1 /\ \A j \in 1..(i - 1) : l[j] = s[j]
  BY <1>1, SubSeqProperties
<1>3. r \in Seq(S) /\ Len(r) = n - i /\ \A j \in 1..(n - i) : r[j] = s[i + j]
  <2> HIDE DEF n
  <2>1. \A j \in (i + 1)..n : s[j] \in S
    BY <1>1
  <2>2. /\ r \in Seq(S) /\ Len(r) = IF i + 1 <= n THEN n - (i + 1) + 1 ELSE 0
        /\ \A j \in 1..(n - (i + 1) + 1) : r[j] = s[i + 1 + j - 1]
    BY <1>1, <2>1, SubSeqProperties
  <2> QED BY <1>1, <2>2
<1> HIDE DEF l, r, n
<1>4. /\ c \in Seq(S) /\ Len(c) = Len(l) + Len(r)
      /\ \A j \in 1..(Len(l) + Len(r)) : c[j] = IF j <= Len(l) THEN l[j] ELSE r[j - Len(l)]
  BY <1>2, <1>3, ConcatProperties
<1> HIDE DEF c
<1>5. ASSUME NEW j \in 1..(n - 1)
      PROVE  c[j] = IF j < i THEN s[j] ELSE s[j + 1]
  <2>1. c[j] = IF j <= i - 1 THEN l[j] ELSE r[j - (i - 1)]
    BY <1>1, <1>2, <1>3, <1>4
  <2>2. CASE j < i
    BY <1>1, <1>2, <2>1, <2>2
  <2>3. CASE ~(j < i)
    <3>1. j - (i - 1) \in 1..(n - i) /\ i + (j - (i - 1)) = j + 1
      BY <1>1, <2>3
    <3> QED BY <1>1, <1>3, <2>1, <2>3, <3>1
  <2> QED BY <2>2, <2>3
<1>6. RemoveAt(s, i) = c
  BY DEF RemoveAt, c, l, r, n
<1>7. Len(c) = n - 1
  BY <1>1, <1>2, <1>3, <1>4
<1> QED BY <1>4, <1>5, <1>6, <1>7 DEF n

-----------------------------------------------------------------------------
(* Bindings.                                                               *)

LEMMA StubKnown ==
  ASSUME NEW interface, NEW stub \in Interfaces[interface]
  PROVE  /\ Stub(interface, stub.member) \in Interfaces[interface]
         /\ Stub(interface, stub.member).member = stub.member
BY Zenon DEF Stub

LEMMA LoginStubs ==
  ASSUME NEW m \in LoginSleeps \cup LoginShutdowns \cup {"Inhibit"}
  PROVE  \E stub \in Interfaces["Login1Manager"] : stub.member = m
<1>0. LoginPower \subseteq Interfaces["Login1Manager"]
  BY DEF Interfaces
<1>1. CASE m \in LoginSleeps \cup LoginShutdowns
  <2>1. [member |-> m, in |-> "b", out |-> ""] \in LoginPower
    BY <1>1 DEF LoginPower, Each
  <2> QED BY <1>0, <2>1
<1>2. CASE m = "Inhibit"
  <2>1. [member |-> m, in |-> "ssss", out |-> "h"] \in LoginPower
    BY <1>2 DEF LoginPower, Each
  <2> QED BY <1>0, <2>1
<1> QED BY <1>1, <1>2

LEMMA ManagerStub == \E stub \in Interfaces["Systemd1Manager"] : stub.member = "GetUnit"
<1>1. [member |-> "GetUnit", in |-> "s", out |-> "o"] \in SystemdUnits
  BY DEF SystemdUnits, Each
<1> QED BY <1>1 DEF Interfaces

LEMMA TimerStubs ==
  ASSUME NEW m \in NextElapses
  PROVE  \E stub \in Interfaces["Systemd1Timer"] : stub.member = m
<1>1. [member |-> m, in |-> "ss", out |-> "t"] \in TimerProperties
  BY DEF TimerProperties, Each, NextElapses
<1> QED BY <1>1 DEF Interfaces

-----------------------------------------------------------------------------
(* Messages.                                                               *)

LEMMA MessageFacts ==
  ASSUME NEW msg \in Messages
  PROVE  /\ msg.serial \in Nat /\ msg.in = Stub(msg.interface, msg.member).in
         /\ \/ /\ msg.to = Proxy("login1", "manager") /\ msg.interface = "Login1Manager"
               /\ msg.member \in LoginSleeps \cup LoginShutdowns \cup {"Inhibit"}
            \/ /\ msg.to = Proxy("systemd1", "manager") /\ msg.interface = "Systemd1Manager"
               /\ msg.member = "GetUnit"
            \/ /\ \E u \in Units : msg.to = Proxy("systemd1", u) /\ msg.to.path = u
               /\ msg.interface = "Systemd1Timer" /\ msg.member \in NextElapses
<1>1. PICK c \in LoginCalls \cup ManagerCalls \cup TimerCalls, n \in Nat, a \in Units \cup {"none"} :
        msg = Message(c, n, a)
  BY DEF Messages
<1>2. /\ msg.serial = n /\ msg.to = c.proxy /\ msg.interface = c.interface /\ msg.member = c.member
      /\ msg.in = Stub(c.interface, c.member).in
  BY <1>1 DEF Message
<1>3. CASE c \in LoginCalls
  BY <1>2, <1>3 DEF LoginCalls, Call
<1>4. CASE c \in ManagerCalls
  BY <1>2, <1>4 DEF ManagerCalls, Call
<1>5. CASE c \in TimerCalls
  BY <1>2, <1>5 DEF TimerCalls, Call, Proxy
<1> QED BY <1>1, <1>3, <1>4, <1>5

LEMMA UnitNames == "manager" \notin Units /\ \A i \in 1..Len(TimerUnits) : TimerUnits[i] \in Units
<1>1. DOMAIN TimerUnits = 1..Len(TimerUnits)
  BY UnitsAssumption, LenProperties
<1> QED BY <1>1, UnitsAssumption DEF Units, Range

\* The stubs of the program speak to objects that know them.
LEMMA AddressedMessage ==
  ASSUME NEW msg \in Messages
  PROVE  Understood(msg) \/ msg.to.path \in Units \ loaded
<1>1. CASE msg.to = Proxy("login1", "manager") /\ msg.interface = "Login1Manager"
           /\ msg.member \in LoginSleeps \cup LoginShutdowns \cup {"Inhibit"}
  <2>1. msg.interface \in Exports(msg.to)
    BY <1>1 DEF Exports, Proxy
  <2>2. \E stub \in Interfaces[msg.interface] : stub.member = msg.member /\ stub.in = msg.in
    BY <1>1, LoginStubs, StubKnown, MessageFacts
  <2> QED BY <2>1, <2>2 DEF Understood
<1>2. CASE msg.to = Proxy("systemd1", "manager") /\ msg.interface = "Systemd1Manager"
           /\ msg.member = "GetUnit"
  <2>1. msg.interface \in Exports(msg.to)
    BY <1>2 DEF Exports, Proxy
  <2>2. \E stub \in Interfaces[msg.interface] : stub.member = msg.member /\ stub.in = msg.in
    BY <1>2, ManagerStub, StubKnown, MessageFacts
  <2> QED BY <2>1, <2>2 DEF Understood
<1>3. ASSUME NEW u \in Units, msg.to = Proxy("systemd1", u), msg.to.path = u,
             msg.interface = "Systemd1Timer", msg.member \in NextElapses
      PROVE  Understood(msg) \/ msg.to.path \in Units \ loaded
  <2>1. u \in loaded => msg.interface \in Exports(msg.to)
    BY <1>3, UnitNames DEF Exports, Proxy
  <2>2. \E stub \in Interfaces[msg.interface] : stub.member = msg.member /\ stub.in = msg.in
    BY <1>3, TimerStubs, StubKnown, MessageFacts
  <2> QED BY <1>3, <2>1, <2>2 DEF Understood
<1> QED BY <1>1, <1>2, <1>3, MessageFacts

\* logind's operations are the only ones anybody asks for.
LEMMA LeadsToDelay ==
  ASSUME NEW msg \in Messages
  PROVE  Leads(msg) \in {"sleepDelay", "shutdownDelay", "none"}
<1>1. msg.interface = "Systemd1Manager" => msg.member \notin SystemdImmediate
  BY MessageFacts DEF SystemdImmediate, NextElapses
<1> QED BY <1>1 DEF Leads

-----------------------------------------------------------------------------
(* What is on its way.                                                     *)

\* A message stays what it is while the call that is waited for is the same or over.
LEMMA StillWanted ==
  ASSUME serial \in Nat, serial' \in Nat, serial <= serial',
         \A n \in waiting' : n \in Nat /\ (n > serial \/ (n \in waiting /\ UNCHANGED <<pc, unit, path>>))
  PROVE  OnBus \subseteq OnBus' /\ Received \subseteq Received'
<1>1. ASSUME NEW msg \in OnBus PROVE msg \in OnBus'
  <2>1. msg \in Messages /\ msg.serial \in Nat /\ msg.serial <= serial
    BY MessageFacts DEF OnBus
  <2>2. msg.serial \in waiting' => IsCurrent(msg)'
    BY <2>1 DEF OnBus, IsCurrent
  <2> QED BY <2>1, <2>2 DEF OnBus, Messages
<1>2. ASSUME NEW msg \in Received PROVE msg \in Received'
  BY DEF Received, Wanted
<1> QED BY <1>1, <1>2

LEMMA MessageKept ==
  ASSUME TypeOK, MessageInv, serial' = serial,
         \A n \in waiting' : n \in waiting /\ UNCHANGED <<pc, unit, path>>
  PROVE  /\ \A s \in Services : bus[s] \in Seq(OnBus')
         /\ inbox \in Seq(Received')
<1>a. serial \in Nat /\ \A n \in waiting : n \in Nat
  BY DEF TypeOK
<1>b. \A n \in waiting' : n \in Nat
  BY Zenon, <1>a
<1>0. /\ serial \in Nat /\ serial' \in Nat /\ serial <= serial'
      /\ \A n \in waiting' : n \in Nat /\ n \in waiting /\ UNCHANGED <<pc, unit, path>>
  BY <1>a, <1>b
<1>1. OnBus \subseteq OnBus' /\ Received \subseteq Received'
  BY <1>0, StillWanted
<1> DEFINE B == OnBus
           C == OnBus'
           Q == Received
           R == Received'
<1>2. B \subseteq C /\ Q \subseteq R /\ inbox \in Seq(Q) /\ \A s \in Services : bus[s] \in Seq(B)
  BY <1>1 DEF MessageInv
<1> HIDE DEF B, C, Q, R
<1>3. inbox \in Seq(R)
  BY <1>2, SeqMonotonic
<1>4. \A s \in Services : bus[s] \in Seq(C)
  BY <1>2, SeqMonotonic
<1> QED BY <1>3, <1>4 DEF C, R

\* A call that is sent.
LEMMA PutBus ==
  ASSUME MessageInv, NEW msg \in OnBus', \A s \in Services : bus[s] \in Seq(OnBus'),
         msg.to.dest \in Services, Put(msg)
  PROVE  DOMAIN bus' = Services /\ \A s \in Services : bus'[s] \in Seq(OnBus')
<1> DEFINE C == OnBus'
<1>1. msg \in C /\ \A s \in Services : bus[s] \in Seq(C)
  OBVIOUS
<1> HIDE DEF C
<1>2. Append(bus[msg.to.dest], msg) \in Seq(C)
  BY <1>1, AppendProperties
<1>3. DOMAIN bus = Services /\ bus' = [bus EXCEPT ![msg.to.dest] = Append(@, msg)]
  BY DEF MessageInv, Put
<1> QED BY <1>1, <1>2, <1>3 DEF C

\* A call that is taken.
LEMMA TakeBus ==
  ASSUME MessageInv, NEW s \in Services, bus[s] # <<>>,
         \A t \in Services : bus[t] \in Seq(OnBus'), bus' = [bus EXCEPT ![s] = Tail(@)]
  PROVE  /\ DOMAIN bus' = Services
         /\ \A t \in Services : bus'[t] \in Seq(OnBus')
<1> DEFINE C == OnBus'
<1>1. (\A t \in Services : bus[t] \in Seq(C)) /\ DOMAIN bus = Services
  BY DEF MessageInv
<1> HIDE DEF C
<1>2. Tail(bus[s]) \in Seq(C)
  BY <1>1, TailProperties
<1> QED BY <1>1, <1>2 DEF C

LEMMA HeadOnBus ==
  ASSUME MessageInv, NEW s \in Services, bus[s] # <<>>
  PROVE  Head(bus[s]) \in OnBus /\ Head(bus[s]) \in Messages
<1> DEFINE B == OnBus
<1>1. bus[s] \in Seq(B)
  BY DEF MessageInv
<1> HIDE DEF B
<1>2. Head(bus[s]) \in B
  BY <1>1, TailProperties
<1> QED BY <1>2 DEF B, OnBus

\* Messages that come in.
LEMMA SignalsReceived ==
  ASSUME NEW q \in Seq(Signals), inbox \in Seq(Received')
  PROVE  inbox \o q \in Seq(Received')
<1> DEFINE R == Received'
<1>1. Signals \subseteq R
  BY DEF Received, Inbound, Signals, Signal, IsAnswer
<1> HIDE DEF R
<1>2. q \in Seq(R)
  BY <1>1, SeqMonotonic
<1> QED BY <1>2, ConcatProperties DEF R

\* Steps that leave the queues alone.
LEMMA QueuesKept ==
  ASSUME TypeOK, MessageInv, serial' = serial, bus' = bus, inbox' = inbox,
         \A n \in waiting' : n \in waiting /\ UNCHANGED <<pc, unit, path>>
  PROVE  MessageInv'
<1>1. (\A s \in Services : bus[s] \in Seq(OnBus')) /\ inbox \in Seq(Received')
  BY MessageKept
<1> QED BY <1>1 DEF MessageInv

\* Steps of the connection and its handlers, which take a message out.
LEMMA MessageTaken ==
  ASSUME TypeOK, MessageInv, serial' = serial, bus' = bus,
         \A n \in waiting' : n \in waiting /\ UNCHANGED <<pc, unit, path>>,
         \/ inbox # <<>> /\ inbox' = Tail(inbox)
         \/ \E i \in 1..Len(inbox) : inbox' = RemoveAt(inbox, i)
  PROVE  MessageInv'
<1> DEFINE R == Received'
<1>1. (\A s \in Services : bus[s] \in Seq(OnBus')) /\ inbox \in Seq(R)
  BY MessageKept
<1>2. inbox' \in Seq(R)
  <2> HIDE DEF R
  <2>1. CASE inbox # <<>> /\ inbox' = Tail(inbox)
    BY <1>1, <2>1, TailProperties
  <2>2. ASSUME NEW i \in 1..Len(inbox), inbox' = RemoveAt(inbox, i)
        PROVE  inbox' \in Seq(R)
    BY <1>1, <2>2, RemoveAtProperties
  <2> QED BY <2>1, <2>2
<1> QED BY <1>1, <1>2 DEF MessageInv

\* An answer that the daemon may get.
LEMMA AnswerSent ==
  ASSUME TypeOK, MessageInv, NEW s \in Services, bus[s] # <<>>, NEW answer, Answer(s, answer),
         UNCHANGED <<calls, pc, unit, path>>, answer.serial # Others => answer \in Received'
  PROVE  MessageInv'
<1>1. /\ \A t \in Services : bus[t] \in Seq(OnBus')
      /\ inbox \in Seq(Received')
  BY MessageKept DEF calls
<1>2. /\ \A t \in Services : bus'[t] \in Seq(OnBus')
      /\ DOMAIN bus' = Services
  BY <1>1, TakeBus DEF Answer
<1> DEFINE R == Received'
<1>3. inbox' \in Seq(R)
  <2>1. inbox \in Seq(R) /\ (answer.serial # Others => answer \in R)
    BY <1>1
  <2> HIDE DEF R
  <2> QED BY <2>1, AppendProperties DEF Answer
<1> QED BY <1>2, <1>3 DEF MessageInv

LEMMA ReplyReceived ==
  ASSUME serial \in Nat, UNCHANGED <<serial, waiting>>, Wanted' = Wanted,
         NEW n \in Nat, NEW v \in Units \cup {"fd"},
         n <= serial, n \in waiting => v = Wanted
  PROVE  n # Others => Reply(n, v) \in Received'
<1>1. Reply(n, v).kind = "reply" /\ Reply(n, v).serial = n /\ Reply(n, v).value = v
  BY DEF Reply
<1>2. Reply(n, v) \in Inbound'
  BY DEF Inbound
<1>3. n # Others => n \in 1..serial'
  BY DEF Others
<1>4. n \in waiting' => v = Wanted'
  OBVIOUS
<1> QED BY <1>1, <1>2, <1>3, <1>4 DEF Received

LEMMA AnnouncementType ==
  ASSUME NEW state
  PROVE  Announcement(state) \in Seq(Signals)
<1>1. Signal("PrepareForSleep", TRUE) \in Signals /\ Signal("PrepareForShutdown", TRUE) \in Signals
  BY DEF Signals, Signal, Members
<1> DEFINE sleep == Signal("PrepareForSleep", TRUE)
           down  == Signal("PrepareForShutdown", TRUE)
<1>2. /\ state = "sleepDelay" => Announcement(state) = <<sleep>>
      /\ state = "shutdownDelay" => Announcement(state) = <<down>>
      /\ state \notin {"sleepDelay", "shutdownDelay"} => Announcement(state) = <<>>
  BY DEF Announcement
<1> HIDE DEF sleep, down
<1>3. <<sleep>> \in Seq(Signals) /\ <<down>> \in Seq(Signals) /\ <<>> \in Seq(Signals)
  <2>1. sleep \in Signals /\ down \in Signals
    BY <1>1 DEF sleep, down
  <2> QED BY <2>1
<1> QED BY <1>2, <1>3

\* The services answer what they are asked.
LEMMA MessageServe ==
  ASSUME TypeOK, MessageInv, CallInv, NEW s \in Services, Serve(s)
  PROVE  MessageInv'
<1> DEFINE msg == Head(bus[s])
<1>1. /\ bus[s] # <<>> /\ UNCHANGED <<calls, pc, unit, path>> /\ loaded \subseteq Units
      /\ Refuses(s, msg) \/ GrantsLock(s, msg) \/ Operates(s, msg) \/ AnswersQuery(s, msg)
  BY DEF Serve, daemon, TypeOK
<1>2. msg \in OnBus /\ msg \in Messages
  BY <1>1, HeadOnBus
<1>3. msg.serial \in Nat /\ msg.serial <= serial /\ serial \in Nat
  BY <1>2, MessageFacts DEF OnBus, TypeOK
<1>4. /\ msg.member = "Inhibit" => msg.serial # Others
      /\ msg.serial \in waiting => IsCurrent(msg) /\ InCall
  BY <1>2 DEF OnBus, TypeOK
<1>5. \/ msg.interface = "Login1Manager"
      \/ msg.interface = "Systemd1Manager" /\ msg.member = "GetUnit"
      \/ msg.interface = "Systemd1Timer" /\ msg.to.path \in Units /\ msg.member \in NextElapses
  BY <1>2, MessageFacts
<1> HIDE DEF msg
<1>6. CASE Refuses(s, msg)
  <2>1. Answer(s, Refusal(msg.serial))
    BY <1>6 DEF Refuses
  <2>2. Refusal(msg.serial).serial # Others => Refusal(msg.serial) \in Received'
    BY <1>1, <1>3 DEF Refusal, Received, Inbound, IsAnswer, Others, calls
  <2> QED BY <1>1, <2>1, <2>2, AnswerSent
<1>7. CASE GrantsLock(s, msg)
  <2>1. Answer(s, Reply(msg.serial, "fd")) /\ msg.member = "Inhibit"
    BY <1>7 DEF GrantsLock
  <2>2. msg.serial \in waiting => Wanted = "fd"
    BY <1>4, <1>5, <2>1 DEF IsCurrent, Wanted, InCall, NextElapses
  <2>3. Wanted' = Wanted /\ waiting' = waiting /\ serial' = serial
    BY <1>1 DEF Wanted, calls
  <2>4. Reply(msg.serial, "fd") \in Received'
    BY <1>3, <1>4, <2>1, <2>2, <2>3, ReplyReceived
  <2> QED BY <1>1, <2>1, <2>4, AnswerSent
<1>8. CASE Operates(s, msg)
  <2>1. /\ bus' = [bus EXCEPT ![s] = Tail(@)]
        /\ inbox' = inbox \o Announcement(Leads(msg))
    BY <1>8 DEF Operates, Announce
  <2>2. Announcement(Leads(msg)) \in Seq(Signals)
    BY AnnouncementType
  <2>3. (\A t \in Services : bus[t] \in Seq(OnBus')) /\ inbox \in Seq(Received')
    BY <1>1, MessageKept DEF calls
  <2>4. DOMAIN bus' = Services /\ \A t \in Services : bus'[t] \in Seq(OnBus')
    BY <1>1, <2>1, <2>3, TakeBus
  <2>5. inbox' \in Seq(Received')
    BY <2>1, <2>2, <2>3, SignalsReceived
  <2> QED BY <2>4, <2>5 DEF MessageInv
<1>9. CASE AnswersQuery(s, msg)
  <2>1. PICK v \in Units :
          /\ Answer(s, Reply(msg.serial, v))
          /\ \/ msg.member = "GetUnit" /\ v = msg.arg
             \/ msg.interface = "Systemd1Timer" /\ v = msg.to.path
    BY <1>1, <1>5, <1>9 DEF AnswersQuery
  <2>2. msg.serial \in waiting => Wanted = v
    BY <1>4, <1>5, <2>1 DEF IsCurrent, Wanted, InCall, NextElapses, CallInv
  <2>3. Wanted' = Wanted /\ waiting' = waiting /\ serial' = serial
    BY <1>1 DEF Wanted, calls
  <2>4. Reply(msg.serial, v).serial # Others => Reply(msg.serial, v) \in Received'
    BY <1>3, <2>2, <2>3, ReplyReceived DEF Reply
  <2> QED BY <1>1, <2>1, <2>4, AnswerSent
<1> QED BY <1>1, <1>6, <1>7, <1>8, <1>9 DEF msg

\* The calls of the daemon, and those for an operation.
LEMMA MessageSent ==
  ASSUME TypeOK, MessageInv, CallInv,
         SendCall \/ \E m \in LoginSleeps \cup LoginShutdowns :
                        Request(Call(login_manager, "Login1Manager", m))
  PROVE  MessageInv'
<1>1. ASSUME NEW m \in LoginSleeps \cup LoginShutdowns,
             Request(Call(login_manager, "Login1Manager", m))
      PROVE  MessageInv'
  <2> DEFINE c   == Call(login_manager, "Login1Manager", m)
             msg == Message(c, Others, "none")
  <2>1. Put(msg) /\ UNCHANGED <<calls, pc, unit, path>> /\ inbox' = inbox
    BY <1>1 DEF Request, daemon
  <2>2. c \in LoginCalls
    BY DEF LoginCalls, login_manager
  <2>3. msg \in Messages
    BY <2>2 DEF Messages, Others
  <2>4. /\ msg.serial = 0 /\ msg.member = m /\ m # "Inhibit" /\ msg.to.dest = "login1"
        /\ 0 \notin waiting /\ 0 <= serial
    BY DEF Message, Call, login_manager, Proxy, Others, TypeOK, LoginSleeps, LoginShutdowns
  <2>5. msg \in OnBus'
    BY <2>1, <2>3, <2>4 DEF OnBus, calls, Messages
  <2>6. (\A s \in Services : bus[s] \in Seq(OnBus')) /\ inbox \in Seq(Received')
    BY <2>1, MessageKept DEF calls
  <2> HIDE DEF msg
  <2>7. DOMAIN bus' = Services /\ \A s \in Services : bus'[s] \in Seq(OnBus')
    BY <2>1, <2>4, <2>5, <2>6, PutBus DEF Services
  <2> QED BY <2>1, <2>6, <2>7 DEF MessageInv
<1>2. CASE SendCall
  <2> DEFINE arg == IF pc = "getUnit" THEN TimerUnits[unit] ELSE "none"
             msg == Message(DaemonCall, serial + 1, arg)
  <2>1. /\ Put(msg) /\ UNCHANGED <<pc, unit, path, inbox>> /\ InCall
        /\ serial' = serial + 1 /\ waiting' = {serial + 1} /\ serial \in Nat
    BY <1>2 DEF SendCall, daemon, TypeOK
  <2>2. InTimer => unit \in 1..Len(TimerUnits) /\ TimerUnits[unit] \in Units
    BY UnitNames DEF CallInv
  <2>3. DaemonCall \in LoginCalls \cup ManagerCalls \cup TimerCalls
    BY <2>1, <2>2 DEF InCall, InTimer, DaemonCall, LoginCalls, ManagerCalls, TimerCalls, CallInv,
                      NextElapses, login_manager, systemd_manager
  <2>4. arg \in Units \cup {"none"}
    BY <2>2 DEF InTimer
  <2>5. msg \in Messages
    BY <2>1, <2>3, <2>4 DEF Messages
  <2>6. msg.serial = serial + 1 /\ IsCurrent(msg) /\ msg.to.dest \in Services
    BY <2>1 DEF Message, DaemonCall, Call, IsCurrent, InCall, Services, Proxy,
                login_manager, systemd_manager
  <2> HIDE DEF msg, arg
  <2>7. msg \in OnBus'
    BY <2>1, <2>5, <2>6 DEF OnBus, Messages, IsCurrent, Others
  <2>8. OnBus \subseteq OnBus' /\ Received \subseteq Received'
    BY <2>1, StillWanted
  <2>9. (\A s \in Services : bus[s] \in Seq(OnBus')) /\ inbox \in Seq(Received')
    <3> DEFINE B == OnBus
               C == OnBus'
               Q == Received
               R == Received'
    <3>1. B \subseteq C /\ Q \subseteq R /\ inbox \in Seq(Q) /\ \A s \in Services : bus[s] \in Seq(B)
      BY <2>8 DEF MessageInv
    <3> HIDE DEF B, C, Q, R
    <3>2. inbox \in Seq(R)
      BY <3>1, SeqMonotonic
    <3>3. \A s \in Services : bus[s] \in Seq(C)
      BY <3>1, SeqMonotonic
    <3> QED BY <3>2, <3>3 DEF C, R
  <2>10. DOMAIN bus' = Services /\ \A s \in Services : bus'[s] \in Seq(OnBus')
    BY <2>1, <2>6, <2>7, <2>9, PutBus
  <2> QED BY <2>1, <2>9, <2>10 DEF MessageInv
<1> QED BY <1>1, <1>2

\* Everybody's requests are among the calls of login1.
LEMMA RequestsKnown ==
  /\ \A o \in {"sleep", "shutdown"} : RunnerCalls(o) =>
       \E m \in LoginSleeps \cup LoginShutdowns : Request(Call(login_manager, "Login1Manager", m))
  /\ \A m \in LoginSleeps \cup LoginShutdowns :
       UserCalls(m) => Request(Call(login_manager, "Login1Manager", m))
<1>1. ASSUME NEW o \in {"sleep", "shutdown"}, RunnerCalls(o)
      PROVE  \E m \in LoginSleeps \cup LoginShutdowns :
               Request(Call(login_manager, "Login1Manager", m))
  <2>1. (IF o = "sleep" THEN "Suspend" ELSE "PowerOff") \in LoginSleeps \cup LoginShutdowns
    BY DEF LoginSleeps, LoginShutdowns
  <2> QED BY <1>1, <2>1, Zenon DEF RunnerCalls, PowerCall
<1>2. ASSUME NEW m \in LoginSleeps \cup LoginShutdowns, UserCalls(m)
      PROVE  Request(Call(login_manager, "Login1Manager", m))
  BY <1>2, Zenon DEF UserCalls, login_manager
<1> QED BY <1>1, <1>2

LEMMA MessageNext ==
  ASSUME TypeOK, MessageInv, CallInv, [Next]_vars
  PROVE  MessageInv'
<1>0. waiting # {} => InCall
  BY DEF TypeOK
<1>1. ASSUME NEW o \in {"sleep", "shutdown"}, RunnerCalls(o) PROVE MessageInv'
  BY <1>1, RequestsKnown, MessageSent
<1>2. ASSUME NEW m \in LoginSleeps \cup LoginShutdowns, UserCalls(m) PROVE MessageInv'
  BY <1>2, RequestsKnown, MessageSent
<1>3. CASE GoDown
  BY <1>3, QueuesKept DEF GoDown, calls, daemon
<1>4. CASE Resume
  <2>1. Resume /\ <<Signal("PrepareForSleep", FALSE)>> \in Seq(Signals)
    BY <1>4 DEF Signals, Signal, Members
  <2>2. (\A s \in Services : bus[s] \in Seq(OnBus')) /\ inbox \in Seq(Received')
    BY <1>4, MessageKept DEF Resume, calls, daemon
  <2>3. inbox' \in Seq(Received')
    BY <2>1, <2>2, SignalsReceived DEF Resume, Announce
  <2> QED BY <2>1, <2>2, <2>3 DEF Resume, MessageInv
<1>4a. CASE CallOff
  <2>1. CallOff /\ <<Signal("PrepareForShutdown", FALSE)>> \in Seq(Signals)
    BY <1>4a DEF Signals, Signal, Members
  <2>2. (\A s \in Services : bus[s] \in Seq(OnBus')) /\ inbox \in Seq(Received')
    BY <1>4a, MessageKept DEF CallOff, calls, daemon
  <2>3. inbox' \in Seq(Received')
    BY <2>1, <2>2, SignalsReceived DEF CallOff, Announce
  <2> QED BY <2>1, <2>2, <2>3 DEF CallOff, MessageInv
<1>5. CASE Boot
  BY <1>5 DEF Boot, MessageInv
<1>6. ASSUME NEW u \in Units, Reload(u) PROVE MessageInv'
  BY <1>6, QueuesKept DEF Reload, calls, daemon
<1>7. ASSUME NEW s \in Services, Serve(s) PROVE MessageInv'
  BY <1>7, MessageServe
<1>8. CASE SendCall
  BY <1>8, MessageSent
<1>9. ASSUME NEW i \in Answers, Returns(i) \/ IsRefused(i) PROVE MessageInv'
  <2> DEFINE R == Received
  <2>1. inbox \in Seq(R)
    BY DEF MessageInv
  <2> HIDE DEF R
  <2>2. i \in 1..Len(inbox)
    BY <2>1, LenProperties DEF Answers
  <2>3. /\ serial' = serial /\ bus' = bus /\ waiting' = {}
        /\ inbox' = RemoveAt(inbox, i)
    BY <1>9 DEF Returns, IsRefused, ReturnsError, EndCall
  <2> QED BY <2>2, <2>3, MessageTaken
<1>10. CASE TimesOut
  BY <1>10, QueuesKept DEF TimesOut, ReturnsError, EndCall
<1>11. CASE Dispatch \/ Drop
  <2>1. serial' = serial /\ bus' = bus /\ waiting' = waiting /\ inbox # <<>> /\ inbox' = Tail(inbox)
    BY <1>11 DEF Dispatch, Drop, calls
  <2>2. waiting = {}
    BY <1>0, <1>11 DEF Dispatch, Drop, InCall
  <2> QED BY <2>1, <2>2, MessageTaken
<1>12. CASE ReleaseInhibitor
  <2>1. serial' = serial /\ bus' = bus /\ waiting' = waiting /\ inbox' = inbox
    BY <1>12 DEF ReleaseInhibitor, calls
  <2>2. waiting = {}
    BY <1>0, <1>12 DEF ReleaseInhibitor, InCall
  <2> QED BY <2>1, <2>2, QueuesKept
<1>13. CASE Tick
  BY <1>13, QueuesKept DEF Tick, daemon
<1>14. CASE UNCHANGED vars
  BY <1>14, QueuesKept DEF vars
<1> QED BY <1>1, <1>2, <1>3, <1>4, <1>4a, <1>5, <1>6, <1>7, <1>8, <1>9, <1>10, <1>11, <1>12, <1>13,
           <1>14 DEF Next, Daemon

-----------------------------------------------------------------------------
(* Types and the call that is waited for.                                  *)

\* What conn.process dispatches is an announcement.
LEMMA DispatchFacts ==
  ASSUME MessageInv, Dispatch
  PROVE  /\ inbox # <<>> /\ inbox \in Seq(Received) /\ Head(inbox) \in Signals
         /\ Head(inbox).kind = "signal" /\ Len(inbox) \in Nat /\ Len(inbox) >= 1
         /\ Head(inbox) = inbox[1] /\ handled' = Append(handled, Head(inbox))
<1> DEFINE R == Received
           sig == Head(inbox)
<1>1. inbox \in Seq(R) /\ inbox # <<>> /\ sig.kind = "signal" /\ handled' = Append(handled, sig)
  BY DEF MessageInv, Dispatch, Matched
<1>2. sig \in R /\ sig = inbox[1] /\ Len(inbox) \in Nat /\ Len(inbox) >= 1
  <2> HIDE DEF R
  <2> QED BY <1>1, TailProperties
<1> HIDE DEF sig
<1>3. sig \in Signals
  BY <1>1, <1>2 DEF Received, Inbound, Reply, Refusal
<1> QED BY <1>1, <1>2, <1>3 DEF sig

\* Where a handler leads.
LEMMA DispatchMoves ==
  ASSUME MessageInv, Dispatch
  PROVE  /\ pc' \in {"loop", "release", "inhibit", "getUnit"} /\ unit' \in {0, 1}
         /\ pc' = "getUnit" => unit' = 1
         /\ pc' = "inhibit" => inhibitor = {}
<1> DEFINE sig == Head(inbox)
<1>1. sig.member \in Members /\ sig.arg0 \in BOOLEAN
  BY DispatchFacts DEF Signals
<1>2. pc' = Handler(sig) /\ unit' = IF Handler(sig) = "getUnit" THEN 1 ELSE 0
  BY DEF Dispatch
<1> HIDE DEF sig
<1>3. CASE sig.member = "PrepareForShutdown"
  BY <1>1, <1>2, <1>3 DEF Handler
<1>4. CASE sig.member = "PrepareForSleep"
  BY <1>1, <1>2, <1>4 DEF Handler
<1> QED BY <1>1, <1>3, <1>4 DEF Members

\* An answer to the call that is waited for.
LEMMA AnswerFacts ==
  ASSUME MessageInv, NEW i \in Answers
  PROVE  /\ i \in 1..Len(inbox) /\ Len(inbox) \in Nat /\ inbox[i] \in Received
         /\ inbox[i].serial \in waiting /\ inbox[i].serial \in 1..serial
         /\ inbox[i].kind = "reply" => inbox[i].value = Wanted
         /\ inbox[i].kind \in {"reply", "error"}
<1> DEFINE R == Received
<1>1. inbox \in Seq(R)
  BY DEF MessageInv
<1>2. i \in DOMAIN inbox /\ IsAnswer(inbox[i]) /\ inbox[i].serial \in waiting
  BY DEF Answers, IsMine
<1>3. i \in 1..Len(inbox) /\ Len(inbox) \in Nat /\ inbox[i] \in R
  <2> HIDE DEF R
  <2> QED BY <1>1, <1>2, LenProperties, ElementOfSeq
<1> QED BY <1>2, <1>3 DEF Received, IsAnswer

LEMMA AtMostOne ==
  /\ Cardinality({}) <= 1
  /\ \A n : Cardinality({n}) <= 1
<1>1. Cardinality({}) = 0 /\ \A n : Cardinality({n}) = 1
  BY FS_EmptySet, FS_Singleton
<1> QED BY <1>1

\* On to the next unit.
LEMMA NextUnitFacts ==
  ASSUME TypeOK, NextUnit
  PROVE  /\ pc' \in {"getUnit", "release"} /\ unit' \in 0..Len(TimerUnits)
         /\ pc' = "getUnit" => unit' = unit + 1 /\ unit < Len(TimerUnits)
         /\ pc' = "release" => unit >= Len(TimerUnits)
<1>1. Len(TimerUnits) \in Nat
  BY UnitsAssumption, LenProperties
<1> QED BY <1>1 DEF TypeOK, NextUnit

LEMMA CallNext ==
  ASSUME TypeOK, MessageInv, CallInv, [Next]_vars
  PROVE  CallInv'
<1>0. /\ waiting # {} => InCall
      /\ Len(TimerUnits) \in Nat /\ Len(TimerUnits) >= 1 /\ unit \in Nat
  BY UnitsAssumption, LenProperties, EmptySeq DEF TypeOK
<1>1. CASE UNCHANGED <<calls, pc, unit, path>>
  BY <1>1 DEF CallInv, calls, InTimer
<1>2. CASE Boot
  BY <1>2 DEF Boot, CallInv, InTimer
<1>3. CASE SendCall
  BY <1>3 DEF SendCall, daemon, CallInv, InTimer
<1>4. ASSUME NEW i \in Answers, Returns(i) PROVE CallInv'
  <2>1. waiting' = {} /\ waited' = 0
    BY <1>4 DEF Returns, EndCall
  <2>2. InTimer' => unit' \in 1..Len(TimerUnits)
    <3>1. CASE pc = "monotonic"
      BY <1>0, <1>4, <3>1, NextUnitFacts DEF Returns, CallInv, InTimer
    <3>2. CASE pc # "monotonic"
      BY <1>4, <3>2 DEF Returns, InCall, CallInv, InTimer
    <3> QED BY <3>1, <3>2
  <2>3. pc' \in {"realtime", "monotonic"} => path' = TimerUnits[unit']
    <3>1. CASE pc = "monotonic"
      BY <1>0, <1>4, <3>1, NextUnitFacts DEF Returns
    <3>2. CASE pc # "monotonic"
      BY <1>4, <3>2, AnswerFacts DEF Returns, InCall, CallInv, Wanted, PathOf
    <3> QED BY <3>1, <3>2
  <2> QED BY <2>1, <2>2, <2>3 DEF CallInv
<1>5. CASE ReturnsError /\ InCall
  <2>1. waiting' = {} /\ waited' = 0
    BY <1>5 DEF ReturnsError, EndCall
  <2>2. CASE pc = "inhibit"
    BY <1>5, <2>1, <2>2 DEF ReturnsError, CallInv, InTimer
  <2>3. CASE pc # "inhibit"
    <3>1. NextUnit
      BY <1>5, <2>3 DEF ReturnsError
    <3> QED BY <1>0, <2>1, <3>1, NextUnitFacts DEF CallInv, InTimer
  <2> QED BY <2>2, <2>3
<1>6. CASE Dispatch
  <2>1. UNCHANGED <<waiting, waited, path>>
    BY <1>6 DEF Dispatch, calls
  <2> QED BY <1>0, <1>6, <2>1, DispatchMoves DEF CallInv, InTimer
<1>7. CASE Drop
  BY <1>7 DEF Drop, daemon, calls, CallInv, InTimer
<1>8. CASE ReleaseInhibitor
  BY <1>8 DEF ReleaseInhibitor, calls, CallInv, InTimer
<1>9. CASE Tick
  BY <1>9 DEF Tick, daemon, CallInv, InTimer
<1>10. ASSUME \/ \E o \in {"sleep", "shutdown"} : RunnerCalls(o)
              \/ \E m \in LoginSleeps \cup LoginShutdowns : UserCalls(m)
              \/ GoDown \/ Resume \/ CallOff \/ (\E u \in Units : Reload(u)) \/ (\E s \in Services : Serve(s))
              \/ UNCHANGED vars
       PROVE  UNCHANGED <<calls, pc, unit, path>>
  BY <1>10 DEF RunnerCalls, UserCalls, Request, GoDown, Resume, CallOff, Reload, Serve, vars, calls, daemon
<1>11. ASSUME NEW i \in Answers, IsRefused(i) PROVE ReturnsError /\ InCall
  BY <1>11 DEF IsRefused
<1>12. ASSUME TimesOut PROVE ReturnsError /\ InCall
  BY <1>0, <1>12 DEF TimesOut
<1> QED BY <1>1, <1>2, <1>3, <1>4, <1>5, <1>6, <1>7, <1>8, <1>9, <1>10, <1>11, <1>12
        DEF Next, Daemon

\* Of the machine's state.
MachineType ==
  /\ power \in {"up", "sleepDelay", "asleep", "shutdownDelay", "off"}
  /\ op \in 0..MaxOps /\ delayed \in 0..DelayMax
LEMMA MachineNext ==
  ASSUME TypeOK, MessageInv, [Next]_vars
  PROVE  MachineType'
<1>0. MachineType /\ DelayMax \in Nat /\ MaxOps \in Nat
  BY BoundsAssumption DEF TypeOK, MachineType
<1>1. CASE UNCHANGED machine
  BY <1>0, <1>1 DEF machine, MachineType
<1>2. CASE GoDown \/ Resume \/ CallOff \/ Boot
  BY <1>0, <1>2 DEF GoDown, Resume, CallOff, Boot, MachineType
<1>3. ASSUME NEW s \in Services, Serve(s) PROVE MachineType'
  <2> DEFINE msg == Head(bus[s])
  <2>1. /\ bus[s] # <<>>
        /\ Refuses(s, msg) \/ GrantsLock(s, msg) \/ Operates(s, msg) \/ AnswersQuery(s, msg)
    BY <1>3 DEF Serve
  <2>2. Leads(msg) \in {"sleepDelay", "shutdownDelay", "none"}
    BY <2>1, HeadOnBus, LeadsToDelay
  <2> HIDE DEF msg
  <2>3. CASE Operates(s, msg)
    BY <1>0, <2>2, <2>3 DEF Operates, MachineType
  <2>4. CASE Refuses(s, msg) \/ GrantsLock(s, msg) \/ AnswersQuery(s, msg)
    BY <1>1, <2>4 DEF Refuses, GrantsLock, AnswersQuery
  <2> QED BY <2>1, <2>3, <2>4
<1>4. CASE Tick
  BY <1>0, <1>4 DEF Tick, MachineType
<1>5. ASSUME NEW i \in Answers, Returns(i) \/ IsRefused(i) PROVE UNCHANGED machine
  BY <1>5 DEF Returns, IsRefused, ReturnsError, EndCall
<1>6. ASSUME SendCall \/ TimesOut \/ Dispatch \/ Drop \/ ReleaseInhibitor PROVE UNCHANGED machine
  BY <1>6 DEF SendCall, TimesOut, ReturnsError, EndCall, Dispatch, Drop, ReleaseInhibitor
<1>7. ASSUME \/ \E o \in {"sleep", "shutdown"} : RunnerCalls(o)
             \/ \E m \in LoginSleeps \cup LoginShutdowns : UserCalls(m)
             \/ (\E u \in Units : Reload(u)) \/ UNCHANGED vars
      PROVE  UNCHANGED machine
  BY <1>7 DEF RunnerCalls, UserCalls, Request, Reload, vars, machine
<1> QED BY <1>1, <1>2, <1>3, <1>4, <1>5, <1>6, <1>7 DEF Next, Daemon

\* Of the serials: of locks and calls.
SerialType ==
  /\ serial \in Nat /\ locks \subseteq 0..serial /\ inhibitor \subseteq 0..serial
  /\ waiting \subseteq 1..serial /\ Cardinality(waiting) <= 1 /\ waited \in 0..PROXY_TIMEOUT
LEMMA SerialNext ==
  ASSUME TypeOK, MessageInv, [Next]_vars
  PROVE  SerialType'
<1>0. SerialType /\ (waiting # {} => InCall)
  BY DEF TypeOK, SerialType
<1>1. CASE UNCHANGED <<locks, inhibitor, calls>>
  BY <1>0, <1>1 DEF calls, SerialType
<1>2. CASE Boot
  BY <1>2, AtMostOne DEF Boot, SerialType, PROXY_TIMEOUT
<1>3. ASSUME NEW s \in Services, Serve(s) PROVE SerialType'
  <2> DEFINE msg == Head(bus[s])
  <2>1. /\ bus[s] # <<>> /\ UNCHANGED <<calls, inhibitor>>
        /\ Refuses(s, msg) \/ GrantsLock(s, msg) \/ Operates(s, msg) \/ AnswersQuery(s, msg)
    BY <1>3 DEF Serve, daemon
  <2>2. msg.serial \in Nat /\ msg.serial <= serial
    BY <2>1, HeadOnBus, MessageFacts DEF OnBus
  <2> HIDE DEF msg
  <2>3. locks' \subseteq locks \cup {msg.serial}
    BY <2>1 DEF Refuses, GrantsLock, Operates, AnswersQuery
  <2> QED BY <1>0, <2>1, <2>2, <2>3 DEF SerialType, calls
<1>4. CASE SendCall
  <2>1. UNCHANGED <<locks, inhibitor>> /\ serial' = serial + 1 /\ waiting' = {serial + 1} /\ waited' = 0
    BY <1>4 DEF SendCall, daemon
  <2>2. Cardinality(waiting') <= 1
    BY <2>1, AtMostOne
  <2> QED BY <1>0, <2>1, <2>2 DEF SerialType, PROXY_TIMEOUT
<1>5. ASSUME EndCall, UNCHANGED locks, inhibitor' \subseteq 0..serial PROVE SerialType'
  <2>1. Cardinality(waiting') <= 1
    BY <1>5, AtMostOne DEF EndCall
  <2> QED BY <1>0, <1>5, <2>1 DEF EndCall, SerialType, PROXY_TIMEOUT
<1>6. ASSUME NEW i \in Answers, Returns(i) PROVE SerialType'
  <2>1. inhibitor' \in {inhibitor, {inbox[i].serial}}
    BY <1>6 DEF Returns, InCall
  <2>2. inbox[i].serial \in 0..serial /\ inhibitor \subseteq 0..serial
    BY <1>0, AnswerFacts DEF SerialType
  <2>3. inhibitor' \subseteq 0..serial
    BY <2>1, <2>2
  <2> QED BY <1>5, <1>6, <2>3 DEF Returns
<1>7. ASSUME NEW i \in Answers, IsRefused(i) PROVE SerialType'
  BY <1>0, <1>5, <1>7 DEF IsRefused, ReturnsError, SerialType
<1>8. CASE TimesOut
  BY <1>0, <1>5, <1>8 DEF TimesOut, ReturnsError, SerialType
<1>9. CASE Drop \/ ReleaseInhibitor
  BY <1>0, <1>9 DEF Drop, ReleaseInhibitor, daemon, calls, SerialType
<1>10. CASE Tick
  <2>1. waited' = IF waiting # {} THEN waited + 1 ELSE waited
    BY <1>10 DEF Tick
  <2>2. waiting # {} => waited < PROXY_TIMEOUT
    BY <1>0, <1>10 DEF Tick, Blocked
  <2> QED BY <1>0, <1>10, <2>1, <2>2 DEF Tick, daemon, SerialType, PROXY_TIMEOUT
<1>11. ASSUME \/ \E o \in {"sleep", "shutdown"} : RunnerCalls(o)
              \/ \E m \in LoginSleeps \cup LoginShutdowns : UserCalls(m)
              \/ GoDown \/ Resume \/ CallOff \/ (\E u \in Units : Reload(u)) \/ Dispatch \/ UNCHANGED vars
       PROVE  UNCHANGED <<locks, inhibitor, calls>>
  BY <1>11 DEF RunnerCalls, UserCalls, Request, GoDown, Resume, CallOff, Reload, Dispatch, vars, calls, daemon
<1> QED BY <1>1, <1>2, <1>3, <1>4, <1>6, <1>7, <1>8, <1>9, <1>10, <1>11 DEF Next, Daemon

\* Of the daemon's handlers.
HandlerType ==
  /\ waiting # {} => InCall
  /\ unit \in 0..Len(TimerUnits) /\ matches \subseteq Members
  /\ pc \in {"loop", "release"} \/ InCall
  /\ pc \in {"realtime", "monotonic"} => path \in Units
LEMMA HandlerNext ==
  ASSUME TypeOK, MessageInv, CallInv, [Next]_vars
  PROVE  HandlerType'
<1>0. /\ HandlerType /\ (InTimer => TimerUnits[unit] \in Units)
      /\ Len(TimerUnits) \in Nat /\ Len(TimerUnits) >= 1 /\ unit \in Nat
  BY UnitsAssumption, UnitNames, LenProperties, EmptySeq DEF TypeOK, HandlerType, CallInv
<1>1. CASE UNCHANGED <<waiting, unit, matches, pc, path>>
  BY <1>0, <1>1 DEF HandlerType, InCall
<1>2. CASE Boot
  BY <1>0, <1>2 DEF Boot, HandlerType, InCall
<1>3. CASE SendCall
  BY <1>0, <1>3 DEF SendCall, daemon, HandlerType, InCall
<1>4. ASSUME NEW i \in Answers, Returns(i) PROVE HandlerType'
  <2>1. waiting' = {} /\ matches' = matches
    BY <1>4 DEF Returns, EndCall
  <2>2. CASE pc = "monotonic"
    <3>1. NextUnit
      BY <1>4, <2>2 DEF Returns
    <3>2. pc' \in {"getUnit", "release"} /\ unit' \in 0..Len(TimerUnits)
      BY <3>1, NextUnitFacts
    <3> QED BY <1>0, <2>1, <3>2 DEF HandlerType, InCall
  <2>3. CASE pc \in {"inhibit", "realtime"}
    BY <1>0, <1>4, <2>1, <2>3 DEF Returns, HandlerType, InCall
  <2>4. CASE pc = "getUnit"
    <3>1. inbox[i].kind = "reply" /\ path' = inbox[i].value /\ pc' = "realtime" /\ unit' = unit
      BY <1>4, <2>4 DEF Returns, PathOf
    <3>2. path' \in Units
      BY <1>0, <2>4, <3>1, AnswerFacts DEF Wanted, InTimer
    <3> QED BY <1>0, <2>1, <3>1, <3>2 DEF HandlerType, InCall
  <2> QED BY <1>4, <2>2, <2>3, <2>4 DEF Returns, InCall
<1>5. CASE ReturnsError /\ InCall
  <2>1. waiting' = {} /\ matches' = matches
    BY <1>5 DEF ReturnsError, EndCall
  <2>2. CASE pc = "inhibit"
    BY <1>0, <1>5, <2>1, <2>2 DEF ReturnsError, HandlerType, InCall
  <2>3. CASE pc # "inhibit"
    <3>1. NextUnit
      BY <1>5, <2>3 DEF ReturnsError
    <3> QED BY <1>0, <2>1, <3>1, NextUnitFacts DEF HandlerType, InCall
  <2> QED BY <2>2, <2>3
<1>6. CASE Dispatch
  <2>1. waiting = {}
    BY <1>0, <1>6 DEF Dispatch, HandlerType, InCall
  <2>2. waiting' = waiting /\ path' = path /\ matches' = matches
    BY <1>6 DEF Dispatch, Stays, calls
  <2>3. /\ pc' \in {"loop", "release", "inhibit", "getUnit"}
        /\ unit' \in {0, 1}
    BY <1>6, DispatchMoves
  <2> QED BY <1>0, <2>1, <2>2, <2>3 DEF HandlerType, InCall
<1>7. CASE ReleaseInhibitor
  <2>1. waiting = {}
    BY <1>0, <1>7 DEF ReleaseInhibitor, HandlerType, InCall
  <2> QED BY <1>0, <1>7, <2>1 DEF ReleaseInhibitor, HandlerType, InCall, calls
<1>8. ASSUME \/ \E o \in {"sleep", "shutdown"} : RunnerCalls(o)
             \/ \E m \in LoginSleeps \cup LoginShutdowns : UserCalls(m)
             \/ GoDown \/ Resume \/ CallOff \/ (\E u \in Units : Reload(u)) \/ (\E s \in Services : Serve(s))
             \/ Drop \/ Tick \/ UNCHANGED vars
      PROVE  UNCHANGED <<waiting, unit, matches, pc, path>>
  BY <1>8 DEF RunnerCalls, UserCalls, Request, GoDown, Resume, CallOff, Reload, Serve, Drop, Tick, vars,
              calls, daemon
<1>9. ASSUME NEW i \in Answers, IsRefused(i) PROVE ReturnsError /\ InCall
  BY <1>9 DEF IsRefused
<1>10. ASSUME TimesOut PROVE ReturnsError /\ InCall
  BY <1>0, <1>10 DEF TimesOut, HandlerType
<1> QED BY <1>1, <1>2, <1>3, <1>4, <1>5, <1>6, <1>7, <1>8, <1>9, <1>10 DEF Next, Daemon

LEMMA TypeNext ==
  ASSUME TypeOK, MessageInv, CallInv, [Next]_vars
  PROVE  TypeOK'
<1>1. loaded' \subseteq Units
  <2>1. loaded \subseteq Units
    BY DEF TypeOK
  <2>2. CASE Boot \/ \E u \in Units : Reload(u)
    BY <2>1, <2>2 DEF Boot, Reload
  <2>3. ASSUME NEW i \in Answers, Returns(i) \/ IsRefused(i) PROVE loaded' = loaded
    BY <2>3 DEF Returns, IsRefused, ReturnsError, EndCall
  <2>4. ASSUME \/ \E o \in {"sleep", "shutdown"} : RunnerCalls(o)
               \/ \E m \in LoginSleeps \cup LoginShutdowns : UserCalls(m)
               \/ GoDown \/ Resume \/ CallOff \/ (\E s \in Services : Serve(s)) \/ Tick \/ UNCHANGED vars
        PROVE  loaded' = loaded
    BY <2>4 DEF RunnerCalls, UserCalls, Request, GoDown, Resume, CallOff, Serve, Tick, vars
  <2>5. ASSUME SendCall \/ TimesOut \/ Dispatch \/ Drop \/ ReleaseInhibitor
        PROVE  loaded' = loaded
    BY <2>5 DEF SendCall, TimesOut, ReturnsError, EndCall, Dispatch, Drop, ReleaseInhibitor
  <2> QED BY <2>1, <2>2, <2>3, <2>4, <2>5 DEF Next, Daemon
<1>2. MachineType' /\ SerialType' /\ HandlerType'
  BY MachineNext, SerialNext, HandlerNext
<1> QED BY <1>1, <1>2 DEF TypeOK, MachineType, SerialType, HandlerType

-----------------------------------------------------------------------------
(* What the callback reads, and when the machine goes down.                *)

LEMMA AnswersNext ==
  ASSUME TypeOK, MessageInv, CallInv, AnswersBelong, [Next]_vars
  PROVE  AnswersBelong'
<1>1. CASE read' = read
  BY <1>1 DEF AnswersBelong
<1>2. CASE Boot \/ Dispatch
  BY <1>2 DEF Boot, Dispatch, AnswersBelong
<1>3. ASSUME NEW i \in Answers, Returns(i) PROVE AnswersBelong'
  <2>1. CASE pc \in {"realtime", "monotonic"}
    <3>1. inbox[i].value = TimerUnits[unit]
      BY <1>3, <2>1, AnswerFacts DEF Returns, Wanted
    <3>2. read' = read \cup {<<TimerUnits[unit], inbox[i].value>>}
      BY <1>3, <2>1 DEF Returns
    <3> QED BY <3>1, <3>2 DEF AnswersBelong
  <2>2. CASE pc \in {"inhibit", "getUnit"}
    BY <1>1, <1>3, <2>2 DEF Returns
  <2> QED BY <1>3, <2>1, <2>2 DEF Returns, InCall
<1>4. ASSUME NEW i \in Answers, IsRefused(i) PROVE read' = read
  BY <1>4 DEF IsRefused, ReturnsError
<1>5. ASSUME TimesOut \/ SendCall \/ Drop \/ ReleaseInhibitor \/ Tick PROVE read' = read
  BY <1>5 DEF TimesOut, ReturnsError, SendCall, Drop, ReleaseInhibitor, Tick, daemon
<1>6. ASSUME \/ \E o \in {"sleep", "shutdown"} : RunnerCalls(o)
             \/ \E m \in LoginSleeps \cup LoginShutdowns : UserCalls(m)
             \/ GoDown \/ Resume \/ CallOff \/ (\E u \in Units : Reload(u)) \/ (\E s \in Services : Serve(s))
             \/ UNCHANGED vars
      PROVE  read' = read
  BY <1>6 DEF RunnerCalls, UserCalls, Request, GoDown, Resume, CallOff, Reload, Serve, vars, daemon
<1> QED BY <1>1, <1>2, <1>3, <1>4, <1>5, <1>6 DEF Next, Daemon

\* A service goes on with the machine, or begins an operation that logind delays.
LEMMA ServeFacts ==
  ASSUME TypeOK, MessageInv, NEW s \in Services, Serve(s)
  PROVE  /\ Awake /\ Awake' /\ UNCHANGED <<loaded, calls, daemon>>
         /\ \/ /\ UNCHANGED <<machine, locks, sent>>
               /\ inbox' = inbox \/ \E n \in 1..serial : inbox' = Append(inbox, Refusal(n))
            \/ /\ UNCHANGED <<machine, locks, sent>>
               /\ inbox' = inbox \/ \E n \in 1..serial, v \in Units : inbox' = Append(inbox, Reply(n, v))
            \/ /\ UNCHANGED <<machine, sent>> /\ power = "up"
               /\ \E n \in 1..serial : /\ locks' = locks \cup {n}
                                       /\ inbox' = Append(inbox, Reply(n, "fd"))
                                       /\ n \in waiting => pc = "inhibit"
            \/ /\ power = "up" /\ op' = op + 1 /\ delayed' = 0 /\ UNCHANGED locks
               /\ \/ power' = "sleepDelay" /\ Announce(<<Signal("PrepareForSleep", TRUE)>>)
                  \/ power' = "shutdownDelay" /\ Announce(<<Signal("PrepareForShutdown", TRUE)>>)
<1> DEFINE msg == Head(bus[s])
<1>1. /\ bus[s] # <<>> /\ Awake /\ UNCHANGED <<loaded, calls, daemon>>
      /\ Refuses(s, msg) \/ GrantsLock(s, msg) \/ Operates(s, msg) \/ AnswersQuery(s, msg)
  BY DEF Serve
<1>2. /\ msg \in OnBus /\ msg \in Messages
      /\ Leads(msg) \in {"sleepDelay", "shutdownDelay", "none"}
  BY <1>1, HeadOnBus, LeadsToDelay
<1>3. /\ msg.serial \in 0..serial
      /\ msg.member = "Inhibit" => msg.serial # Others
      /\ msg.serial \in waiting => IsCurrent(msg) /\ InCall
  BY <1>2, MessageFacts DEF OnBus, TypeOK
<1>4. \/ msg.interface = "Login1Manager"
      \/ msg.interface = "Systemd1Manager" /\ msg.member = "GetUnit"
      \/ msg.interface = "Systemd1Timer" /\ msg.to.path \in Units /\ msg.member \in NextElapses
  BY <1>2, MessageFacts
<1> HIDE DEF msg
<1>5. CASE Refuses(s, msg)
  <2>1. UNCHANGED <<machine, locks, sent>> /\ Answer(s, Refusal(msg.serial))
    BY <1>5 DEF Refuses, Answer
  <2>2. Refusal(msg.serial).serial = msg.serial
    BY DEF Refusal
  <2>3. inbox' = inbox \/ \E n \in 1..serial : inbox' = Append(inbox, Refusal(n))
    BY <1>3, <2>1, <2>2 DEF Answer, Others
  <2> QED BY <1>1, <2>1, <2>3 DEF machine, Awake
<1>6. CASE AnswersQuery(s, msg)
  <2>1. PICK v \in Units : Answer(s, Reply(msg.serial, v))
    BY <1>4, <1>6 DEF AnswersQuery, TypeOK
  <2>2. UNCHANGED <<machine, locks, sent>>
    BY <1>6 DEF AnswersQuery, Answer
  <2>3. Reply(msg.serial, v).serial = msg.serial
    BY DEF Reply
  <2>4. inbox' = inbox \/ \E n \in 1..serial, w \in Units : inbox' = Append(inbox, Reply(n, w))
    BY <1>3, <2>1, <2>3 DEF Answer, Others
  <2> QED BY <1>1, <2>2, <2>4 DEF machine, Awake
<1>7. CASE GrantsLock(s, msg)
  <2>1. /\ Answer(s, Reply(msg.serial, "fd")) /\ msg.member = "Inhibit" /\ power = "up"
        /\ UNCHANGED <<machine, sent>> /\ locks' = locks \cup {msg.serial}
    BY <1>7 DEF GrantsLock, Answer
  <2>2. Reply(msg.serial, "fd").serial = msg.serial
    BY DEF Reply
  <2>3. inbox' = Append(inbox, Reply(msg.serial, "fd")) /\ msg.serial \in 1..serial
    BY <1>3, <2>1, <2>2 DEF Answer, Others, TypeOK
  <2>4. msg.serial \in waiting => pc = "inhibit"
    BY <1>3, <1>4, <2>1 DEF IsCurrent, InCall, NextElapses
  <2> QED BY <1>1, <2>1, <2>3, <2>4 DEF machine, Awake
<1>8. CASE Operates(s, msg)
  <2>1. CASE Leads(msg) = "sleepDelay"
    BY <1>1, <1>8, <2>1 DEF Operates, Announcement, Awake
  <2>2. CASE Leads(msg) = "shutdownDelay"
    BY <1>1, <1>8, <2>2 DEF Operates, Announcement, Awake
  <2> QED BY <1>2, <1>8, <2>1, <2>2 DEF Operates
<1> QED BY <1>1, <1>5, <1>6, <1>7, <1>8

LEMMA LocksNext ==
  ASSUME TypeOK, MessageInv, LocksRespected, [Next]_vars
  PROVE  LocksRespected'
<1>1. CASE Awake'
  BY <1>1 DEF LocksRespected
<1>2. CASE GoDown
  BY <1>2, BoundsAssumption DEF GoDown, LocksRespected, TypeOK
<1>3. CASE UNCHANGED vars
  BY <1>3 DEF vars, LocksRespected, Awake
<1>4. ASSUME Resume \/ CallOff \/ Boot PROVE Awake'
  BY <1>4 DEF Resume, CallOff, Boot, Awake
<1>5. ASSUME NEW s \in Services, Serve(s) PROVE Awake'
  BY <1>5, ServeFacts
<1>6. ASSUME \/ \E o \in {"sleep", "shutdown"} : RunnerCalls(o)
             \/ \E m \in LoginSleeps \cup LoginShutdowns : UserCalls(m)
             \/ (\E u \in Units : Reload(u))
      PROVE  Awake'
  BY <1>6 DEF RunnerCalls, UserCalls, Request, Reload, machine, Awake
<1>7. ASSUME SendCall \/ TimesOut \/ Dispatch \/ Drop \/ ReleaseInhibitor \/ Tick
      PROVE  Awake'
  BY <1>7 DEF SendCall, TimesOut, ReturnsError, EndCall, Dispatch, Drop, ReleaseInhibitor, Tick,
              machine, Awake
<1>8. ASSUME NEW i \in Answers, Returns(i) \/ IsRefused(i) PROVE Awake'
  BY <1>8 DEF Returns, IsRefused, ReturnsError, EndCall, machine, Awake
<1> QED BY <1>1, <1>2, <1>3, <1>4, <1>5, <1>6, <1>7, <1>8 DEF Next, Daemon

-----------------------------------------------------------------------------
(* Announcements.                                                          *)

LEMMA ConcatOne ==
  ASSUME NEW S, NEW s \in Seq(S), NEW x \in S
  PROVE  /\ s \o <<x>> \in Seq(S) /\ Len(s) \in Nat /\ Len(s \o <<x>>) = Len(s) + 1
         /\ \A i \in 1..Len(s) : (s \o <<x>>)[i] = s[i]
         /\ (s \o <<x>>)[Len(s) + 1] = x
<1>1. <<x>> \in Seq(S) /\ Len(<<x>>) = 1 /\ <<x>>[1] = x /\ Len(s) \in Nat
  BY LenProperties
<1> DEFINE t == <<x>>
<1> HIDE DEF t
<1>2. /\ s \o t \in Seq(S) /\ Len(s \o t) = Len(s) + Len(t)
      /\ \A i \in 1..(Len(s) + Len(t)) : (s \o t)[i] = IF i <= Len(s) THEN s[i] ELSE t[i - Len(s)]
  BY <1>1, ConcatProperties DEF t
<1>3. Len(t) = 1 /\ t[1] = x
  BY <1>1 DEF t
<1> QED BY <1>1, <1>2, <1>3 DEF t

LEMMA AppendOne ==
  ASSUME NEW S, NEW s \in Seq(S), NEW x \in S
  PROVE  /\ Append(s, x) \in Seq(S) /\ Len(s) \in Nat /\ Len(Append(s, x)) = Len(s) + 1
         /\ \A i \in 1..Len(s) : Append(s, x)[i] = s[i]
         /\ Append(s, x)[Len(s) + 1] = x
BY AppendProperties, LenProperties

LEMMA Parity ==
  ASSUME NEW n \in Nat
  PROVE  (2 * n) % 2 # 1 /\ (n >= 1 => (2 * n - 1) % 2 = 1)
OBVIOUS

LEMMA SentNext ==
  ASSUME TypeOK, MessageInv, CallInv, SentInv, [Next]_vars
  PROVE  SentInv'
<1>0. /\ sent \in Seq(Signals) /\ handled \in Seq(Signals) /\ op \in Nat /\ Len(sent) \in Nat
      /\ power \in {"up", "sleepDelay", "asleep", "shutdownDelay", "off"}
  BY BoundsAssumption, LenProperties DEF SentInv, TypeOK
<1>1. CASE UNCHANGED <<power, op, sent>> /\ handled' \in Seq(Signals)
  BY <1>1 DEF SentInv
<1>2. CASE Boot
  BY <1>2 DEF Boot, SentInv
<1>3. CASE GoDown
  BY <1>0, <1>3 DEF GoDown, InDelay, daemon, SentInv
<1>4. ASSUME NEW sig \in Signals, sent' = sent \o <<sig>>, handled' = handled,
             \/ power \in {"asleep", "shutdownDelay"} /\ power' = "up" /\ op' = op /\ ~sig.arg0
             \/ power = "up" /\ power' \in {"sleepDelay", "shutdownDelay"} /\ op' = op + 1 /\ sig.arg0
      PROVE  SentInv'
  <2>1. /\ sent' \in Seq(Signals) /\ Len(sent') = Len(sent) + 1
        /\ \A i \in 1..Len(sent) : sent'[i] = sent[i]
        /\ sent'[Len(sent) + 1] = sig
    BY <1>0, <1>4, ConcatOne
  <2>2. Len(sent') = IF power' = "up" THEN 2 * op' ELSE 2 * op' - 1
    <3>1. Len(sent) = IF power = "up" THEN 2 * op ELSE 2 * op - 1
      BY DEF SentInv
    <3>2. CASE power' = "up"
      BY <1>0, <1>4, <2>1, <3>1, <3>2
    <3>3. CASE power' # "up"
      BY <1>0, <1>4, <2>1, <3>1, <3>3
    <3> QED BY <3>2, <3>3
  <2>3. ASSUME NEW i \in 1..Len(sent') PROVE sent'[i].arg0 <=> i % 2 = 1
    <3>1. CASE i = Len(sent) + 1
      <4>1. sent'[i] = sig /\ i = Len(sent')
        BY <2>1, <3>1
      <4>2. sig.arg0 <=> power' # "up"
        BY <1>4
      <4>3. op' \in Nat /\ (power' # "up" => op' >= 1)
        BY <1>0, <1>4
      <4> QED BY <2>2, <4>1, <4>2, <4>3, Parity
    <3>2. CASE i \in 1..Len(sent)
      BY <2>1, <3>2 DEF SentInv
    <3> QED BY <1>0, <2>1, <3>1, <3>2
  <2> QED BY <1>0, <1>4, <2>1, <2>2, <2>3 DEF SentInv
<1>5. CASE Resume
  <2> DEFINE sig == Signal("PrepareForSleep", FALSE)
  <2>1. sig \in Signals /\ ~sig.arg0
    BY DEF Signals, Signal, Members
  <2>2. sent' = sent \o <<sig>> /\ handled' = handled /\ power = "asleep" /\ power' = "up" /\ op' = op
    BY <1>5 DEF Resume, Announce, daemon
  <2> HIDE DEF sig
  <2> QED BY <1>4, <2>1, <2>2
<1>5a. CASE CallOff
  <2> DEFINE sig == Signal("PrepareForShutdown", FALSE)
  <2>1. sig \in Signals /\ ~sig.arg0
    BY DEF Signals, Signal, Members
  <2>2. /\ sent' = sent \o <<sig>> /\ handled' = handled
        /\ power = "shutdownDelay" /\ power' = "up" /\ op' = op
    BY <1>5a DEF CallOff, Announce, daemon
  <2> HIDE DEF sig
  <2> QED BY <1>4, <2>1, <2>2
<1>6. ASSUME NEW s \in Services, Serve(s) PROVE SentInv'
  <2> DEFINE sleep == Signal("PrepareForSleep", TRUE)
             down  == Signal("PrepareForShutdown", TRUE)
  <2>1. handled' = handled
    BY <1>6 DEF Serve, daemon
  <2>2. CASE UNCHANGED <<machine, sent>>
    BY <1>0, <1>1, <2>1, <2>2 DEF machine
  <2>3. CASE power = "up" /\ op' = op + 1 /\ power' = "sleepDelay" /\ Announce(<<sleep>>)
    <3>1. sleep \in Signals /\ sleep.arg0
      BY DEF Signals, Signal, Members
    <3>2. sent' = sent \o <<sleep>>
      BY <2>3 DEF Announce
    <3> HIDE DEF sleep
    <3> QED BY <1>4, <2>1, <2>3, <3>1, <3>2
  <2>4. CASE power = "up" /\ op' = op + 1 /\ power' = "shutdownDelay" /\ Announce(<<down>>)
    <3>1. down \in Signals /\ down.arg0
      BY DEF Signals, Signal, Members
    <3>2. sent' = sent \o <<down>>
      BY <2>4 DEF Announce
    <3> HIDE DEF down
    <3> QED BY <1>4, <2>1, <2>4, <3>1, <3>2
  <2>5. \/ UNCHANGED <<machine, sent>>
        \/ power = "up" /\ op' = op + 1 /\ power' = "sleepDelay" /\ Announce(<<sleep>>)
        \/ power = "up" /\ op' = op + 1 /\ power' = "shutdownDelay" /\ Announce(<<down>>)
    <3>1. \/ UNCHANGED <<machine, sent>>
          \/ power = "up" /\ op' = op + 1
             /\ \/ power' = "sleepDelay" /\ Announce(<<Signal("PrepareForSleep", TRUE)>>)
                \/ power' = "shutdownDelay" /\ Announce(<<Signal("PrepareForShutdown", TRUE)>>)
      BY <1>6, ServeFacts
    <3> QED BY <3>1, Zenon
  <2> HIDE DEF sleep, down
  <2> QED BY <2>2, <2>3, <2>4, <2>5, Zenon
<1>7. CASE Dispatch
  <2>1. handled' \in Seq(Signals)
    <3>1. Head(inbox) \in Signals /\ handled' = Append(handled, Head(inbox))
      BY <1>7, DispatchFacts
    <3>2. Append(handled, Head(inbox)) \in Seq(Signals)
      BY <1>0, <3>1, AppendOne, Zenon
    <3> QED BY <3>1, <3>2
  <2> QED BY <1>1, <1>7, <2>1 DEF Dispatch, machine
<1>8. ASSUME NEW i \in Answers, Returns(i) \/ IsRefused(i)
      PROVE  UNCHANGED <<power, op, sent, handled>>
  BY <1>8 DEF Returns, IsRefused, ReturnsError, EndCall, machine
<1>9. ASSUME SendCall \/ TimesOut \/ Drop \/ ReleaseInhibitor \/ Tick
      PROVE  UNCHANGED <<power, op, sent, handled>>
  BY <1>9 DEF SendCall, TimesOut, ReturnsError, EndCall, Drop, ReleaseInhibitor, Tick, machine, daemon
<1>10. ASSUME \/ \E o \in {"sleep", "shutdown"} : RunnerCalls(o)
              \/ \E m \in LoginSleeps \cup LoginShutdowns : UserCalls(m)
              \/ (\E u \in Units : Reload(u)) \/ UNCHANGED vars
       PROVE  UNCHANGED <<power, op, sent, handled>>
  BY <1>10 DEF RunnerCalls, UserCalls, Request, Reload, vars, machine, daemon
<1> QED BY <1>0, <1>1, <1>2, <1>3, <1>5, <1>5a, <1>6, <1>7, <1>8, <1>9, <1>10 DEF Next, Daemon

-----------------------------------------------------------------------------
(* No announcement is lost.                                                *)

\* An announcement that comes in...
LEMMA DueSignal ==
  ASSUME NEW S, NEW box \in Seq(S), NEW T, NEW all \in Seq(T), NEW from \in Nat,
         from <= Len(all), Due(box, from, all) # {},
         NEW sig \in S \cap T, sig.kind = "signal"
  PROVE  Due(box \o <<sig>>, from, all \o <<sig>>) # {}
<1> DEFINE k == Len(box)
           n == Len(all)
           b == box \o <<sig>>
           a == all \o <<sig>>
<1>1. PICK due \in Due(box, from, all) : TRUE
  OBVIOUS
<1>2. /\ k \in Nat /\ Len(b) = k + 1 /\ (\A i \in 1..k : b[i] = box[i]) /\ b[k + 1] = sig
      /\ n \in Nat /\ Len(a) = n + 1 /\ (\A i \in 1..n : a[i] = all[i]) /\ a[n + 1] = sig
  BY ConcatOne
<1>3. /\ due \in [0..k -> from..n] /\ due[0] = from /\ due[k] = n
      /\ \A i, j \in 0..k : i <= j => due[i] <= due[j]
      /\ \A i \in 1..k :
           IF box[i].kind = "signal" THEN due[i] = due[i - 1] + 1 /\ box[i] = all[due[i]]
                                     ELSE due[i] = due[i - 1]
  BY <1>1 DEF Due
<1> HIDE DEF k, n, b, a
<1> DEFINE new == [j \in 0..(k + 1) |-> IF j <= k THEN due[j] ELSE n + 1]
<1>4. new \in [0..(k + 1) -> from..(n + 1)]
  BY <1>2, <1>3
<1>5. (\A j \in 0..k : new[j] = due[j]) /\ new[k + 1] = n + 1
  BY <1>2
<1> HIDE DEF new
<1>6. ASSUME NEW i \in 0..(k + 1), NEW j \in 0..(k + 1), i <= j PROVE new[i] <= new[j]
  <2>1. CASE j \in 0..k
    <3>1. i \in 0..k
      BY <1>2, <1>6, <2>1
    <3> QED BY <1>3, <1>5, <1>6, <2>1, <3>1
  <2>2. CASE j = k + 1 /\ i \in 0..k
    <3>1. due[i] \in from..n
      BY <1>3, <2>2
    <3> QED BY <1>2, <1>5, <2>2, <3>1
  <2>3. CASE i = k + 1 /\ j = k + 1
    BY <1>2, <1>5, <2>3
  <2> QED BY <1>2, <1>6, <2>1, <2>2, <2>3
<1>7. ASSUME NEW i \in 1..(k + 1)
      PROVE  IF b[i].kind = "signal" THEN new[i] = new[i - 1] + 1 /\ b[i] = a[new[i]]
                                     ELSE new[i] = new[i - 1]
  <2>1. CASE i \in 1..k
    <3>0. i \in 0..k /\ i - 1 \in 0..k
      BY <1>2, <2>1
    <3>1. new[i] = due[i] /\ new[i - 1] = due[i - 1] /\ b[i] = box[i]
      BY <1>2, <1>5, <2>1, <3>0
    <3>2. CASE b[i].kind = "signal"
      <4>1. due[i] = due[i - 1] + 1 /\ box[i] = all[due[i]] /\ due[i - 1] \in from..n /\ due[i] \in from..n
        BY <1>2, <1>3, <2>1, <3>1, <3>2
      <4>2. due[i] \in 1..n
        BY <1>2, <4>1
      <4>3. a[new[i]] = all[due[i]]
        BY <1>2, <3>1, <4>2
      <4> QED BY <3>1, <3>2, <4>1, <4>3
    <3>3. CASE b[i].kind # "signal"
      BY <1>3, <2>1, <3>1, <3>3
    <3> QED BY <3>2, <3>3
  <2>2. CASE i = k + 1
    <3>1. b[i] = sig /\ new[i] = n + 1 /\ new[i - 1] = n /\ a[n + 1] = sig
      BY <1>2, <1>3, <1>5, <2>2
    <3> QED BY <3>1
  <2> QED BY <1>2, <2>1, <2>2
<1>8. new[0] = from /\ new[k + 1] = n + 1
  BY <1>2, <1>3, <1>5
<1>9. new \in Due(b, from, a)
  BY <1>2, <1>4, <1>6, <1>7, <1>8 DEF Due
<1> QED BY <1>9 DEF b, a

\* ...an answer that does...
LEMMA DueAnswer ==
  ASSUME NEW S, NEW box \in Seq(S), NEW T, NEW all \in Seq(T), NEW from \in Nat,
         Due(box, from, all) # {}, NEW msg \in S, msg.kind # "signal"
  PROVE  Due(Append(box, msg), from, all) # {}
<1> DEFINE k == Len(box)
           n == Len(all)
           b == Append(box, msg)
<1>1. PICK due \in Due(box, from, all) : TRUE
  OBVIOUS
<1>2. k \in Nat /\ Len(b) = k + 1 /\ (\A i \in 1..k : b[i] = box[i]) /\ b[k + 1] = msg /\ n \in Nat
  BY AppendOne, LenProperties
<1>3. /\ due \in [0..k -> from..n] /\ due[0] = from /\ due[k] = n
      /\ \A i, j \in 0..k : i <= j => due[i] <= due[j]
      /\ \A i \in 1..k :
           IF box[i].kind = "signal" THEN due[i] = due[i - 1] + 1 /\ box[i] = all[due[i]]
                                     ELSE due[i] = due[i - 1]
  BY <1>1 DEF Due
<1> HIDE DEF k, n, b
<1> DEFINE new == [j \in 0..(k + 1) |-> IF j <= k THEN due[j] ELSE n]
<1>4. n \in from..n
  <2>1. due[0] \in from..n
    BY <1>2, <1>3
  <2> QED BY <1>2, <1>3, <2>1
<1>5. new \in [0..(k + 1) -> from..n]
  BY <1>2, <1>3, <1>4
<1>6. (\A j \in 0..k : new[j] = due[j]) /\ new[k + 1] = n
  BY <1>2
<1> HIDE DEF new
<1>7. ASSUME NEW i \in 0..(k + 1), NEW j \in 0..(k + 1), i <= j PROVE new[i] <= new[j]
  <2>1. CASE j \in 0..k
    <3>1. i \in 0..k
      BY <1>2, <1>7, <2>1
    <3> QED BY <1>3, <1>6, <1>7, <2>1, <3>1
  <2>2. CASE j = k + 1 /\ i \in 0..k
    <3>1. due[i] \in from..n
      BY <1>3, <2>2
    <3> QED BY <1>2, <1>6, <2>2, <3>1
  <2>3. CASE i = k + 1 /\ j = k + 1
    BY <1>2, <1>6, <2>3
  <2> QED BY <1>2, <1>7, <2>1, <2>2, <2>3
<1>8. ASSUME NEW i \in 1..(k + 1)
      PROVE  IF b[i].kind = "signal" THEN new[i] = new[i - 1] + 1 /\ b[i] = all[new[i]]
                                     ELSE new[i] = new[i - 1]
  <2>1. CASE i \in 1..k
    <3>0. i \in 0..k /\ i - 1 \in 0..k
      BY <1>2, <2>1
    <3>1. new[i] = due[i] /\ new[i - 1] = due[i - 1] /\ b[i] = box[i]
      BY <1>2, <1>6, <2>1, <3>0
    <3> QED BY <1>3, <2>1, <3>1
  <2>2. CASE i = k + 1
    <3>1. b[i] = msg /\ new[i] = n /\ new[i - 1] = n
      BY <1>2, <1>3, <1>6, <2>2
    <3> QED BY <3>1
  <2> QED BY <1>2, <2>1, <2>2
<1>9. new[0] = from /\ new[k + 1] = n
  BY <1>2, <1>3, <1>6
<1>10. new \in Due(b, from, all)
  BY <1>2, <1>5, <1>7, <1>8, <1>9 DEF Due, n
<1> QED BY <1>10 DEF b

\* ...the dispatch or drop of the oldest message...
LEMMA DueTail ==
  ASSUME NEW S, NEW box \in Seq(S), box # <<>>, NEW T, NEW all \in Seq(T), NEW from \in Nat,
         Due(box, from, all) # {}
  PROVE  IF Head(box).kind = "signal"
           THEN /\ from + 1 <= Len(all) /\ Head(box) = all[from + 1]
                /\ Due(Tail(box), from + 1, all) # {}
           ELSE Due(Tail(box), from, all) # {}
<1> DEFINE k == Len(box)
           n == Len(all)
           b == Tail(box)
<1>1. PICK due \in Due(box, from, all) : TRUE
  OBVIOUS
<1>2. /\ k \in Nat /\ k >= 1 /\ Len(b) = k - 1 /\ (\A i \in 1..(k - 1) : b[i] = box[i + 1])
      /\ Head(box) = box[1] /\ n \in Nat
  BY TailProperties, LenProperties
<1>3. /\ due \in [0..k -> from..n] /\ due[0] = from /\ due[k] = n
      /\ \A i, j \in 0..k : i <= j => due[i] <= due[j]
      /\ \A i \in 1..k :
           IF box[i].kind = "signal" THEN due[i] = due[i - 1] + 1 /\ box[i] = all[due[i]]
                                     ELSE due[i] = due[i - 1]
  BY <1>1 DEF Due
<1> HIDE DEF k, n, b
<1> DEFINE start == due[1]
           new   == [j \in 0..(k - 1) |-> due[j + 1]]
<1>4. start \in from..n /\ \A j \in 0..(k - 1) : due[j + 1] \in start..n
  <2>1. 1 \in 0..k /\ start \in from..n
    BY <1>2, <1>3
  <2>2. ASSUME NEW j \in 0..(k - 1) PROVE due[j + 1] \in start..n
    <3>1. j + 1 \in 0..k /\ 1 <= j + 1
      BY <1>2
    <3>2. due[j + 1] \in from..n /\ start <= due[j + 1]
      BY <1>3, <2>1, <3>1
    <3> QED BY <1>2, <2>1, <3>2
  <2> QED BY <2>1, <2>2
<1>5. new \in [0..(k - 1) -> start..n] /\ \A j \in 0..(k - 1) : new[j] = due[j + 1]
  BY <1>4
<1> HIDE DEF new
<1>6. ASSUME NEW i \in 0..(k - 1), NEW j \in 0..(k - 1), i <= j PROVE new[i] <= new[j]
  <2>1. i + 1 \in 0..k /\ j + 1 \in 0..k /\ i + 1 <= j + 1
    BY <1>2, <1>6
  <2> QED BY <1>3, <1>5, <2>1
<1>7. ASSUME NEW i \in 1..(k - 1)
      PROVE  IF b[i].kind = "signal" THEN new[i] = new[i - 1] + 1 /\ b[i] = all[new[i]]
                                     ELSE new[i] = new[i - 1]
  <2>1. i + 1 \in 1..k /\ i \in 0..(k - 1) /\ i - 1 \in 0..(k - 1) /\ (i + 1) - 1 = i /\ (i - 1) + 1 = i
    BY <1>2
  <2>2. new[i] = due[i + 1] /\ new[i - 1] = due[i] /\ b[i] = box[i + 1]
    BY <1>2, <1>5, <2>1
  <2> QED BY <1>3, <2>1, <2>2
<1>8. new[0] = start /\ new[k - 1] = n
  <2>1. 0 \in 0..(k - 1) /\ k - 1 \in 0..(k - 1) /\ (k - 1) + 1 = k
    BY <1>2
  <2> QED BY <1>3, <1>5, <2>1
<1>9. new \in Due(b, start, all)
  BY <1>2, <1>5, <1>6, <1>7, <1>8 DEF Due, n
<1>10. IF box[1].kind = "signal" THEN start = from + 1 /\ box[1] = all[start] ELSE start = from
  <2>1. 1 \in 1..k /\ 1 - 1 = 0
    BY <1>2
  <2> QED BY <1>3, <2>1
<1> QED BY <1>2, <1>4, <1>9, <1>10 DEF b, n

\* ...or the end of a call.
LEMMA DueRemove ==
  ASSUME NEW S, NEW box \in Seq(S), NEW T, NEW all \in Seq(T), NEW from \in Nat,
         Due(box, from, all) # {}, NEW r \in 1..Len(box), box[r].kind # "signal"
  PROVE  Due(RemoveAt(box, r), from, all) # {}
<1> DEFINE k == Len(box)
           n == Len(all)
           b == RemoveAt(box, r)
<1>1. PICK due \in Due(box, from, all) : TRUE
  OBVIOUS
<1>2. /\ k \in Nat /\ r \in 1..k /\ Len(b) = k - 1 /\ n \in Nat
      /\ \A i \in 1..(k - 1) : b[i] = IF i < r THEN box[i] ELSE box[i + 1]
  BY RemoveAtProperties, LenProperties
<1>3. /\ due \in [0..k -> from..n] /\ due[0] = from /\ due[k] = n
      /\ \A i, j \in 0..k : i <= j => due[i] <= due[j]
      /\ \A i \in 1..k :
           IF box[i].kind = "signal" THEN due[i] = due[i - 1] + 1 /\ box[i] = all[due[i]]
                                     ELSE due[i] = due[i - 1]
  BY <1>1 DEF Due
<1>4. due[r] = due[r - 1]
  BY <1>3
<1> HIDE DEF k, n, b
<1> DEFINE at(j) == IF j < r THEN j ELSE j + 1
           new   == [j \in 0..(k - 1) |-> due[at(j)]]
<1>5. \A j \in 0..(k - 1) : at(j) \in 0..k
  BY <1>2
<1>6. /\ new \in [0..(k - 1) -> from..n]
      /\ \A j \in 0..(k - 1) : new[j] = due[at(j)]
  BY <1>3, <1>5
<1> HIDE DEF new
<1>7. ASSUME NEW i \in 0..(k - 1), NEW j \in 0..(k - 1), i <= j PROVE new[i] <= new[j]
  <2>1. at(i) \in 0..k /\ at(j) \in 0..k /\ at(i) <= at(j)
    BY <1>2, <1>5, <1>7
  <2> QED BY <1>3, <1>6, <2>1
<1>8. ASSUME NEW i \in 1..(k - 1)
      PROVE  IF b[i].kind = "signal" THEN new[i] = new[i - 1] + 1 /\ b[i] = all[new[i]]
                                     ELSE new[i] = new[i - 1]
  <2>1. at(i) \in 1..k /\ i \in 0..(k - 1) /\ i - 1 \in 0..(k - 1)
    BY <1>2
  <2>2. new[i] = due[at(i)] /\ new[i - 1] = due[at(i - 1)] /\ b[i] = box[at(i)]
    BY <1>2, <1>6, <2>1
  <2>3. due[at(i - 1)] = due[at(i) - 1]
    <3>1. CASE i < r
      <4>1. at(i - 1) = at(i) - 1
        BY <1>2, <3>1
      <4> QED BY <4>1
    <3>2. CASE i = r
      <4>1. at(i - 1) = r - 1 /\ at(i) - 1 = r
        BY <1>2, <3>2
      <4> QED BY <1>4, <4>1
    <3>3. CASE i > r
      <4>1. at(i - 1) = at(i) - 1
        BY <1>2, <3>3
      <4> QED BY <4>1
    <3> QED BY <1>2, <3>1, <3>2, <3>3
  <2>4. IF box[at(i)].kind = "signal" THEN due[at(i)] = due[at(i) - 1] + 1 /\ box[at(i)] = all[due[at(i)]]
                                      ELSE due[at(i)] = due[at(i) - 1]
    BY <1>3, <2>1
  <2> HIDE DEF at
  <2> QED BY <2>2, <2>3, <2>4
<1>9. new[0] = from /\ new[k - 1] = n
  <2>1. 0 \in 0..(k - 1) /\ k - 1 \in 0..(k - 1)
    BY <1>2
  <2>2. at(0) = 0
    BY <1>2
  <2>3. due[at(k - 1)] = due[k]
    <3>1. CASE r = k
      BY <1>2, <1>4, <3>1
    <3>2. CASE r < k
      <4>1. at(k - 1) = k
        BY <1>2, <3>2
      <4> QED BY <4>1
    <3> QED BY <1>2, <3>1, <3>2
  <2> QED BY <1>3, <1>6, <2>1, <2>2, <2>3
<1>10. new \in Due(b, from, all)
  BY <1>2, <1>6, <1>7, <1>8, <1>9 DEF Due, n
<1> QED BY <1>10 DEF b

LEMMA InboxType ==
  ASSUME MessageInv
  PROVE  inbox \in Seq(Inbound)
<1> DEFINE R == Received
<1>1. inbox \in Seq(R) /\ R \subseteq Inbound
  BY DEF MessageInv, Received
<1> HIDE DEF R
<1> QED BY <1>1, SeqMonotonic

LEMMA InboundKinds ==
  /\ \A sig \in Signals : sig \in Inbound /\ sig.kind = "signal"
  /\ \A n \in Nat, v \in Units \cup {"fd"} : Reply(n, v) \in Inbound /\ Reply(n, v).kind = "reply"
  /\ \A n \in Nat : Refusal(n) \in Inbound /\ Refusal(n).kind = "error"
<1>1. \A sig \in Signals : sig \in Inbound /\ sig.kind = "signal"
  BY DEF Signals, Inbound
<1>2. \A n \in Nat, v \in Units \cup {"fd"} : Reply(n, v) \in Inbound
  BY DEF Inbound
<1>3. \A n \in Nat : Refusal(n) \in Inbound
  BY DEF Inbound
<1>4. \A n, v : Reply(n, v).kind = "reply" /\ Refusal(n).kind = "error"
  BY DEF Reply, Refusal
<1> QED BY <1>1, <1>2, <1>3, <1>4

\* The message the daemon takes out of its inbox at the end of a call.
LEMMA RemovedAnswer ==
  ASSUME MessageInv, NEW i \in Answers, Returns(i) \/ IsRefused(i)
  PROVE  /\ inbox' = RemoveAt(inbox, i) /\ i \in 1..Len(inbox) /\ inbox[i].kind # "signal"
         /\ UNCHANGED <<sent, handled>>
<1>1. i \in 1..Len(inbox) /\ inbox[i].kind # "signal"
  BY AnswerFacts
<1> QED BY <1>1 DEF Returns, IsRefused, ReturnsError, EndCall

\* A signal that comes in has a matcher, and its struct the type of the signal.
LEMMA DropFacts ==
  ASSUME MessageInv, MatchInv, Drop
  PROVE  inbox # <<>> /\ inbox' = Tail(inbox) /\ Head(inbox).kind # "signal"
<1> DEFINE msg == Head(inbox)
<1>1. inbox # <<>> /\ inbox' = Tail(inbox) /\ ~Matched(msg)
  BY DEF Drop
<1>2. msg \in Inbound
  BY <1>1, InboxType, TailProperties
<1> HIDE DEF msg
<1>3. ASSUME msg \in Signals PROVE Matched(msg)
  <2>1. msg.kind = "signal" /\ msg.member \in matches
    BY <1>3 DEF Signals, MatchInv
  <2>2. [member |-> msg.member, args |-> "b"] \in PrepareSignals
    BY <2>1 DEF PrepareSignals, Emits, MatchInv, Members
  <2> QED BY <2>1, <2>2 DEF Matched, SignalArgs
<1>4. msg.kind # "signal"
  BY <1>1, <1>2, <1>3 DEF Inbound, Reply, Refusal
<1> QED BY <1>1, <1>4 DEF msg

\* The matchers stay.
LEMMA MatchNext ==
  ASSUME MatchInv, [Next]_vars
  PROVE  MatchInv'
<1>1. CASE matches' = matches
  BY <1>1 DEF MatchInv
<1>2. CASE Boot
  BY <1>2 DEF Boot, MatchInv
<1>3. ASSUME \/ \E o \in {"sleep", "shutdown"} : RunnerCalls(o)
             \/ \E m \in LoginSleeps \cup LoginShutdowns : UserCalls(m)
             \/ GoDown \/ Resume \/ CallOff \/ (\E u \in Units : Reload(u)) \/ (\E s \in Services : Serve(s))
             \/ Tick \/ UNCHANGED vars
      PROVE  matches' = matches
  BY <1>3 DEF RunnerCalls, UserCalls, Request, GoDown, Resume, CallOff, Reload, Serve, Tick, vars, daemon
<1>4. ASSUME SendCall \/ TimesOut \/ Dispatch \/ Drop \/ ReleaseInhibitor
      PROVE  matches' = matches
  BY <1>4 DEF SendCall, TimesOut, ReturnsError, Dispatch, Stays, Drop, ReleaseInhibitor, daemon
<1>5. ASSUME NEW i \in Answers, Returns(i) \/ IsRefused(i) PROVE matches' = matches
  BY <1>5 DEF Returns, IsRefused, ReturnsError
<1> QED BY <1>1, <1>2, <1>3, <1>4, <1>5 DEF Next, Daemon

LEMMA DueNext ==
  ASSUME TypeOK, MessageInv, CallInv, SentInv, MatchInv, DueInv, [Next]_vars
  PROVE  DueInv'
<1>0. /\ sent \in Seq(Signals) /\ handled \in Seq(Signals) /\ inbox \in Seq(Inbound)
      /\ Len(sent) \in Nat /\ Len(handled) \in Nat /\ Len(handled) <= Len(sent)
      /\ Due(inbox, Len(handled), sent) # {}
      /\ \A i \in 1..Len(handled) : handled[i] = sent[i]
  BY InboxType, LenProperties DEF SentInv, DueInv
<1>1. CASE UNCHANGED <<inbox, sent, handled>>
  BY <1>0, <1>1 DEF DueInv
<1>2. CASE Boot
  <2>1. inbox' = <<>> /\ sent' = <<>> /\ handled' = <<>>
    BY <1>2 DEF Boot
  <2> DEFINE new == [i \in 0..0 |-> 0]
  <2>2. new \in [0..0 -> 0..0] /\ new[0] = 0
    OBVIOUS
  <2> HIDE DEF new
  <2>3. \A i, j \in 0..0 : i <= j => new[i] <= new[j]
    BY <2>2
  <2>4. Len(<<>>) = 0
    OBVIOUS
  <2>5. new \in Due(<<>>, 0, <<>>)
    BY <2>2, <2>3, <2>4 DEF Due
  <2> QED BY <2>1, <2>4, <2>5 DEF DueInv
<1>3. ASSUME NEW sig \in Signals, inbox' = inbox \o <<sig>>, sent' = sent \o <<sig>>, handled' = handled
      PROVE  DueInv'
  <2>0. sig \in Inbound \cap Signals /\ sig.kind = "signal"
    BY InboundKinds
  <2>1. Due(inbox \o <<sig>>, Len(handled), sent \o <<sig>>) # {}
    BY <1>0, <2>0, DueSignal, Zenon
  <2>2. Len(sent') = Len(sent) + 1 /\ \A i \in 1..Len(sent) : sent'[i] = sent[i]
    BY <1>0, <1>3, ConcatOne
  <2>3. Due(inbox', Len(handled'), sent') # {}
    BY <1>3, <2>1
  <2>4. \A i \in 1..Len(handled') : handled'[i] = sent'[i]
    BY <1>0, <1>3, <2>2
  <2>5. Len(handled') <= Len(sent')
    BY <1>0, <1>3, <2>2
  <2> QED BY <2>3, <2>4, <2>5 DEF DueInv
<1>4. ASSUME NEW msg \in Inbound, msg.kind # "signal", inbox' = Append(inbox, msg), UNCHANGED <<sent, handled>>
      PROVE  DueInv'
  <2>1. Due(Append(inbox, msg), Len(handled), sent) # {}
    BY <1>0, <1>4, DueAnswer
  <2> QED BY <1>0, <1>4, <2>1 DEF DueInv
<1>5. CASE Resume
  <2> DEFINE sig == Signal("PrepareForSleep", FALSE)
  <2>1. sig \in Signals
    BY DEF Signals, Signal, Members
  <2>2. sent' = sent \o <<sig>> /\ inbox' = inbox \o <<sig>> /\ handled' = handled
    BY <1>5 DEF Resume, Announce, daemon
  <2> HIDE DEF sig
  <2> QED BY <1>3, <2>1, <2>2
<1>5a. CASE CallOff
  <2> DEFINE sig == Signal("PrepareForShutdown", FALSE)
  <2>1. sig \in Signals
    BY DEF Signals, Signal, Members
  <2>2. sent' = sent \o <<sig>> /\ inbox' = inbox \o <<sig>> /\ handled' = handled
    BY <1>5a DEF CallOff, Announce, daemon
  <2> HIDE DEF sig
  <2> QED BY <1>3, <2>1, <2>2
<1>6. ASSUME NEW s \in Services, Serve(s) PROVE DueInv'
  <2> DEFINE sleep == Signal("PrepareForSleep", TRUE)
             down  == Signal("PrepareForShutdown", TRUE)
  <2>1. handled' = handled /\ serial \in Nat
    BY <1>6 DEF Serve, daemon, TypeOK
  <2>2. sleep \in Signals /\ down \in Signals
    BY DEF Signals, Signal, Members
  <2>3. CASE Announce(<<sleep>>) \/ Announce(<<down>>)
    <3>1. CASE Announce(<<sleep>>)
      <4>1. sent' = sent \o <<sleep>> /\ inbox' = inbox \o <<sleep>>
        BY <3>1 DEF Announce
      <4> HIDE DEF sleep
      <4> QED BY <1>3, <2>1, <2>2, <4>1
    <3>2. CASE Announce(<<down>>)
      <4>1. sent' = sent \o <<down>> /\ inbox' = inbox \o <<down>>
        BY <3>2 DEF Announce
      <4> HIDE DEF down
      <4> QED BY <1>3, <2>1, <2>2, <4>1
    <3> QED BY <2>3, <3>1, <3>2
  <2>4. CASE /\ UNCHANGED sent
             /\ \/ inbox' = inbox
                \/ \E n \in 1..serial : inbox' = Append(inbox, Refusal(n))
                \/ \E n \in 1..serial, v \in Units \cup {"fd"} : inbox' = Append(inbox, Reply(n, v))
    <3>1. CASE inbox' = inbox
      BY <1>1, <2>1, <2>4, <3>1
    <3>2. ASSUME NEW n \in 1..serial, inbox' = Append(inbox, Refusal(n)) PROVE DueInv'
      <4>1. Refusal(n) \in Inbound /\ Refusal(n).kind # "signal"
        BY <2>1, InboundKinds
      <4> QED BY <1>4, <2>1, <2>4, <3>2, <4>1
    <3>3. ASSUME NEW n \in 1..serial, NEW v \in Units \cup {"fd"}, inbox' = Append(inbox, Reply(n, v))
          PROVE  DueInv'
      <4>1. Reply(n, v) \in Inbound /\ Reply(n, v).kind # "signal"
        BY <2>1, InboundKinds
      <4> QED BY <1>4, <2>1, <2>4, <3>3, <4>1
    <3> QED BY <2>4, <3>1, <3>2, <3>3
  <2> QED BY <1>6, <2>3, <2>4, ServeFacts
<1>7. CASE Dispatch
  <2>1. /\ inbox # <<>> /\ Head(inbox).kind = "signal" /\ Head(inbox) \in Signals
        /\ handled' = Append(handled, Head(inbox)) /\ inbox' = Tail(inbox) /\ sent' = sent
    BY <1>7, DispatchFacts DEF Dispatch
  <2>2. /\ Len(handled) + 1 <= Len(sent) /\ Head(inbox) = sent[Len(handled) + 1]
        /\ Due(inbox', Len(handled) + 1, sent) # {}
    BY <1>0, <2>1, DueTail
  <2>3. /\ Len(handled') = Len(handled) + 1
        /\ \A i \in 1..Len(handled) : handled'[i] = handled[i]
        /\ handled'[Len(handled) + 1] = Head(inbox)
    BY <1>0, <2>1, AppendOne
  <2>4. ASSUME NEW i \in 1..Len(handled') PROVE handled'[i] = sent[i]
    <3>1. CASE i \in 1..Len(handled)
      BY <1>0, <2>3, <3>1
    <3>2. CASE i = Len(handled) + 1
      BY <2>2, <2>3, <3>2
    <3> QED BY <1>0, <2>3, <3>1, <3>2
  <2> QED BY <2>1, <2>2, <2>3, <2>4 DEF DueInv
<1>8. CASE Drop
  <2>1. inbox # <<>> /\ inbox' = Tail(inbox) /\ UNCHANGED <<sent, handled>>
    BY <1>8 DEF Drop, daemon
  <2>2. Head(inbox).kind # "signal"
    BY <1>8, DropFacts
  <2> QED BY <1>0, <2>1, <2>2, DueTail DEF DueInv
<1>9. ASSUME NEW i \in Answers, Returns(i) \/ IsRefused(i) PROVE DueInv'
  <2>1. /\ inbox' = RemoveAt(inbox, i) /\ i \in 1..Len(inbox) /\ inbox[i].kind # "signal"
        /\ UNCHANGED <<sent, handled>>
    BY <1>9, RemovedAnswer
  <2>2. Due(RemoveAt(inbox, i), Len(handled), sent) # {}
    BY <1>0, <2>1, DueRemove
  <2> QED BY <1>0, <2>1, <2>2 DEF DueInv
<1>10. ASSUME SendCall \/ TimesOut \/ ReleaseInhibitor \/ Tick \/ GoDown
       PROVE  UNCHANGED <<inbox, sent, handled>>
  BY <1>10 DEF SendCall, TimesOut, ReturnsError, EndCall, ReleaseInhibitor, Tick, GoDown, daemon
<1>11. ASSUME \/ \E o \in {"sleep", "shutdown"} : RunnerCalls(o)
              \/ \E m \in LoginSleeps \cup LoginShutdowns : UserCalls(m)
              \/ (\E u \in Units : Reload(u)) \/ UNCHANGED vars
       PROVE  UNCHANGED <<inbox, sent, handled>>
  BY <1>11 DEF RunnerCalls, UserCalls, Request, Reload, vars, daemon
<1> QED BY <1>1, <1>2, <1>5, <1>5a, <1>6, <1>7, <1>8, <1>9, <1>10, <1>11 DEF Next, Daemon

LEMMA AllDue ==
  ASSUME SentInv, DueInv
  PROVE  EveryAnnouncementHandled
<1> DEFINE h == Len(handled)
           t == SubSeq(sent, 1, h)
<1>1. /\ sent \in Seq(Signals) /\ handled \in Seq(Signals) /\ h \in Nat /\ h <= Len(sent)
      /\ Len(sent) \in Nat /\ (\A i \in 1..h : handled[i] = sent[i])
  BY LenProperties DEF SentInv, DueInv
<1>2. \A i \in 1..h : sent[i] \in Signals
  BY <1>1, ElementOfSeq
<1> HIDE DEF h
<1>3. t \in Seq(Signals) /\ Len(t) = h /\ \A i \in 1..h : t[i] = sent[i]
  <2>1. /\ t \in Seq(Signals) /\ Len(t) = IF 1 <= h THEN h - 1 + 1 ELSE 0
        /\ \A i \in 1..(h - 1 + 1) : t[i] = sent[1 + i - 1]
    BY <1>1, <1>2, SubSeqProperties
  <2> QED BY <1>1, <2>1
<1> HIDE DEF t
<1>4. handled = t
  <2>1. Len(handled) = Len(t) /\ \A i \in 1..Len(handled) : handled[i] = t[i]
    BY <1>1, <1>3 DEF h
  <2> QED BY <1>1, <1>3, <2>1, SeqEqual
<1>5. Due(inbox, h, sent) # {}
  BY DEF DueInv, h
<1> QED BY <1>4, <1>5 DEF EveryAnnouncementHandled, Due, t, h

-----------------------------------------------------------------------------
(* What the daemon does is due to the latest announcement.                 *)

\* The end of a call leaves the machine and the announcements alone.
LEMMA EndFacts ==
  ASSUME TypeOK, MessageInv, (\E i \in Answers : Returns(i) \/ IsRefused(i)) \/ TimesOut
  PROVE  /\ InCall /\ UNCHANGED <<power, op, delayed, sent, handled>> /\ waited' = 0
         /\ pc = "inhibit" => pc' = "loop"
         /\ InTimer => InTimer' \/ pc' = "release"
<1>1. UNCHANGED <<power, op, delayed, sent, handled>> /\ waited' = 0 /\ InCall
  BY DEF TypeOK, Returns, IsRefused, TimesOut, ReturnsError, EndCall, machine
<1>2. pc = "inhibit" => pc' = "loop"
  BY DEF Returns, IsRefused, TimesOut, ReturnsError
<1>3. InTimer => InTimer' \/ pc' = "release"
  BY DEF Returns, IsRefused, TimesOut, ReturnsError, NextUnit, InTimer
<1> QED BY <1>1, <1>2, <1>3

LEMMA ShutdownsNat ==
  ASSUME NEW q \in Seq(Signals)
  PROVE  /\ IsFiniteSet({i \in 1..Len(q) : IsShutdown(q[i])}) /\ Shutdowns(q) \in Nat
         /\ Worth(q) \in Nat /\ Len(TimerUnits) \in Nat
<1> DEFINE I == {i \in 1..Len(q) : IsShutdown(q[i])}
<1>0. Len(q) \in Nat /\ Len(TimerUnits) \in Nat
  BY UnitsAssumption, LenProperties
<1>1. IsFiniteSet(1..Len(q)) /\ I \subseteq 1..Len(q)
  BY <1>0, FS_Interval
<1> HIDE DEF I
<1>2. IsFiniteSet(I)
  BY <1>1, FS_Subset
<1>3. Cardinality(I) \in Nat
  BY <1>2, FS_CardinalityType
<1>4. Shutdowns(q) \in Nat
  BY <1>3 DEF Shutdowns, I
<1> QED BY <1>0, <1>2, <1>4 DEF I, Worth

LEMMA ShutdownsAppend ==
  ASSUME NEW q \in Seq(Signals), NEW sig \in Signals
  PROVE  Shutdowns(Append(q, sig)) = Shutdowns(q) + (IF IsShutdown(sig) THEN 1 ELSE 0)
<1> DEFINE h == Len(q)
           n == Append(q, sig)
           I == {i \in 1..h : IsShutdown(q[i])}
           J == {i \in 1..Len(n) : IsShutdown(n[i])}
<1>1. h \in Nat /\ Len(n) = h + 1 /\ n[h + 1] = sig /\ \A i \in 1..h : n[i] = q[i]
  BY AppendOne
<1>2. IsFiniteSet(I) /\ Cardinality(I) \in Nat
  BY ShutdownsNat DEF Shutdowns
<1> HIDE DEF n, h
<1>3. \A i : i \in 1..(h + 1) <=> i \in 1..h \/ i = h + 1
  BY <1>1
<1>4. h + 1 \notin I
  BY <1>1
<1>5. J = IF IsShutdown(sig) THEN I \cup {h + 1} ELSE I
  BY <1>1, <1>3
<1> HIDE DEF I, J
<1>6. Cardinality(I \cup {h + 1}) = Cardinality(I) + 1
  BY <1>2, <1>4, FS_AddElement
<1>7. Cardinality(J) = Cardinality(I) + (IF IsShutdown(sig) THEN 1 ELSE 0)
  BY <1>2, <1>5, <1>6
<1> QED BY <1>7 DEF Shutdowns, I, J, n, h

LEMMA WorthAppend ==
  ASSUME NEW q \in Seq(Signals), NEW sig \in Signals
  PROVE  Worth(Append(q, sig)) = Worth(q) + (IF IsShutdown(sig) THEN 3 * Len(TimerUnits) ELSE 0)
<1> DEFINE k == 3 * Len(TimerUnits)
           c == Shutdowns(q)
           e == Shutdowns(Append(q, sig))
<1>1. k \in Nat /\ c \in Nat
  <2>1. c \in Nat
    BY ShutdownsNat
  <2>2. k \in Nat
    BY UnitsAssumption, LenProperties
  <2> QED BY <2>1, <2>2
<1>2. e = c + (IF IsShutdown(sig) THEN 1 ELSE 0)
  BY ShutdownsAppend
<1>3. Worth(q) = k * c /\ Worth(Append(q, sig)) = k * e
  BY DEF Worth
<1> HIDE DEF k, c, e
<1>4. k * (c + 1) = k * c + k /\ k * c \in Nat
  BY <1>1
<1>5. CASE IsShutdown(sig)
  BY <1>2, <1>3, <1>4, <1>5 DEF k
<1>6. CASE ~IsShutdown(sig)
  BY <1>1, <1>2, <1>3, <1>4, <1>6
<1> QED BY <1>5, <1>6

LEMMA WorthPrefix ==
  ASSUME NEW q \in Seq(Signals), NEW r \in Seq(Signals),
         Len(q) <= Len(r), \A i \in 1..Len(q) : q[i] = r[i]
  PROVE  Worth(q) <= Worth(r)
<1> DEFINE I == {i \in 1..Len(q) : IsShutdown(q[i])}
           J == {i \in 1..Len(r) : IsShutdown(r[i])}
           k == 3 * Len(TimerUnits)
           c == Shutdowns(q)
           e == Shutdowns(r)
<1>1. Len(q) \in Nat /\ Len(r) \in Nat
  BY LenProperties
<1>2. 1..Len(q) \subseteq 1..Len(r)
  BY <1>1
<1>3. I \subseteq J
  BY <1>2
<1>4. IsFiniteSet(J)
  BY ShutdownsNat
<1> HIDE DEF I, J
<1>5. Cardinality(I) <= Cardinality(J)
  BY <1>3, <1>4, FS_Subset
<1>6. c <= e /\ c \in Nat /\ e \in Nat /\ k \in Nat
  <2>1. c <= e
    BY <1>5 DEF Shutdowns, I, J
  <2>2. c \in Nat /\ e \in Nat
    BY ShutdownsNat
  <2>3. k \in Nat
    BY UnitsAssumption, LenProperties
  <2> QED BY <2>1, <2>2, <2>3
<1>7. Worth(q) = k * c /\ Worth(r) = k * e
  BY DEF Worth
<1> HIDE DEF k, c, e
<1>8. k * c <= k * e
  BY <1>6
<1> QED BY <1>7, <1>8

\* What the announcement that is dispatched says.
LEMMA DueFacts ==
  ASSUME MessageInv, SentInv, DueInv, Dispatch
  PROVE  /\ Len(handled) \in Nat /\ Len(sent) \in Nat /\ Len(handled) < Len(sent)
         /\ Len(handled') = Len(handled) + 1 /\ sent' = sent
         /\ Head(inbox).arg0 <=> (Len(handled) + 1) % 2 = 1
         /\ Worth(handled) \in Nat
         /\ Worth(handled') =
              Worth(handled) + (IF IsShutdown(Head(inbox)) THEN 3 * Len(TimerUnits) ELSE 0)
<1> DEFINE h == Len(handled)
           sig == Head(inbox)
<1>1. /\ sent \in Seq(Signals) /\ handled \in Seq(Signals) /\ inbox \in Seq(Inbound)
      /\ Len(sent) \in Nat /\ h \in Nat /\ Due(inbox, h, sent) # {}
  BY InboxType, LenProperties DEF SentInv, DueInv
<1>2. inbox # <<>> /\ sig.kind = "signal" /\ sig \in Signals /\ handled' = Append(handled, sig) /\ sent' = sent
  BY DispatchFacts DEF Dispatch
<1>3. h + 1 <= Len(sent) /\ sig = sent[h + 1]
  BY <1>1, <1>2, DueTail
<1>4. Len(handled') = h + 1
  BY <1>1, <1>2, AppendOne
<1>5. /\ Worth(handled) \in Nat
      /\ Worth(handled') = Worth(handled) + (IF IsShutdown(sig) THEN 3 * Len(TimerUnits) ELSE 0)
  <2> HIDE DEF sig
  <2> QED BY <1>1, <1>2, ShutdownsNat, WorthAppend
<1> HIDE DEF h, sig
<1>6. h + 1 \in 1..Len(sent)
  BY <1>1, <1>3
<1>7. sig.arg0 <=> (h + 1) % 2 = 1
  BY <1>3, <1>6 DEF SentInv
<1> QED BY <1>1, <1>2, <1>3, <1>4, <1>5, <1>7 DEF h, sig

LEMMA HandlerInvNext ==
  ASSUME TypeOK, MessageInv, CallInv, SentInv, DueInv, HandlerInv, [Next]_vars
  PROVE  HandlerInv'
<1>0. /\ Len(sent) \in Nat /\ Len(handled) \in Nat /\ Len(handled) <= Len(sent) /\ op \in Nat
      /\ sent \in Seq(Signals)
      /\ Len(sent) = IF power = "up" THEN 2 * op ELSE 2 * op - 1
  BY BoundsAssumption, LenProperties DEF SentInv, DueInv, TypeOK
<1>1. InDelay => Len(sent) % 2 = 1
  BY <1>0, Parity DEF InDelay
<1>2. CASE UNCHANGED <<power, pc, inhibitor, sent, handled>>
  BY <1>2 DEF HandlerInv, InTimer, InDelay
<1>3. CASE Boot
  BY <1>3 DEF Boot, HandlerInv, InTimer, InDelay
<1>4. CASE GoDown
  BY <1>4 DEF GoDown, HandlerInv, InTimer, InDelay, daemon
<1>5. CASE Resume \/ CallOff
  BY <1>5 DEF Resume, CallOff, HandlerInv, InTimer, InDelay, daemon
<1>6. ASSUME NEW s \in Services, Serve(s) PROVE HandlerInv'
  <2>1. UNCHANGED <<pc, inhibitor, handled>>
    BY <1>6 DEF Serve, daemon
  <2>2. CASE UNCHANGED <<machine, sent>>
    BY <1>2, <2>1, <2>2 DEF machine
  <2>3. ASSUME power = "up", NEW sig \in Signals, Announce(<<sig>>) PROVE HandlerInv'
    <3>1. Len(sent') = Len(sent) + 1
      BY <1>0, <2>3, ConcatOne DEF Announce
    <3> QED BY <1>0, <2>1, <2>3, <3>1 DEF HandlerInv, InTimer
  <2>4. Signal("PrepareForSleep", TRUE) \in Signals /\ Signal("PrepareForShutdown", TRUE) \in Signals
    BY DEF Signals, Signal, Members
  <2> QED BY <1>6, <2>2, <2>3, <2>4, ServeFacts
<1>7. CASE Dispatch
  <2> DEFINE sig == Head(inbox)
             h   == Len(handled)
  <2>1. /\ h < Len(sent) /\ Len(handled') = h + 1 /\ sent' = sent
        /\ sig.arg0 <=> (h + 1) % 2 = 1
        /\ Worth(handled) \in Nat
        /\ Worth(handled') = Worth(handled) + (IF IsShutdown(sig) THEN 3 * Len(TimerUnits) ELSE 0)
    BY <1>7, DueFacts
  <2>2. pc' = Handler(sig) /\ UNCHANGED <<power, inhibitor>> /\ sig.member \in Members /\ sig.arg0 \in BOOLEAN
    BY <1>7, DispatchFacts DEF Dispatch, machine, Signals
  <2> HIDE DEF sig, h
  <2>3. /\ pc' = "getUnit" => IsShutdown(sig)
        /\ pc' \in {"inhibit", "loop"} => ~sig.arg0
        /\ pc' \in {"inhibit", "loop", "getUnit", "release"}
    BY <2>2 DEF Handler, Members, IsShutdown
  <2>4. h \in Nat /\ Len(TimerUnits) \in Nat
    BY <1>0, UnitsAssumption, LenProperties DEF h
  <2>5. pc' = "inhibit" => Len(handled') % 2 = 0 /\ Len(handled') >= 2
    BY <2>1, <2>3, <2>4
  <2>6. InTimer' => Worth(handled') >= 3 * Len(TimerUnits)
    BY <2>1, <2>3, <2>4 DEF InTimer
  <2>7. InDelay' /\ pc' = "loop" => Len(handled') # Len(sent')
    BY <1>1, <2>1, <2>2, <2>3 DEF InDelay
  <2> QED BY <2>5, <2>6, <2>7 DEF HandlerInv
<1>8. CASE (\E i \in Answers : Returns(i) \/ IsRefused(i)) \/ TimesOut
  <2>1. /\ InCall /\ UNCHANGED <<power, sent, handled>>
        /\ pc = "inhibit" => pc' = "loop"
        /\ InTimer => InTimer' \/ pc' = "release"
    BY <1>8, EndFacts
  <2>2. CASE pc = "inhibit"
    <3>1. Len(handled) % 2 = 0 /\ pc' = "loop"
      BY <2>1, <2>2 DEF HandlerInv
    <3> QED BY <1>1, <2>1, <3>1 DEF HandlerInv, InTimer, InDelay
  <2>3. CASE InTimer
    <3>1. Worth(handled) >= 3 * Len(TimerUnits)
      BY <2>3 DEF HandlerInv
    <3> QED BY <2>1, <2>3, <3>1 DEF HandlerInv, InTimer
  <2> QED BY <2>1, <2>2, <2>3 DEF InCall, InTimer
<1>9. CASE ReleaseInhibitor
  BY <1>9 DEF ReleaseInhibitor, HandlerInv, InTimer, machine
<1>10. ASSUME \/ \E o \in {"sleep", "shutdown"} : RunnerCalls(o)
              \/ \E m \in LoginSleeps \cup LoginShutdowns : UserCalls(m)
              \/ (\E u \in Units : Reload(u)) \/ SendCall \/ Drop \/ Tick \/ UNCHANGED vars
       PROVE  UNCHANGED <<power, pc, inhibitor, sent, handled>>
  BY <1>10 DEF RunnerCalls, UserCalls, Request, Reload, SendCall, Drop, Tick, vars, machine, daemon
<1> QED BY <1>2, <1>3, <1>4, <1>5, <1>6, <1>7, <1>8, <1>9, <1>10 DEF Next, Daemon

-----------------------------------------------------------------------------
(* Locks.                                                                  *)

LEMMA RepliesGrow ==
  ASSUME NEW S, NEW box \in Seq(S), NEW x \in S
  PROVE  /\ Replies(box) \subseteq Replies(Append(box, x)) \cap Replies(box \o <<x>>)
         /\ x.kind = "reply" => x.serial \in Replies(Append(box, x))
<1>1. /\ Len(box) \in Nat /\ Len(Append(box, x)) = Len(box) + 1
      /\ \A i \in 1..Len(box) : Append(box, x)[i] = box[i]
      /\ Append(box, x)[Len(box) + 1] = x
  BY AppendOne
<1>2. Len(box \o <<x>>) = Len(box) + 1 /\ \A i \in 1..Len(box) : (box \o <<x>>)[i] = box[i]
  BY ConcatOne
<1>3. \A i \in 1..Len(box) : i \in 1..(Len(box) + 1)
  BY <1>1
<1>4. Replies(box) \subseteq Replies(Append(box, x))
  BY <1>1, <1>3 DEF Replies
<1>5. Replies(box) \subseteq Replies(box \o <<x>>)
  BY <1>2, <1>3 DEF Replies
<1>6. x.kind = "reply" => x.serial \in Replies(Append(box, x))
  <2>1. Len(box) + 1 \in 1..Len(Append(box, x))
    BY <1>1
  <2> QED BY <1>1, <2>1 DEF Replies
<1> QED BY <1>4, <1>5, <1>6

LEMMA RepliesTail ==
  ASSUME NEW S, NEW box \in Seq(S), box # <<>>
  PROVE  Replies(box) \subseteq Replies(Tail(box)) \cup Closed(Head(box))
<1>1. /\ Len(box) \in Nat /\ Len(Tail(box)) = Len(box) - 1 /\ Head(box) = box[1]
      /\ \A j \in 1..(Len(box) - 1) : Tail(box)[j] = box[j + 1]
  BY TailProperties
<1>2. ASSUME NEW i \in 1..Len(box), box[i].kind = "reply"
      PROVE  box[i].serial \in Replies(Tail(box)) \cup Closed(Head(box))
  <2>1. CASE i = 1
    BY <1>1, <1>2, <2>1 DEF Closed
  <2>2. CASE i # 1
    <3>1. i - 1 \in 1..Len(Tail(box)) /\ Tail(box)[i - 1] = box[i]
      BY <1>1, <2>2
    <3> QED BY <1>2, <3>1 DEF Replies
  <2> QED BY <2>1, <2>2
<1> QED BY <1>2 DEF Replies

LEMMA RepliesRemove ==
  ASSUME NEW S, NEW box \in Seq(S), NEW r \in 1..Len(box)
  PROVE  Replies(box) \subseteq Replies(RemoveAt(box, r)) \cup Closed(box[r])
<1>1. /\ Len(box) \in Nat /\ Len(RemoveAt(box, r)) = Len(box) - 1
      /\ \A j \in 1..(Len(box) - 1) : RemoveAt(box, r)[j] = IF j < r THEN box[j] ELSE box[j + 1]
  BY RemoveAtProperties, LenProperties
<1>2. ASSUME NEW i \in 1..Len(box), box[i].kind = "reply"
      PROVE  box[i].serial \in Replies(RemoveAt(box, r)) \cup Closed(box[r])
  <2>1. CASE i = r
    BY <1>2, <2>1 DEF Closed
  <2>2. CASE i < r
    <3>1. i \in 1..Len(RemoveAt(box, r)) /\ RemoveAt(box, r)[i] = box[i]
      BY <1>1, <2>2
    <3> QED BY <1>2, <3>1 DEF Replies
  <2>3. CASE i > r
    <3>1. i - 1 \in 1..Len(RemoveAt(box, r)) /\ ~(i - 1 < r) /\ (i - 1) + 1 = i
      BY <1>1, <2>3
    <3>2. RemoveAt(box, r)[i - 1] = box[i]
      BY <1>1, <3>1
    <3> QED BY <1>2, <3>1, <3>2 DEF Replies
  <2> QED BY <1>1, <2>1, <2>2, <2>3
<1> QED BY <1>2 DEF Replies

LEMMA LockNext ==
  ASSUME TypeOK, MessageInv, CallInv, LockInv, [Next]_vars
  PROVE  LockInv'
<1>0. /\ inbox \in Seq(Inbound) /\ locks \subseteq inhibitor \cup Replies(inbox)
      /\ serial \in Nat /\ locks \subseteq 0..serial /\ (waiting # {} => InCall)
  BY InboxType DEF LockInv, TypeOK
<1>1. CASE UNCHANGED <<locks, inbox, pc, inhibitor>> /\ waiting' \subseteq waiting
  BY <1>1 DEF LockInv, InTimer
<1>2. CASE Boot
  BY <1>2 DEF Boot, LockInv, InTimer
<1>3. ASSUME NEW msg \in Inbound, inbox' = Append(inbox, msg) \/ inbox' = inbox \o <<msg>>,
             UNCHANGED <<locks, pc, inhibitor, waiting>>
      PROVE  LockInv'
  <2>1. Replies(inbox) \subseteq Replies(inbox')
    BY <1>0, <1>3, RepliesGrow
  <2> QED BY <1>3, <2>1 DEF LockInv, InTimer
<1>4. CASE Resume
  <2> DEFINE sig == Signal("PrepareForSleep", FALSE)
  <2>1. sig \in Signals
    BY DEF Signals, Signal, Members
  <2>2. inbox' = inbox \o <<sig>> /\ UNCHANGED <<locks, pc, inhibitor, waiting>>
    BY <1>4 DEF Resume, Announce, daemon, calls
  <2> HIDE DEF sig
  <2> QED BY <1>3, <2>1, <2>2, InboundKinds
<1>4a. CASE CallOff
  <2> DEFINE sig == Signal("PrepareForShutdown", FALSE)
  <2>1. sig \in Signals
    BY DEF Signals, Signal, Members
  <2>2. inbox' = inbox \o <<sig>> /\ UNCHANGED <<locks, pc, inhibitor, waiting>>
    BY <1>4a DEF CallOff, Announce, daemon, calls
  <2> HIDE DEF sig
  <2> QED BY <1>3, <2>1, <2>2, InboundKinds
<1>5. ASSUME NEW s \in Services, Serve(s) PROVE LockInv'
  <2>1. UNCHANGED <<pc, inhibitor, waiting>>
    BY <1>5 DEF Serve, daemon, calls
  <2>2. CASE UNCHANGED locks /\ inbox' = inbox
    BY <1>1, <2>1, <2>2
  <2>3. ASSUME NEW msg \in Inbound, UNCHANGED locks, inbox' = Append(inbox, msg) PROVE LockInv'
    BY <1>3, <2>1, <2>3
  <2>4. ASSUME NEW sig \in Signals, UNCHANGED locks, Announce(<<sig>>) PROVE LockInv'
    BY <1>3, <2>1, <2>4, InboundKinds DEF Announce
  <2>5. ASSUME NEW n \in 1..serial, locks' = locks \cup {n}, n \in waiting => pc = "inhibit",
               inbox' = Append(inbox, Reply(n, "fd"))
        PROVE  LockInv'
    <3> DEFINE msg == Reply(n, "fd")
    <3>1. msg \in Inbound /\ msg.kind = "reply"
      BY <1>0, InboundKinds
    <3>2. msg.serial = n
      BY DEF Reply
    <3> HIDE DEF msg
    <3>3. Replies(inbox) \subseteq Replies(inbox') /\ n \in Replies(inbox')
      BY <1>0, <2>5, <3>1, <3>2, RepliesGrow DEF msg
    <3>4. locks' \subseteq inhibitor' \cup Replies(inbox')
      BY <1>0, <2>1, <2>5, <3>3
    <3>5. InTimer' => waiting' \cap locks' = {}
      BY <2>1, <2>5 DEF LockInv, InTimer
    <3>6. pc' = "inhibit" => inhibitor' = {}
      BY <2>1 DEF LockInv
    <3> QED BY <3>4, <3>5, <3>6 DEF LockInv
  <2>6. /\ \A n \in 1..serial : Refusal(n) \in Inbound
        /\ \A n \in 1..serial, v \in Units : Reply(n, v) \in Inbound
        /\ Signal("PrepareForSleep", TRUE) \in Signals /\ Signal("PrepareForShutdown", TRUE) \in Signals
    BY <1>0, InboundKinds DEF Signals, Signal, Members
  <2> QED BY <1>5, <2>2, <2>3, <2>4, <2>5, <2>6, ServeFacts
<1>6. CASE SendCall
  <2>1. waiting' = {serial + 1} /\ UNCHANGED <<locks, inbox, pc, inhibitor>>
    BY <1>6 DEF SendCall, daemon
  <2>2. waiting' \cap locks = {}
    BY <1>0, <2>1
  <2> QED BY <2>1, <2>2 DEF LockInv
<1>7. ASSUME NEW i \in Answers, Returns(i) PROVE LockInv'
  <2>1. /\ inbox' = RemoveAt(inbox, i) /\ waiting' = {} /\ locks' = locks /\ InCall
        /\ i \in 1..Len(inbox) /\ inbox[i].serial \in waiting /\ inbox[i].kind = "reply"
    BY <1>7, AnswerFacts DEF Returns, EndCall
  <2>2. locks \subseteq inhibitor \cup Replies(inbox') \cup {inbox[i].serial}
    BY <1>0, <2>1, RepliesRemove DEF Closed
  <2>3. CASE pc = "inhibit"
    <3>1. inhibitor' = {inbox[i].serial} /\ inhibitor = {} /\ pc' = "loop"
      BY <1>7, <2>3 DEF Returns, LockInv
    <3> QED BY <2>1, <2>2, <3>1 DEF LockInv
  <2>4. CASE InTimer
    <3>1. inhibitor' = inhibitor
      BY <1>7, <2>4 DEF Returns, InTimer
    <3>2. inbox[i].serial \notin locks
      BY <2>1, <2>4 DEF LockInv
    <3>3. pc' # "inhibit"
      BY <1>7, <2>4 DEF Returns, NextUnit, InTimer
    <3> QED BY <2>1, <2>2, <3>1, <3>2, <3>3 DEF LockInv
  <2> QED BY <2>1, <2>3, <2>4 DEF InCall, InTimer
<1>8. ASSUME NEW i \in Answers, IsRefused(i) PROVE LockInv'
  <2>1. /\ inbox' = RemoveAt(inbox, i) /\ waiting' = {} /\ UNCHANGED <<locks, inhibitor>>
        /\ i \in 1..Len(inbox) /\ inbox[i].kind = "error" /\ pc' # "inhibit"
    BY <1>8, AnswerFacts DEF IsRefused, ReturnsError, EndCall, NextUnit
  <2>2. locks \subseteq inhibitor \cup Replies(inbox')
    BY <1>0, <2>1, RepliesRemove DEF Closed
  <2> QED BY <2>1, <2>2 DEF LockInv
<1>9. CASE TimesOut
  BY <1>9 DEF TimesOut, ReturnsError, EndCall, NextUnit, LockInv
<1>10. CASE Dispatch
  <2>1. waiting = {} /\ waiting' = {}
    BY <1>0, <1>10 DEF Dispatch, calls, InCall
  <2>2. inbox # <<>> /\ Head(inbox).kind = "signal" /\ inbox' = Tail(inbox) /\ UNCHANGED <<locks, inhibitor>>
    BY <1>10, DispatchFacts DEF Dispatch
  <2>3. locks \subseteq inhibitor \cup Replies(inbox')
    BY <1>0, <2>2, RepliesTail DEF Closed
  <2>4. pc' = "inhibit" => inhibitor = {}
    BY <1>10, DispatchMoves
  <2> QED BY <2>1, <2>2, <2>3, <2>4 DEF LockInv
<1>11. CASE Drop
  <2>1. /\ inbox # <<>> /\ inbox' = Tail(inbox) /\ locks' = locks \ Closed(Head(inbox))
        /\ pc = "loop" /\ UNCHANGED <<pc, inhibitor>>
    BY <1>11 DEF Drop, daemon
  <2>2. locks' \subseteq inhibitor \cup Replies(inbox')
    BY <1>0, <2>1, RepliesTail
  <2> QED BY <2>1, <2>2 DEF LockInv, InTimer
<1>12. CASE ReleaseInhibitor
  BY <1>0, <1>12 DEF ReleaseInhibitor, LockInv, InTimer
<1>13. CASE \/ \E o \in {"sleep", "shutdown"} : RunnerCalls(o)
            \/ \E m \in LoginSleeps \cup LoginShutdowns : UserCalls(m)
            \/ GoDown \/ (\E u \in Units : Reload(u)) \/ Tick \/ UNCHANGED vars
  BY <1>1, <1>13 DEF RunnerCalls, UserCalls, Request, GoDown, Reload, Tick, vars, daemon, calls
<1> QED BY <1>2, <1>4, <1>4a, <1>5, <1>6, <1>7, <1>8, <1>9, <1>10, <1>11, <1>12, <1>13 DEF Next, Daemon

-----------------------------------------------------------------------------
(* Time.                                                                   *)

\* The numbers that Spent is made of.
LEMMA Numbers ==
  ASSUME TypeOK, CallInv, SentInv, DueInv, HandlerInv
  PROVE  /\ Len(sent) \in Nat /\ Len(handled) \in Nat /\ Len(handled) <= Len(sent)
         /\ Len(TimerUnits) \in Nat /\ waited \in 0..1 /\ delayed \in Nat
         /\ Worth(handled) \in Nat
         /\ op \in Nat /\ op <= MaxOps /\ MaxOps \in Nat
         /\ waiting = {} => waited = 0
         /\ InTimer => /\ unit \in Nat /\ unit >= 1 /\ unit <= Len(TimerUnits)
                       /\ Worth(handled) >= 3 * Len(TimerUnits)
         /\ pc = "inhibit" => Len(handled) % 2 = 0 /\ Len(handled) >= 2
         /\ InDelay => Len(sent) = 2 * op - 1
         /\ pc \in {"loop", "release", "inhibit"} \/ InTimer
<1>1. /\ sent \in Seq(Signals) /\ handled \in Seq(Signals) /\ Len(sent) \in Nat /\ Len(handled) \in Nat
      /\ Worth(handled) \in Nat
  BY LenProperties, ShutdownsNat DEF SentInv
<1>2. Len(TimerUnits) \in Nat /\ waited \in 0..1 /\ delayed \in Nat /\ op \in Nat /\ op <= MaxOps /\ MaxOps \in Nat
  BY UnitsAssumption, BoundsAssumption, LenProperties DEF TypeOK, PROXY_TIMEOUT
<1>3. waiting = {} => waited = 0
  BY DEF CallInv
<1>4. InTimer => /\ unit \in Nat /\ unit >= 1 /\ unit <= Len(TimerUnits)
                 /\ Worth(handled) >= 3 * Len(TimerUnits)
  BY <1>2 DEF CallInv, HandlerInv
<1>5. pc = "inhibit" => Len(handled) % 2 = 0 /\ Len(handled) >= 2
  BY DEF HandlerInv
<1>6. InDelay => Len(sent) = 2 * op - 1
  BY DEF SentInv, InDelay
<1>7. Len(handled) <= Len(sent)
  BY DEF DueInv
<1>8. pc \in {"loop", "release", "inhibit"} \/ InTimer
  BY DEF TypeOK, InCall, InTimer
<1> QED BY <1>1, <1>2, <1>3, <1>4, <1>5, <1>6, <1>7, <1>8

\* Spent, by place.
LEMMA SpentAt ==
  /\ pc = "inhibit"   => Spent = Paid - 1 + waited
  /\ pc = "getUnit"   => Spent = Paid - Left + waited
  /\ pc = "realtime"  => Spent = Paid - Left + 1 + waited
  /\ pc = "monotonic" => Spent = Paid - Left + 2 + waited
  /\ pc \in {"loop", "release"} => Spent = Paid
BY DEF Spent

LEMMA SpentBounds ==
  ASSUME TypeOK, CallInv, SentInv, DueInv, HandlerInv
  PROVE  Spent \in Nat /\ Paid \in Nat /\ Spent <= Paid
<1> DEFINE h == Len(handled)
           d == h \div 2
           n == Len(TimerUnits)
           w == Worth(handled)
<1>1. h \in Nat /\ (pc = "inhibit" => h >= 2)
  BY Numbers
<1> HIDE DEF h
<1>2. d \in Nat /\ (pc = "inhibit" => d >= 1)
  BY <1>1
<1> HIDE DEF d
<1>3. /\ n \in Nat /\ w \in Nat /\ waited \in 0..1
      /\ InTimer => unit \in Nat /\ unit >= 1 /\ unit <= n /\ w >= 3 * n
  BY Numbers
<1>4. Paid = d + w
  BY DEF d, h, Paid
<1>5. Paid \in Nat /\ (pc = "inhibit" => Paid >= 1)
  <2> HIDE DEF w
  <2> QED BY <1>2, <1>3, <1>4
<1>6. InTimer => Left \in Nat /\ Left >= 3 /\ Left <= Paid
  <2> HIDE DEF w, n
  <2>1. InTimer => Left = 3 * (n - unit + 1)
    BY DEF Left, n
  <2> QED BY <1>2, <1>3, <1>4, <2>1
<1>7. pc \in {"inhibit", "getUnit", "realtime", "monotonic", "loop", "release"}
  BY Numbers DEF InTimer
<1>8. waited \in 0..1
  BY <1>3
<1> QED BY <1>5, <1>6, <1>7, <1>8, SpentAt DEF InTimer

\* Where the callback goes on at the end of a call.
LEMMA EndMoves ==
  ASSUME TypeOK, (\E i \in Answers : Returns(i) \/ IsRefused(i)) \/ TimesOut
  PROVE  \/ pc = "inhibit" /\ pc' = "loop"
         \/ pc = "getUnit" /\ pc' = "realtime" /\ unit' = unit
         \/ pc = "realtime" /\ pc' = "monotonic" /\ unit' = unit
         \/ InTimer /\ NextUnit
<1>1. ASSUME NEW i \in Answers, Returns(i)
      PROVE  \/ pc = "inhibit" /\ pc' = "loop"
             \/ pc = "getUnit" /\ pc' = "realtime" /\ unit' = unit
             \/ pc = "realtime" /\ pc' = "monotonic" /\ unit' = unit
             \/ InTimer /\ NextUnit
  <2>1. pc \in {"inhibit", "getUnit", "realtime", "monotonic"}
    BY <1>1 DEF Returns, InCall
  <2>2. CASE pc = "monotonic"
    BY <1>1, <2>2 DEF Returns, InTimer
  <2>3. CASE pc # "monotonic"
    BY <1>1, <2>1, <2>3 DEF Returns
  <2> QED BY <2>2, <2>3
<1>2. ASSUME ReturnsError, InCall
      PROVE  \/ pc = "inhibit" /\ pc' = "loop"
             \/ InTimer /\ NextUnit
  BY <1>2 DEF ReturnsError, InCall, InTimer
<1> QED BY <1>1, <1>2 DEF IsRefused, TimesOut, TypeOK

\* The end of a call takes no time: its place in the callback accounts for what it took.
LEMMA SpentEnd ==
  ASSUME TypeOK, MessageInv, CallInv, SentInv, DueInv, HandlerInv,
         (\E i \in Answers : Returns(i) \/ IsRefused(i)) \/ TimesOut
  PROVE  Spent <= Spent' /\ Spent' \in Int
<1> DEFINE n == Len(TimerUnits)
           p == Paid
<1>1. waited' = 0 /\ Paid' = p
  BY EndFacts DEF Paid, Worth
<1>2. /\ n \in Nat /\ waited \in 0..1 /\ p \in Nat
      /\ InTimer => unit \in Nat /\ unit >= 1 /\ unit <= n
  BY Numbers, SpentBounds
<1> HIDE DEF p
<1>3. /\ pc' = "getUnit"   => Spent' = p - 3 * (n - unit' + 1) + waited'
      /\ pc' = "realtime"  => Spent' = p - 3 * (n - unit' + 1) + 1 + waited'
      /\ pc' = "monotonic" => Spent' = p - 3 * (n - unit' + 1) + 2 + waited'
      /\ pc' \in {"loop", "release"} => Spent' = p
  BY <1>1 DEF Spent, Left
<1>4. /\ pc = "inhibit"   => Spent = p - 1 + waited
      /\ pc = "getUnit"   => Spent = p - 3 * (n - unit + 1) + waited
      /\ pc = "realtime"  => Spent = p - 3 * (n - unit + 1) + 1 + waited
      /\ pc = "monotonic" => Spent = p - 3 * (n - unit + 1) + 2 + waited
  BY SpentAt DEF p, Left
<1>5. CASE pc = "inhibit" /\ pc' = "loop"
  BY <1>2, <1>3, <1>4, <1>5
<1> HIDE DEF n
<1>6. CASE pc = "getUnit" /\ pc' = "realtime" /\ unit' = unit
  <2>1. Spent = p - 3 * (n - unit + 1) + waited /\ Spent' = p - 3 * (n - unit + 1) + 1 + 0
    BY <1>1, <1>3, <1>4, <1>6
  <2>2. unit \in Nat
    BY <1>2, <1>6 DEF InTimer
  <2> QED BY <1>2, <2>1, <2>2
<1>7. CASE pc = "realtime" /\ pc' = "monotonic" /\ unit' = unit
  <2>1. Spent = p - 3 * (n - unit + 1) + 1 + waited /\ Spent' = p - 3 * (n - unit + 1) + 2 + 0
    BY <1>1, <1>3, <1>4, <1>7
  <2>2. unit \in Nat
    BY <1>2, <1>7 DEF InTimer
  <2> QED BY <1>2, <2>1, <2>2
<1>8. CASE InTimer /\ NextUnit
  <2>1. unit \in Nat /\ unit >= 1 /\ unit <= n
    BY <1>2, <1>8
  <2>2. \/ pc' = "getUnit" /\ unit' = unit + 1
        \/ pc' = "release" /\ unit >= n
    BY <1>2, <1>8, <2>1 DEF NextUnit, n
  <2>3. Spent \in Int /\ Spent <= p - 3 * (n - unit)
    <3>1. \E k \in 0..2 : Spent = p - 3 * (n - unit + 1) + k + waited
      <4>1. CASE pc = "getUnit"
        <5>1. Spent = p - 3 * (n - unit + 1) + 0 + waited
          BY <1>2, <1>4, <2>1, <4>1
        <5> QED BY <5>1
      <4>2. CASE pc = "realtime"
        <5>1. Spent = p - 3 * (n - unit + 1) + 1 + waited
          BY <1>4, <4>2
        <5> QED BY <5>1
      <4>3. CASE pc = "monotonic"
        <5>1. Spent = p - 3 * (n - unit + 1) + 2 + waited
          BY <1>4, <4>3
        <5> QED BY <5>1
      <4> QED BY <1>8, <4>1, <4>2, <4>3 DEF InTimer
    <3>2. PICK k \in 0..2 : Spent = p - 3 * (n - unit + 1) + k + waited
      BY <3>1
    <3> QED BY <1>2, <2>1, <3>2
  <2>4. CASE pc' = "getUnit" /\ unit' = unit + 1
    <3>1. Spent' = p - 3 * (n - (unit + 1) + 1) + 0
      BY <1>1, <1>3, <2>4
    <3>2. Spent' = p - 3 * (n - unit)
      BY <1>2, <2>1, <3>1
    <3> QED BY <1>2, <2>1, <2>3, <3>2
  <2>5. CASE pc' = "release" /\ unit >= n
    <3>1. Spent' = p /\ unit = n
      BY <1>2, <1>3, <2>1, <2>5
    <3> QED BY <1>2, <2>3, <3>1
  <2> QED BY <2>2, <2>4, <2>5
<1> QED BY <1>5, <1>6, <1>7, <1>8, EndMoves

LEMMA TimeNext ==
  ASSUME TypeOK, MessageInv, CallInv, LockInv, SentInv, DueInv, HandlerInv, TimeInv, [Next]_vars
  PROVE  TimeInv'
<1>1. CASE UNCHANGED <<power, delayed, pc, unit, waited, sent, handled>>
  BY <1>1 DEF TimeInv, InDelay, Spent, Paid, Left, Worth
<1>2. ASSUME Boot \/ GoDown \/ Resume \/ CallOff PROVE ~InDelay'
  BY <1>2 DEF Boot, GoDown, Resume, CallOff, InDelay
<1>3. ASSUME NEW s \in Services, Serve(s) PROVE TimeInv'
  <2>1. UNCHANGED <<pc, unit, waited, handled>>
    BY <1>3 DEF Serve, daemon, calls
  <2>2. CASE UNCHANGED <<machine, sent>>
    BY <1>1, <2>1, <2>2 DEF machine
  <2>3. CASE power = "up" /\ delayed' = 0
    <3>1. Spent' = Spent
      BY <2>1 DEF Spent, Paid, Left, Worth
    <3>2. Spent \in Nat
      BY SpentBounds
    <3> QED BY <2>3, <3>1, <3>2 DEF TimeInv
  <2> QED BY <1>3, <2>2, <2>3, ServeFacts
<1>4. ASSUME SendCall PROVE UNCHANGED <<power, delayed, pc, unit, waited, sent, handled>>
  <2>1. waiting = {} /\ waited' = 0 /\ UNCHANGED <<power, delayed, pc, unit, sent, handled>>
    BY <1>4 DEF SendCall, machine, daemon
  <2> QED BY <2>1, Numbers
<1>5. CASE (\E i \in Answers : Returns(i) \/ IsRefused(i)) \/ TimesOut
  <2>1. Spent <= Spent' /\ Spent' \in Int /\ Spent \in Nat
    BY <1>5, SpentEnd, SpentBounds
  <2>2. UNCHANGED <<power, delayed>> /\ delayed \in Nat
    BY <1>5, EndFacts, Numbers
  <2>3. InDelay' => delayed <= Spent
    BY <2>2 DEF InDelay, TimeInv
  <2> QED BY <2>1, <2>2, <2>3 DEF TimeInv
<1>6. CASE Dispatch
  <2> DEFINE h == Len(handled)
             d == h \div 2
             e == (h + 1) \div 2
             n == Len(TimerUnits)
             w == Worth(handled)
             v == Worth(handled')
             sig == Head(inbox)
  <2>1. /\ h \in Nat /\ Len(handled') = h + 1 /\ h < Len(sent) /\ n \in Nat /\ w \in Nat
        /\ sig.arg0 <=> (h + 1) % 2 = 1
        /\ v = w + (IF IsShutdown(sig) THEN 3 * n ELSE 0)
    BY <1>6, DueFacts, Numbers
  <2>2. /\ UNCHANGED <<power, delayed>> /\ waited = 0 /\ waited' = 0 /\ pc = "loop" /\ delayed \in Nat
        /\ pc' = "getUnit" => unit' = 1
        /\ pc' = Handler(sig)
    BY <1>6, Numbers DEF Dispatch, machine, calls, TypeOK, InCall
  <2>3. sig.member \in Members /\ sig.arg0 \in BOOLEAN
    BY <1>6, DispatchFacts DEF Signals
  <2> HIDE DEF sig
  <2>4. /\ pc' \in {"inhibit", "loop", "getUnit", "release"}
        /\ pc' = "inhibit" => ~sig.arg0
        /\ pc' = "getUnit" => IsShutdown(sig)
    BY <2>2, <2>3 DEF Handler, Members, IsShutdown
  <2>5. Spent = d + w
    BY <2>2, SpentAt DEF Paid
  <2>6. /\ pc' = "inhibit" => Spent' = Paid' - 1 + waited'
        /\ pc' = "getUnit" => Spent' = Paid' - Left' + waited'
        /\ pc' \in {"loop", "release"} => Spent' = Paid'
        /\ Paid' = e + v /\ Left' = 3 * (n - unit' + 1)
    <3>1. Paid' = e + v /\ Left' = 3 * (n - unit' + 1)
      BY <2>1 DEF Paid, Left, Worth
    <3>2. /\ pc' = "inhibit" => Spent' = Paid' - 1 + waited'
          /\ pc' = "getUnit" => Spent' = Paid' - Left' + waited'
          /\ pc' \in {"loop", "release"} => Spent' = Paid'
      BY DEF Spent
    <3> HIDE DEF e, v, n
    <3> QED BY <3>1, <3>2
  <2> HIDE DEF h, n, w, v
  <2>7. d \in Nat /\ e \in Nat /\ d <= e /\ ((h + 1) % 2 # 1 => d <= e - 1)
    BY <2>1
  <2> HIDE DEF d, e
  <2>8. v \in Nat /\ w <= v /\ (IsShutdown(sig) => v = w + 3 * n)
    BY <2>1
  <2>9. Spent <= Spent' /\ Spent' \in Int /\ Spent \in Nat
    <3>1. CASE pc' = "inhibit"
      BY <2>1, <2>2, <2>4, <2>5, <2>6, <2>7, <2>8, <3>1
    <3>2. CASE pc' = "getUnit"
      <4>1. Paid' = e + (w + 3 * n)
        BY <2>4, <2>6, <2>8, <3>2
      <4>2. Left' = 3 * n
        BY <2>1, <2>2, <2>6, <3>2
      <4>3. Spent' = Paid' - Left' + 0
        BY <2>2, <2>6, <3>2
      <4>4. Spent' = e + w
        BY <2>1, <2>7, <4>1, <4>2, <4>3
      <4> QED BY <2>1, <2>5, <2>7, <4>4
    <3>3. CASE pc' \in {"loop", "release"}
      BY <2>1, <2>5, <2>6, <2>7, <2>8, <3>3
    <3> QED BY <2>4, <3>1, <3>2, <3>3
  <2>10. InDelay' => delayed <= Spent
    BY <2>2 DEF InDelay, TimeInv
  <2> QED BY <2>2, <2>9, <2>10 DEF TimeInv
<1>7. ASSUME Drop PROVE UNCHANGED <<power, delayed, pc, unit, waited, sent, handled>>
  BY <1>7 DEF Drop, machine, calls, daemon
<1>8. CASE ReleaseInhibitor
  BY <1>8 DEF ReleaseInhibitor, calls, machine, TimeInv, InDelay, Spent, Paid, Left, Worth
<1>9. CASE Tick
  <2>1. CASE ~InDelay
    BY <1>9, <2>1 DEF Tick, TimeInv, InDelay
  <2>2. CASE InDelay /\ waiting # {}
    <3>1. delayed' = delayed + 1 /\ waited' = waited + 1 /\ UNCHANGED <<pc, unit, sent, handled>> /\ InCall
      BY <1>9, <2>2 DEF Tick, daemon, TypeOK
    <3>2. Spent' = Spent + 1
      <4> DEFINE p == Paid
                 u == Left
      <4>1. p \in Nat /\ waited \in 0..1 /\ (InTimer => u \in Int)
        BY Numbers, SpentBounds DEF Left
      <4>2. Paid' = p /\ Left' = u
        BY <3>1 DEF Paid, Left, Worth
      <4> HIDE DEF p, u
      <4>3. /\ pc = "inhibit"   => Spent' = p - 1 + (waited + 1)
            /\ pc = "getUnit"   => Spent' = p - u + (waited + 1)
            /\ pc = "realtime"  => Spent' = p - u + 1 + (waited + 1)
            /\ pc = "monotonic" => Spent' = p - u + 2 + (waited + 1)
        BY <3>1, <4>2 DEF Spent
      <4>4. /\ pc = "inhibit"   => Spent = p - 1 + waited
            /\ pc = "getUnit"   => Spent = p - u + waited
            /\ pc = "realtime"  => Spent = p - u + 1 + waited
            /\ pc = "monotonic" => Spent = p - u + 2 + waited
        BY SpentAt DEF p, u
      <4> QED BY <3>1, <4>1, <4>3, <4>4 DEF InCall, InTimer
    <3>3. Spent \in Nat /\ delayed \in Nat /\ delayed <= Spent
      BY <2>2, SpentBounds, Numbers DEF TimeInv
    <3> QED BY <3>1, <3>2, <3>3 DEF TimeInv
  <2>3. CASE InDelay /\ waiting = {}
    <3>1. pc = "loop" /\ inbox = <<>> /\ locks # {}
      BY <1>9, <2>3 DEF Tick, Blocked
    <3>2. Len(handled) = Len(sent)
      BY <3>1, EmptySeq DEF DueInv, Due
    <3>3. locks \subseteq Replies(inbox)
      BY <2>3, <3>1, <3>2 DEF HandlerInv, LockInv
    <3>4. Replies(inbox) = {}
      BY <3>1 DEF Replies
    <3> QED BY <3>1, <3>3, <3>4
  <2> QED BY <2>1, <2>2, <2>3
<1>10. ASSUME \/ \E o \in {"sleep", "shutdown"} : RunnerCalls(o)
              \/ \E m \in LoginSleeps \cup LoginShutdowns : UserCalls(m)
              \/ (\E u \in Units : Reload(u)) \/ UNCHANGED vars
       PROVE  UNCHANGED <<power, delayed, pc, unit, waited, sent, handled>>
  BY <1>10 DEF RunnerCalls, UserCalls, Request, Reload, vars, machine, calls, daemon
<1> QED BY <1>1, <1>2, <1>3, <1>4, <1>5, <1>6, <1>7, <1>8, <1>9, <1>10 DEF TimeInv, Next, Daemon

\* With a limit of a tick for every operation, and of three for every timer after every
\* shutdown, logind does not reach it.
LEMMA InTimeBound ==
  ASSUME TypeOK, CallInv, SentInv, DueInv, HandlerInv, TimeInv,
         (MaxOps + 3 * Len(TimerUnits) * Shutdowns(sent)) * PROXY_TIMEOUT <= DelayMax
  PROVE  CallbackInTime
<1> SUFFICES ASSUME InDelay PROVE delayed < DelayMax
  BY DEF CallbackInTime
<1> DEFINE h == Len(handled)
           d == h \div 2
           w == Worth(sent)
<1>1. /\ h \in Nat /\ Len(sent) \in Nat /\ h <= Len(sent) /\ Len(sent) = 2 * op - 1
      /\ op \in Nat /\ op <= MaxOps /\ MaxOps \in Nat /\ delayed \in Nat
  BY Numbers
<1>2. sent \in Seq(Signals) /\ handled \in Seq(Signals)
  BY DEF SentInv
<1>3. w \in Nat /\ Worth(handled) \in Nat /\ Worth(handled) <= w
  BY <1>1, <1>2, ShutdownsNat, WorthPrefix DEF DueInv
<1>4. DelayMax \in Nat /\ MaxOps + w <= DelayMax
  <2>1. DelayMax \in Nat /\ (MaxOps + w) * 1 <= DelayMax
    BY BoundsAssumption DEF PROXY_TIMEOUT, Worth
  <2> HIDE DEF w
  <2> QED BY <1>1, <1>3, <2>1
<1>5. Spent <= Paid /\ Spent \in Nat /\ Paid = d + Worth(handled)
  BY SpentBounds DEF Paid
<1>6. delayed <= Spent
  BY DEF TimeInv
<1> HIDE DEF h, w
<1>7. d \in Nat /\ d + 1 <= op
  BY <1>1
<1> HIDE DEF d
<1> QED BY <1>1, <1>3, <1>4, <1>5, <1>6, <1>7

LEMMA AllAddressed ==
  ASSUME MessageInv
  PROVE  WellAddressed
<1> SUFFICES ASSUME NEW s \in Services, NEW i \in DOMAIN bus[s]
             PROVE  Understood(bus[s][i]) \/ bus[s][i].to.path \in Units \ loaded
  BY DEF WellAddressed
<1> DEFINE B == OnBus
<1>1. bus[s] \in Seq(B)
  BY DEF MessageInv
<1> HIDE DEF B
<1>2. bus[s][i] \in B
  BY <1>1, LenProperties, ElementOfSeq
<1>3. bus[s][i] \in Messages
  BY <1>2 DEF B, OnBus
<1> QED BY <1>3, AddressedMessage

-----------------------------------------------------------------------------
(* The invariant.                                                          *)

LEMMA InitInv == Init => IInv
<1> SUFFICES ASSUME Init PROVE IInv
  OBVIOUS
<1>0. Len(TimerUnits) \in Nat /\ DelayMax \in Nat /\ MaxOps \in Nat
  BY UnitsAssumption, BoundsAssumption, LenProperties
<1>1. TypeOK
  <2>1. Cardinality(waiting) <= 1
    BY AtMostOne DEF Init
  <2> QED BY <1>0, <2>1 DEF Init, TypeOK, InCall, PROXY_TIMEOUT, Members
<1>2. MessageInv
  BY DEF Init, MessageInv
<1>3. CallInv /\ MatchInv
  BY DEF Init, CallInv, MatchInv, InTimer
<1>4. LockInv
  BY DEF Init, LockInv, InTimer
<1>5. SentInv
  BY DEF Init, SentInv
<1>6. DueInv
  <2>1. inbox = <<>> /\ sent = <<>> /\ handled = <<>>
    BY DEF Init
  <2> DEFINE new == [i \in 0..0 |-> 0]
  <2>2. new \in [0..0 -> 0..0] /\ new[0] = 0
    OBVIOUS
  <2> HIDE DEF new
  <2>3. \A i, j \in 0..0 : i <= j => new[i] <= new[j]
    BY <2>2
  <2>4. Len(<<>>) = 0
    OBVIOUS
  <2>5. new \in Due(<<>>, 0, <<>>)
    BY <2>2, <2>3, <2>4 DEF Due
  <2> QED BY <2>1, <2>4, <2>5 DEF DueInv
<1>7. HandlerInv /\ TimeInv
  BY DEF Init, HandlerInv, TimeInv, InTimer, InDelay
<1>8. AnswersBelong /\ LocksRespected
  BY DEF Init, AnswersBelong, LocksRespected, Awake
<1> QED BY <1>1, <1>2, <1>3, <1>4, <1>5, <1>6, <1>7, <1>8 DEF IInv

LEMMA InvNext == IInv /\ [Next]_vars => IInv'
<1> SUFFICES ASSUME IInv, [Next]_vars PROVE IInv'
  OBVIOUS
<1>1. /\ TypeOK /\ MessageInv /\ CallInv /\ MatchInv /\ LockInv
      /\ SentInv /\ DueInv /\ HandlerInv /\ TimeInv
      /\ AnswersBelong /\ LocksRespected
  BY DEF IInv
<1>2. TypeOK' /\ MessageInv' /\ CallInv' /\ MatchInv' /\ LockInv'
  BY <1>1, TypeNext, MessageNext, CallNext, MatchNext, LockNext
<1>3. SentInv' /\ DueInv' /\ HandlerInv' /\ TimeInv'
  BY <1>1, SentNext, DueNext, HandlerInvNext, TimeNext
<1>4. AnswersBelong' /\ LocksRespected'
  BY <1>1, AnswersNext, LocksNext
<1> QED BY <1>2, <1>3, <1>4 DEF IInv

\* Every reachable state satisfies the inductive invariant: what is on the bus and in
\* the inbox, the call that is waited for, the locks, the announcements and the time the
\* callback has taken fit each other, however the services answer.
THEOREM Inductive == Spec => []IInv
<1> QED BY InitInv, InvNext, PTL DEF Spec

\* Types.
THEOREM TypeCorrect == Spec => []TypeOK
<1>1. IInv => TypeOK
  BY DEF IInv
<1> QED BY <1>1, Inductive, PTL

\* next_activation: what it takes for a timer's next elapse was read from that timer,
\* whatever answers to earlier calls still come in.
THEOREM AnswersRight == Spec => []AnswersBelong
<1>1. IInv => AnswersBelong
  BY DEF IInv
<1> QED BY <1>1, Inductive, PTL

\* No call that the program makes takes the machine down under a delay lock before
\* logind's limit has passed.
THEOREM LocksKept == Spec => []LocksRespected
<1>1. IInv => LocksRespected
  BY DEF IInv
<1> QED BY <1>1, Inductive, PTL

\* The proxies and stubs fit: no call is ever refused because it goes to an object that
\* does not know it, unless systemd has unloaded the timer meanwhile.
THEOREM Addressed == Spec => []WellAddressed
<1>1. IInv => WellAddressed
  BY AllAddressed DEF IInv
<1> QED BY <1>1, Inductive, PTL

\* The blocking calls inside the handlers lose no signal and overtake none.
THEOREM AllHandled == Spec => []EveryAnnouncementHandled
<1>1. IInv => EveryAnnouncementHandled
  BY AllDue DEF IInv
<1> QED BY <1>1, Inductive, PTL

\* logind never cuts a callback short, although every call may time out, as long as its
\* limit is at least a time-out for every operation between two boots, and three for
\* every timer after every shutdown that has been announced since the boot: more than
\* one only if shutdowns have been called off.
THEOREM InTime ==
  Spec => []((MaxOps + 3 * Len(TimerUnits) * Shutdowns(sent)) * PROXY_TIMEOUT <= DelayMax
               => CallbackInTime)
<1>1. IInv => ((MaxOps + 3 * Len(TimerUnits) * Shutdowns(sent)) * PROXY_TIMEOUT <= DelayMax
                 => CallbackInTime)
  BY InTimeBound DEF IInv
<1> QED BY <1>1, Inductive, PTL

\* The safety half of LateLockGoes: a descriptor that is open is the one of inhibitor, or
\* in an answer the daemon has not taken out of its inbox.
THEOREM LocksAccounted == Spec => [](locks \subseteq inhibitor \cup Replies(inbox))
<1>1. IInv => locks \subseteq inhibitor \cup Replies(inbox)
  BY DEF IInv, LockInv
<1> QED BY <1>1, Inductive, PTL
=============================================================================
