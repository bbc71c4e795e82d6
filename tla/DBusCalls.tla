----------------------------- MODULE DBusCalls -----------------------------
(***************************************************************************)
(* The D-Bus calls of the scheduler daemon and of the runner, message by   *)
(* message: the proxies of src/dbus.rs, the stubs of Bindings, and what the*)
(* blocking connection of the dbus crate does with answers, time-outs and  *)
(* signals.  In the other modules a call is a single step.                 *)
(*                                                                         *)
(* A call is sent and waited for until its answer comes or PROXY_TIMEOUT is*)
(* over; whatever else comes in meanwhile stays in the inbox.  The answer  *)
(* to a call that was given up may still come.  conn.process takes the     *)
(* inbox one message at a time: a signal goes to its matcher, an answer    *)
(* nobody waits for is dropped, and with it a file descriptor it carries.  *)
(*                                                                         *)
(* logind and systemd answer calls in the order they come in, or never.    *)
(* The runner's power operation is announced to the daemon, whose handlers *)
(* make calls of their own: for the timers' next elapse before a shutdown, *)
(* for a new lock after a suspend.  What a runner does with its answer is  *)
(* left to NightKitchen; users may ask logind for any operation it knows.  *)
(*                                                                         *)
(* A tick is 500 ms, and the daemon is quick: a tick only passes while it  *)
(* has nothing to do but wait.                                             *)
(***************************************************************************)
EXTENDS Naturals, FiniteSets, SequencesExt, Bindings

CONSTANTS
  TimerUnits,  \* TIMER_UNITS of src/bin/scheduler/main.rs, a sequence
  DelayMax,    \* logind's InhibitDelayMaxSec, in ticks
  MaxOps       \* bound: suspends and shutdowns between two boots

ASSUME BoundsAssumption == DelayMax \in Nat \ {0} /\ MaxOps \in Nat

\* There is a timer, and no unit has the name of the managers' object.
ASSUME UnitsAssumption ==
  TimerUnits \in Seq(STRING) \ {<<>>} /\ "manager" \notin Range(TimerUnits)

VARIABLES
  power,     \* "up", "sleepDelay", "asleep", "shutdownDelay" or "off"
  op,        \* number of the latest suspend or shutdown of this boot
  delayed,   \* ticks logind has delayed it
  locks,     \* logind: the Inhibit calls whose file descriptor is still open
  loaded,    \* systemd: the timer units in memory
  bus,       \* the calls each service has not answered
  serial,    \* the daemon's connection: number of calls made
  waiting,   \* the call it waits for, in a set
  waited,    \* how long it has done so
  inbox,     \* what it has received and not looked at
  matches,   \* members it has a matcher for
  pc,        \* the daemon: where it is in a handler
  unit,      \* index of the timer unit next_activation is at
  path,      \* unit_path of systemd_unit
  inhibitor, \* PowerMonitor.inhibitor: the Inhibit call it comes from, in a set
  \* History variables, read by the properties only:
  read,      \* timers the callback has read, each with the object that answered
  sent,      \* announcements to the daemon, in order
  handled    \* those it has called a handler for

machine == <<power, op, delayed>>
calls   == <<serial, waiting, waited>>
daemon  == <<matches, pc, unit, path, inhibitor, read, handled>>
vars    == <<power, op, delayed, locks, loaded, bus, serial, waiting, waited, inbox,
             matches, pc, unit, path, inhibitor, read, sent, handled>>

Services == {"login1", "systemd1"}
Members  == {"PrepareForSleep", "PrepareForShutdown"}
Units    == Range(TimerUnits)
InCall   == pc \in {"inhibit", "getUnit", "realtime", "monotonic"}

-----------------------------------------------------------------------------
(* Proxies and stubs.                                                      *)

\* with_proxy(destination, path).
Proxy(dest, object) == [dest |-> dest, path |-> object]

\* Seeded fault: the time-out of the dbus crate's default.
FaultTimeout == 50

PROXY_TIMEOUT == 1

\* Seeded fault: a copied destination.
FaultLogin == Proxy("systemd1", "manager")

login_manager   == Proxy("login1", "manager")
systemd_manager == Proxy("systemd1", "manager")

Call(proxy, interface, member) ==
  [proxy |-> proxy, interface |-> interface, member |-> member]

\* Seeded fault: the other trait with a power_off, on the other manager.
FaultPowerCall(o) ==
  IF o = "sleep" THEN Call(login_manager, "Login1Manager", "Suspend")
                 ELSE Call(systemd_manager, "Systemd1Manager", "PowerOff")

\* suspend and shutdown of the runner.
PowerCall(o) == Call(login_manager, "Login1Manager", IF o = "sleep" THEN "Suspend" ELSE "PowerOff")

\* The calls of the daemon's handlers.
DaemonCall ==
  CASE pc = "inhibit"   -> Call(login_manager, "Login1Manager", "Inhibit")
    [] pc = "getUnit"   -> Call(systemd_manager, "Systemd1Manager", "GetUnit")
    [] pc = "realtime"  -> Call(Proxy("systemd1", path), "Systemd1Timer", "NextElapseUSecRealtime")
    [] pc = "monotonic" -> Call(Proxy("systemd1", path), "Systemd1Timer", "NextElapseUSecMonotonic")

\* What a stub puts on the bus.
Message(call, n, arg) ==
  [serial |-> n, to |-> call.proxy, interface |-> call.interface, member |-> call.member,
   in |-> Stub(call.interface, call.member).in, arg |-> arg]

Put(msg) == bus' = [bus EXCEPT ![msg.to.dest] = Append(@, msg)]

Reply(n, value) == [kind |-> "reply", serial |-> n, value |-> value]
Refusal(n)      == [kind |-> "error", serial |-> n]
Signal(m, b)    == [kind |-> "signal", member |-> m, arg0 |-> b]
IsAnswer(msg)   == msg.kind \in {"reply", "error"}

\* The serial of the calls of runners and users.
Others == 0

-----------------------------------------------------------------------------
(* The machine, its users and the runners.                                 *)

Init ==
  /\ power = "up" /\ op = 0 /\ delayed = 0
  /\ locks = {0} /\ inhibitor = {0}   \* from PowerMonitor::register
  /\ loaded = Units
  /\ bus = [s \in Services |-> <<>>] /\ inbox = <<>>
  /\ serial = 0 /\ waiting = {} /\ waited = 0
  /\ matches = Members /\ pc = "loop" /\ unit = 0 /\ path = "none"
  /\ read = {} /\ sent = <<>> /\ handled = <<>>

Awake   == power \notin {"asleep", "off"}
InDelay == power \in {"sleepDelay", "shutdownDelay"}

\* One of them asks for an operation, and nobody here waits for the answer.
Request(call) ==
  /\ Awake /\ op < MaxOps
  /\ \A s \in Services : \A i \in DOMAIN bus[s] : bus[s][i].serial # Others
  /\ Put(Message(call, Others, "none"))
  /\ UNCHANGED <<machine, locks, loaded, calls, inbox, daemon, sent>>

RunnerCalls(o)    == Request(PowerCall(o))
UserCalls(member) == Request(Call(Proxy("login1", "manager"), "Login1Manager", member))

GoDown ==
  /\ InDelay
  /\ delayed < DelayMax => locks = {}
  /\ power' = IF power = "sleepDelay" THEN "asleep" ELSE "off"
  /\ UNCHANGED <<op, delayed, locks, loaded, bus, calls, inbox, daemon, sent>>

Announce(signals) == inbox' = inbox \o signals /\ sent' = sent \o signals

Resume ==
  /\ power = "asleep"
  /\ power' = "up" /\ delayed' = 0
  /\ Announce(<<Signal("PrepareForSleep", FALSE)>>)
  /\ UNCHANGED <<op, locks, loaded, bus, calls, daemon>>

\* A shutdown that has been delayed is called off, or fails: logind says so, and takes
\* on operations again.
CallOff ==
  /\ power = "shutdownDelay"
  /\ delayed < DelayMax => locks = {}
  /\ power' = "up" /\ delayed' = 0
  /\ Announce(<<Signal("PrepareForShutdown", FALSE)>>)
  /\ UNCHANGED <<op, locks, loaded, bus, calls, daemon>>

Boot ==
  /\ power = "off"
  /\ power' = "up" /\ op' = 0 /\ delayed' = 0
  /\ locks' = {0} /\ inhibitor' = {0} /\ loaded' = Units
  /\ bus' = [s \in Services |-> <<>>] /\ inbox' = <<>>
  /\ serial' = 0 /\ waiting' = {} /\ waited' = 0
  /\ matches' = Members /\ pc' = "loop" /\ unit' = 0 /\ path' = "none"
  /\ read' = {} /\ sent' = <<>> /\ handled' = <<>>

\* systemd unloads a timer unit nobody refers to, or loads it.
Reload(u) ==
  /\ Awake
  /\ loaded' = IF u \in loaded THEN loaded \ {u} ELSE loaded \cup {u}
  /\ UNCHANGED <<machine, locks, bus, calls, inbox, daemon, sent>>

-----------------------------------------------------------------------------
(* The services.                                                           *)

\* The interfaces of the object at a proxy's end; the object of a unit is in memory
\* with it.
Exports(p) ==
  CASE p = Proxy("login1", "manager")   -> {"Login1Manager"}
    [] p = Proxy("systemd1", "manager") -> {"Systemd1Manager"}
    [] OTHER -> IF p.dest = "systemd1" /\ p.path \in loaded THEN {"Systemd1Timer"} ELSE {}

Understood(msg) ==
  /\ msg.interface \in Exports(msg.to)
  /\ \E stub \in Interfaces[msg.interface] : stub.member = msg.member /\ stub.in = msg.in

\* The answer, unless it is for somebody else, and what else the daemon hears.
Answer(s, answer) ==
  /\ bus' = [bus EXCEPT ![s] = Tail(@)]
  /\ inbox' = IF answer.serial = Others THEN inbox ELSE Append(inbox, answer)
  /\ UNCHANGED sent

\* A call that is not understood, or that names no unit in memory, or one that logind
\* does not grant: it may lack the privilege.
Refuses(s, msg) ==
  /\ \/ ~Understood(msg)
     \/ msg.member = "GetUnit" /\ msg.arg \notin loaded
     \/ msg.interface = "Login1Manager"
  /\ Answer(s, Refusal(msg.serial))
  /\ UNCHANGED <<machine, locks>>

\* logind grants no lock during an operation.
GrantsLock(s, msg) ==
  /\ msg.member = "Inhibit" /\ power = "up"
  /\ locks' = locks \cup {msg.serial}
  /\ Answer(s, Reply(msg.serial, "fd"))
  /\ UNCHANGED machine

\* Where a call takes the machine: systemd's own methods know no delay.
Leads(msg) ==
  CASE msg.interface = "Login1Manager" /\ msg.member \in LoginSleeps -> "sleepDelay"
    [] msg.interface = "Login1Manager" /\ msg.member \in LoginShutdowns -> "shutdownDelay"
    [] msg.interface = "Systemd1Manager" /\ msg.member \in SystemdImmediate -> "off"
    [] OTHER -> "none"

Announcement(state) ==
  CASE state = "sleepDelay"    -> <<Signal("PrepareForSleep", TRUE)>>
    [] state = "shutdownDelay" -> <<Signal("PrepareForShutdown", TRUE)>>
    [] OTHER -> <<>>

\* A manager takes on an operation; logind announces it, and delays it.
Operates(s, msg) ==
  /\ power = "up" /\ op < MaxOps /\ Leads(msg) # "none"
  /\ power' = Leads(msg) /\ op' = op + 1 /\ delayed' = 0
  /\ bus' = [bus EXCEPT ![s] = Tail(@)]
  /\ Announce(Announcement(Leads(msg)))
  /\ UNCHANGED locks

\* GetUnit is answered with the object of the unit it names, a property with that of
\* the object it is read from.
AnswersQuery(s, msg) ==
  /\ \/ msg.member = "GetUnit" /\ msg.arg \in loaded /\ Answer(s, Reply(msg.serial, msg.arg))
     \/ msg.interface = "Systemd1Timer" /\ Answer(s, Reply(msg.serial, msg.to.path))
  /\ UNCHANGED <<machine, locks>>

\* A service takes the oldest call.
Serve(s) ==
  /\ Awake /\ bus[s] # <<>>
  /\ LET msg == Head(bus[s]) IN
       \/ Refuses(s, msg)
       \/ /\ Understood(msg)
          /\ \/ GrantsLock(s, msg)
             \/ Operates(s, msg)
             \/ AnswersQuery(s, msg)
  /\ UNCHANGED <<loaded, calls, daemon>>

-----------------------------------------------------------------------------
(* The daemon's connection.                                                *)

\* method_call sends the message and blocks.
SendCall ==
  /\ Awake /\ InCall /\ waiting = {}
  /\ Put(Message(DaemonCall, serial + 1, IF pc = "getUnit" THEN TimerUnits[unit] ELSE "none"))
  /\ serial' = serial + 1 /\ waiting' = {serial + 1} /\ waited' = 0
  /\ UNCHANGED <<machine, locks, loaded, inbox, daemon, sent>>

\* Seeded fault: the first answer that comes is taken for that of this call.
FaultIsMine(msg) == IsAnswer(msg)

\* An answer belongs to the call with its serial.
IsMine(msg) == IsAnswer(msg) /\ msg.serial \in waiting

Answers == {i \in DOMAIN inbox : IsMine(inbox[i])}

EndCall == waiting' = {} /\ waited' = 0 /\ UNCHANGED <<machine, loaded, bus, serial, sent>>

\* Seeded fault: an index one past the last unit.
FaultNextUnit ==
  /\ path' = "none"
  /\ IF unit <= Len(TimerUnits) THEN unit' = unit + 1 /\ pc' = "getUnit"
                                ELSE unit' = 0 /\ pc' = "release"

\* fold over TIMER_UNITS: on to the next unit, and after the last to the RTC,
\* which takes no call, and to release_inhibitor.
NextUnit ==
  /\ path' = "none"
  /\ IF unit < Len(TimerUnits) THEN unit' = unit + 1 /\ pc' = "getUnit"
                               ELSE unit' = 0 /\ pc' = "release"

\* Seeded fault: the object of the first unit is kept for all.
FaultPathOf(answer) == IF unit > 1 THEN TimerUnits[1] ELSE answer.value

\* systemd_unit: the proxy of the unit goes to the path of GetUnit's answer.
PathOf(answer) == answer.value

\* The call returns Ok.
Returns(i) ==
  /\ Awake /\ InCall /\ inbox[i].kind = "reply"
  /\ inbox' = RemoveAt(inbox, i)
  /\ EndCall
  /\ CASE pc = "inhibit" -> /\ inhibitor' = {inbox[i].serial} /\ pc' = "loop"
                            /\ UNCHANGED <<unit, path, read>>
       [] pc = "getUnit"  -> /\ path' = PathOf(inbox[i]) /\ pc' = "realtime"
                            /\ UNCHANGED <<unit, inhibitor, read>>
       [] pc = "realtime" -> /\ pc' = "monotonic"
                            /\ read' = read \cup {<<TimerUnits[unit], inbox[i].value>>}
                            /\ UNCHANGED <<unit, path, inhibitor>>
       [] pc = "monotonic" -> /\ NextUnit
                             /\ read' = read \cup {<<TimerUnits[unit], inbox[i].value>>}
                             /\ UNCHANGED inhibitor
  /\ UNCHANGED <<locks, matches, handled>>

\* The call returns an error: the lock is not taken, the unit is skipped.
ReturnsError ==
  /\ EndCall
  /\ IF pc = "inhibit" THEN pc' = "loop" /\ UNCHANGED <<unit, path>> ELSE NextUnit
  /\ UNCHANGED <<locks, matches, inhibitor, read, handled>>

IsRefused(i) ==
  /\ Awake /\ InCall /\ inbox[i].kind = "error"
  /\ inbox' = RemoveAt(inbox, i)
  /\ ReturnsError

TimesOut ==
  /\ Awake /\ waiting # {} /\ waited = PROXY_TIMEOUT
  /\ ReturnsError
  /\ UNCHANGED inbox

-----------------------------------------------------------------------------
(* The daemon's handlers.                                                  *)

\* Seeded fault: a handler returns false, and its matcher is removed, as that of
\* start_unit is.
FaultStays(sig) == sig.arg0

\* The handlers of the power monitor return true and stay.
Stays(sig) == TRUE

\* A message for a matcher, whose signal is read as the type of its struct.
Matched(msg) ==
  /\ msg.kind = "signal" /\ msg.member \in matches
  /\ [member |-> msg.member, args |-> "b"] \in SignalArgs.Login1Manager

\* The handler up to its first call, or to release_inhibitor.  That a shutdown is called
\* off is only logged: the lock is not taken again.
Handler(sig) ==
  CASE sig.member = "PrepareForShutdown" /\ sig.arg0  -> "getUnit"
    [] sig.member = "PrepareForShutdown" /\ ~sig.arg0 -> "loop"
    [] sig.member = "PrepareForSleep" /\ sig.arg0     -> "release"
    [] sig.member = "PrepareForSleep" /\ ~sig.arg0    -> IF inhibitor = {} THEN "inhibit" ELSE "loop"

\* conn.process dispatches a signal...
Dispatch ==
  /\ Awake /\ pc = "loop" /\ inbox # <<>> /\ Matched(Head(inbox))
  /\ LET sig == Head(inbox) IN
       /\ inbox' = Tail(inbox)
       /\ handled' = Append(handled, sig) /\ read' = {}
       /\ pc' = Handler(sig) /\ unit' = IF Handler(sig) = "getUnit" THEN 1 ELSE 0
       /\ matches' = IF Stays(sig) THEN matches ELSE matches \ {sig.member}
  /\ UNCHANGED <<machine, locks, loaded, bus, calls, path, inhibitor, sent>>

\* Seeded fault: the descriptor of an answer nobody waits for stays open.
FaultClosed(msg) == {}

\* The lock that is closed when a message is dropped.
Closed(msg) == IF msg.kind = "reply" THEN {msg.serial} ELSE {}

\* ...or drops what nobody waits for: an answer that came too late.
Drop ==
  /\ Awake /\ pc = "loop" /\ inbox # <<>> /\ ~Matched(Head(inbox))
  /\ inbox' = Tail(inbox)
  /\ locks' = locks \ Closed(Head(inbox))
  /\ UNCHANGED <<machine, loaded, bus, calls, daemon, sent>>

\* Seeded fault: the descriptor is taken out of the Option but not closed.
FaultRelease ==
  /\ Awake /\ pc = "release"
  /\ inhibitor' = {} /\ pc' = "loop"
  /\ UNCHANGED <<machine, locks, loaded, bus, calls, inbox, matches, unit, path, read, sent, handled>>

ReleaseInhibitor ==
  /\ Awake /\ pc = "release"
  /\ locks' = locks \ inhibitor /\ inhibitor' = {}
  /\ pc' = "loop"
  /\ UNCHANGED <<machine, loaded, bus, calls, inbox, matches, unit, path, read, sent, handled>>

Daemon ==
  \/ SendCall \/ (\E i \in Answers : Returns(i) \/ IsRefused(i)) \/ TimesOut
  \/ Dispatch \/ Drop \/ ReleaseInhibitor

-----------------------------------------------------------------------------
\* The daemon can only wait: for an answer, or for a signal.
Blocked ==
  IF InCall THEN waiting # {} /\ Answers = {} /\ waited < PROXY_TIMEOUT
            ELSE pc = "loop" /\ inbox = <<>>

Tick ==
  /\ Awake /\ Blocked
  /\ waiting # {} \/ InDelay
  /\ InDelay => locks # {} /\ delayed < DelayMax   \* else logind goes on
  /\ delayed' = IF InDelay THEN delayed + 1 ELSE delayed
  /\ waited' = IF waiting # {} THEN waited + 1 ELSE waited
  /\ UNCHANGED <<power, op, locks, loaded, bus, serial, waiting, inbox, daemon, sent>>

Next ==
  \/ \E o \in {"sleep", "shutdown"} : RunnerCalls(o)
  \/ \E member \in LoginSleeps \cup LoginShutdowns : UserCalls(member)
  \/ GoDown \/ Resume \/ CallOff \/ Boot \/ (\E u \in Units : Reload(u))
  \/ (\E s \in Services : Serve(s))
  \/ Daemon \/ Tick

Spec == Init /\ [][Next]_vars

\* The daemon runs and time passes; no service ever has to answer.
FairSpec == Spec /\ WF_vars(Daemon) /\ WF_vars(Tick)

-----------------------------------------------------------------------------
\* Types.
TypeOK ==
  /\ power \in {"up", "sleepDelay", "asleep", "shutdownDelay", "off"}
  /\ op \in 0..MaxOps /\ delayed \in 0..DelayMax /\ waited \in 0..PROXY_TIMEOUT
  /\ serial \in Nat /\ locks \subseteq 0..serial /\ inhibitor \subseteq 0..serial
  /\ waiting \subseteq 1..serial /\ Cardinality(waiting) <= 1
  /\ waiting # {} => InCall
  /\ unit \in 0..Len(TimerUnits) /\ loaded \subseteq Units /\ matches \subseteq Members
  /\ pc \in {"loop", "release"} \/ InCall
  /\ pc \in {"realtime", "monotonic"} => path \in Units

\* The machine never goes down while a delay lock is open, whichever call of the
\* program made it do so, unless logind's limit has passed.
LocksRespected == ~Awake => locks = {} \/ delayed = DelayMax

\* The callback's calls may all be slow or time out: together they stay below
\* logind's limit, so that it never cuts a callback short.
CallbackInTime == InDelay => delayed < DelayMax

\* What is read of a timer comes from that timer's object, whatever answers to
\* earlier calls still come in.
AnswersBelong == \A r \in read : r[1] = r[2]

\* No announcement is lost or overtaken: not while the daemon waits for a call, nor
\* because a handler did not stay.  What has been handled and then the signals in the
\* inbox are what has been sent: due[i] is the number of announcements up to inbox[i].
EveryAnnouncementHandled ==
  /\ handled = SubSeq(sent, 1, Len(handled))
  /\ \E due \in [0..Len(inbox) -> Len(handled)..Len(sent)] :
       /\ due[0] = Len(handled) /\ due[Len(inbox)] = Len(sent)
       /\ \A i \in 1..Len(inbox) :
            IF inbox[i].kind = "signal" THEN due[i] = due[i - 1] + 1 /\ inbox[i] = sent[due[i]]
                                        ELSE due[i] = due[i - 1]

\* Every call on its way is one that its object understands, or is for a timer that
\* systemd has unloaded since.
WellAddressed ==
  \A s \in Services : \A i \in DOMAIN bus[s] :
    Understood(bus[s][i]) \/ bus[s][i].to.path \in Units \ loaded

\* No lock stays open that nobody holds: one that has been released, or that was granted
\* too late for take_inhibitor and is in an answer that nobody waits for.
LateLockGoes ==
  \A n \in 1..(3 * MaxOps * Len(TimerUnits)) :
    (n \in locks \ inhibitor) ~> (n \notin locks \/ n \in inhibitor)
=============================================================================
