------------------------- MODULE NightKitchenProofs -------------------------
(***************************************************************************)
(* Theorems about NightKitchen, for any number of runners, any windows and *)
(* any bounds.                                                             *)
(***************************************************************************)
EXTENDS NightKitchen, TLAPS

\* Nothing has happened later than now; and unless the scheduler was slow, neither
\* the file nor the scheduler's local variable is later than the latest resume.
StampInv ==
  /\ bootedAt <= now /\ resumedAt <= now /\ timestamp <= now
  /\ file = "written" /\ ~slow => stamp <= resumedAt
  /\ scheduler = "write" /\ ~slow => timestamp <= resumedAt

IInv == TypeOK /\ StampInv /\ InnocentLeftAlone

-----------------------------------------------------------------------------
\* No runner is active, nothing is counted.
LEMMA NoRunner ==
  /\ 0 \in Times /\ 0 \in 0..MaxHeard
  /\ [r \in Runners |-> "inactive"] \in [Runners -> PCs]
  /\ [r \in Runners |-> 0] \in [Runners -> Times]
  /\ [r \in Runners |-> FALSE] \in [Runners -> BOOLEAN]
<1>1. 0 \in Times /\ 0 \in 0..MaxHeard /\ "inactive" \in PCs
  BY WindowsAssumption DEF Times, PCs
<1> QED BY <1>1, Zenon

LEMMA InitInv == Init => IInv
<1> SUFFICES ASSUME Init PROVE IInv
  OBVIOUS
<1>2. TypeOK
  <2>1. /\ pc \in [Runners -> PCs] /\ startTime \in [Runners -> Times]
        /\ shouldShutdown \in [Runners -> BOOLEAN]
    BY NoRunner, Zenon DEF Init
  <2>2. /\ directory \in BOOLEAN /\ slow \in BOOLEAN
        /\ file # "missing" => directory
    BY Zenon DEF Init
  <2>3. /\ power \in {"up", "asleep", "off"} /\ op \in {"none", "sleep", "shutdown"}
        /\ file \in {"missing", "empty", "written"}
        /\ scheduler \in {"dead", "idle", "write"}
        /\ due \subseteq Runners /\ tasks \subseteq Runners
        /\ by \subseteq Runners /\ owed \subseteq Runners
    BY DEF Init
  <2>4. /\ now \in Times /\ bootedAt \in Times /\ resumedAt \in Times
        /\ stamp \in Times /\ timestamp \in Times /\ heard \in 0..MaxHeard
    BY NoRunner, Zenon DEF Init
  <2>5. stamp <= now
    BY DEF Init
  <2> QED BY <2>1, <2>2, <2>3, <2>4, <2>5, Zenon DEF TypeOK
<1>3. StampInv
  BY DEF Init, StampInv
<1>4. InnocentLeftAlone
  BY DEF Init, InnocentLeftAlone
<1> QED BY <1>2, <1>3, <1>4 DEF IInv

\* The steps that change what the machine, the clock and the scheduler remember.
LEMMA TypeNext == TypeOK /\ StampInv /\ [Next]_vars => TypeOK'
<1> SUFFICES ASSUME TypeOK, StampInv, [Next]_vars PROVE TypeOK'
  OBVIOUS
<1> USE WindowsAssumption
    DEF TypeOK, Times, PCs, machine, clock, files, daemon, runner
<1>0. ASSUME RemoveDirectory, UNCHANGED now
      PROVE  /\ directory' \in BOOLEAN /\ file' \in {"missing", "empty", "written"}
             /\ stamp' \in Times /\ stamp' <= now' /\ (file' # "missing" => directory')
  <2>1. 0 \in Times /\ 0 <= now
    OBVIOUS
  <2>2. stamp' = 0 /\ directory' = FALSE /\ file' = "missing"
    BY <1>0, Zenon DEF RemoveDirectory
  <2> QED BY <1>0, <2>1, <2>2
<1>1. CASE Tick
  BY <1>1 DEF Tick
<1>2. ASSUME NEW o \in {"sleep", "shutdown"}, UserRequests(o) PROVE TypeOK'
  BY <1>2 DEF UserRequests, Request
<1>3. CASE Suspend
  BY <1>3 DEF Suspend
<1>4. CASE PowerOff
  <2>1. /\ pc' \in [Runners -> PCs] /\ startTime' \in [Runners -> Times]
        /\ shouldShutdown' \in [Runners -> BOOLEAN]
    BY <1>4, NoRunner, Zenon DEF PowerOff
  <2>2. 0 <= now
    OBVIOUS
  <2> QED BY <1>0, <1>4, <2>1, <2>2, NoRunner DEF PowerOff
<1>5. ASSUME NEW R \in SUBSET Runners, Resume(R) PROVE TypeOK'
  BY <1>5 DEF Resume, Rouse
<1>6. ASSUME NEW R \in SUBSET Runners, Boot(R) PROVE TypeOK'
  BY <1>6 DEF Boot, Rouse
<1>7. ASSUME NEW r \in Runners, Elapse(r) PROVE TypeOK'
  BY <1>7 DEF Elapse
<1>8. ASSUME NEW r \in Runners, StartService(r) PROVE TypeOK'
  BY <1>8 DEF StartService, MakeDirectory
<1>9. ASSUME NEW r \in Runners, TasksEnd(r) PROVE TypeOK'
  BY <1>9 DEF TasksEnd
<1>10. CASE StartScheduler
  BY <1>10 DEF StartScheduler, MakeDirectory
<1>11. CASE StopScheduler
  BY <1>0, <1>11 DEF StopScheduler
<1>12. CASE CreateStamp
  <2>1. slow' \in BOOLEAN
    BY <1>12, Zenon DEF CreateStamp
  <2>2. heard' \in 0..MaxHeard
    BY <1>12 DEF CreateStamp
  <2> QED BY <1>12, <2>1, <2>2 DEF CreateStamp
<1>13. CASE WriteStamp
  BY <1>13 DEF WriteStamp, Opened, StampInv
<1>14. ASSUME NEW r \in Runners, Begin(r) PROVE TypeOK'
  <2>1. shouldShutdown' \in [Runners -> BOOLEAN]
    <3>1. CausedBoot \in BOOLEAN
      BY DEF CausedBoot
    <3>2. \/ shouldShutdown' = [shouldShutdown EXCEPT ![r] = CausedBoot]
          \/ shouldShutdown' = [shouldShutdown EXCEPT ![r] = FALSE]
      BY <1>14, Zenon DEF Begin
    <3> QED BY <3>1, <3>2, Zenon
  <2>2. owed' \subseteq Runners
    BY <1>14 DEF Begin, Excuse
  <2> QED BY <1>14, <2>1, <2>2 DEF Begin, At, Goto
<1>15. ASSUME NEW r \in Runners, StartTasks(r) PROVE TypeOK'
  BY <1>15 DEF StartTasks, Goto
<1>16. ASSUME NEW r \in Runners, Leave(r) 
       PROVE  /\ pc' \in [Runners -> PCs] /\ startTime' \in [Runners -> Times]
              /\ shouldShutdown' \in [Runners -> BOOLEAN]
  BY <1>16 DEF Leave, Goto
<1>17. ASSUME NEW r \in Runners, NEW why \in BOOLEAN, Excuse(r, why) PROVE owed' \subseteq Runners
  BY <1>17 DEF Excuse
<1>18. ASSUME NEW r \in Runners, ReadStamp(r) PROVE TypeOK'
  <2>1. /\ pc' \in [Runners -> PCs] /\ startTime' \in [Runners -> Times]
        /\ shouldShutdown' \in [Runners -> BOOLEAN]
    BY <1>16, <1>18 DEF ReadStamp, Goto
  <2> QED BY <1>17, <1>18, <2>1 DEF ReadStamp
<1>19. ASSUME NEW r \in Runners, NEW o \in {"sleep", "shutdown"}, Ask(r, o) PROVE TypeOK'
  BY <1>16, <1>19 DEF Ask, Request
<1>20. ASSUME NEW r \in Runners, Fails(r) PROVE TypeOK'
  BY <1>16, <1>17, <1>20 DEF Fails
<1>21. ASSUME NEW r \in Runners, Exit(r) PROVE TypeOK'
  BY <1>0, <1>21 DEF Exit, At, Goto
<1>22. CASE UNCHANGED vars
  BY <1>22 DEF vars
<1> QED
  BY <1>1, <1>2, <1>3, <1>4, <1>5, <1>6, <1>7, <1>8, <1>9, <1>10, <1>11, <1>12, <1>13,
     <1>14, <1>15, <1>18, <1>19, <1>20, <1>21, <1>22, Zenon
  DEF Next, GoesDown, Runs, AskShutdown, AskSuspend

-----------------------------------------------------------------------------
\* The stamp is that of the latest resume or of an older one.
LEMMA StampNext == TypeOK /\ StampInv /\ [Next]_vars => StampInv'
<1> SUFFICES ASSUME TypeOK, StampInv, [Next]_vars PROVE StampInv'
  OBVIOUS
<1> USE DEF TypeOK, Times, StampInv, machine, clock, files, daemon, runner
<1>1. CASE UNCHANGED <<clock, files, daemon>>
  BY <1>1
<1>2. ASSUME UNCHANGED <<clock, daemon>>,
             UNCHANGED <<file, stamp>> \/ file' = "missing"
      PROVE  StampInv'
  BY <1>2
<1>3. CASE Tick
  BY <1>3 DEF Tick
<1>4. CASE PowerOff
  BY <1>4 DEF PowerOff, RemoveDirectory
<1>5. ASSUME NEW R, Resume(R) \/ Boot(R) PROVE StampInv'
  BY <1>5 DEF Resume, Boot, Rouse
<1>6. CASE StartScheduler
  BY <1>6 DEF StartScheduler, MakeDirectory
<1>7. CASE StopScheduler
  BY <1>7 DEF StopScheduler, RemoveDirectory
<1>8. CASE CreateStamp
  <2>1. ~slow' => ~slow /\ ~(now > resumedAt)
    BY <1>8, Zenon DEF CreateStamp
  <2>2. /\ UNCHANGED clock
        /\ \/ scheduler' = "write" /\ timestamp' = now /\ file' = "empty"
           \/ UNCHANGED <<scheduler, timestamp, file, stamp>>
    BY <1>8 DEF CreateStamp
  <2> QED BY <2>1, <2>2
<1>9. CASE WriteStamp
  BY <1>9 DEF WriteStamp, Opened
<1>10. ASSUME NEW r \in Runners, Runs(r) \/ Fails(r) \/ Elapse(r) PROVE StampInv'
  <2>1. /\ UNCHANGED <<clock, daemon>>
        /\ UNCHANGED <<file, stamp>> \/ file' = "missing"
    BY <1>10
    DEF Runs, Fails, Elapse, StartService, MakeDirectory, Begin, StartTasks, TasksEnd,
        ReadStamp, AskShutdown, AskSuspend, Ask, Exit, RemoveDirectory
  <2> QED BY <1>2, <2>1
<1>11. CASE Suspend \/ \E o \in {"sleep", "shutdown"} : UserRequests(o)
  BY <1>1, <1>11 DEF Suspend, UserRequests
<1>12. CASE UNCHANGED vars
  BY <1>1, <1>12 DEF vars
<1> QED
  BY <1>3, <1>4, <1>5, <1>6, <1>7, <1>8, <1>9, <1>10, <1>11, <1>12, Zenon
  DEF Next, GoesDown

\* Only main's first lines and its return touch what a runner has decided about.
LEMMA InnocentNext == IInv /\ [Next]_vars => InnocentLeftAlone'
<1> SUFFICES ASSUME IInv, [Next]_vars, NEW r \in Runners
             PROVE  /\ shouldShutdown'[r] => startTime'[r] < bootedAt' + MinInnocentUptime
                    /\ pc'[r] = "suspend" /\ ~slow' =>
                         startTime'[r] < resumedAt' + MinInnocentWaketime
  BY DEF InnocentLeftAlone
<1> DEFINE Fair(u, t, p, w, b, a) ==
             /\ u => t < b + MinInnocentUptime
             /\ p = "suspend" /\ ~w => t < a + MinInnocentWaketime
<1> USE WindowsAssumption DEF IInv, TypeOK, Times, StampInv, InnocentLeftAlone,
                              machine, clock, files, daemon, runner
<1>1. ASSUME shouldShutdown'[r] => shouldShutdown[r],
             startTime'[r] = startTime[r], pc'[r] = "suspend" => pc[r] = "suspend",
             pc'[r] = "suspend" /\ slow => slow',
             bootedAt' \in Times, bootedAt' >= bootedAt,
             resumedAt' \in Times, resumedAt' >= resumedAt
      PROVE  Fair(shouldShutdown'[r], startTime'[r], pc'[r], slow', bootedAt', resumedAt')
  BY <1>1
<1>2. CASE UNCHANGED <<pc, startTime, shouldShutdown>> /\ UNCHANGED <<clock, slow>>
  BY <1>1, <1>2
<1>3. CASE Tick \/ Suspend \/ \E o \in {"sleep", "shutdown"} : UserRequests(o)
  BY <1>1, <1>3 DEF Tick, Suspend, UserRequests
<1>4. CASE PowerOff
  BY <1>4 DEF PowerOff
<1>5. ASSUME NEW R, Resume(R) \/ Boot(R) PROVE
        Fair(shouldShutdown'[r], startTime'[r], pc'[r], slow', bootedAt', resumedAt')
  BY <1>1, <1>5 DEF Resume, Boot, Rouse
<1>6. CASE StartScheduler \/ StopScheduler \/ WriteStamp
  BY <1>2, <1>6 DEF StartScheduler, StopScheduler, WriteStamp
<1>7. CASE CreateStamp
  <2>1. slow => slow'
    BY <1>7, Zenon DEF CreateStamp
  <2> QED BY <1>1, <1>7, <2>1 DEF CreateStamp
<1>8. ASSUME NEW s \in Runners, Runs(s) \/ Fails(s) \/ Elapse(s)
      PROVE  Fair(shouldShutdown'[r], startTime'[r], pc'[r], slow', bootedAt', resumedAt')
  <2>1. UNCHANGED <<clock, slow>>
    BY <1>8
    DEF Runs, Fails, Elapse, StartService, Begin, StartTasks, TasksEnd,
        ReadStamp, AskShutdown, AskSuspend, Ask, Exit
  <2>2. CASE s # r
    <3>1. /\ pc'[r] = pc[r] /\ startTime'[r] = startTime[r]
          /\ shouldShutdown'[r] = shouldShutdown[r]
      BY <1>8, <2>2
      DEF Runs, Fails, Elapse, StartService, Begin, StartTasks, TasksEnd,
          ReadStamp, AskShutdown, AskSuspend, Ask, Exit, Leave, Goto
    <3> QED BY <1>1, <2>1, <3>1
  <2>3. ASSUME Leave(r)
        PROVE  Fair(shouldShutdown'[r], startTime'[r], pc'[r], slow', bootedAt', resumedAt')
    BY <2>3 DEF Leave, Goto
  <2>4. CASE Begin(r)
    <3>1. shouldShutdown'[r] => now < bootedAt + MinInnocentUptime
      <4>1. \/ shouldShutdown' = [shouldShutdown EXCEPT ![r] = CausedBoot]
            \/ shouldShutdown' = [shouldShutdown EXCEPT ![r] = FALSE]
        BY <2>4, Zenon DEF Begin
      <4>2. shouldShutdown'[r] => CausedBoot
        BY <4>1, Zenon
      <4> QED BY <4>2 DEF CausedBoot
    <3>2. pc'[r] = "start" /\ startTime'[r] = now
      BY <2>4 DEF Begin, Goto
    <3> QED BY <2>1, <3>1, <3>2
  <2>5. CASE ReadStamp(r)
    <3>1. CASE CausedWake(r) /\ Goto(r, "suspend") /\ UNCHANGED <<startTime, shouldShutdown>>
      <4>1. ~slow => startTime[r] < resumedAt + MinInnocentWaketime
        BY <3>1 DEF CausedWake
      <4> QED BY <2>1, <3>1, <4>1
    <3> QED BY <2>3, <2>5, <3>1 DEF ReadStamp
  <2>6. CASE StartService(r) \/ StartTasks(r) \/ TasksEnd(r) \/ Exit(r) \/ Elapse(r)
    BY <1>1, <2>1, <2>6 DEF StartService, StartTasks, TasksEnd, Exit, Elapse, Goto
  <2>7. CASE AskShutdown(r) \/ AskSuspend(r) \/ Fails(r)
    BY <2>3, <2>7 DEF AskShutdown, AskSuspend, Ask, Fails
  <2> QED BY <1>8, <2>2, <2>4, <2>5, <2>6, <2>7, Zenon DEF Runs
<1>9. CASE UNCHANGED vars
  BY <1>2, <1>9 DEF vars
<1> QED
  BY <1>3, <1>4, <1>5, <1>6, <1>7, <1>8, <1>9, Zenon DEF Next, GoesDown

\* The inductive invariant of the whole.
THEOREM Inductive == Spec => []IInv
<1>1. IInv /\ [Next]_vars => IInv'
  BY TypeNext, StampNext, InnocentNext DEF IInv
<1> QED BY <1>1, InitInv, PTL DEF Spec

\* TypeOK: the file is in the directory, and its stamp is not from the future.
THEOREM TypeCorrect == Spec => []TypeOK
<1>1. IInv => TypeOK
  BY DEF IInv
<1> QED BY <1>1, Inductive, PTL

\* A runner leaves a machine alone that booted or resumed long before it started,
\* whatever the other runners, the users and the scheduler do meanwhile
\* (InnocentLeftAlone).
THEOREM InnocentIsLeftAlone == Spec => []InnocentLeftAlone
<1>1. IInv => InnocentLeftAlone
  BY DEF IInv
<1> QED BY <1>1, Inductive, PTL
=============================================================================
