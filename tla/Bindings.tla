------------------------------ MODULE Bindings ------------------------------
(***************************************************************************)
(* The D-Bus bindings of src/dbus (generated by dbus-codegen from systemd's*)
(* introspection data): for every method of the two manager interfaces what*)
(* the stub sends and what it reads back, for every property of a timer and*)
(* every signal the type it is read as.                                    *)
(*                                                                         *)
(* Types are D-Bus signatures: s string, o object path, h file descriptor, *)
(* b boolean, y u i t integers by width and sign, a array, () struct, {}   *)
(* dictionary entry, v variant.  The stubs' names are left out, and so are *)
(* the managers' properties.                                               *)
(***************************************************************************)
\* The stubs of members S, which take arguments of signature in and return out.
Each(S, in, out) == {[member |-> m, in |-> in, out |-> out] : m \in S}

\* The structs of signals S, which carry args.
Emits(S, args) == {[member |-> m, args |-> args] : m \in S}

-----------------------------------------------------------------------------
(* org.freedesktop.login1.Manager                                          *)

LoginSessions ==
     Each({"GetSession", "GetSeat"}, "s", "o")
  \cup Each({"GetSessionByPID", "GetUser", "GetUserByPID"}, "u", "o")
  \cup Each({"ListSessions"}, "", "a(susso)") \cup Each({"ListUsers"}, "", "a(uso)")
  \cup Each({"ListSeats"}, "", "a(so)") \cup Each({"ListInhibitors"}, "", "a(ssssuu)")
  \cup Each({"ReleaseSession", "ActivateSession", "LockSession", "UnlockSession",
           "TerminateSession", "TerminateSeat"}, "s", "")
  \cup Each({"LockSessions", "UnlockSessions"}, "", "")
  \cup Each({"ActivateSessionOnSeat"}, "ss", "") \cup Each({"KillSession"}, "ssi", "")
  \cup Each({"KillUser"}, "ui", "") \cup Each({"TerminateUser"}, "u", "")
  \cup Each({"SetUserLinger"}, "ubb", "") \cup Each({"AttachDevice"}, "ssb", "")
  \cup Each({"FlushDevices"}, "b", "")

\* What logind does only when no lock forbids or delays it, by what it announces.
LoginSleeps    == {"Suspend", "Hibernate", "HybridSleep", "SuspendThenHibernate"}
LoginShutdowns == {"PowerOff", "Reboot", "Halt"}

LoginPower ==
     Each(LoginSleeps \cup LoginShutdowns, "b", "")
  \cup Each({"CanPowerOff", "CanReboot", "CanHalt", "CanSuspend", "CanHibernate",
           "CanHybridSleep", "CanSuspendThenHibernate"}, "", "s")
  \cup Each({"ScheduleShutdown"}, "st", "") \cup Each({"CancelScheduledShutdown"}, "", "b")
  \cup Each({"Inhibit"}, "ssss", "h")

LoginFirmware ==
     Each({"CanRebootParameter", "CanRebootToFirmwareSetup", "CanRebootToBootLoaderMenu",
           "CanRebootToBootLoaderEntry"}, "", "s")
  \cup Each({"SetRebootParameter", "SetRebootToBootLoaderEntry"}, "s", "")
  \cup Each({"SetRebootToFirmwareSetup"}, "b", "") \cup Each({"SetRebootToBootLoaderMenu"}, "t", "")
  \cup Each({"SetWallMessage"}, "sb", "")

SessionSignals == Emits({"SessionNew", "SessionRemoved"}, "so")
UserSignals    == Emits({"UserNew", "UserRemoved"}, "uo")
SeatSignals    == Emits({"SeatNew", "SeatRemoved"}, "so")
PrepareSignals == Emits({"PrepareForShutdown", "PrepareForSleep"}, "b")

-----------------------------------------------------------------------------
(* org.freedesktop.systemd1.Manager                                        *)

SystemdUnits ==
     Each({"GetUnit", "GetUnitByControlGroup", "LoadUnit"}, "s", "o")
  \cup Each({"GetUnitByPID"}, "u", "o") \cup Each({"GetUnitByInvocationID"}, "ay", "o")
  \cup Each({"StartUnit", "StopUnit", "ReloadUnit", "RestartUnit", "TryRestartUnit",
           "ReloadOrRestartUnit", "ReloadOrTryRestartUnit"}, "ss", "o")
  \cup Each({"StartUnitReplace"}, "sss", "o")
  \cup Each({"EnqueueUnitJob"}, "sss", "uososa(uosos)") \cup Each({"KillUnit"}, "ssi", "")

SystemdResources ==
     Each({"CleanUnit"}, "sas", "") \cup Each({"SetUnitProperties"}, "sba(sv)", "")
  \cup Each({"ResetFailedUnit", "RefUnit", "UnrefUnit", "AbandonScope"}, "s", "")
  \cup Each({"StartTransientUnit"}, "ssa(sv)a(sa(sv))", "o")
  \cup Each({"GetUnitProcesses"}, "s", "a(sus)") \cup Each({"AttachProcessesToUnit"}, "ssau", "")
  \cup Each({"GetJob"}, "u", "o") \cup Each({"GetJobAfter", "GetJobBefore"}, "u", "a(usssoo)")
  \cup Each({"CancelJob"}, "u", "") \cup Each({"ClearJobs", "ResetFailed"}, "", "")

UnitStatus == "a(ssssssouso)"

SystemdLists ==
     Each({"ListUnits"}, "", UnitStatus) \cup Each({"ListUnitsFiltered"}, "as", UnitStatus)
  \cup Each({"ListUnitsByPatterns"}, "asas", UnitStatus)
  \cup Each({"ListUnitsByNames"}, "as", UnitStatus) \cup Each({"ListJobs"}, "", "a(usssoo)")

\* What systemd does at once, whatever locks are held.
SystemdImmediate == {"Exit", "Reboot", "PowerOff", "Halt", "KExec"}

SystemdControl ==
     Each({"Subscribe", "Unsubscribe", "Reload", "Reexecute"} \cup SystemdImmediate, "", "")
  \cup Each({"Dump"}, "", "s") \cup Each({"DumpByFileDescriptor"}, "", "h")
  \cup Each({"SwitchRoot"}, "ss", "") \cup Each({"SetEnvironment", "UnsetEnvironment"}, "as", "")
  \cup Each({"UnsetAndSetEnvironment"}, "asas", "")

UnitFileChanges == "a(sss)"

SystemdUnitFiles ==
     Each({"ListUnitFiles"}, "", "a(ss)") \cup Each({"ListUnitFilesByPatterns"}, "asas", "a(ss)")
  \cup Each({"GetUnitFileState"}, "s", "s")
  \cup Each({"EnableUnitFiles", "ReenableUnitFiles", "PresetUnitFiles"}, "asbb", "ba(sss)")
  \cup Each({"PresetUnitFilesWithMode"}, "assbb", "ba(sss)")
  \cup Each({"LinkUnitFiles", "MaskUnitFiles"}, "asbb", UnitFileChanges)
  \cup Each({"DisableUnitFiles", "UnmaskUnitFiles"}, "asb", UnitFileChanges)

SystemdPresets ==
     Each({"RevertUnitFiles"}, "as", UnitFileChanges)
  \cup Each({"SetDefaultTarget"}, "sb", UnitFileChanges) \cup Each({"GetDefaultTarget"}, "", "s")
  \cup Each({"PresetAllUnitFiles"}, "sbb", UnitFileChanges)
  \cup Each({"AddDependencyUnitFiles"}, "asssbb", UnitFileChanges)
  \cup Each({"GetUnitFileLinks"}, "sb", "as") \cup Each({"SetExitCode"}, "y", "")
  \cup Each({"LookupDynamicUserByName"}, "s", "u") \cup Each({"LookupDynamicUserByUID"}, "u", "s")
  \cup Each({"GetDynamicUsers"}, "", "a(us)")

UnitSignals    == Emits({"UnitNew", "UnitRemoved"}, "so")
JobSignals     == Emits({"JobNew"}, "uos") \cup Emits({"JobRemoved"}, "uoss")
ManagerSignals ==
  Emits({"StartupFinished"}, "tttttt") \cup Emits({"UnitFilesChanged"}, "") \cup Emits({"Reloading"}, "b")

-----------------------------------------------------------------------------
(* org.freedesktop.systemd1.Timer                                          *)

\* Reading a property is a call of Properties.Get.
TimerProperties ==
     Each({"Unit", "Result"}, "ss", "s")
  \cup Each({"TimersMonotonic"}, "ss", "a(stt)") \cup Each({"TimersCalendar"}, "ss", "a(sst)")
  \cup Each({"OnClockChange", "OnTimezoneChange", "Persistent", "WakeSystem",
           "RemainAfterElapse"}, "ss", "b")
  \cup Each({"NextElapseUSecRealtime", "NextElapseUSecMonotonic", "LastTriggerUSec",
           "LastTriggerUSecMonotonic", "AccuracyUSec", "RandomizedDelayUSec"}, "ss", "t")

-----------------------------------------------------------------------------
\* Each trait's interface and its stubs.
Interfaces ==
  [Login1Manager   |-> LoginSessions \cup LoginPower \cup LoginFirmware,
   Systemd1Manager |-> SystemdUnits \cup SystemdResources \cup SystemdLists \cup SystemdControl
                         \cup SystemdUnitFiles \cup SystemdPresets,
   Systemd1Timer   |-> TimerProperties]

\* The stub of a member.
Stub(interface, member) == CHOOSE stub \in Interfaces[interface] : stub.member = member

\* The signals a matcher can be installed for.
SignalArgs ==
  [Login1Manager   |-> SessionSignals \cup UserSignals \cup SeatSignals \cup PrepareSignals,
   Systemd1Manager |-> UnitSignals \cup JobSignals \cup ManagerSignals]
=============================================================================
