--------------------------- MODULE NMainController ---------------------------
(***************************************************************************)
(* NulstarMain: it starts the processes of the managed modules and stops   *)
(* them when it ends.  After a start, and after a stop script, it waits    *)
(* half a second in an event loop of its own, in which requests are        *)
(* handled; their handlers may wait in turn, and the loop that started     *)
(* last ends first.  So the calls in progress are a stack, frames, and     *)
(* only the last may go on.                                                *)
(*                                                                         *)
(* NCoreService::fInvokeMethod calls a method with the request as its only *)
(* argument.  Of the methods of NMainController only shutdownsystem takes  *)
(* one: the others are called by main, by shutdownsystem and by the        *)
(* destructor, never to restart a module.                                  *)
(*                                                                         *)
(* The program of a module runs until it is killed or ends by itself.  The *)
(* start script of one ends at once and leaves the module running, until   *)
(* its stop script is run.                                                 *)
(***************************************************************************)
EXTENDS NModuleManager, FiniteSets

CONSTANTS
  Disks,             \* what may be installed
  AppDomain,         \* APP_DOMAIN
  AppName,           \* APP_NAME
  ServiceManager,    \* cServiceManagerName
  MaxShutdowns,      \* bound: requests for shutdownsystem
  MaxEnds            \* bound: modules that end by themselves

ASSUME MainConstants ==
  /\ MaxShutdowns \in Nat
  /\ MaxEnds \in Nat
  /\ \A d \in Disks : IsDisk(d) /\ Empty \notin d.executables

VARIABLES
  disk,             \* what is installed
  manager,          \* mModuleManager, read in the constructor
  mModulesRunning,  \* [ns, name, version] -> index of the process in processes
  processes,        \* what was started: [module, scripted, running]
  frames,           \* calls in progress, the last of them first
  returned,         \* what the call that ended last returned
  phase,            \* "boot" (main before exec), "exec", "destructor", "exited"
  quitNow,          \* quit() was called and QCoreApplication::exec has not returned since
  shutdowns,        \* requests for shutdownsystem that have come
  ends,             \* modules that have ended by themselves
  disturbed         \* a request came while the destructor stopped modules (history)

vars == <<disk, manager, mModulesRunning, processes, frames, returned, phase, quitNow,
          shutdowns, ends, disturbed>>

Index(ns, name, version) == [ns |-> ns, name |-> name, version |-> version]

Own(m) == m.ns = AppDomain /\ m.name = AppName

-----------------------------------------------------------------------------
(* Calls *)

Top == Head(frames)

(* A call that ends; its caller finds what it returned. *)
Return(value) == frames' = Tail(frames) /\ returned' = <<value>>

(* A call made by the last one, which is at another place then. *)
Call(frame, caller) == frames' = <<frame, caller>> \o Tail(frames) /\ returned' = <<>>

(* The last call goes on at another place. *)
GoTo(at) == frames' = <<[Top EXCEPT !.at = at]>> \o Tail(frames) /\ returned' = <<>>

StartModule(m) == [call |-> "startmodule", at |-> "called", module |-> m]
StopModule(m) == [call |-> "stopmodule", at |-> "called", module |-> m]

(* Mutated form: only the modules of its own namespace are stopped. *)
StopOwnNamespace ==
  [call |-> "stopallmodules", at |-> "called", ok |-> TRUE,
   rest |-> SetToSeq({m \in DOMAIN mModulesRunning : m.ns = AppDomain})]

StopAll ==
  [call |-> "stopallmodules", at |-> "called", rest |-> SetToSeq(DOMAIN mModulesRunning), ok |-> TRUE]
StartAll ==
  [call |-> "startallmodules", at |-> "called", ok |-> TRUE,
   rest |-> LET infos == [i \in DOMAIN manager.mModuleInfoList |->
                            LET m == manager.mModuleInfoList[i] IN Index(m.ns, m.name, m.version)]
            IN  SelectSeq(infos, LAMBDA m : ~Own(m))]

AtPlace(call, at) == frames # <<>> /\ Top.call = call /\ Top.at = at

(* In an event loop: of the last call, or of exec. *)
Waiting == IF frames = <<>> THEN phase = "exec" ELSE Top.at = "waiting"

-----------------------------------------------------------------------------
(* startmodule *)

Running(m) == m \in DOMAIN mModulesRunning

(* Mutated form: the table gets its entry before the process has started. *)
InsertedFirst(m, info, ok) ==
  /\ processes' = IF ~ok THEN processes
                  ELSE Append(processes, [module |-> m, scripted |-> Scripted(info), running |-> TRUE])
  /\ mModulesRunning' = [k \in DOMAIN mModulesRunning \cup {m} |->
                           IF k = m THEN Len(processes) + 1 ELSE mModulesRunning[k]]
  /\ IF ok THEN GoTo("waiting") ELSE Return(FALSE)

Started(m, info, ok) ==
  IF ok
  THEN /\ processes' = Append(processes, [module |-> m, scripted |-> Scripted(info), running |-> TRUE])
       /\ mModulesRunning' = [k \in DOMAIN mModulesRunning \cup {m} |->
                                IF k = m THEN Len(processes) + 1 ELSE mModulesRunning[k]]
       /\ GoTo("waiting")
  ELSE Return(FALSE) /\ UNCHANGED <<mModulesRunning, processes>>

(* Mutated form: a module that runs is started again. *)
StartRegardless(m) ==
  LET info == fModuleInfo(manager, m.ns, m.name, m.version)
  IN  Started(m, info, fModuleAppPath(info) \in disk.executables)

(* A module in the table is taken to be running. *)
StartIfNew(m) ==
  IF Running(m) THEN Return(TRUE) /\ UNCHANGED <<mModulesRunning, processes>>
  ELSE StartRegardless(m)

startmodule ==
  /\ AtPlace("startmodule", "called")
  /\ LET m == Top.module
         v == EffectiveVersion(manager, m.ns, m.name, m.version)
     IN  IF v = NoVersion THEN Return(FALSE) /\ UNCHANGED <<mModulesRunning, processes>>
         ELSE StartIfNew([m EXCEPT !.version = v])
  /\ UNCHANGED <<disk, manager, phase, quitNow, shutdowns, ends, disturbed>>

startmoduleWaited ==
  /\ AtPlace("startmodule", "waiting")
  /\ Return(TRUE)
  /\ UNCHANGED <<disk, manager, mModulesRunning, processes, phase, quitNow, shutdowns, ends, disturbed>>

-----------------------------------------------------------------------------
(* stopmodule; it is only called for modules in the table *)

Stopped(p, m, scripted) ==
  IF p.module = m /\ p.scripted = scripted THEN [p EXCEPT !.running = FALSE] ELSE p

AllStopped(m, scripted) == [i \in DOMAIN processes |-> Stopped(processes[i], m, scripted)]

(* close kills the program; the module may be gone from the table by now. *)
Close(m) ==
  IF Running(m)
  THEN /\ processes' = [processes EXCEPT ![mModulesRunning[m]] =
                          IF @.scripted THEN @ ELSE [@ EXCEPT !.running = FALSE]]
       /\ mModulesRunning' = [k \in DOMAIN mModulesRunning \ {m} |-> mModulesRunning[k]]
       /\ Return(TRUE)
  ELSE Return(FALSE) /\ UNCHANGED <<mModulesRunning, processes>>

(* fStopModuleByScript, and the rest at once if there is no wait. *)
stopmodule ==
  /\ AtPlace("stopmodule", "called")
  /\ LET m      == Top.module
         script == fModuleStopScript(fModuleInfo(manager, m.ns, m.name, m.version))
     IN  IF script # Empty /\ script \in disk.executables
         THEN processes' = AllStopped(m, TRUE) /\ GoTo("waiting") /\ UNCHANGED mModulesRunning
         ELSE Close(m)
  /\ UNCHANGED <<disk, manager, phase, quitNow, shutdowns, ends, disturbed>>

stopmoduleWaited ==
  /\ AtPlace("stopmodule", "waiting")
  /\ Close(Top.module)
  /\ UNCHANGED <<disk, manager, phase, quitNow, shutdowns, ends, disturbed>>

-----------------------------------------------------------------------------
(* startallmodules and stopallmodules *)

Ok == Top.ok /\ (returned # <<>> => returned[1])

Advance(frame) == Call(frame, [Top EXCEPT !.ok = Ok, !.rest = Tail(@)])

startallmodules ==
  /\ AtPlace("startallmodules", "called")
  /\ IF Top.rest = <<>> THEN Return(Ok) ELSE Advance(StartModule(Head(Top.rest)))
  /\ UNCHANGED <<disk, manager, mModulesRunning, processes, phase, quitNow, shutdowns, ends, disturbed>>

(* Once a module could not be stopped no other is: && does not look at its *)
(* second argument then.                                                   *)
stopallmodules ==
  /\ AtPlace("stopallmodules", "called")
  /\ IF Top.rest = <<>> \/ ~Ok THEN Return(Ok) ELSE Advance(StopModule(Head(Top.rest)))
  /\ UNCHANGED <<disk, manager, mModulesRunning, processes, phase, quitNow, shutdowns, ends, disturbed>>

-----------------------------------------------------------------------------
(* Requests and signals, which any event loop handles until quit() is called *)

Request ==
  /\ Waiting /\ ~quitNow
  /\ shutdowns < MaxShutdowns
  /\ shutdowns' = shutdowns + 1
  /\ disturbed' = (disturbed \/ phase = "destructor")
  /\ frames' = <<StopAll, [call |-> "shutdownsystem", at |-> "called"]>> \o frames
  /\ returned' = <<>>
  /\ UNCHANGED <<disk, manager, mModulesRunning, processes, phase, quitNow, ends>>

(* The response is sent, and all event loops are told to end. *)
shutdownsystem ==
  /\ AtPlace("shutdownsystem", "called")
  /\ quitNow' = TRUE
  /\ Return(TRUE)
  /\ UNCHANGED <<disk, manager, mModulesRunning, processes, phase, shutdowns, ends, disturbed>>

(* SIGINT or SIGTERM; main watches for them once it has started modules. *)
unixSignal ==
  /\ Waiting /\ ~quitNow /\ phase = "exec"
  /\ quitNow' = TRUE
  /\ UNCHANGED <<disk, manager, mModulesRunning, processes, frames, returned, phase, shutdowns, ends, disturbed>>

-----------------------------------------------------------------------------
(* main *)

BootStart == [call |-> "main", at |-> "startallmodules"]

Init ==
  /\ disk \in Disks
  /\ manager = fLoadModulesInfo(disk)
  /\ mModulesRunning = [m \in {} |-> 0]
  /\ processes = <<>>
  /\ frames = <<StartModule(Index(AppDomain, ServiceManager, NoVersion)), BootStart>>
  /\ returned = <<>>
  /\ phase = "boot"
  /\ quitNow = FALSE
  /\ shutdowns = 0
  /\ ends = 0
  /\ disturbed = FALSE

main ==
  /\ AtPlace("main", "startallmodules")
  /\ Call(StartAll, [Top EXCEPT !.at = "exec"])
  /\ UNCHANGED <<disk, manager, mModulesRunning, processes, phase, quitNow, shutdowns, ends, disturbed>>

(* QCoreApplication::exec forgets an earlier quit(). *)
exec ==
  /\ AtPlace("main", "exec")
  /\ Return(TRUE)
  /\ phase' = "exec"
  /\ quitNow' = FALSE
  /\ UNCHANGED <<disk, manager, mModulesRunning, processes, shutdowns, ends, disturbed>>

(* exec returns, and lController is destroyed. *)
execReturns ==
  /\ phase = "exec" /\ frames = <<>> /\ quitNow
  /\ phase' = "destructor"
  /\ quitNow' = FALSE
  /\ frames' = <<StopAll>>
  /\ returned' = <<>>
  /\ UNCHANGED <<disk, manager, mModulesRunning, processes, shutdowns, ends, disturbed>>

(* The QProcess objects are deleted last; that kills their programs. *)
exited ==
  /\ phase = "destructor" /\ frames = <<>>
  /\ phase' = "exited"
  /\ processes' = [i \in DOMAIN processes |->
                     IF processes[i].scripted THEN processes[i]
                     ELSE [processes[i] EXCEPT !.running = FALSE]]
  /\ UNCHANGED <<disk, manager, mModulesRunning, frames, returned, quitNow, shutdowns, ends, disturbed>>

(* A module ends by itself, and nothing in NulstarMain takes note of it. *)
ModuleEnds(i) ==
  /\ ends < MaxEnds
  /\ processes[i].running
  /\ processes' = [processes EXCEPT ![i].running = FALSE]
  /\ ends' = ends + 1
  /\ UNCHANGED <<disk, manager, mModulesRunning, frames, returned, phase, quitNow, shutdowns, disturbed>>

GoOn ==
  \/ startmodule
  \/ startmoduleWaited
  \/ stopmodule
  \/ stopmoduleWaited
  \/ startallmodules
  \/ stopallmodules
  \/ shutdownsystem
  \/ main
  \/ exec
  \/ execReturns
  \/ exited

Next ==
  \/ GoOn
  \/ Request
  \/ unixSignal
  \/ \E i \in DOMAIN processes : ModuleEnds(i)

Spec == Init /\ [][Next]_vars

(* Timers fire, and code that does not wait goes on. *)
FairSpec == Spec /\ WF_vars(GoOn)

-----------------------------------------------------------------------------
(* Properties *)

(* No stop script is missing. *)
Stoppable(m) ==
  LET info == fModuleInfo(manager, m.ns, m.name, m.version)
  IN  Scripted(info) => fModuleStopScript(info) \in disk.executables

TypeOK ==
  /\ \A m \in DOMAIN mModulesRunning : mModulesRunning[m] \in DOMAIN processes
  /\ \A i \in DOMAIN processes : {processes[i].scripted, processes[i].running} \subseteq BOOLEAN
  /\ returned \in {<<>>, <<TRUE>>, <<FALSE>>}
  /\ phase \in {"boot", "exec", "destructor", "exited"}
  /\ quitNow \in BOOLEAN
  /\ disturbed \in BOOLEAN
  /\ shutdowns \in 0 .. MaxShutdowns
  /\ ends \in 0 .. MaxEnds

(***************************************************************************)
(* What runs is in the table, under its own name, so that no version of a  *)
(* module runs twice, and a module can be stopped as long as it runs: none *)
(* is started over one that runs, whatever handlers run within the waits.  *)
(* A module is not lost between its stop script and its removal either.    *)
(***************************************************************************)
OneProcess ==
  \A i \in DOMAIN processes :
    processes[i].running /\ Stoppable(processes[i].module) =>
      /\ processes[i].module \in DOMAIN mModulesRunning
      /\ mModulesRunning[processes[i].module] = i

(***************************************************************************)
(* What NulstarMain knows after it has read the configuration files: which *)
(* modules are managed, and the scripts that start and stop them, a more   *)
(* specific file overriding the others.                                    *)
(***************************************************************************)
ConfigurationRead == KnowsManaged(manager, disk) /\ KnowsScripts(manager, disk)

(***************************************************************************)
(* Once quit() is called in exec, by a signal or by shutdownsystem and     *)
(* however many handlers are waiting then, the program ends, and no module *)
(* it started runs any longer, unless a request came while the destructor  *)
(* was stopping them.                                                      *)
(***************************************************************************)
ShutdownStops ==
  (quitNow /\ phase = "exec")
    ~> (phase = "exited" /\ (disturbed \/ \A i \in DOMAIN processes :
                               processes[i].running => ~Stoppable(processes[i].module)))
=============================================================================
