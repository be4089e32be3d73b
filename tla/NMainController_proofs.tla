----------------------- MODULE NMainController_proofs -----------------------
(***************************************************************************)
(* Proofs about NulstarMain, for every installation and however often      *)
(* shutdownsystem is requested within the waits of its own handlers.       *)
(*                                                                         *)
(* What the processes do needs the shape of the stack of calls and what a  *)
(* waiting stopmodule relies on, and nothing of how the configuration      *)
(* files are read. The second part is about that alone: what a series of   *)
(* files leaves in the parameters of a module, and which modules           *)
(* fScanManagedModules lists. The recursive functions it reads by          *)
(* (ReadNcf, FlattenSeq) are followed with AllNumbers, which is induction  *)
(* stated with a set of numbers.                                           *)
(***************************************************************************)
EXTENDS NMainController, FiniteSetTheorems, SequenceTheorems, WellFoundedInduction, TLAPS

IsSeq(s) == \E S : s \in Seq(S)

(* A call in progress. *)
OfModule(f) ==
  \E m : \E call \in {"startmodule", "stopmodule"}, at \in {"called", "waiting"} :
    f = [call |-> call, at |-> at, module |-> m]

OfAll(f) ==
  \E rest : \E call \in {"startallmodules", "stopallmodules"}, ok \in BOOLEAN :
    f = [call |-> call, at |-> "called", rest |-> rest, ok |-> ok]

OfShutdown(f) == f = [call |-> "shutdownsystem", at |-> "called"]

OfMain(f) == \E at \in {"startallmodules", "exec"} : f = [call |-> "main", at |-> at]

FrameTyped(f) == OfModule(f) \/ OfAll(f) \/ OfShutdown(f) \/ OfMain(f)

FramesTyped == IsSeq(frames) /\ \A i \in DOMAIN frames : FrameTyped(frames[i])

(* Below a call that starts something there are only calls that do: no     *)
(* handler of a request starts a module.                                   *)
StartsAtTheBottom ==
  \A i, j \in DOMAIN frames :
    i < j /\ frames[i].call \in {"startmodule", "startallmodules", "main"} =>
      frames[j].call \in {"startallmodules", "main"}

(* While stopmodule waits, what the stop script has stopped stays so. *)
StoppedByScript ==
  \A i \in DOMAIN frames :
    frames[i].call = "stopmodule" /\ frames[i].at = "waiting" =>
      \A p \in DOMAIN processes :
        processes[p].module = frames[i].module /\ processes[p].scripted => ~processes[p].running

ProcessesTyped ==
  /\ IsSeq(processes)
  /\ \A p \in DOMAIN processes :
       processes[p] = [module |-> processes[p].module, scripted |-> processes[p].scripted,
                       running |-> processes[p].running]

Info(m) == fModuleInfo(manager, m.ns, m.name, m.version)

(* A module is started the way it is configured, and so is it stopped. *)
StartedAsConfigured ==
  \A p \in DOMAIN processes : processes[p].scripted = Scripted(Info(processes[p].module))

(* The inductive invariant. *)
IInv ==
  /\ TypeOK
  /\ disk \in Disks
  /\ FramesTyped
  /\ StartsAtTheBottom
  /\ StoppedByScript
  /\ ProcessesTyped
  /\ StartedAsConfigured
  /\ OneProcess

-----------------------------------------------------------------------------
(* The stack of calls *)

(* The last call is the first of the stack. *)
LEMMA TopIsFirst ==
  ASSUME FramesTyped, frames # << >>
  PROVE  1 \in DOMAIN frames /\ Top = frames[1] /\ FrameTyped(Top)
BY DEF FramesTyped, IsSeq, Top

(* Return takes the last call away. *)
LEMMA TailPlaces ==
  ASSUME FramesTyped, frames # << >>, frames' = Tail(frames)
  PROVE  /\ IsSeq(frames')
         /\ \A i \in DOMAIN frames' : i + 1 \in DOMAIN frames /\ frames'[i] = frames[i + 1]
BY DEF FramesTyped, IsSeq

(* GoTo puts another call in the place of the last one. *)
LEMMA ReplacedPlaces ==
  ASSUME FramesTyped, frames # << >>, NEW f, frames' = <<f>> \o Tail(frames)
  PROVE  /\ IsSeq(frames')
         /\ DOMAIN frames' = DOMAIN frames
         /\ frames'[1] = f
         /\ \A i \in DOMAIN frames' : i # 1 => frames'[i] = frames[i]
<1>1. PICK S : frames \in Seq(S)
  BY DEF FramesTyped, IsSeq
<1>2. frames' \in Seq(S \cup {f})
  BY <1>1
<1> QED
  BY <1>1, <1>2 DEF IsSeq

(* Call puts one on top of it. *)
LEMMA CalledPlaces ==
  ASSUME FramesTyped, frames # << >>, NEW f, NEW g, frames' = <<f, g>> \o Tail(frames)
  PROVE  /\ IsSeq(frames')
         /\ 1 \in DOMAIN frames' /\ 2 \in DOMAIN frames'
         /\ frames'[1] = f
         /\ frames'[2] = g
         /\ \A i \in DOMAIN frames' :
              i \notin {1, 2} => i - 1 \in DOMAIN frames /\ i - 1 > 1 /\ frames'[i] = frames[i - 1]
<1>1. PICK S : frames \in Seq(S)
  BY DEF FramesTyped, IsSeq
<1>2. frames' \in Seq(S \cup {f, g})
  BY <1>1
<1> QED
  BY <1>1, <1>2 DEF IsSeq

(* A request puts two calls on top of all. *)
LEMMA RequestPlaces ==
  ASSUME FramesTyped, NEW f, NEW g, frames' = <<f, g>> \o frames
  PROVE  /\ IsSeq(frames')
         /\ frames'[1] = f
         /\ frames'[2] = g
         /\ \A i \in DOMAIN frames' :
              i \notin {1, 2} => i - 2 \in DOMAIN frames /\ frames'[i] = frames[i - 2]
<1>1. PICK S : frames \in Seq(S)
  BY DEF FramesTyped, IsSeq
<1>2. frames' \in Seq(S \cup {f, g})
  BY <1>1
<1> QED
  BY <1>1, <1>2 DEF IsSeq

-----------------------------------------------------------------------------
(* What the steps make of the stack *)

(* No stopmodule starts to wait. *)
NoneBeginsToWait ==
  \A i \in DOMAIN frames' :
    frames'[i].call = "stopmodule" /\ frames'[i].at = "waiting" =>
      \E j \in DOMAIN frames : frames[j] = frames'[i]

(* The stack is one of calls, with those that start something below. *)
Stack == FramesTyped /\ StartsAtTheBottom

(* A call that returns leaves the stack below it as it was. *)
LEMMA ReturnStack ==
  ASSUME Stack, frames # << >>, frames' = Tail(frames)
  PROVE  Stack' /\ NoneBeginsToWait
<1>1. /\ IsSeq(frames')
      /\ \A i \in DOMAIN frames' : i + 1 \in DOMAIN frames /\ frames'[i] = frames[i + 1]
  BY TailPlaces DEF Stack
<1>2. \A i \in DOMAIN frames' : i \in Nat
  BY <1>1 DEF IsSeq
<1>3. FramesTyped'
  BY <1>1 DEF Stack, FramesTyped
<1>4. StartsAtTheBottom'
  <2> SUFFICES ASSUME NEW i \in DOMAIN frames', NEW j \in DOMAIN frames', i < j,
                      frames'[i].call \in {"startmodule", "startallmodules", "main"}
               PROVE  frames'[j].call \in {"startallmodules", "main"}
    BY DEF StartsAtTheBottom
  <2>1. i + 1 < j + 1
    BY <1>2
  <2> QED
    BY <2>1, <1>1 DEF Stack, StartsAtTheBottom
<1>5. NoneBeginsToWait
  BY <1>1 DEF NoneBeginsToWait
<1> QED
  BY <1>3, <1>4, <1>5 DEF Stack

(* A call that waits stays where it is, and the rest of the stack with it. *)
LEMMA WaitStack ==
  ASSUME Stack, frames # << >>, OfModule(Top),
         frames' = <<[Top EXCEPT !.at = "waiting"]>> \o Tail(frames)
  PROVE  /\ Stack'
         /\ 1 \in DOMAIN frames'
         /\ frames'[1] = [call |-> Top.call, at |-> "waiting", module |-> Top.module]
         /\ \A i \in DOMAIN frames' : i # 1 => i \in DOMAIN frames /\ frames'[i] = frames[i]
<1>1. PICK f : f = [Top EXCEPT !.at = "waiting"]
  OBVIOUS
<1>2. f = [call |-> Top.call, at |-> "waiting", module |-> Top.module] /\ OfModule(f)
  <2>1. PICK m : \E call \in {"startmodule", "stopmodule"}, at \in {"called", "waiting"} :
          Top = [call |-> call, at |-> at, module |-> m]
    BY DEF OfModule
  <2>2. PICK call \in {"startmodule", "stopmodule"}, at \in {"called", "waiting"} :
          Top = [call |-> call, at |-> at, module |-> m]
    BY <2>1
  <2>3. f = [call |-> call, at |-> "waiting", module |-> m]
    BY <2>2, <1>1
  <2> QED
    BY <2>2, <2>3 DEF OfModule
<1>3. /\ IsSeq(frames')
      /\ DOMAIN frames' = DOMAIN frames
      /\ frames'[1] = f
      /\ \A i \in DOMAIN frames' : i # 1 => frames'[i] = frames[i]
  BY <1>1, ReplacedPlaces DEF Stack
<1>4. 1 \in DOMAIN frames /\ Top = frames[1]
  BY TopIsFirst DEF Stack
<1>5. FramesTyped'
  BY <1>2, <1>3 DEF Stack, FramesTyped, FrameTyped
<1>6. \A i \in DOMAIN frames' : frames'[i].call = frames[i].call
  BY <1>2, <1>3, <1>4
<1>7. StartsAtTheBottom'
  BY <1>3, <1>6 DEF Stack, StartsAtTheBottom
<1> QED
  BY <1>2, <1>3, <1>4, <1>5, <1>7 DEF Stack

(* A call that calls another takes its place below the called one. *)
LEMMA CallStack ==
  ASSUME Stack, frames # << >>, NEW f, NEW g, FrameTyped(f), FrameTyped(g),
         frames' = <<f, g>> \o Tail(frames),
         g.call = Top.call, f.at = "called", g.call # "stopmodule", g.call # "startmodule",
         f.call \in {"startmodule", "startallmodules", "main"}
           => g.call \in {"startallmodules", "main"}
  PROVE  Stack' /\ NoneBeginsToWait
<1>1. /\ IsSeq(frames')
      /\ 1 \in DOMAIN frames' /\ 2 \in DOMAIN frames'
      /\ frames'[1] = f
      /\ frames'[2] = g
      /\ \A i \in DOMAIN frames' :
           i \notin {1, 2} => i - 1 \in DOMAIN frames /\ i - 1 > 1 /\ frames'[i] = frames[i - 1]
  BY CalledPlaces DEF Stack
<1>2. \A i \in DOMAIN frames' : i \in Nat \ {0}
  BY <1>1 DEF IsSeq
<1>3. 1 \in DOMAIN frames /\ Top = frames[1]
  BY TopIsFirst DEF Stack
<1>4. FramesTyped'
  BY <1>1 DEF Stack, FramesTyped
<1>5. StartsAtTheBottom'
  <2> SUFFICES ASSUME NEW i \in DOMAIN frames', NEW j \in DOMAIN frames', i < j,
                      frames'[i].call \in {"startmodule", "startallmodules", "main"}
               PROVE  frames'[j].call \in {"startallmodules", "main"}
    BY DEF StartsAtTheBottom
  <2>1. \A k \in DOMAIN frames :
          k > 1 /\ Top.call \in {"startmodule", "startallmodules", "main"} =>
            frames[k].call \in {"startallmodules", "main"}
    BY <1>3 DEF Stack, StartsAtTheBottom
  <2>2. CASE i = 1 /\ j = 2
    BY <2>2, <1>1
  <2>3. CASE i \in {1, 2} /\ j # 2
    <3>1. j \notin {1, 2}
      BY <2>3, <1>2
    <3>2. Top.call \in {"startmodule", "startallmodules", "main"}
      BY <2>3, <1>1
    <3> QED
      BY <3>1, <3>2, <2>1, <1>1
  <2>4. CASE i \notin {1, 2}
    <3>1. j \notin {1, 2} /\ i - 1 < j - 1
      BY <2>4, <1>2
    <3> QED
      BY <3>1, <2>4, <1>1 DEF Stack, StartsAtTheBottom
  <2> QED
    BY <2>2, <2>3, <2>4, <1>2
<1>6. NoneBeginsToWait
  BY <1>1 DEF NoneBeginsToWait
<1> QED
  BY <1>4, <1>5, <1>6 DEF Stack

(* A request is handled on top of everything that waits. *)
LEMMA RequestStack ==
  ASSUME Stack, NEW f, NEW g, FrameTyped(f), FrameTyped(g), frames' = <<f, g>> \o frames,
         f.call = "stopallmodules", g.call = "shutdownsystem"
  PROVE  Stack' /\ NoneBeginsToWait
<1>1. /\ IsSeq(frames')
      /\ frames'[1] = f
      /\ frames'[2] = g
      /\ \A i \in DOMAIN frames' :
           i \notin {1, 2} => i - 2 \in DOMAIN frames /\ frames'[i] = frames[i - 2]
  BY RequestPlaces DEF Stack
<1>2. \A i \in DOMAIN frames' : i \in Nat \ {0}
  BY <1>1 DEF IsSeq
<1>3. FramesTyped'
  BY <1>1 DEF Stack, FramesTyped
<1>4. StartsAtTheBottom'
  <2> SUFFICES ASSUME NEW i \in DOMAIN frames', NEW j \in DOMAIN frames', i < j,
                      frames'[i].call \in {"startmodule", "startallmodules", "main"}
               PROVE  frames'[j].call \in {"startallmodules", "main"}
    BY DEF StartsAtTheBottom
  <2>1. i \notin {1, 2}
    BY <1>1
  <2>2. j \notin {1, 2} /\ i - 2 < j - 2
    BY <2>1, <1>2
  <2> QED
    BY <2>1, <2>2, <1>1 DEF Stack, StartsAtTheBottom
<1>5. NoneBeginsToWait
  BY <1>1 DEF NoneBeginsToWait
<1> QED
  BY <1>3, <1>4, <1>5 DEF Stack

-----------------------------------------------------------------------------
(* What the steps make of the processes *)

(* Processes that run no longer, or that go on as they did. *)
OnlyStops ==
  /\ ProcessesTyped'
  /\ DOMAIN processes' = DOMAIN processes
  /\ \A p \in DOMAIN processes :
       /\ processes'[p].module = processes[p].module
       /\ processes'[p].scripted = processes[p].scripted
       /\ processes'[p].running \in BOOLEAN
       /\ processes'[p].running => processes[p].running

(* Where no process changes, none starts or changes its module. *)
LEMMA NothingStops ==
  ASSUME TypeOK, ProcessesTyped, UNCHANGED processes
  PROVE  OnlyStops
BY DEF TypeOK, ProcessesTyped, OnlyStops

(* What holds of the processes still does when some of them stop. *)
LEMMA StoppingProcesses ==
  ASSUME TypeOK, StartedAsConfigured, OnlyStops, UNCHANGED manager
  PROVE  /\ StartedAsConfigured'
         /\ \A p \in DOMAIN processes' :
              {processes'[p].scripted, processes'[p].running} \subseteq BOOLEAN
BY DEF TypeOK, StartedAsConfigured, OnlyStops, Info

(* Processes that stop are no reason for a stop script to have failed. *)
LEMMA StoppingScripts ==
  ASSUME StoppedByScript, OnlyStops, NoneBeginsToWait
  PROVE  StoppedByScript'
<1> SUFFICES ASSUME NEW i \in DOMAIN frames', frames'[i].call = "stopmodule",
                    frames'[i].at = "waiting", NEW p \in DOMAIN processes',
                    processes'[p].module = frames'[i].module, processes'[p].scripted
             PROVE  ~processes'[p].running
  BY DEF StoppedByScript
<1>1. PICK j \in DOMAIN frames : frames[j] = frames'[i]
  BY DEF NoneBeginsToWait
<1>2. p \in DOMAIN processes /\ processes[p].module = frames[j].module /\ processes[p].scripted
  BY <1>1 DEF OnlyStops
<1>3. ~processes[p].running
  BY <1>1, <1>2 DEF StoppedByScript
<1> QED
  BY <1>2, <1>3 DEF OnlyStops

(* Processes that stop keep the table true: what runs is still known. *)
LEMMA StoppingTable ==
  ASSUME OneProcess, OnlyStops, UNCHANGED <<disk, manager, mModulesRunning>>
  PROVE  OneProcess'
BY DEF OneProcess, OnlyStops, Stoppable

(* The record of a process that has stopped. *)
LEMMA StoppedRecord ==
  ASSUME NEW r, r = [module |-> r.module, scripted |-> r.scripted, running |-> r.running]
  PROVE  [r EXCEPT !.running = FALSE]
           = [module |-> r.module, scripted |-> r.scripted, running |-> FALSE]
<1>1. PICK m, scripted, running : r = [module |-> m, scripted |-> scripted, running |-> running]
  OBVIOUS
<1>2. PICK q : q = [r EXCEPT !.running = FALSE]
  OBVIOUS
<1>3. q = [module |-> m, scripted |-> scripted, running |-> FALSE]
  BY <1>1, <1>2
<1> QED
  BY <1>1, <1>2, <1>3

(* The processes that a function on each of them stops. *)
LEMMA StoppedOneByOne ==
  ASSUME TypeOK, ProcessesTyped, NEW stops, stops \subseteq DOMAIN processes,
         processes' = [p \in DOMAIN processes |->
                         IF p \in stops THEN [processes[p] EXCEPT !.running = FALSE]
                         ELSE processes[p]]
  PROVE  OnlyStops
<1>1. PICK S : processes \in Seq(S)
  BY DEF ProcessesTyped, IsSeq
<1>2. \A p \in DOMAIN processes :
        /\ processes[p] = [module |-> processes[p].module, scripted |-> processes[p].scripted,
                           running |-> processes[p].running]
        /\ processes[p].running \in BOOLEAN
  BY DEF ProcessesTyped, TypeOK
<1>3. \A p \in DOMAIN processes :
        IF p \in stops
        THEN processes'[p] = [module |-> processes[p].module, scripted |-> processes[p].scripted,
                              running |-> FALSE]
        ELSE processes'[p] = processes[p]
  <2> SUFFICES ASSUME NEW p \in DOMAIN processes
               PROVE  IF p \in stops
                      THEN processes'[p] = [module |-> processes[p].module,
                                            scripted |-> processes[p].scripted,
                                            running |-> FALSE]
                      ELSE processes'[p] = processes[p]
    OBVIOUS
  <2>1. [processes[p] EXCEPT !.running = FALSE]
          = [module |-> processes[p].module, scripted |-> processes[p].scripted,
             running |-> FALSE]
    BY <1>2, StoppedRecord
  <2> QED
    BY <2>1
<1>4. DOMAIN processes' = DOMAIN processes
  OBVIOUS
<1>5. IsSeq(processes')
  <2> DEFINE all == {processes'[p] : p \in DOMAIN processes}
  <2>1. \A p \in DOMAIN processes : processes'[p] \in all
    OBVIOUS
  <2> HIDE DEF all
  <2>2. Len(processes) \in Nat /\ DOMAIN processes = 1 .. Len(processes)
    BY <1>1
  <2>3. processes' \in [1 .. Len(processes) -> all]
    BY <2>1, <2>2
  <2>4. processes' \in Seq(all)
    BY <2>2, <2>3
  <2> QED
    BY <2>4 DEF IsSeq
<1>6. ProcessesTyped'
  BY <1>2, <1>3, <1>4, <1>5 DEF ProcessesTyped
<1> QED
  BY <1>2, <1>3, <1>4, <1>6 DEF OnlyStops

(* What is closed was running in the table, and was not left to its script.*)
LEMMA ClosedProcesses ==
  ASSUME TypeOK, ProcessesTyped, OneProcess, UNCHANGED <<disk, manager>>,
         NEW m, Close(m),
         \A p \in DOMAIN processes :
           processes[p].module = m /\ processes[p].scripted /\ processes[p].running => ~Stoppable(m)
  PROVE  /\ OnlyStops
         /\ OneProcess'
         /\ \A k \in DOMAIN mModulesRunning' : mModulesRunning'[k] \in DOMAIN processes'
         /\ frames' = Tail(frames)
         /\ returned' \in {<<TRUE>>, <<FALSE>>}
<1>1. CASE ~Running(m)
  <2>1. /\ frames' = Tail(frames) /\ returned' = <<FALSE>>
        /\ UNCHANGED <<mModulesRunning, processes>>
    BY <1>1 DEF Close, Return
  <2>2. OnlyStops
    BY <2>1, NothingStops
  <2> QED
    BY <2>1, <2>2, StoppingTable DEF TypeOK
<1>2. CASE Running(m)
  <2>1. PICK at : at = mModulesRunning[m]
    OBVIOUS
  <2>2. /\ processes' = [processes EXCEPT ![at] =
                           IF @.scripted THEN @ ELSE [@ EXCEPT !.running = FALSE]]
        /\ mModulesRunning' = [k \in DOMAIN mModulesRunning \ {m} |-> mModulesRunning[k]]
        /\ frames' = Tail(frames)
        /\ returned' = <<TRUE>>
    BY <1>2, <2>1 DEF Close, Return
  <2>3. at \in DOMAIN processes
    BY <1>2, <2>1 DEF Running, TypeOK
  <2>4. PICK stops : stops = IF processes[at].scripted THEN {} ELSE {at}
    OBVIOUS
  <2>5. processes = [p \in DOMAIN processes |-> processes[p]]
    BY DEF ProcessesTyped, IsSeq
  <2>6. processes' = [p \in DOMAIN processes |->
                        IF p \in stops THEN [processes[p] EXCEPT !.running = FALSE]
                        ELSE processes[p]]
    BY <2>2, <2>3, <2>4, <2>5
  <2>7. OnlyStops
    BY <2>3, <2>4, <2>6, StoppedOneByOne
  <2>8. OneProcess'
    <3> SUFFICES ASSUME NEW p \in DOMAIN processes', processes'[p].running,
                        Stoppable(processes'[p].module)
                 PROVE  /\ processes'[p].module \in DOMAIN mModulesRunning'
                        /\ mModulesRunning'[processes'[p].module] = p
      BY DEF OneProcess, Stoppable
    <3>1. /\ p \in DOMAIN processes /\ processes[p].running
          /\ processes'[p].module = processes[p].module
      BY <2>7 DEF OnlyStops
    <3>2. Stoppable(processes[p].module)
      BY <3>1
    <3>3. processes[p].module \in DOMAIN mModulesRunning
          /\ mModulesRunning[processes[p].module] = p
      BY <3>1, <3>2 DEF OneProcess
    <3>4. processes[p].module # m
      <4> SUFFICES ASSUME processes[p].module = m
                   PROVE  FALSE
        OBVIOUS
      <4>1. p = at /\ ~processes[p].scripted
        BY <3>1, <3>2, <3>3, <2>1
      <4>2. ~processes'[p].running
        BY <4>1, <3>1, <2>4, <2>6 DEF ProcessesTyped
      <4> QED
        BY <4>2
    <3> QED
      BY <3>1, <3>3, <3>4, <2>2
  <2>9. \A k \in DOMAIN mModulesRunning' : mModulesRunning'[k] \in DOMAIN processes'
    BY <2>2, <2>7 DEF TypeOK, OnlyStops
  <2> QED
    BY <2>2, <2>7, <2>8, <2>9
<1> QED
  BY <1>1, <1>2

-----------------------------------------------------------------------------
(* Nothing waits, nothing runs. *)
LEMMA InitIInv == Init => IInv
<1> SUFFICES ASSUME Init
             PROVE  IInv
  OBVIOUS
<1>1. PICK f : f = StartModule(Index(AppDomain, ServiceManager, NoVersion))
  OBVIOUS
<1>2. frames = <<f, BootStart>>
  BY <1>1 DEF Init
<1>3. FrameTyped(f) /\ FrameTyped(BootStart)
  BY <1>1 DEF FrameTyped, OfModule, OfMain, StartModule, BootStart
<1>4. f.call = "startmodule" /\ BootStart.call = "main"
  BY <1>1 DEF StartModule, BootStart
<1>5. frames \in Seq({f, BootStart}) /\ DOMAIN frames = {1, 2}
  BY <1>2
<1>6. FramesTyped
  <2>1. frames[1] = f /\ frames[2] = BootStart
    BY <1>2
  <2>2. \A i \in DOMAIN frames : FrameTyped(frames[i])
    BY <2>1, <1>3, <1>5
  <2> QED
    BY <2>2, <1>5 DEF FramesTyped, IsSeq
<1>7. StartsAtTheBottom
  BY <1>2, <1>4, <1>5 DEF StartsAtTheBottom
<1>8. StoppedByScript
  BY <1>2, <1>4, <1>5 DEF StoppedByScript
<1>9. processes \in Seq({}) /\ DOMAIN processes = {}
  BY DEF Init
<1>10. ProcessesTyped /\ StartedAsConfigured /\ OneProcess
  BY <1>9 DEF ProcessesTyped, StartedAsConfigured, OneProcess, IsSeq
<1>11. TypeOK
  <2>1. DOMAIN mModulesRunning = {}
    BY DEF Init
  <2>2. /\ returned = << >> /\ phase = "boot" /\ quitNow = FALSE /\ disturbed = FALSE
        /\ shutdowns \in 0 .. MaxShutdowns /\ ends \in 0 .. MaxEnds
    BY MainConstants DEF Init
  <2> QED
    BY <2>1, <2>2, <1>9 DEF TypeOK
<1> QED
  BY <1>6, <1>7, <1>8, <1>10, <1>11 DEF IInv, Init

(* Whoever changes nothing but the stack, and stops processes, keeps it. *)
LEMMA Kept ==
  ASSUME IInv, Stack', NoneBeginsToWait, OnlyStops, UNCHANGED <<disk, manager>>, OneProcess',
         \A m \in DOMAIN mModulesRunning' : mModulesRunning'[m] \in DOMAIN processes',
         returned' \in {<<>>, <<TRUE>>, <<FALSE>>},
         phase' \in {"boot", "exec", "destructor", "exited"},
         quitNow' \in BOOLEAN, disturbed' \in BOOLEAN,
         shutdowns' \in 0 .. MaxShutdowns, ends' \in 0 .. MaxEnds
  PROVE  IInv'
<1>1. TypeOK /\ StartedAsConfigured /\ StoppedByScript
  BY DEF IInv
<1>2. /\ StartedAsConfigured'
      /\ \A p \in DOMAIN processes' : {processes'[p].scripted, processes'[p].running} \subseteq BOOLEAN
  BY <1>1, StoppingProcesses
<1>3. StoppedByScript'
  BY <1>1, StoppingScripts
<1>4. TypeOK'
  BY <1>2 DEF TypeOK
<1>5. disk' \in Disks /\ ProcessesTyped'
  BY DEF IInv, OnlyStops
<1> QED
  BY <1>2, <1>3, <1>4, <1>5 DEF IInv, Stack

(* The same, when no process and no entry changes. *)
LEMMA KeptAll ==
  ASSUME IInv, Stack', NoneBeginsToWait, UNCHANGED <<disk, manager, mModulesRunning, processes>>,
         returned' \in {<<>>, <<TRUE>>, <<FALSE>>},
         phase' \in {"boot", "exec", "destructor", "exited"},
         quitNow' \in BOOLEAN, disturbed' \in BOOLEAN,
         shutdowns' \in 0 .. MaxShutdowns, ends' \in 0 .. MaxEnds
  PROVE  IInv'
<1>1. OnlyStops
  BY NothingStops DEF IInv
<1>2. OneProcess'
  BY <1>1, StoppingTable DEF IInv
<1>3. \A m \in DOMAIN mModulesRunning' : mModulesRunning'[m] \in DOMAIN processes'
  BY DEF IInv, TypeOK
<1> QED
  BY <1>1, <1>2, <1>3, Kept

(* A call that returns without having done anything else. *)
LEMMA Returns ==
  ASSUME IInv, frames # << >>, NEW value \in BOOLEAN, Return(value),
         UNCHANGED <<disk, manager, mModulesRunning, processes, disturbed, shutdowns, ends>>,
         phase' \in {"boot", "exec", "destructor", "exited"}, quitNow' \in BOOLEAN
  PROVE  IInv'
<1>1. Stack' /\ NoneBeginsToWait
  BY ReturnStack DEF Return, IInv, Stack
<1>2. returned' \in {<<>>, <<TRUE>>, <<FALSE>>}
  BY DEF Return
<1>3. disturbed' \in BOOLEAN /\ shutdowns' \in 0 .. MaxShutdowns /\ ends' \in 0 .. MaxEnds
  BY DEF IInv, TypeOK
<1> QED
  BY <1>1, <1>2, <1>3, KeptAll

(* A module that is started was not running, in any version of its name,   *)
(* and nobody waits for the end of it: below startmodule nothing stops.    *)
LEMMA StartedIInv ==
  ASSUME IInv, AtPlace("startmodule", "called"), NEW m, ~Running(m),
         NEW ok \in BOOLEAN, Started(m, Info(m), ok),
         UNCHANGED <<disk, manager, phase, quitNow, shutdowns, ends, disturbed>>
  PROVE  IInv'
<1>1. TypeOK /\ Stack /\ ProcessesTyped
  BY DEF IInv, Stack
<1>2. frames # << >> /\ Top.call = "startmodule"
  BY DEF AtPlace
<1>3. CASE ~ok
  <2>1. Return(FALSE) /\ UNCHANGED <<mModulesRunning, processes>>
    BY <1>3 DEF Started
  <2>2. phase' \in {"boot", "exec", "destructor", "exited"} /\ quitNow' \in BOOLEAN
    BY <1>1 DEF TypeOK
  <2> QED
    BY <2>1, <2>2, <1>2, Returns
<1>4. CASE ok
  <2>1. PICK new : new = [module |-> m, scripted |-> Scripted(Info(m)), running |-> TRUE]
    OBVIOUS
  <2>2. /\ processes' = Append(processes, new)
        /\ mModulesRunning' = [k \in DOMAIN mModulesRunning \cup {m} |->
                                 IF k = m THEN Len(processes) + 1 ELSE mModulesRunning[k]]
        /\ frames' = <<[Top EXCEPT !.at = "waiting"]>> \o Tail(frames)
        /\ returned' = << >>
    BY <2>1, <1>4 DEF Started, GoTo
  <2>3. PICK S : processes \in Seq(S)
    BY <1>1 DEF ProcessesTyped, IsSeq
  <2>4. processes' \in Seq(S \cup {new})
    BY <2>2, <2>3
  <2>5. /\ Len(processes) \in Nat
        /\ DOMAIN processes = 1 .. Len(processes)
        /\ DOMAIN processes' = 1 .. Len(processes) + 1
        /\ processes'[Len(processes) + 1] = new
        /\ \A p \in DOMAIN processes : processes'[p] = processes[p]
    BY <2>2, <2>3
  <2>6. Scripted(Info(m)) \in BOOLEAN
    BY DEF Scripted
  <2>7. /\ new.module = m /\ new.scripted = Scripted(Info(m)) /\ new.running = TRUE
        /\ new = [module |-> new.module, scripted |-> new.scripted, running |-> new.running]
    BY <2>1
  <2>8. \A p \in DOMAIN processes' : p \in DOMAIN processes \/ p = Len(processes) + 1
    BY <2>5
  <2>9. ProcessesTyped'
    BY <2>4, <2>5, <2>7, <2>8, <1>1 DEF ProcessesTyped, IsSeq
  <2>10. StartedAsConfigured'
    <3>1. \A p \in DOMAIN processes : processes[p].scripted = Scripted(Info(processes[p].module))
      BY DEF IInv, StartedAsConfigured
    <3>2. \A p \in DOMAIN processes' :
            processes'[p].scripted = Scripted(Info(processes'[p].module))
      BY <3>1, <2>5, <2>7, <2>8
    <3> QED
      BY <3>2 DEF StartedAsConfigured, Info
  <2>11. TypeOK'
    <3>1. \A k \in DOMAIN mModulesRunning' : mModulesRunning'[k] \in DOMAIN processes'
      BY <2>2, <2>5, <1>1 DEF TypeOK
    <3>2. ASSUME NEW p \in DOMAIN processes'
          PROVE  {processes'[p].scripted, processes'[p].running} \subseteq BOOLEAN
      <4>1. CASE p \in DOMAIN processes
        BY <4>1, <2>5, <1>1 DEF TypeOK
      <4>2. CASE p = Len(processes) + 1
        <5>1. processes'[p] = new
          BY <4>2, <2>5
        <5> QED
          BY <5>1, <2>6, <2>7
      <4> QED
        BY <4>1, <4>2, <2>8
    <3> QED
      BY <3>1, <3>2, <2>2, <1>1 DEF TypeOK
  <2>12. OfModule(Top) /\ Top = frames[1] /\ 1 \in DOMAIN frames
    <3>1. FrameTyped(Top) /\ Top = frames[1] /\ 1 \in DOMAIN frames
      BY <1>1, <1>2, TopIsFirst DEF Stack
    <3> QED
      BY <3>1, <1>2 DEF FrameTyped, OfAll, OfShutdown, OfMain
  <2>13. /\ Stack'
         /\ 1 \in DOMAIN frames'
         /\ frames'[1] = [call |-> Top.call, at |-> "waiting", module |-> Top.module]
         /\ \A i \in DOMAIN frames' : i # 1 => i \in DOMAIN frames /\ frames'[i] = frames[i]
    BY <2>2, <2>12, <1>1, <1>2, WaitStack
  <2>14. StoppedByScript'
    <3>1. \A i \in DOMAIN frames' : i # 1 => i > 1
      BY <2>13 DEF Stack, FramesTyped, IsSeq
    <3>2. ASSUME NEW i \in DOMAIN frames'
          PROVE  frames'[i].call # "stopmodule"
      <4>1. CASE i = 1
        BY <4>1, <2>13, <1>2
      <4>2. CASE i # 1
        BY <4>2, <3>1, <2>12, <2>13, <1>1, <1>2 DEF Stack, StartsAtTheBottom
      <4> QED
        BY <4>1, <4>2
    <3> QED
      BY <3>2 DEF StoppedByScript
  <2>15. OneProcess'
    <3> SUFFICES ASSUME NEW p \in DOMAIN processes', processes'[p].running,
                        Stoppable(processes'[p].module)
                 PROVE  /\ processes'[p].module \in DOMAIN mModulesRunning'
                        /\ mModulesRunning'[processes'[p].module] = p
      BY DEF OneProcess, Stoppable
    <3>1. CASE p \in DOMAIN processes
      <4>1. processes[p].running /\ Stoppable(processes[p].module)
        BY <3>1, <2>5
      <4>2. /\ processes[p].module \in DOMAIN mModulesRunning
            /\ mModulesRunning[processes[p].module] = p
        BY <3>1, <4>1 DEF IInv, OneProcess
      <4>3. processes[p].module # m
        BY <4>2 DEF Running
      <4> QED
        BY <3>1, <4>2, <4>3, <2>2, <2>5
    <3>2. CASE p = Len(processes) + 1
      BY <3>2, <2>2, <2>5, <2>7
    <3> QED
      BY <3>1, <3>2, <2>8
  <2> QED
    BY <2>9, <2>10, <2>11, <2>13, <2>14, <2>15 DEF IInv, Stack
<1> QED
  BY <1>3, <1>4

-----------------------------------------------------------------------------
(* The steps *)

(* startmodule: a module gets a process only if no entry of it is known. *)
LEMMA StartModuleIInv == IInv /\ startmodule => IInv'
<1> SUFFICES ASSUME IInv, startmodule
             PROVE  IInv'
  OBVIOUS
<1>1. PICK m : m = Top.module
  OBVIOUS
<1>2. PICK v : v = EffectiveVersion(manager, m.ns, m.name, m.version)
  OBVIOUS
<1>3. /\ AtPlace("startmodule", "called")
      /\ frames # << >>
      /\ UNCHANGED <<disk, manager, phase, quitNow, shutdowns, ends, disturbed>>
  BY DEF startmodule, AtPlace
<1>4. phase' \in {"boot", "exec", "destructor", "exited"} /\ quitNow' \in BOOLEAN
  BY <1>3 DEF IInv, TypeOK
<1>5. CASE v = NoVersion
  <2>1. Return(FALSE) /\ UNCHANGED <<mModulesRunning, processes>>
    BY <1>1, <1>2, <1>5 DEF startmodule
  <2> QED
    BY <2>1, <1>3, <1>4, Returns
<1>6. CASE v # NoVersion
  <2>1. PICK k : k = [m EXCEPT !.version = v]
    OBVIOUS
  <2>2. StartIfNew(k)
    BY <1>1, <1>2, <1>6, <2>1 DEF startmodule
  <2>3. CASE Running(k)
    <3>1. Return(TRUE) /\ UNCHANGED <<mModulesRunning, processes>>
      BY <2>2, <2>3 DEF StartIfNew
    <3> QED
      BY <3>1, <1>3, <1>4, Returns
  <2>4. CASE ~Running(k)
    <3>1. Started(k, Info(k), TRUE) \/ Started(k, Info(k), FALSE)
      BY <2>2, <2>4 DEF StartIfNew, StartRegardless, Started, Info
    <3> QED
      BY <3>1, <2>4, <1>3, StartedIInv
  <2> QED
    BY <2>3, <2>4
<1> QED
  BY <1>5, <1>6

(* Without a script to wait for, stopmodule closes what has no script; and *)
(* if there is one, all that it has to stop is stopped before the wait.    *)
LEMMA StopModuleIInv == IInv /\ stopmodule => IInv'
<1> SUFFICES ASSUME IInv, stopmodule
             PROVE  IInv'
  OBVIOUS
<1>1. PICK m : m = Top.module
  OBVIOUS
<1>2. PICK script : script = fModuleStopScript(Info(m))
  OBVIOUS
<1>3. /\ frames # << >> /\ Top.call = "stopmodule"
      /\ UNCHANGED <<disk, manager, phase, quitNow, shutdowns, ends, disturbed>>
  BY DEF stopmodule, AtPlace
<1>4. /\ TypeOK /\ Stack /\ ProcessesTyped /\ OneProcess /\ disk \in Disks
  BY DEF IInv, Stack
<1>5. /\ phase' \in {"boot", "exec", "destructor", "exited"}
      /\ quitNow' \in BOOLEAN /\ disturbed' \in BOOLEAN
      /\ shutdowns' \in 0 .. MaxShutdowns /\ ends' \in 0 .. MaxEnds
  BY <1>3, <1>4 DEF TypeOK
<1>6. CASE ~(script # Empty /\ script \in disk.executables)
  <2>1. Close(m)
    BY <1>1, <1>2, <1>6 DEF stopmodule, Info
  <2>2. script \notin disk.executables
    BY <1>4, <1>6, MainConstants
  <2>3. \A p \in DOMAIN processes :
          processes[p].module = m /\ processes[p].scripted /\ processes[p].running => ~Stoppable(m)
    <3>1. \A p \in DOMAIN processes :
            processes[p].module = m /\ processes[p].scripted => Scripted(Info(m))
      BY DEF IInv, StartedAsConfigured
    <3>2. Scripted(Info(m)) => ~Stoppable(m)
      BY <2>2, <1>2 DEF Stoppable, Info
    <3> QED
      BY <3>1, <3>2
  <2>4. /\ OnlyStops
        /\ OneProcess'
        /\ \A k \in DOMAIN mModulesRunning' : mModulesRunning'[k] \in DOMAIN processes'
        /\ frames' = Tail(frames)
        /\ returned' \in {<<TRUE>>, <<FALSE>>}
    BY <2>1, <2>3, <1>3, <1>4, ClosedProcesses
  <2>5. Stack' /\ NoneBeginsToWait
    BY <2>4, <1>3, <1>4, ReturnStack
  <2> QED
    BY <2>4, <2>5, <1>3, <1>5, Kept
<1>7. CASE script # Empty /\ script \in disk.executables
  <2>1. /\ processes' = AllStopped(m, TRUE)
        /\ frames' = <<[Top EXCEPT !.at = "waiting"]>> \o Tail(frames)
        /\ returned' = << >>
        /\ UNCHANGED mModulesRunning
    BY <1>1, <1>2, <1>7 DEF stopmodule, Info, GoTo
  <2>2. PICK stops : stops = {p \in DOMAIN processes :
                                processes[p].module = m /\ processes[p].scripted = TRUE}
    OBVIOUS
  <2>3. processes' = [p \in DOMAIN processes |->
                        IF p \in stops THEN [processes[p] EXCEPT !.running = FALSE]
                        ELSE processes[p]]
    BY <2>1, <2>2 DEF AllStopped, Stopped
  <2>4. OnlyStops
    BY <2>2, <2>3, <1>4, StoppedOneByOne
  <2>5. \A p \in stops : ~processes'[p].running
    BY <2>2, <2>3, <1>4, StoppedRecord DEF ProcessesTyped
  <2>6. OfModule(Top)
    BY <1>3, <1>4, TopIsFirst DEF Stack, FrameTyped, OfAll, OfShutdown, OfMain
  <2>7. /\ Stack'
        /\ 1 \in DOMAIN frames'
        /\ frames'[1] = [call |-> Top.call, at |-> "waiting", module |-> m]
        /\ \A i \in DOMAIN frames' : i # 1 => i \in DOMAIN frames /\ frames'[i] = frames[i]
    BY <2>1, <2>6, <1>1, <1>3, <1>4, WaitStack
  <2>8. StoppedByScript'
    <3> SUFFICES ASSUME NEW i \in DOMAIN frames', frames'[i].call = "stopmodule",
                        frames'[i].at = "waiting", NEW p \in DOMAIN processes',
                        processes'[p].module = frames'[i].module, processes'[p].scripted
                 PROVE  ~processes'[p].running
      BY DEF StoppedByScript
    <3>1. /\ p \in DOMAIN processes
          /\ processes[p].module = frames'[i].module
          /\ processes[p].scripted
          /\ processes[p].scripted \in BOOLEAN
          /\ processes'[p].running => processes[p].running
      BY <2>4, <1>4 DEF OnlyStops, TypeOK
    <3>2. CASE i = 1
      BY <3>1, <3>2, <2>2, <2>5, <2>7
    <3>3. CASE i # 1
      BY <3>1, <3>3, <2>7 DEF IInv, StoppedByScript
    <3> QED
      BY <3>2, <3>3
  <2>9. OneProcess'
    BY <2>1, <2>4, <1>3, <1>4, StoppingTable
  <2>10. /\ StartedAsConfigured'
         /\ \A p \in DOMAIN processes' :
              {processes'[p].scripted, processes'[p].running} \subseteq BOOLEAN
    BY <2>4, <1>3, StoppingProcesses DEF IInv
  <2>11. TypeOK'
    BY <2>1, <2>4, <2>10, <1>3, <1>4 DEF TypeOK, OnlyStops
  <2> QED
    BY <2>4, <2>7, <2>8, <2>9, <2>10, <2>11, <1>3 DEF IInv, Stack, OnlyStops
<1> QED
  BY <1>6, <1>7

(* After its script stopmodule closes what has none: nothing else runs.    *)
LEMMA StopModuleWaitedIInv == IInv /\ stopmoduleWaited => IInv'
<1> SUFFICES ASSUME IInv, stopmoduleWaited
             PROVE  IInv'
  OBVIOUS
<1>1. PICK m : m = Top.module
  OBVIOUS
<1>2. /\ frames # << >> /\ Top.call = "stopmodule" /\ Top.at = "waiting" /\ Close(m)
      /\ UNCHANGED <<disk, manager, phase, quitNow, shutdowns, ends, disturbed>>
  BY <1>1 DEF stopmoduleWaited, AtPlace
<1>3. TypeOK /\ Stack /\ ProcessesTyped /\ OneProcess
  BY DEF IInv, Stack
<1>4. 1 \in DOMAIN frames /\ Top = frames[1]
  BY <1>2, <1>3, TopIsFirst DEF Stack
<1>5. \A p \in DOMAIN processes :
        processes[p].module = m /\ processes[p].scripted => ~processes[p].running
  BY <1>1, <1>2, <1>4 DEF IInv, StoppedByScript
<1>6. /\ OnlyStops
      /\ OneProcess'
      /\ \A k \in DOMAIN mModulesRunning' : mModulesRunning'[k] \in DOMAIN processes'
      /\ frames' = Tail(frames)
      /\ returned' \in {<<TRUE>>, <<FALSE>>}
  BY <1>2, <1>3, <1>5, ClosedProcesses
<1>7. Stack' /\ NoneBeginsToWait
  BY <1>2, <1>3, <1>6, ReturnStack
<1>8. /\ phase' \in {"boot", "exec", "destructor", "exited"}
      /\ quitNow' \in BOOLEAN /\ disturbed' \in BOOLEAN
      /\ shutdowns' \in 0 .. MaxShutdowns /\ ends' \in 0 .. MaxEnds
  BY <1>2, <1>3 DEF TypeOK
<1> QED
  BY <1>2, <1>6, <1>7, <1>8, Kept

(* What startallmodules and stopallmodules have so far is true or false. *)
LEMMA OkIsBoolean ==
  ASSUME IInv, frames # << >>, Top.call \in {"startallmodules", "stopallmodules"}
  PROVE  /\ Ok \in BOOLEAN
         /\ \A rest : FrameTyped([Top EXCEPT !.ok = Ok, !.rest = rest])
         /\ \A rest : [Top EXCEPT !.ok = Ok, !.rest = rest].call = Top.call
<1>1. OfAll(Top)
  BY TopIsFirst DEF IInv, FrameTyped, OfModule, OfShutdown, OfMain
<1>2. PICK all : \E call \in {"startallmodules", "stopallmodules"}, ok \in BOOLEAN :
        Top = [call |-> call, at |-> "called", rest |-> all, ok |-> ok]
  BY <1>1 DEF OfAll
<1>3. PICK call \in {"startallmodules", "stopallmodules"}, ok \in BOOLEAN :
        Top = [call |-> call, at |-> "called", rest |-> all, ok |-> ok]
  BY <1>2
<1>4. Ok \in BOOLEAN
  BY <1>3 DEF Ok
<1>5. ASSUME NEW rest
      PROVE  [Top EXCEPT !.ok = Ok, !.rest = rest]
               = [call |-> call, at |-> "called", rest |-> rest, ok |-> Ok]
  <2>1. PICK value : value = Ok
    OBVIOUS
  <2>2. PICK f : f = Top
    OBVIOUS
  <2>3. PICK g : g = [f EXCEPT !.ok = value]
    OBVIOUS
  <2>4. g = [call |-> call, at |-> "called", rest |-> all, ok |-> value]
    BY <2>2, <2>3, <1>3
  <2>5. [f EXCEPT !.ok = value, !.rest = rest] = [g EXCEPT !.rest = rest]
    BY <2>3
  <2>6. [g EXCEPT !.rest = rest] = [call |-> call, at |-> "called", rest |-> rest, ok |-> value]
    BY <2>4
  <2> QED
    BY <2>1, <2>2, <2>5, <2>6
<1>6. ASSUME NEW rest
      PROVE  /\ FrameTyped([Top EXCEPT !.ok = Ok, !.rest = rest])
             /\ [Top EXCEPT !.ok = Ok, !.rest = rest].call = Top.call
  <2>1. PICK f : f = [Top EXCEPT !.ok = Ok, !.rest = rest]
    OBVIOUS
  <2>2. f = [call |-> call, at |-> "called", rest |-> rest, ok |-> Ok]
    BY <2>1, <1>5
  <2>3. OfAll(f)
    BY <2>2, <1>4 DEF OfAll
  <2>4. f.call = Top.call
    BY <2>2, <1>3
  <2> QED
    BY <2>1, <2>3, <2>4 DEF FrameTyped
<1> QED
  BY <1>4, <1>6

(* startallmodules goes through the managed modules one call after the other. *)
LEMMA StartAllIInv == IInv /\ startallmodules => IInv'
<1> SUFFICES ASSUME IInv, startallmodules
             PROVE  IInv'
  OBVIOUS
<1>1. /\ frames # << >> /\ Top.call = "startallmodules"
      /\ UNCHANGED <<disk, manager, mModulesRunning, processes, phase, quitNow, shutdowns, ends,
                     disturbed>>
  BY DEF startallmodules, AtPlace
<1>2. /\ phase' \in {"boot", "exec", "destructor", "exited"}
      /\ quitNow' \in BOOLEAN /\ disturbed' \in BOOLEAN
      /\ shutdowns' \in 0 .. MaxShutdowns /\ ends' \in 0 .. MaxEnds
  BY <1>1 DEF IInv, TypeOK
<1>3. PICK ok \in BOOLEAN : ok = Ok
  BY <1>1, OkIsBoolean
<1>4. CASE Top.rest = << >>
  BY <1>1, <1>2, <1>3, <1>4, Returns DEF startallmodules
<1>5. CASE Top.rest # << >>
  <2>1. PICK f : f = StartModule(Head(Top.rest))
    OBVIOUS
  <2>2. PICK g : g = [Top EXCEPT !.ok = Ok, !.rest = Tail(Top.rest)]
    OBVIOUS
  <2>3. frames' = <<f, g>> \o Tail(frames) /\ returned' = << >>
    BY <1>5, <2>1, <2>2 DEF startallmodules, Advance, Call
  <2>4. FrameTyped(f) /\ f.call = "startmodule" /\ f.at = "called"
    BY <2>1 DEF StartModule, FrameTyped, OfModule
  <2>5. FrameTyped(g) /\ g.call = "startallmodules"
    BY <1>1, <2>2, OkIsBoolean
  <2>6. Stack' /\ NoneBeginsToWait
    BY <1>1, <2>3, <2>4, <2>5, CallStack DEF IInv, Stack
  <2> QED
    BY <1>1, <1>2, <2>3, <2>6, KeptAll
<1> QED
  BY <1>4, <1>5

(* stopallmodules goes through the running modules one call after the other. *)
LEMMA StopAllIInv == IInv /\ stopallmodules => IInv'
<1> SUFFICES ASSUME IInv, stopallmodules
             PROVE  IInv'
  OBVIOUS
<1>1. /\ frames # << >> /\ Top.call = "stopallmodules"
      /\ UNCHANGED <<disk, manager, mModulesRunning, processes, phase, quitNow, shutdowns, ends,
                     disturbed>>
  BY DEF stopallmodules, AtPlace
<1>2. /\ phase' \in {"boot", "exec", "destructor", "exited"}
      /\ quitNow' \in BOOLEAN /\ disturbed' \in BOOLEAN
      /\ shutdowns' \in 0 .. MaxShutdowns /\ ends' \in 0 .. MaxEnds
  BY <1>1 DEF IInv, TypeOK
<1>3. PICK ok \in BOOLEAN : ok = Ok
  BY <1>1, OkIsBoolean
<1>4. CASE Top.rest = << >> \/ ~Ok
  BY <1>1, <1>2, <1>3, <1>4, Returns DEF stopallmodules
<1>5. CASE ~(Top.rest = << >> \/ ~Ok)
  <2>1. PICK f : f = StopModule(Head(Top.rest))
    OBVIOUS
  <2>2. PICK g : g = [Top EXCEPT !.ok = Ok, !.rest = Tail(Top.rest)]
    OBVIOUS
  <2>3. frames' = <<f, g>> \o Tail(frames) /\ returned' = << >>
    BY <1>5, <2>1, <2>2 DEF stopallmodules, Advance, Call
  <2>4. FrameTyped(f) /\ f.call = "stopmodule" /\ f.at = "called"
    BY <2>1 DEF StopModule, FrameTyped, OfModule
  <2>5. FrameTyped(g) /\ g.call = "stopallmodules"
    BY <1>1, <2>2, OkIsBoolean
  <2>6. Stack' /\ NoneBeginsToWait
    BY <1>1, <2>3, <2>4, <2>5, CallStack DEF IInv, Stack
  <2> QED
    BY <1>1, <1>2, <2>3, <2>6, KeptAll
<1> QED
  BY <1>4, <1>5

(* The lists of startallmodules and stopallmodules are made by main, by    *)
(* the destructor and by a request.                                        *)
LEMMA AllFrames ==
  /\ FrameTyped(StopAll) /\ StopAll.call = "stopallmodules" /\ StopAll.at = "called"
  /\ FrameTyped(StartAll) /\ StartAll.call = "startallmodules" /\ StartAll.at = "called"
<1>1. PICK stopped :
        StopAll = [call |-> "stopallmodules", at |-> "called", rest |-> stopped, ok |-> TRUE]
  BY DEF StopAll
<1>2. PICK started :
        StartAll = [call |-> "startallmodules", at |-> "called", rest |-> started, ok |-> TRUE]
  BY DEF StartAll
<1> QED
  BY <1>1, <1>2 DEF FrameTyped, OfAll

(* main goes on with all the modules, and is the last of the stack then. *)
LEMMA MainIInv == IInv /\ main => IInv'
<1> SUFFICES ASSUME IInv, main
             PROVE  IInv'
  OBVIOUS
<1>1. /\ frames # << >> /\ Top.call = "main"
      /\ UNCHANGED <<disk, manager, mModulesRunning, processes, phase, quitNow, shutdowns, ends,
                     disturbed>>
  BY DEF main, AtPlace
<1>2. /\ phase' \in {"boot", "exec", "destructor", "exited"}
      /\ quitNow' \in BOOLEAN /\ disturbed' \in BOOLEAN
      /\ shutdowns' \in 0 .. MaxShutdowns /\ ends' \in 0 .. MaxEnds
  BY <1>1 DEF IInv, TypeOK
<1>3. PICK g : g = [Top EXCEPT !.at = "exec"]
  OBVIOUS
<1>4. frames' = <<StartAll, g>> \o Tail(frames) /\ returned' = << >>
  BY <1>3 DEF main, Call
<1>5. OfMain(Top)
  BY <1>1, TopIsFirst DEF IInv, FrameTyped, OfModule, OfAll, OfShutdown
<1>6. g = [call |-> "main", at |-> "exec"]
  BY <1>3, <1>5 DEF OfMain
<1>7. FrameTyped(g) /\ g.call = "main"
  BY <1>6 DEF FrameTyped, OfMain
<1>8. PICK f : f = StartAll
  OBVIOUS
<1>9. FrameTyped(f) /\ f.call = "startallmodules" /\ f.at = "called"
  BY <1>8, AllFrames
<1>10. Stack' /\ NoneBeginsToWait
  BY <1>1, <1>4, <1>7, <1>8, <1>9, CallStack DEF IInv, Stack
<1> QED
  BY <1>1, <1>2, <1>4, <1>10, KeptAll

(* A request comes on top of everything that waits. *)
LEMMA RequestIInv == IInv /\ Request => IInv'
<1> SUFFICES ASSUME IInv, Request
             PROVE  IInv'
  OBVIOUS
<1>1. PICK f : f = StopAll
  OBVIOUS
<1>2. PICK g : g = [call |-> "shutdownsystem", at |-> "called"]
  OBVIOUS
<1>3. frames' = <<f, g>> \o frames /\ returned' = << >>
  BY <1>1, <1>2 DEF Request
<1>4. FrameTyped(f) /\ f.call = "stopallmodules"
  BY <1>1, AllFrames
<1>5. FrameTyped(g) /\ g.call = "shutdownsystem"
  BY <1>2 DEF FrameTyped, OfShutdown
<1>6. Stack' /\ NoneBeginsToWait
  BY <1>3, <1>4, <1>5, RequestStack DEF IInv, Stack
<1>7. /\ UNCHANGED <<disk, manager, mModulesRunning, processes, phase, quitNow, ends>>
      /\ shutdowns' \in 0 .. MaxShutdowns
      /\ disturbed' \in BOOLEAN
  BY MainConstants DEF Request, IInv, TypeOK
<1>8. /\ phase' \in {"boot", "exec", "destructor", "exited"}
      /\ quitNow' \in BOOLEAN /\ ends' \in 0 .. MaxEnds
  BY <1>7 DEF IInv, TypeOK
<1> QED
  BY <1>3, <1>6, <1>7, <1>8, KeptAll

(* The destructor starts with an empty stack. *)
LEMMA ExecReturnsIInv == IInv /\ execReturns => IInv'
<1> SUFFICES ASSUME IInv, execReturns
             PROVE  IInv'
  OBVIOUS
<1>1. /\ phase' = "destructor" /\ quitNow' = FALSE /\ returned' = << >>
      /\ UNCHANGED <<disk, manager, mModulesRunning, processes, shutdowns, ends, disturbed>>
  BY DEF execReturns
<1>2. PICK f : f = StopAll
  OBVIOUS
<1>3. frames' = <<f>>
  BY <1>2 DEF execReturns
<1>4. FrameTyped(f) /\ f.call = "stopallmodules"
  BY <1>2, AllFrames
<1>5. frames' \in Seq({f}) /\ DOMAIN frames' = {1} /\ frames'[1] = f
  BY <1>3
<1>6. FramesTyped'
  BY <1>4, <1>5 DEF FramesTyped, IsSeq
<1>7. StartsAtTheBottom' /\ NoneBeginsToWait
  BY <1>4, <1>5 DEF StartsAtTheBottom, NoneBeginsToWait
<1>8. disturbed' \in BOOLEAN /\ shutdowns' \in 0 .. MaxShutdowns /\ ends' \in 0 .. MaxEnds
  BY <1>1 DEF IInv, TypeOK
<1> QED
  BY <1>1, <1>6, <1>7, <1>8, KeptAll DEF Stack

(* Whatever is not said of the stack leaves it as it was. *)
LEMMA SameStack ==
  ASSUME IInv, UNCHANGED frames
  PROVE  Stack' /\ NoneBeginsToWait
BY DEF IInv, Stack, FramesTyped, StartsAtTheBottom, NoneBeginsToWait

(* At the end the programs are killed; a module may also end by itself. *)
LEMMA EndsIInv ==
  ASSUME IInv, NEW stops, stops \subseteq DOMAIN processes,
         processes' = [p \in DOMAIN processes |->
                         IF p \in stops THEN [processes[p] EXCEPT !.running = FALSE]
                         ELSE processes[p]],
         UNCHANGED <<disk, manager, mModulesRunning, frames, returned, quitNow, shutdowns,
                     disturbed>>,
         phase' \in {"boot", "exec", "destructor", "exited"}, ends' \in 0 .. MaxEnds
  PROVE  IInv'
<1>1. Stack' /\ NoneBeginsToWait
  BY SameStack
<1>2. TypeOK /\ ProcessesTyped /\ OneProcess
  BY DEF IInv
<1>3. OnlyStops
  BY <1>2, StoppedOneByOne
<1>4. OneProcess'
  BY <1>2, <1>3, StoppingTable
<1>5. /\ \A m \in DOMAIN mModulesRunning' : mModulesRunning'[m] \in DOMAIN processes'
      /\ returned' \in {<<>>, <<TRUE>>, <<FALSE>>}
      /\ quitNow' \in BOOLEAN /\ disturbed' \in BOOLEAN /\ shutdowns' \in 0 .. MaxShutdowns
  BY <1>2 DEF TypeOK
<1> QED
  BY <1>1, <1>3, <1>4, <1>5, Kept

(* The destructor of QProcess kills the programs that are not scripts. *)
LEMMA ExitedIInv == IInv /\ exited => IInv'
<1> SUFFICES ASSUME IInv, exited
             PROVE  IInv'
  OBVIOUS
<1>1. PICK stops : stops = {p \in DOMAIN processes : ~processes[p].scripted}
  OBVIOUS
<1>2. processes' = [p \in DOMAIN processes |->
                      IF p \in stops THEN [processes[p] EXCEPT !.running = FALSE]
                      ELSE processes[p]]
  BY <1>1 DEF exited
<1>3. /\ stops \subseteq DOMAIN processes
      /\ phase' = "exited"
      /\ UNCHANGED <<disk, manager, mModulesRunning, frames, returned, quitNow, shutdowns, ends,
                     disturbed>>
  BY <1>1 DEF exited
<1>4. ends' \in 0 .. MaxEnds
  BY <1>3 DEF IInv, TypeOK
<1> QED
  BY <1>2, <1>3, <1>4, EndsIInv

(* A module that ends by itself leaves its entry in the table. *)
LEMMA ModuleEndsIInv == ASSUME IInv, NEW i \in DOMAIN processes, ModuleEnds(i) PROVE IInv'
<1>1. processes = [p \in DOMAIN processes |-> processes[p]]
  BY DEF IInv, ProcessesTyped, IsSeq
<1>2. PICK stops : stops = {i}
  OBVIOUS
<1>3. processes' = [p \in DOMAIN processes |->
                      IF p \in stops THEN [processes[p] EXCEPT !.running = FALSE]
                      ELSE processes[p]]
  <2>1. processes' = [processes EXCEPT ![i] = [processes[i] EXCEPT !.running = FALSE]]
    BY DEF ModuleEnds
  <2> QED
    BY <2>1, <1>1, <1>2
<1>4. /\ stops \subseteq DOMAIN processes
      /\ UNCHANGED <<disk, manager, mModulesRunning, frames, returned, phase, quitNow, shutdowns,
                     disturbed>>
  BY <1>2 DEF ModuleEnds
<1>5. phase' \in {"boot", "exec", "destructor", "exited"} /\ ends' \in 0 .. MaxEnds
  BY <1>4, MainConstants DEF ModuleEnds, IInv, TypeOK
<1> QED
  BY <1>3, <1>4, <1>5, EndsIInv

(* Every step keeps the inductive invariant. *)
LEMMA NextIInv == IInv /\ [Next]_vars => IInv'
<1> SUFFICES ASSUME IInv, [Next]_vars
             PROVE  IInv'
  OBVIOUS
<1>1. CASE startmodule
  BY <1>1, StartModuleIInv
<1>2. CASE startmoduleWaited
  <2>1. /\ frames # << >> /\ Return(TRUE)
        /\ UNCHANGED <<disk, manager, mModulesRunning, processes, phase, quitNow, shutdowns, ends,
                       disturbed>>
    BY <1>2 DEF startmoduleWaited, AtPlace
  <2>2. phase' \in {"boot", "exec", "destructor", "exited"} /\ quitNow' \in BOOLEAN
    BY <2>1 DEF IInv, TypeOK
  <2> QED
    BY <2>1, <2>2, Returns
<1>3. CASE stopmodule
  BY <1>3, StopModuleIInv
<1>4. CASE stopmoduleWaited
  BY <1>4, StopModuleWaitedIInv
<1>5. CASE startallmodules
  BY <1>5, StartAllIInv
<1>6. CASE stopallmodules
  BY <1>6, StopAllIInv
<1>7. CASE shutdownsystem
  <2>1. /\ frames # << >> /\ Return(TRUE) /\ quitNow' = TRUE
        /\ UNCHANGED <<disk, manager, mModulesRunning, processes, phase, shutdowns, ends, disturbed>>
    BY <1>7 DEF shutdownsystem, AtPlace
  <2>2. phase' \in {"boot", "exec", "destructor", "exited"} /\ quitNow' \in BOOLEAN
    BY <2>1 DEF IInv, TypeOK
  <2> QED
    BY <2>1, <2>2, Returns
<1>8. CASE main
  BY <1>8, MainIInv
<1>9. CASE exec
  <2>1. /\ frames # << >> /\ Return(TRUE) /\ phase' = "exec" /\ quitNow' = FALSE
        /\ UNCHANGED <<disk, manager, mModulesRunning, processes, shutdowns, ends, disturbed>>
    BY <1>9 DEF exec, AtPlace
  <2> QED
    BY <2>1, Returns
<1>10. CASE execReturns
  BY <1>10, ExecReturnsIInv
<1>11. CASE exited
  BY <1>11, ExitedIInv
<1>12. CASE Request
  BY <1>12, RequestIInv
<1>13. CASE unixSignal
  <2>1. /\ quitNow' = TRUE
        /\ UNCHANGED <<disk, manager, mModulesRunning, processes, frames, returned, phase,
                       shutdowns, ends, disturbed>>
    BY <1>13 DEF unixSignal
  <2>2. Stack' /\ NoneBeginsToWait
    BY <2>1, SameStack
  <2>3. /\ returned' \in {<<>>, <<TRUE>>, <<FALSE>>}
        /\ phase' \in {"boot", "exec", "destructor", "exited"}
        /\ disturbed' \in BOOLEAN /\ shutdowns' \in 0 .. MaxShutdowns /\ ends' \in 0 .. MaxEnds
    BY <2>1 DEF IInv, TypeOK
  <2> QED
    BY <2>1, <2>2, <2>3, KeptAll
<1>14. ASSUME NEW i \in DOMAIN processes, ModuleEnds(i)
       PROVE  IInv'
  BY <1>14, ModuleEndsIInv
<1>15. CASE UNCHANGED vars
  <2>1. UNCHANGED <<disk, manager, mModulesRunning, processes, frames, returned, phase, quitNow,
                    shutdowns, ends, disturbed>>
    BY <1>15 DEF vars
  <2>2. Stack' /\ NoneBeginsToWait
    BY <2>1, SameStack
  <2>3. /\ returned' \in {<<>>, <<TRUE>>, <<FALSE>>}
        /\ phase' \in {"boot", "exec", "destructor", "exited"}
        /\ quitNow' \in BOOLEAN /\ disturbed' \in BOOLEAN
        /\ shutdowns' \in 0 .. MaxShutdowns /\ ends' \in 0 .. MaxEnds
    BY <2>1 DEF IInv, TypeOK
  <2> QED
    BY <2>1, <2>2, <2>3, KeptAll
<1> QED
  BY <1>1, <1>2, <1>3, <1>4, <1>5, <1>6, <1>7, <1>8, <1>9, <1>10, <1>11, <1>12, <1>13, <1>14,
     <1>15 DEF Next, GoOn

-----------------------------------------------------------------------------
(* Everything the proofs use holds in every state. *)
THEOREM Invariance == Spec => []IInv
BY InitIInv, NextIInv, PTL DEF Spec

(* The table always names processes that were started, and a call that     *)
(* ended has left true or false to its caller: startallmodules and         *)
(* stopallmodules go on with no other (NMainController.cpp 128-187).       *)
THEOREM TypeCorrect == Spec => []TypeOK
<1>1. IInv => TypeOK
  BY DEF IInv
<1> QED
  BY <1>1, Invariance, PTL

(* No version of a module runs twice and none runs without being in the    *)
(* table, for every installation, however many requests are handled within *)
(* the waits of startmodule and stopmodule (NMainController.cpp 87-170).   *)
THEOREM ModulesRunOnce == Spec => []OneProcess
<1>1. IInv => OneProcess
  BY DEF IInv
<1> QED
  BY <1>1, Invariance, PTL

-----------------------------------------------------------------------------
(* Numbers and lists *)

(* Induction: a set with 0 that has the successors of its members has all  *)
(* numbers.                                                                *)
LEMMA AllNumbers ==
  ASSUME NEW S, 0 \in S, \A n \in Nat : n \in S => n + 1 \in S
  PROVE  Nat \subseteq S
<1> SUFFICES ASSUME ~(Nat \subseteq S) PROVE FALSE
  OBVIOUS
<1>1. PICK n \in Nat \ S : \A k \in Nat \ S : ~ (<<k, n>> \in OpToRel(<, Nat))
  <2>1. Nat \ S \subseteq Nat /\ Nat \ S # {}
    OBVIOUS
  <2>2. QED
    BY <2>1, WFMin, NatLessThanWellFounded, Zenon
<1>2. \A k \in Nat \ S : ~ (k < n)
  BY <1>1, Zenon DEF OpToRel
<1>3. n # 0 /\ n - 1 \in Nat /\ n - 1 < n
  OBVIOUS
<1>4. n - 1 \in S
  BY <1>2, <1>3
<1>5. QED
  BY <1>3, <1>4

(* The least of some numbers is one of them. *)
LEMMA MinLeast ==
  ASSUME NEW S \in SUBSET Nat, S # {}
  PROVE  Min(S) \in S /\ \A k \in S : Min(S) <= k
<1>1. PICK n \in S : \A k \in S : ~ (<<k, n>> \in OpToRel(<, Nat))
  BY WFMin, NatLessThanWellFounded, Zenon
<1>2. \A k \in S : ~ (k < n)
  BY <1>1, Zenon DEF OpToRel
<1>3. \A k \in S : n <= k
  BY <1>2
<1>4. QED
  BY <1>3 DEF Min

(* Every element of a finite set is in its list, and once. *)
LEMMA ListOfSet ==
  ASSUME NEW S, IsFiniteSet(S)
  PROVE  /\ SetToSeq(S) \in Seq(S)
         /\ ToSet(SetToSeq(S)) = S
         /\ \A i, j \in DOMAIN SetToSeq(S) : SetToSeq(S)[i] = SetToSeq(S)[j] => i = j
         /\ SetToSeq(S) = <<>> <=> S = {}
<1>1. Cardinality(S) \in Nat /\ ExistsBijection(1 .. Cardinality(S), S)
  BY FS_CardinalityType
<1>2. PICK f : f \in Bijection(1 .. Cardinality(S), S)
  BY <1>1 DEF ExistsBijection
<1>3. f \in [1 .. Cardinality(S) -> S] /\ IsInjective(f)
  BY <1>2 DEF Bijection, Injection, IsInjective
<1>4. PICK g : g = SetToSeq(S)
  OBVIOUS
<1>5. g \in [1 .. Cardinality(S) -> S] /\ IsInjective(g)
  BY <1>3, <1>4 DEF SetToSeq
<1>6. PICK n \in Nat : n = Cardinality(S)
  BY <1>1
<1>7. g \in Injection(1 .. n, S)
  BY <1>5, <1>6 DEF Injection
<1>8. IsFiniteSet(1 .. n) /\ Cardinality(1 .. n) = n
  BY FS_Interval
<1>9. g \in Surjection(1 .. n, S)
  BY <1>7, <1>8, <1>6, FS_Injection
<1>10. g \in Seq(S) /\ DOMAIN g = 1 .. n /\ Len(g) = n
  BY <1>5, <1>6
<1>11. ToSet(g) = S
  BY <1>9, <1>10 DEF ToSet, Surjection
<1>12. \A i, j \in DOMAIN g : g[i] = g[j] => i = j
  BY <1>5 DEF IsInjective
<1>13. g = <<>> <=> S = {}
  BY <1>10, <1>11 DEF ToSet
<1>14. QED
  BY <1>4, <1>10, <1>11, <1>12, <1>13

-----------------------------------------------------------------------------
(* Parameters, and how a file overrides them *)

IsParams(params) ==
  /\ IsSeq(params)
  /\ \A i \in DOMAIN params :
       params[i] = Parameter(params[i].group, params[i].name, params[i].value)

(* There is one such parameter, or with <<>> none. *)
Gives(params, group, name, v) ==
  IF v = <<>> THEN \A i \in DOMAIN params : ~Named(params[i], group, name)
  ELSE \E k \in DOMAIN params :
         /\ Named(params[k], group, name) /\ params[k].value = v[1]
         /\ \A i \in DOMAIN params : Named(params[i], group, name) => i = k

(* What is given is found. *)
LEMMA GivenIsFound ==
  ASSUME NEW params, NEW group, NEW name, NEW v, IsSeq(params), Gives(params, group, name, v)
  PROVE  fGetModuleParamsValue(group, name, params) = IF v = <<>> THEN Empty ELSE v[1]
<1> DEFINE at == {i \in DOMAIN params : Named(params[i], group, name)}
<1>1. CASE v = <<>>
  <2>1. at = {}
    BY <1>1 DEF Gives
  <2>2. QED
    BY <1>1, <2>1 DEF fGetModuleParamsValue
<1>2. CASE v # <<>>
  <2>1. PICK k \in DOMAIN params :
          /\ Named(params[k], group, name) /\ params[k].value = v[1]
          /\ \A i \in DOMAIN params : Named(params[i], group, name) => i = k
    BY <1>2 DEF Gives
  <2>2. at = {k}
    BY <2>1
  <2>3. at \in SUBSET Nat
    BY DEF IsSeq
  <2>4. Min(at) = k
    BY <2>2, <2>3, MinLeast
  <2>5. QED
    BY <1>2, <2>1, <2>2, <2>4 DEF fGetModuleParamsValue
<1>3. QED
  BY <1>1, <1>2

(* What is found is there. *)
LEMMA FoundIsThere ==
  ASSUME NEW params, NEW group, NEW name, IsParams(params),
         fGetModuleParamsValue(group, name, params) # Empty
  PROVE  \E k \in DOMAIN params :
           params[k] = Parameter(group, name, fGetModuleParamsValue(group, name, params))
<1> DEFINE at == {i \in DOMAIN params : Named(params[i], group, name)}
<1>1. at # {}
  BY DEF fGetModuleParamsValue
<1>2. at \in SUBSET Nat
  BY DEF IsParams, IsSeq
<1>3. Min(at) \in at
  BY <1>1, <1>2, MinLeast
<1>4. PICK k : k = Min(at)
  OBVIOUS
<1>5. k \in DOMAIN params /\ Named(params[k], group, name)
  BY <1>3, <1>4
<1>6. fGetModuleParamsValue(group, name, params) = params[k].value
  BY <1>1, <1>4 DEF fGetModuleParamsValue
<1>7. params[k] = Parameter(params[k].group, params[k].name, params[k].value)
  BY <1>5 DEF IsParams
<1>8. QED
  BY <1>5, <1>6, <1>7 DEF Named

(* A list without one of its elements. *)
LEMMA Removed ==
  ASSUME NEW s, IsSeq(s), NEW k \in DOMAIN s
  PROVE  /\ IsSeq(RemoveAt(s, k))
         /\ Len(RemoveAt(s, k)) = Len(s) - 1
         /\ \A i \in 1 .. Len(s) - 1 : RemoveAt(s, k)[i] = IF i < k THEN s[i] ELSE s[i + 1]
<1>1. PICK S : s \in Seq(S)
  BY DEF IsSeq
<1>2. Len(s) \in Nat /\ k \in 1 .. Len(s)
  BY <1>1
<1>3. PICK a : a = SubSeq(s, 1, k - 1)
  OBVIOUS
<1>4. PICK b : b = SubSeq(s, k + 1, Len(s))
  OBVIOUS
<1>5. a \in Seq(S) /\ Len(a) = k - 1 /\ \A i \in 1 .. k - 1 : a[i] = s[i]
  BY <1>1, <1>2, <1>3
<1>6. b \in Seq(S) /\ Len(b) = Len(s) - k /\ \A i \in 1 .. Len(s) - k : b[i] = s[k + i]
  BY <1>1, <1>2, <1>4
<1>7. RemoveAt(s, k) = a \o b
  BY <1>3, <1>4 DEF RemoveAt
<1>8. a \o b \in Seq(S) /\ Len(a \o b) = Len(s) - 1
  BY <1>2, <1>5, <1>6
<1>9. ASSUME NEW i \in 1 .. Len(s) - 1
      PROVE  (a \o b)[i] = IF i < k THEN s[i] ELSE s[i + 1]
  <2>1. CASE i < k
    BY <2>1, <1>2, <1>5, <1>6
  <2>2. CASE ~(i < k)
    <3>1. (a \o b)[i] = b[i - (k - 1)]
      BY <2>2, <1>2, <1>5, <1>6
    <3>2. i - (k - 1) \in 1 .. Len(s) - k /\ k + (i - (k - 1)) = i + 1
      BY <2>2, <1>2
    <3>3. QED
      BY <2>2, <3>1, <3>2, <1>6
  <2>3. QED
    BY <2>1, <2>2
<1>10. QED
  BY <1>7, <1>8, <1>9 DEF IsSeq

(* A list and one element more. *)
LEMMA Added ==
  ASSUME NEW s, IsSeq(s), NEW x
  PROVE  /\ IsSeq(Append(s, x))
         /\ Len(Append(s, x)) = Len(s) + 1
         /\ \A i \in 1 .. Len(s) : Append(s, x)[i] = s[i]
         /\ Append(s, x)[Len(s) + 1] = x
<1>1. PICK S : s \in Seq(S)
  BY DEF IsSeq
<1>2. s \in Seq(S \cup {x}) /\ x \in S \cup {x}
  BY <1>1
<1>3. QED
  BY <1>2 DEF IsSeq

(* The places of a list are numbers from one. *)
LEMMA SeqDomain ==
  ASSUME NEW s, IsSeq(s)
  PROVE  Len(s) \in Nat /\ DOMAIN s = 1 .. Len(s)
BY DEF IsSeq

(* One parameter more: it is given now, and what else is stays so.  It     *)
(* must not find an empty one of its name.                                 *)
LEMMA OverrideGives ==
  ASSUME NEW params, IsParams(params), NEW p, p = Parameter(p.group, p.name, p.value),
         NEW group, NEW name, NEW v, Gives(params, group, name, v),
         Named(p, group, name) => v = <<>> \/ v[1] # Empty
  PROVE  /\ IsParams(Override(params, p))
         /\ Gives(Override(params, p), group, name,
                  IF Named(p, group, name) THEN <<p.value>> ELSE v)
<1>1. PICK value : value = fGetModuleParamsValue(p.group, p.name, params)
  OBVIOUS
<1>2. PICK r : r = Override(params, p)
  OBVIOUS
<1> DEFINE w == IF Named(p, group, name) THEN <<p.value>> ELSE v
<1>3. IsSeq(params) /\ Len(params) \in Nat /\ DOMAIN params = 1 .. Len(params)
  BY SeqDomain DEF IsParams
<1>4. CASE value = Empty
  <2>1. r = Append(params, p)
    BY <1>1, <1>2, <1>4 DEF Override
  <2>2. /\ IsSeq(r) /\ DOMAIN r = 1 .. Len(params) + 1
        /\ \A i \in 1 .. Len(params) : r[i] = params[i]
        /\ r[Len(params) + 1] = p
    BY <1>3, <2>1, Added, SeqDomain
  <2>3. IsParams(r)
    BY <1>3, <2>2 DEF IsParams
  <2>4. CASE Named(p, group, name)
    <3>1. v = <<>>
      BY <1>1, <1>3, <1>4, <2>4, GivenIsFound DEF Named
    <3>2. \A i \in DOMAIN params : ~Named(params[i], group, name)
      BY <3>1 DEF Gives
    <3>3. \A i \in DOMAIN r : Named(r[i], group, name) => i = Len(params) + 1
      BY <1>3, <2>2, <3>2
    <3>4. w = <<p.value>> /\ w # <<>> /\ w[1] = p.value
      BY <2>4
    <3>5. Len(params) + 1 \in DOMAIN r
      BY <1>3, <2>2
    <3> HIDE DEF w
    <3>6. Gives(r, group, name, w)
      BY <2>2, <2>4, <3>3, <3>4, <3>5 DEF Gives
    <3>7. QED
      BY <1>2, <2>3, <3>6 DEF w
  <2>5. CASE ~Named(p, group, name)
    <3>1. w = v
      BY <2>5
    <3>2. CASE v = <<>>
      <4>1. \A i \in DOMAIN r : ~Named(r[i], group, name)
        BY <1>3, <2>2, <2>5, <3>2 DEF Gives
      <4>2. QED
        BY <1>2, <2>3, <3>1, <3>2, <4>1 DEF Gives
    <3>3. CASE v # <<>>
      <4>1. PICK k \in DOMAIN params :
              /\ Named(params[k], group, name) /\ params[k].value = v[1]
              /\ \A i \in DOMAIN params : Named(params[i], group, name) => i = k
        BY <3>3 DEF Gives
      <4>2. k \in DOMAIN r /\ r[k] = params[k]
        BY <1>3, <2>2
      <4>3. \A i \in DOMAIN r : Named(r[i], group, name) => i = k
        BY <1>3, <2>2, <2>5, <4>1
      <4>4. QED
        BY <1>2, <2>3, <3>1, <3>3, <4>1, <4>2, <4>3 DEF Gives
    <3>4. QED
      BY <3>2, <3>3
  <2>6. QED
    BY <2>4, <2>5
<1>5. CASE value # Empty
  <2>1. PICK old : old = {i \in DOMAIN params : params[i] = Parameter(p.group, p.name, value)}
    OBVIOUS
  <2>2. old # {}
    BY <1>1, <1>5, <2>1, FoundIsThere
  <2>3. old \in SUBSET Nat
    BY <1>3, <2>1
  <2>4. PICK m : m = Min(old)
    OBVIOUS
  <2>5. m \in DOMAIN params /\ params[m] = Parameter(p.group, p.name, value)
    <3>1. m \in old
      BY <2>2, <2>3, <2>4, MinLeast
    <3>2. QED
      BY <2>1, <3>1
  <2>6. PICK s : s = RemoveAt(params, m)
    OBVIOUS
  <2>7. /\ IsSeq(s) /\ Len(s) = Len(params) - 1
        /\ \A i \in 1 .. Len(params) - 1 : s[i] = IF i < m THEN params[i] ELSE params[i + 1]
    BY <1>3, <2>5, <2>6, Removed
  <2>8. r = Append(s, p)
    BY <1>1, <1>2, <1>5, <2>1, <2>4, <2>6 DEF Override
  <2>9. /\ IsSeq(r) /\ DOMAIN r = 1 .. Len(params)
        /\ \A i \in 1 .. Len(params) - 1 : r[i] = IF i < m THEN params[i] ELSE params[i + 1]
        /\ r[Len(params)] = p
    <3>1. Len(s) + 1 = Len(params)
      BY <1>3, <2>7
    <3>2. /\ IsSeq(r) /\ Len(r) = Len(params)
          /\ \A i \in 1 .. Len(s) : r[i] = s[i]
          /\ r[Len(params)] = p
      BY <2>7, <2>8, <3>1, Added
    <3>3. DOMAIN r = 1 .. Len(params)
      BY <3>2, SeqDomain
    <3>4. ASSUME NEW i \in 1 .. Len(params) - 1
          PROVE  r[i] = IF i < m THEN params[i] ELSE params[i + 1]
      BY <2>7, <3>2
    <3>5. QED
      BY <3>2, <3>3, <3>4
  <2>10. ASSUME NEW i \in DOMAIN r, i # Len(params)
         PROVE  \E j \in DOMAIN params : j # m /\ r[i] = params[j] /\ j = IF i < m THEN i ELSE i + 1
    <3>1. i \in 1 .. Len(params) - 1
      BY <1>3, <2>9, <2>10
    <3>2. r[i] = IF i < m THEN params[i] ELSE params[i + 1]
      BY <2>9, <3>1
    <3>3. PICK j : j = IF i < m THEN i ELSE i + 1
      OBVIOUS
    <3>4. j \in DOMAIN params /\ j # m
      BY <1>3, <2>5, <3>1, <3>3
    <3>5. QED
      BY <3>2, <3>3, <3>4
  <2>11. IsParams(r)
    <3>1. ASSUME NEW i \in DOMAIN r
          PROVE  r[i] = Parameter(r[i].group, r[i].name, r[i].value)
      <4>1. CASE i = Len(params)
        BY <2>9, <4>1
      <4>2. CASE i # Len(params)
        BY <2>10, <4>2 DEF IsParams
      <4>3. QED
        BY <4>1, <4>2
    <3>2. QED
      BY <2>9, <3>1 DEF IsParams
  <2>12. Named(params[m], p.group, p.name)
    BY <2>5 DEF Named, Parameter
  <2>13. Len(params) \in DOMAIN r
    BY <1>3, <2>5, <2>9
  <2>14. CASE Named(p, group, name)
    <3>1. Named(params[m], group, name)
      BY <2>12, <2>14 DEF Named
    <3>2. v # <<>> /\ \A i \in DOMAIN params : Named(params[i], group, name) => i = m
      BY <2>5, <3>1 DEF Gives
    <3>3. \A i \in DOMAIN r : Named(r[i], group, name) => i = Len(params)
      BY <2>10, <3>2
    <3>4. w = <<p.value>> /\ w # <<>> /\ w[1] = p.value
      BY <2>14
    <3> HIDE DEF w
    <3>5. Gives(r, group, name, w)
      BY <2>9, <2>13, <2>14, <3>3, <3>4 DEF Gives
    <3>6. QED
      BY <1>2, <2>11, <3>5 DEF w
  <2>15. CASE ~Named(p, group, name)
    <3>1. w = v
      BY <2>15
    <3>2. CASE v = <<>>
      <4>1. \A i \in DOMAIN r : ~Named(r[i], group, name)
        BY <2>9, <2>10, <2>15, <3>2 DEF Gives
      <4>2. QED
        BY <1>2, <2>11, <3>1, <3>2, <4>1 DEF Gives
    <3>3. CASE v # <<>>
      <4>1. PICK k \in DOMAIN params :
              /\ Named(params[k], group, name) /\ params[k].value = v[1]
              /\ \A i \in DOMAIN params : Named(params[i], group, name) => i = k
        BY <3>3 DEF Gives
      <4>2. ~Named(params[m], group, name)
        BY <2>12, <2>15 DEF Named
      <4>3. k # m
        BY <4>1, <4>2
      <4>4. PICK n : n = IF k < m THEN k ELSE k - 1
        OBVIOUS
      <4>5. n \in DOMAIN r /\ n # Len(params) /\ r[n] = params[k]
        BY <1>3, <2>5, <2>9, <4>3, <4>4
      <4>6. ASSUME NEW i \in DOMAIN r, Named(r[i], group, name)
            PROVE  i = n
        <5>1. i # Len(params)
          BY <2>9, <2>15, <4>6
        <5>2. PICK j \in DOMAIN params : j # m /\ r[i] = params[j] /\ j = IF i < m THEN i ELSE i + 1
          BY <2>10, <5>1
        <5>3. j = k
          BY <4>1, <4>6, <5>2
        <5>4. QED
          BY <1>3, <2>5, <2>9, <4>4, <5>2, <5>3
      <4>7. QED
        BY <1>2, <2>11, <3>1, <3>3, <4>1, <4>5, <4>6 DEF Gives
    <3>4. QED
      BY <3>2, <3>3
  <2>16. QED
    BY <2>14, <2>15
<1>6. QED
  BY <1>4, <1>5

IsReading(read, params, file) ==
  /\ read[0] = params
  /\ \A n \in 1 .. Len(file) : read[n] = Override(read[n - 1], file[n])
  /\ Overrides(params, file) = read[Len(file)]

(* A file is read as the equations say: there is such a function. *)
LEMMA Readings ==
  ASSUME NEW params, NEW file, Len(file) \in Nat
  PROVE  \E read : IsReading(read, params, file)
<1> DEFINE Reads(f, k) ==
             f = [n \in 0 .. k |-> IF n = 0 THEN params ELSE Override(f[n - 1], file[n])]
           S == {k \in Nat : \E f : Reads(f, k)}
<1>1. 0 \in S
  <2> DEFINE f == [n \in 0 .. 0 |-> params]
  <2>1. Reads(f, 0)
    OBVIOUS
  <2>2. QED
    BY <2>1
<1>2. ASSUME NEW k \in Nat, k \in S
      PROVE  k + 1 \in S
  <2>1. PICK f : Reads(f, k)
    BY <1>2
  <2> DEFINE g == [n \in 0 .. k + 1 |-> IF n = k + 1 THEN Override(f[k], file[k + 1]) ELSE f[n]]
  <2>2. \A n \in 0 .. k + 1 : g[n] = IF n = 0 THEN params ELSE Override(g[n - 1], file[n])
    <3> TAKE n \in 0 .. k + 1
    <3>1. CASE n = k + 1
      BY <3>1
    <3>2. CASE n # k + 1
      <4>1. n \in 0 .. k /\ g[n] = f[n] /\ (n # 0 => g[n - 1] = f[n - 1])
        BY <3>2
      <4>2. f[n] = IF n = 0 THEN params ELSE Override(f[n - 1], file[n])
        BY <2>1, <4>1
      <4>3. QED
        BY <4>1, <4>2
    <3>3. QED
      BY <3>1, <3>2
  <2>3. Reads(g, k + 1)
    BY <2>2
  <2> HIDE DEF g, Reads
  <2>4. QED
    BY <2>3
<1>3. Nat \subseteq S
  <2> HIDE DEF S
  <2>1. QED
    BY <1>1, <1>2, AllNumbers
<1>4. \E f : Reads(f, Len(file))
  <2> HIDE DEF Reads
  <2>1. QED
    BY <1>3
<1>5. PICK read : read = CHOOSE f : Reads(f, Len(file))
  OBVIOUS
<1>6. Overrides(params, file) = read[Len(file)]
  BY <1>5 DEF Overrides
<1>7. Reads(read, Len(file))
  <2> HIDE DEF Reads
  <2>1. QED
    BY <1>4, <1>5
<1>8. read[0] = params
  BY <1>7
<1>9. ASSUME NEW n \in 1 .. Len(file)
      PROVE  read[n] = Override(read[n - 1], file[n])
  BY <1>7
<1>10. IsReading(read, params, file)
  BY <1>6, <1>8, <1>9 DEF IsReading
<1>11. QED
  BY <1>10

(* What is given after a file is what the file says, or else what was      *)
(* given before.  A file that says something must not find an empty value. *)
LEMMA FileGives ==
  ASSUME NEW params, IsParams(params), NEW file, IsFile(file),
         NEW group, NEW name, NEW v, Gives(params, group, name, v),
         Speaks(file, group, name) => v = <<>> \/ v[1] # Empty
  PROVE  /\ IsParams(Overrides(params, file))
         /\ Gives(Overrides(params, file), group, name,
                  IF Speaks(file, group, name) THEN <<ValueIn(file, group, name)>> ELSE v)
<1>1. Len(file) \in Nat /\ DOMAIN file = 1 .. Len(file)
  BY DEF IsFile
<1>2. PICK read : IsReading(read, params, file)
  BY <1>1, Readings, Zenon
<1> DEFINE Said(n) == \E i \in 1 .. n : Named(file[i], group, name)
           w(n) == IF Said(n) THEN <<ValueIn(file, group, name)>> ELSE v
           S == {n \in Nat : n <= Len(file) =>
                               IsParams(read[n]) /\ Gives(read[n], group, name, w(n))}
<1>3. ASSUME NEW i \in DOMAIN file, Named(file[i], group, name)
      PROVE  /\ Speaks(file, group, name)
             /\ ValueIn(file, group, name) = file[i].value
             /\ \A j \in DOMAIN file : Named(file[j], group, name) => j = i
  <2>1. file[i] \in ToSet(file)
    BY DEF ToSet
  <2>2. \A j \in DOMAIN file : Named(file[j], group, name) => j = i
    BY <1>3 DEF IsFile, Named
  <2>3. \A p \in ToSet(file) : Named(p, group, name) => p = file[i]
    BY <2>2 DEF ToSet
  <2>4. (CHOOSE p \in ToSet(file) : Named(p, group, name)) = file[i]
    BY <1>3, <2>1, <2>3
  <2>5. QED
    BY <1>3, <2>1, <2>2, <2>4 DEF Speaks, ValueIn
<1>4. Speaks(file, group, name) <=> Said(Len(file))
  BY <1>1 DEF Speaks, ToSet
<1>5. 0 \in S
  <2>1. w(0) = v
    OBVIOUS
  <2>2. QED
    BY <1>2, <2>1 DEF IsReading
<1>6. ASSUME NEW n \in Nat, n \in S
      PROVE  n + 1 \in S
  <2> SUFFICES ASSUME n + 1 <= Len(file)
               PROVE  IsParams(read[n + 1]) /\ Gives(read[n + 1], group, name, w(n + 1))
    OBVIOUS
  <2>1. n + 1 \in DOMAIN file /\ n + 1 \in 1 .. Len(file) /\ n <= Len(file)
    BY <1>1
  <2>2. PICK p : p = file[n + 1]
    OBVIOUS
  <2>3. p = Parameter(p.group, p.name, p.value)
    BY <2>1, <2>2 DEF IsFile
  <2>4. read[n + 1] = Override(read[n], p)
    BY <1>1, <1>2, <2>1, <2>2 DEF IsReading
  <2>5. PICK u : u = w(n)
    OBVIOUS
  <2>6. IsParams(read[n]) /\ Gives(read[n], group, name, u)
    BY <1>6, <2>1, <2>5
  <2>7. CASE Named(p, group, name)
    <3>1. Speaks(file, group, name) /\ ValueIn(file, group, name) = p.value
      BY <1>3, <2>1, <2>2, <2>7
    <3>2. ~Said(n)
      BY <1>1, <1>3, <2>1, <2>2, <2>7
    <3>3. u = v
      BY <2>5, <3>2
    <3>4. Said(n + 1)
      BY <2>2, <2>7
    <3>5. w(n + 1) = <<p.value>>
      BY <3>1, <3>4
    <3>6. u = <<>> \/ u[1] # Empty
      BY <3>1, <3>3
    <3> HIDE DEF w, Said, S
    <3>7. IsParams(Override(read[n], p)) /\ Gives(Override(read[n], p), group, name, <<p.value>>)
      BY <2>3, <2>6, <2>7, <3>6, OverrideGives
    <3>8. QED
      BY <2>4, <3>5, <3>7
  <2>8. CASE ~Named(p, group, name)
    <3>1. Said(n + 1) <=> Said(n)
      BY <2>2, <2>8
    <3>2. w(n + 1) = u
      BY <2>5, <3>1
    <3> HIDE DEF w, Said, S
    <3>3. IsParams(Override(read[n], p)) /\ Gives(Override(read[n], p), group, name, u)
      BY <2>3, <2>6, <2>8, OverrideGives
    <3>4. QED
      BY <2>4, <3>2, <3>3
  <2>9. QED
    BY <2>7, <2>8
<1>7. Nat \subseteq S
  <2> HIDE DEF S
  <2>1. QED
    BY <1>5, <1>6, AllNumbers
<1>8. IsParams(read[Len(file)]) /\ Gives(read[Len(file)], group, name, w(Len(file)))
  BY <1>1, <1>7
<1>9. w(Len(file)) = IF Speaks(file, group, name) THEN <<ValueIn(file, group, name)>> ELSE v
  BY <1>4
<1> HIDE DEF w, Said, S
<1>10. QED
  BY <1>2, <1>8, <1>9 DEF IsReading

(* The same of a module.ncf that may not be there: nothing is read then. *)
LEMMA NcfGives ==
  ASSUME NEW d, IsDisk(d), NEW path, NEW params, IsParams(params),
         NEW group, NEW name, NEW v, Gives(params, group, name, v),
         path \in DOMAIN d.ncf /\ Speaks(d.ncf[path], group, name) => v = <<>> \/ v[1] # Empty
  PROVE  /\ IsParams(ReadNcf(d, path, params))
         /\ Gives(ReadNcf(d, path, params), group, name,
                  IF path \in DOMAIN d.ncf /\ Speaks(d.ncf[path], group, name)
                  THEN <<ValueIn(d.ncf[path], group, name)>> ELSE v)
<1>1. CASE path \in DOMAIN d.ncf
  <2>1. IsFile(d.ncf[path])
    BY <1>1 DEF IsDisk
  <2>2. ReadNcf(d, path, params) = Overrides(params, d.ncf[path])
    BY <1>1 DEF ReadNcf
  <2>3. QED
    BY <1>1, <2>1, <2>2, FileGives, Zenon
<1>2. CASE path \notin DOMAIN d.ncf
  BY <1>2 DEF ReadNcf
<1>3. QED
  BY <1>1, <1>2

(* The parameters of a module give what is said of it. *)
LEMMA ParamsGive ==
  ASSUME NEW d, IsDisk(d), NEW path, NEW group, NEW name, ~HiddenByEmpty(d, path, group, name)
  PROVE  fGetModuleParamsValue(group, name, ModuleParams(d, path)) = SaidOf(d, path, group, name)
<1> DEFINE files == FilesOf(path)
           at == Speaking(d, path, group, name)
           value(k) == ValueIn(d.ncf[files[k]], group, name)
           after(k, v) == IF k \in at THEN <<value(k)>> ELSE v
<1>1. files[1] = path /\ files[2] = <<path[1]>> /\ files[3] = <<>>
  BY DEF FilesOf
<1>2. \A k \in 1 .. 3 : k \in at <=> /\ files[k] \in DOMAIN d.ncf
                                     /\ Speaks(d.ncf[files[k]], group, name)
  BY DEF Speaking
<1>3. \A j, k \in at : j < k => value(k) # Empty
  BY DEF HiddenByEmpty
<1>4. at \subseteq 1 .. 3
  BY DEF Speaking
<1> HIDE DEF at, files, value
<1>5. PICK p3 : p3 = ReadNcf(d, files[3], <<>>)
  OBVIOUS
<1>6. PICK p2 : p2 = ReadNcf(d, files[2], p3)
  OBVIOUS
<1>7. PICK p1 : p1 = ReadNcf(d, files[1], p2)
  OBVIOUS
<1>8. ModuleParams(d, path) = p1
  BY <1>1, <1>5, <1>6, <1>7 DEF ModuleParams
<1>9. ASSUME NEW k \in 1 .. 3, NEW params, IsParams(params), NEW v,
             Gives(params, group, name, v), k \in at => v = <<>> \/ v[1] # Empty
      PROVE  /\ IsParams(ReadNcf(d, files[k], params))
             /\ Gives(ReadNcf(d, files[k], params), group, name, after(k, v))
  BY <1>2, <1>9, NcfGives, Zenon DEF value
<1>10. IsParams(<<>>) /\ Gives(<<>>, group, name, <<>>)
  BY DEF IsParams, IsSeq, Gives
<1>11. PICK v3 : v3 = after(3, <<>>)
  OBVIOUS
<1>12. PICK v2 : v2 = after(2, v3)
  OBVIOUS
<1>13. PICK v1 : v1 = after(1, v2)
  OBVIOUS
<1>14. IsParams(p3) /\ Gives(p3, group, name, v3)
  BY <1>5, <1>9, <1>10, <1>11
<1>15. 2 \in at => v3 = <<>> \/ v3[1] # Empty
  BY <1>3, <1>11
<1>16. IsParams(p2) /\ Gives(p2, group, name, v2)
  BY <1>6, <1>9, <1>12, <1>14, <1>15
<1>17. 1 \in at => v2 = <<>> \/ v2[1] # Empty
  BY <1>3, <1>11, <1>12
<1>18. IsParams(p1) /\ Gives(p1, group, name, v1)
  BY <1>7, <1>9, <1>13, <1>16, <1>17
<1>19. fGetModuleParamsValue(group, name, p1) = IF v1 = <<>> THEN Empty ELSE v1[1]
  BY <1>18, GivenIsFound DEF IsParams
<1>20. CASE at = {}
  <2>1. v1 = <<>>
    BY <1>11, <1>12, <1>13, <1>20
  <2>2. SaidOf(d, path, group, name) = Empty
    BY <1>20 DEF SaidOf, at
  <2>3. QED
    BY <1>8, <1>19, <2>1, <2>2
<1>21. CASE at # {}
  <2>1. at \in SUBSET Nat
    BY <1>4
  <2>2. PICK m : m = Min(at)
    OBVIOUS
  <2>3. m \in at /\ \A k \in at : m <= k
    BY <1>21, <2>1, <2>2, MinLeast
  <2>4. v1 = <<value(m)>>
    BY <1>4, <1>11, <1>12, <1>13, <2>3
  <2>5. v1 # <<>> /\ v1[1] = value(m)
    BY <2>4
  <2>6. SaidOf(d, path, group, name) = value(m)
    BY <1>21, <2>2 DEF SaidOf, at, value, files
  <2>7. QED
    BY <1>8, <1>19, <2>5, <2>6
<1>22. QED
  BY <1>20, <1>21

-----------------------------------------------------------------------------
(* The list of the modules *)

InfoOf(d, path) == ModuleInfo(path[1], path[2], path[3], ModuleParams(d, path))

(* The infos of some modules, each once. *)
Lists(d, infos, paths) ==
  /\ IsSeq(infos)
  /\ \A i \in DOMAIN infos : infos[i].dir \in paths /\ infos[i] = InfoOf(d, infos[i].dir)
  /\ \A p \in paths : \E i \in DOMAIN infos : infos[i].dir = p
  /\ \A i, j \in DOMAIN infos : infos[i].dir = infos[j].dir => i = j

(* Two lists, one after the other. *)
LEMMA JoinTwo ==
  ASSUME NEW d, NEW s, NEW t, NEW A, NEW B, Lists(d, s, A), Lists(d, t, B), A \cap B = {}
  PROVE  Lists(d, s \o t, A \cup B)
<1>1. IsSeq(s) /\ IsSeq(t)
  BY DEF Lists
<1>2. PICK S : s \in Seq(S)
  BY <1>1 DEF IsSeq
<1>3. PICK T : t \in Seq(T)
  BY <1>1 DEF IsSeq
<1>4. s \in Seq(S \cup T) /\ t \in Seq(S \cup T)
  BY <1>2, <1>3
<1>5. PICK m \in Nat : m = Len(s) /\ DOMAIN s = 1 .. m
  BY <1>2
<1>6. PICK n \in Nat : n = Len(t) /\ DOMAIN t = 1 .. n
  BY <1>3
<1>7. PICK r : r = s \o t
  OBVIOUS
<1>8. r \in Seq(S \cup T) /\ DOMAIN r = 1 .. m + n
  BY <1>4, <1>5, <1>6, <1>7
<1>9. /\ \A i \in 1 .. m : r[i] = s[i]
      /\ \A i \in m + 1 .. m + n : r[i] = t[i - m]
  BY <1>4, <1>5, <1>6, <1>7
<1>10. ASSUME NEW i \in DOMAIN r
       PROVE  \/ i \in DOMAIN s /\ r[i] = s[i]
              \/ i - m \in DOMAIN t /\ r[i] = t[i - m]
  BY <1>5, <1>6, <1>8, <1>9
<1>11. ASSUME NEW i \in DOMAIN r
       PROVE  r[i].dir \in A \cup B /\ r[i] = InfoOf(d, r[i].dir)
  BY <1>10 DEF Lists
<1>12. ASSUME NEW p \in A \cup B
       PROVE  \E i \in DOMAIN r : r[i].dir = p
  <2>1. CASE p \in A
    <3>1. PICK i \in DOMAIN s : s[i].dir = p
      BY <2>1 DEF Lists
    <3>2. i \in DOMAIN r /\ r[i] = s[i]
      BY <1>5, <1>8, <1>9
    <3>3. QED
      BY <3>1, <3>2
  <2>2. CASE p \in B
    <3>1. PICK i \in DOMAIN t : t[i].dir = p
      BY <2>2 DEF Lists
    <3>2. m + i \in m + 1 .. m + n /\ m + i \in 1 .. m + n /\ (m + i) - m = i
      BY <1>6
    <3>3. m + i \in DOMAIN r /\ r[m + i] = t[i]
      BY <1>8, <1>9, <3>2
    <3>4. QED
      BY <3>1, <3>3
  <2>3. QED
    BY <2>1, <2>2
<1>13. ASSUME NEW i \in DOMAIN r, NEW j \in DOMAIN r, r[i].dir = r[j].dir
       PROVE  i = j
  <2>1. CASE i \in DOMAIN s /\ r[i] = s[i] /\ j \in DOMAIN s /\ r[j] = s[j]
    BY <1>13, <2>1 DEF Lists
  <2>2. CASE i - m \in DOMAIN t /\ r[i] = t[i - m] /\ j - m \in DOMAIN t /\ r[j] = t[j - m]
    <3>1. i - m = j - m
      BY <1>13, <2>2 DEF Lists
    <3>2. QED
      BY <1>8, <3>1
  <2>3. CASE i \in DOMAIN s /\ r[i] = s[i] /\ j - m \in DOMAIN t /\ r[j] = t[j - m]
    BY <1>13, <2>3 DEF Lists
  <2>4. CASE j \in DOMAIN s /\ r[j] = s[j] /\ i - m \in DOMAIN t /\ r[i] = t[i - m]
    BY <1>13, <2>4 DEF Lists
  <2>5. QED
    BY <1>10, <2>1, <2>2, <2>3, <2>4
<1>14. QED
  BY <1>7, <1>8, <1>11, <1>12, <1>13 DEF Lists, IsSeq

IsFlattening(f, seqs) ==
  /\ f[1] = seqs[1]
  /\ \A i \in 2 .. Len(seqs) : f[i] = f[i - 1] \o seqs[i]
  /\ FlattenSeq(seqs) = f[Len(seqs)]

(* There is a function as FlattenSeq has it. *)
LEMMA Flattenings ==
  ASSUME NEW seqs, Len(seqs) \in Nat, Len(seqs) # 0
  PROVE  \E f : IsFlattening(f, seqs)
<1> DEFINE Flattens(f, k) ==
             f = [i \in 1 .. k |-> IF i = 1 THEN seqs[i] ELSE f[i - 1] \o seqs[i]]
           S == {k \in Nat : \E f : Flattens(f, k)}
<1>1. 0 \in S
  <2> DEFINE f == [i \in 1 .. 0 |-> seqs[i]]
  <2>1. Flattens(f, 0)
    OBVIOUS
  <2>2. QED
    BY <2>1
<1>2. ASSUME NEW k \in Nat, k \in S
      PROVE  k + 1 \in S
  <2>1. PICK f : Flattens(f, k)
    BY <1>2
  <2> DEFINE g == [i \in 1 .. k + 1 |->
                     IF i # k + 1 THEN f[i] ELSE IF k = 0 THEN seqs[1] ELSE f[k] \o seqs[k + 1]]
  <2>2. \A i \in 1 .. k + 1 : g[i] = IF i = 1 THEN seqs[i] ELSE g[i - 1] \o seqs[i]
    <3> TAKE i \in 1 .. k + 1
    <3>1. CASE i = k + 1
      <4>1. k # 0 => g[k] = f[k]
        OBVIOUS
      <4>2. QED
        BY <3>1, <4>1
    <3>2. CASE i # k + 1
      <4>1. i \in 1 .. k /\ g[i] = f[i] /\ (i # 1 => g[i - 1] = f[i - 1])
        BY <3>2
      <4>2. f[i] = IF i = 1 THEN seqs[i] ELSE f[i - 1] \o seqs[i]
        BY <2>1, <4>1
      <4>3. QED
        BY <4>1, <4>2
    <3>3. QED
      BY <3>1, <3>2
  <2>3. Flattens(g, k + 1)
    BY <2>2
  <2> HIDE DEF g, Flattens
  <2>4. QED
    BY <2>3
<1>3. Nat \subseteq S
  <2> HIDE DEF S
  <2>1. QED
    BY <1>1, <1>2, AllNumbers
<1>4. \E f : Flattens(f, Len(seqs))
  <2> HIDE DEF Flattens
  <2>1. QED
    BY <1>3
<1>5. PICK f : f = CHOOSE g : Flattens(g, Len(seqs))
  OBVIOUS
<1>6. FlattenSeq(seqs) = f[Len(seqs)]
  BY <1>5 DEF FlattenSeq
<1>7. Flattens(f, Len(seqs))
  <2> HIDE DEF Flattens
  <2>1. QED
    BY <1>4, <1>5
<1>8. f[1] = seqs[1]
  BY <1>7
<1>9. ASSUME NEW i \in 2 .. Len(seqs)
      PROVE  f[i] = f[i - 1] \o seqs[i]
  <2>1. i \in 1 .. Len(seqs) /\ i # 1
    OBVIOUS
  <2>2. \A j \in 1 .. Len(seqs) : f[j] = IF j = 1 THEN seqs[j] ELSE f[j - 1] \o seqs[j]
    BY <1>7
  <2> HIDE DEF Flattens
  <2>3. QED
    BY <2>1, <2>2
<1>10. IsFlattening(f, seqs)
  BY <1>6, <1>8, <1>9 DEF IsFlattening
<1>11. QED
  BY <1>10

(* Lists of different modules. *)
ListParts(d, n, seqs, P) ==
  /\ \A k \in 1 .. n : Lists(d, seqs[k], P[k])
  /\ \A j, k \in 1 .. n : j # k => P[j] \cap P[k] = {}

PartsOf(n, P) == UNION {P[k] : k \in 1 .. n}

(* One after the other they are a list of all of these. *)
LEMMA JoinLists ==
  ASSUME NEW d, NEW n \in Nat, NEW seqs, NEW P, IsSeq(seqs), Len(seqs) = n, ListParts(d, n, seqs, P)
  PROVE  Lists(d, FlattenSeq(seqs), PartsOf(n, P))
<1>1. CASE n = 0
  <2>1. seqs = <<>>
    BY <1>1 DEF IsSeq
  <2>2. FlattenSeq(seqs) = <<>>
    BY <1>1, <2>1 DEF FlattenSeq
  <2>3. PartsOf(n, P) = {}
    BY <1>1 DEF PartsOf
  <2>4. QED
    BY <2>2, <2>3 DEF Lists, IsSeq
<1>2. CASE n # 0
  <2>1. PICK f : IsFlattening(f, seqs)
    BY <1>2, Flattenings
  <2> DEFINE upTo(k) == UNION {P[i] : i \in 1 .. k}
             S == {k \in Nat : k \in 1 .. n => Lists(d, f[k], upTo(k))}
  <2>2. 0 \in S
    OBVIOUS
  <2>3. ASSUME NEW k \in Nat, k \in S
        PROVE  k + 1 \in S
    <3> SUFFICES ASSUME k + 1 \in 1 .. n
                 PROVE  Lists(d, f[k + 1], upTo(k + 1))
      OBVIOUS
    <3>1. Lists(d, seqs[k + 1], P[k + 1])
      BY DEF ListParts
    <3>2. CASE k = 0
      <4>1. k + 1 = 1
        BY <3>2
      <4>2. upTo(1) = P[1]
        OBVIOUS
      <4>3. Lists(d, seqs[1], P[1])
        BY <3>1, <4>1
      <4>4. f[1] = seqs[1]
        BY <2>1 DEF IsFlattening
      <4> HIDE DEF upTo
      <4>5. QED
        BY <4>1, <4>2, <4>3, <4>4
    <3>3. CASE k # 0
      <4>1. k \in 1 .. n /\ k + 1 \in 2 .. n /\ (k + 1) - 1 = k
        BY <3>3
      <4>2. f[k + 1] = f[k] \o seqs[k + 1]
        BY <2>1, <4>1 DEF IsFlattening
      <4>3. Lists(d, f[k], upTo(k))
        BY <2>3, <4>1
      <4>4. upTo(k) \cap P[k + 1] = {}
        <5>1. \A i \in 1 .. k : P[i] \cap P[k + 1] = {}
          BY <4>1 DEF ListParts
        <5>2. QED
          BY <5>1
      <4>5. upTo(k + 1) = upTo(k) \cup P[k + 1]
        <5>1. 1 .. k + 1 = (1 .. k) \cup {k + 1}
          OBVIOUS
        <5>2. QED
          BY <5>1
      <4> HIDE DEF upTo
      <4>6. QED
        BY <3>1, <4>2, <4>3, <4>4, <4>5, JoinTwo
    <3>4. QED
      BY <3>2, <3>3
  <2>4. Nat \subseteq S
    <3> HIDE DEF S
    <3>1. QED
      BY <2>2, <2>3, AllNumbers
  <2>5. n \in 1 .. n
    BY <1>2
  <2>6. Lists(d, f[n], upTo(n))
    <3>1. n \in S
      <4> HIDE DEF S
      <4>1. QED
        BY <2>4
    <3>2. QED
      BY <2>5, <3>1
  <2>7. QED
    BY <2>1, <2>6 DEF IsFlattening, PartsOf
<1>3. QED
  BY <1>1, <1>2

(* The directories in a directory, each once. *)
LEMMA Folders ==
  ASSUME NEW d, IsDisk(d), NEW path
  PROVE  /\ IsSeq(fFoldersNameList(d, path))
         /\ IsFiniteSet(ToSet(fFoldersNameList(d, path)))
         /\ ToSet(fFoldersNameList(d, path)) = {Last(p) : p \in {q \in d.dirs : Front(q) = path}}
         /\ \A i, j \in DOMAIN fFoldersNameList(d, path) :
              fFoldersNameList(d, path)[i] = fFoldersNameList(d, path)[j] => i = j
         /\ fFoldersNameList(d, path) = <<>> <=> ToSet(fFoldersNameList(d, path)) = {}
<1>1. PICK Q : Q = {q \in d.dirs : Front(q) = path}
  OBVIOUS
<1>2. PICK S : S = {Last(p) : p \in Q}
  OBVIOUS
<1>3. IsFiniteSet(Q)
  <2>1. Q \in SUBSET d.dirs /\ IsFiniteSet(d.dirs)
    BY <1>1 DEF IsDisk
  <2>2. QED
    BY <2>1, FS_Subset
<1>4. PICK f : f = [p \in Q |-> Last(p)]
  OBVIOUS
<1>5. f \in Surjection(Q, S)
  BY <1>2, <1>4 DEF Surjection
<1>6. IsFiniteSet(S)
  BY <1>3, <1>5, FS_Surjection
<1>7. fFoldersNameList(d, path) = SetToSeq(S)
  BY <1>1, <1>2 DEF fFoldersNameList
<1>8. /\ SetToSeq(S) \in Seq(S)
      /\ ToSet(SetToSeq(S)) = S
      /\ \A i, j \in DOMAIN SetToSeq(S) : SetToSeq(S)[i] = SetToSeq(S)[j] => i = j
      /\ SetToSeq(S) = <<>> <=> S = {}
  BY <1>6, ListOfSet
<1>9. IsSeq(SetToSeq(S))
  BY <1>8 DEF IsSeq
<1> HIDE DEF IsSeq
<1>10. S = {Last(p) : p \in {q \in d.dirs : Front(q) = path}}
  BY <1>1, <1>2
<1>11. QED
  BY <1>6, <1>7, <1>8, <1>9, <1>10

(* The parts of the path of a directory. *)
LEMMA PathParts ==
  ASSUME NEW d, IsDisk(d), NEW p \in d.dirs
  PROVE  /\ Len(p) \in 1 .. 3
         /\ Len(p) = 1 => p = <<p[1]>> /\ Front(p) = <<>> /\ Last(p) = p[1]
         /\ Len(p) = 2 => p = <<p[1], p[2]>> /\ Front(p) = <<p[1]>> /\ Last(p) = p[2]
         /\ Len(p) = 3 => p = <<p[1], p[2], p[3]>> /\ Front(p) = <<p[1], p[2]>> /\ Last(p) = p[3]
         /\ Len(p) > 1 => Front(p) \in d.dirs
<1>1. Len(p) \in 1 .. 3 /\ p = [i \in 1 .. Len(p) |-> p[i]]
  BY DEF IsDisk
<1>2. PICK n \in 1 .. 3 : n = Len(p)
  BY <1>1
<1>3. PICK S : S = {p[i] : i \in 1 .. n}
  OBVIOUS
<1>4. p \in Seq(S)
  BY <1>1, <1>2, <1>3
<1>5. \A i \in 1 .. n : p[i] \in S
  BY <1>3
<1>6. Last(p) = p[n]
  BY <1>2 DEF Last
<1>7. Front(p) \in Seq(S) /\ Len(Front(p)) = n - 1 /\ \A i \in 1 .. n - 1 : Front(p)[i] = p[i]
  BY <1>2, <1>4 DEF Front
<1>8. Len(p) > 1 => Front(p) \in d.dirs
  BY DEF IsDisk
<1>9. CASE n = 1
  <2>1. <<p[1]>> \in Seq(S) /\ Len(<<p[1]>>) = 1 /\ <<p[1]>>[1] = p[1]
    BY <1>5, <1>9
  <2>2. \A i \in 1 .. Len(p) : p[i] = <<p[1]>>[i]
    BY <1>2, <1>9, <2>1
  <2>3. p = <<p[1]>>
    BY <1>2, <1>4, <1>9, <2>1, <2>2, SeqEqual
  <2>4. Front(p) = <<>>
    BY <1>7, <1>9, EmptySeq
  <2>5. QED
    BY <1>2, <1>6, <1>9, <2>3, <2>4
<1>10. CASE n = 2
  <2>1. PICK t : t = <<p[1], p[2]>>
    OBVIOUS
  <2>2. t \in Seq(S) /\ Len(t) = 2 /\ t[1] = p[1] /\ t[2] = p[2]
    BY <1>5, <1>10, <2>1
  <2>3. \A i \in 1 .. Len(p) : p[i] = t[i]
    BY <1>2, <1>10, <2>2
  <2>4. p = t
    BY <1>2, <1>4, <1>10, <2>2, <2>3, SeqEqual
  <2>5. PICK u : u = <<p[1]>>
    OBVIOUS
  <2>6. u \in Seq(S) /\ Len(u) = 1 /\ u[1] = p[1]
    BY <1>5, <1>10, <2>5
  <2>7. \A i \in 1 .. Len(Front(p)) : Front(p)[i] = u[i]
    BY <1>7, <1>10, <2>6
  <2>8. Front(p) = u
    BY <1>7, <1>10, <2>6, <2>7, SeqEqual
  <2>9. QED
    BY <1>2, <1>6, <1>8, <1>10, <2>1, <2>4, <2>5, <2>8
<1>11. CASE n = 3
  <2>1. PICK t : t = <<p[1], p[2], p[3]>>
    OBVIOUS
  <2>2. t \in Seq(S) /\ Len(t) = 3 /\ t[1] = p[1] /\ t[2] = p[2] /\ t[3] = p[3]
    BY <1>5, <1>11, <2>1
  <2>3. \A i \in 1 .. Len(p) : p[i] = t[i]
    BY <1>2, <1>11, <2>2
  <2>4. p = t
    BY <1>2, <1>4, <1>11, <2>2, <2>3, SeqEqual
  <2>5. PICK u : u = <<p[1], p[2]>>
    OBVIOUS
  <2>6. u \in Seq(S) /\ Len(u) = 2 /\ u[1] = p[1] /\ u[2] = p[2]
    BY <1>5, <1>11, <2>5
  <2>7. \A i \in 1 .. Len(Front(p)) : Front(p)[i] = u[i]
    BY <1>7, <1>11, <2>6
  <2>8. Front(p) = u
    BY <1>7, <1>11, <2>6, <2>7, SeqEqual
  <2>9. QED
    BY <1>2, <1>6, <1>8, <1>11, <2>1, <2>4, <2>5, <2>8
<1>12. QED
  BY <1>9, <1>10, <1>11

(* It has a file of its own and is managed, as what is read says. *)
Manages(d, path) ==
  /\ path \in DOMAIN d.ncf
  /\ fGetModuleParamsValue("Core", "Managed", ModuleParams(d, path)) = "1"

(* The versions of the modules on the disk that are. *)
ManagedPaths(d) == {p \in d.dirs : Len(p) = 3 /\ Manages(d, p)}

(* Reading one version lists it or nothing. *)
LEMMA ReadOne ==
  ASSUME NEW d, NEW ns, NEW name, NEW version
  PROVE  Lists(d, fReadModuleNcf(d, ns, name, version),
               IF Manages(d, <<ns, name, version>>) THEN {<<ns, name, version>>} ELSE {})
<1>1. PICK path : path = <<ns, name, version>>
  OBVIOUS
<1>2. CASE Manages(d, path)
  <2>1. PICK info : info = ModuleInfo(ns, name, version, ModuleParams(d, path))
    OBVIOUS
  <2>2. fReadModuleNcf(d, ns, name, version) = <<info>>
    BY <1>1, <1>2, <2>1 DEF fReadModuleNcf, Manages
  <2>3. info.dir = path
    BY <1>1, <2>1 DEF ModuleInfo
  <2>4. path[1] = ns /\ path[2] = name /\ path[3] = version
    BY <1>1
  <2>5. info = InfoOf(d, path)
    BY <2>1, <2>4 DEF InfoOf
  <2>6. Lists(d, <<info>>, {path})
    <3>1. <<info>> \in Seq({info}) /\ Len(<<info>>) = 1 /\ <<info>>[1] = info
      OBVIOUS
    <3>2. IsSeq(<<info>>)
      BY <3>1 DEF IsSeq
    <3>3. \A i \in DOMAIN <<info>> : i = 1
      BY <3>1
    <3>4. 1 \in DOMAIN <<info>>
      BY <3>1
    <3> HIDE DEF IsSeq
    <3>5. QED
      BY <2>3, <2>5, <3>1, <3>2, <3>3, <3>4 DEF Lists
  <2>7. QED
    BY <1>1, <1>2, <2>2, <2>6
<1>3. CASE ~Manages(d, path)
  <2>1. fReadModuleNcf(d, ns, name, version) = <<>>
    BY <1>1, <1>3 DEF fReadModuleNcf, Manages
  <2>2. Lists(d, <<>>, {})
    BY DEF Lists, IsSeq
  <2>3. QED
    BY <1>1, <1>3, <2>1, <2>2
<1>4. QED
  BY <1>2, <1>3

(* What the lists of a scan are: the namespaces with modules, the modules  *)
(* of a namespace, and the versions of a module.                           *)
LEMMA Scanned ==
  ASSUME NEW d, IsDisk(d)
  PROVE  LET scan == fScanManagedModules(d) IN
         /\ IsFiniteSet(DOMAIN scan.mNamespaceModules)
         /\ \A ns \in DOMAIN scan.mNamespaceModules :
              scan.mNamespaceModules[ns] = fFoldersNameList(d, <<ns>>)
         /\ \A p \in d.dirs : Len(p) = 2 => p[1] \in DOMAIN scan.mNamespaceModules
         /\ \A p \in d.dirs : Len(p) = 2 =>
              fGetModuleVersions(scan, p[1], p[2]) = fFoldersNameList(d, p)
         /\ \A ns : \A i \in DOMAIN fFoldersNameList(d, <<ns>>) :
              <<ns, fFoldersNameList(d, <<ns>>)[i]>> \in d.dirs
<1>1. PICK scan : scan = fScanManagedModules(d)
  OBVIOUS
<1> DEFINE folders(path) == fFoldersNameList(d, path)
<1>2. PICK namespaces : namespaces = {ns \in ToSet(folders(<<>>)) : folders(<<ns>>) # <<>>}
  OBVIOUS
<1>3. PICK names : names = {p \in d.dirs : Len(p) = 2 /\ folders(p) # <<>>}
  OBVIOUS
<1>4. scan = [mNamespaceModules |-> [ns \in namespaces |-> folders(<<ns>>)],
              mModuleVersions   |-> [path \in names |-> folders(path)]]
  BY <1>1, <1>2, <1>3 DEF fScanManagedModules
<1>5. /\ scan.mNamespaceModules = [ns \in namespaces |-> folders(<<ns>>)]
      /\ scan.mModuleVersions = [path \in names |-> folders(path)]
  BY <1>4
<1>6. IsFiniteSet(namespaces)
  <2>1. IsFiniteSet(ToSet(folders(<<>>)))
    BY Folders
  <2>2. namespaces \in SUBSET ToSet(folders(<<>>))
    BY <1>2
  <2> HIDE DEF folders
  <2>3. QED
    BY <2>1, <2>2, FS_Subset
<1>7. \A path : ToSet(folders(path)) = {Last(p) : p \in {q \in d.dirs : Front(q) = path}}
  BY Folders
<1>8. \A path : folders(path) = <<>> <=> ToSet(folders(path)) = {}
  BY Folders
<1> HIDE DEF folders
<1>9. ASSUME NEW p \in d.dirs, Len(p) = 2
      PROVE  p[1] \in namespaces
  <2>1. Front(p) = <<p[1]>> /\ Front(p) \in d.dirs
    BY <1>9, PathParts
  <2>2. PICK q \in d.dirs : q = <<p[1]>>
    BY <2>1
  <2>3. Len(q) = 1 /\ q[1] = p[1]
    BY <2>2
  <2>4. Front(q) = <<>> /\ Last(q) = p[1]
    BY <2>3, PathParts
  <2>5. p[1] \in ToSet(folders(<<>>))
    BY <1>7, <2>4
  <2>6. ToSet(folders(<<p[1]>>)) # {}
    BY <1>7, <2>1
  <2>7. QED
    BY <1>2, <1>8, <2>5, <2>6
<1>10. ASSUME NEW p \in d.dirs, Len(p) = 2
       PROVE  fGetModuleVersions(scan, p[1], p[2]) = folders(p)
  <2>1. p = <<p[1], p[2]>>
    BY <1>10, PathParts
  <2>2. CASE p \in names
    BY <1>5, <2>1, <2>2 DEF fGetModuleVersions
  <2>3. CASE p \notin names
    <3>1. folders(p) = <<>>
      BY <1>3, <1>10, <2>3
    <3>2. fGetModuleVersions(scan, p[1], p[2]) = <<>>
      BY <1>5, <2>1, <2>3 DEF fGetModuleVersions
    <3>3. QED
      BY <3>1, <3>2
  <2>4. QED
    BY <2>2, <2>3
<1>11. ASSUME NEW ns, NEW i \in DOMAIN folders(<<ns>>)
       PROVE  <<ns, folders(<<ns>>)[i]>> \in d.dirs
  <2>1. folders(<<ns>>)[i] \in ToSet(folders(<<ns>>))
    BY DEF ToSet
  <2>2. PICK p \in d.dirs : Front(p) = <<ns>> /\ Last(p) = folders(<<ns>>)[i]
    BY <1>7, <2>1
  <2>3. Len(p) = 2
    BY <2>2, PathParts
  <2>4. p = <<p[1], p[2]>> /\ <<p[1]>> = <<ns>> /\ p[2] = folders(<<ns>>)[i]
    BY <2>2, <2>3, PathParts
  <2>5. QED
    BY <2>4
<1>12. QED
  BY <1>1, <1>5, <1>6, <1>9, <1>10, <1>11 DEF folders

(* A function over the indices of a list is a list. *)
LEMMA ListOver ==
  ASSUME NEW list, IsSeq(list), NEW f, DOMAIN f = DOMAIN list, f = [i \in DOMAIN f |-> f[i]]
  PROVE  IsSeq(f) /\ Len(f) = Len(list)
<1>1. PICK n \in Nat : n = Len(list) /\ DOMAIN list = 1 .. n
  BY SeqDomain
<1>2. PICK S : S = {f[i] : i \in 1 .. n}
  OBVIOUS
<1>3. \A i \in 1 .. n : f[i] \in S
  BY <1>2
<1>4. f \in [1 .. n -> S]
  BY <1>1, <1>3
<1>5. f \in Seq(S) /\ Len(f) = n
  BY <1>4
<1>6. QED
  BY <1>1, <1>5 DEF IsSeq

(* The modules of a list of names, one list of infos for each: some of M.  *)
LEMMA ListedUnder ==
  ASSUME NEW d, NEW list, IsSeq(list), NEW M, NEW part, NEW infos,
         \A i, j \in DOMAIN list : list[i] = list[j] => i = j,
         IsSeq(infos), Len(infos) = Len(list),
         \A i \in DOMAIN list : Lists(d, infos[i], {p \in M : p[part] = list[i]}),
         \A p \in M : p[part] \in ToSet(list)
  PROVE  Lists(d, FlattenSeq(infos), M)
<1>1. PICK n \in Nat : n = Len(list) /\ DOMAIN list = 1 .. n
  BY SeqDomain
<1>2. PICK P : P = [k \in 1 .. n |-> {p \in M : p[part] = list[k]}]
  OBVIOUS
<1>3. \A k \in 1 .. n : Lists(d, infos[k], P[k])
  BY <1>1, <1>2
<1>4. \A j, k \in 1 .. n : j # k => P[j] \cap P[k] = {}
  BY <1>1, <1>2
<1>5. UNION {P[k] : k \in 1 .. n} = M
  <2>1. UNION {P[k] : k \in 1 .. n} \subseteq M
    BY <1>2
  <2>2. ASSUME NEW p \in M
        PROVE  p \in UNION {P[k] : k \in 1 .. n}
    <3>1. PICK k \in 1 .. n : p[part] = list[k]
      BY <1>1 DEF ToSet
    <3>2. p \in P[k]
      BY <1>2, <3>1
    <3>3. QED
      BY <3>2
  <2>3. QED
    BY <2>1, <2>2
<1>6. Lists(d, FlattenSeq(infos), PartsOf(n, P))
  <2>1. Len(infos) = n
    BY <1>1
  <2>2. ListParts(d, n, infos, P)
    BY <1>3, <1>4 DEF ListParts
  <2>3. QED
    BY <2>1, <2>2, JoinLists, Zenon
<1>7. QED
  BY <1>5, <1>6 DEF PartsOf

(* The list of a manager that has read a disk: the managed modules.        *)
LEMMA ListedModules ==
  ASSUME NEW d, IsDisk(d)
  PROVE  Lists(d, fLoadModulesInfo(d).mModuleInfoList, ManagedPaths(d))
<1>1. PICK scan : scan = fScanManagedModules(d)
  OBVIOUS
<1>2. /\ IsFiniteSet(DOMAIN scan.mNamespaceModules)
      /\ \A ns \in DOMAIN scan.mNamespaceModules :
           scan.mNamespaceModules[ns] = fFoldersNameList(d, <<ns>>)
      /\ \A p \in d.dirs : Len(p) = 2 => p[1] \in DOMAIN scan.mNamespaceModules
      /\ \A p \in d.dirs : Len(p) = 2 =>
           fGetModuleVersions(scan, p[1], p[2]) = fFoldersNameList(d, p)
      /\ \A ns : \A i \in DOMAIN fFoldersNameList(d, <<ns>>) :
           <<ns, fFoldersNameList(d, <<ns>>)[i]>> \in d.dirs
  BY <1>1, Scanned
<1> DEFINE namespaces == SetToSeq(DOMAIN scan.mNamespaceModules)
           versions(ns, name) == fGetModuleVersions(scan, ns, name)
           ofVersions(ns, name) ==
             [i \in DOMAIN versions(ns, name) |-> fReadModuleNcf(d, ns, name, versions(ns, name)[i])]
           names(ns) == scan.mNamespaceModules[ns]
           ofNames(ns) == [i \in DOMAIN names(ns) |-> FlattenSeq(ofVersions(ns, names(ns)[i]))]
           all == [i \in DOMAIN namespaces |-> FlattenSeq(ofNames(namespaces[i]))]
           M == ManagedPaths(d)
<1>3. fLoadModulesInfo(d).mModuleInfoList = FlattenSeq(all)
  BY <1>1 DEF fLoadModulesInfo
<1>4. ASSUME NEW p \in M
      PROVE  /\ p \in d.dirs /\ p = <<p[1], p[2], p[3]>>
             /\ <<p[1], p[2]>> \in d.dirs /\ Front(p) = <<p[1], p[2]>> /\ Last(p) = p[3]
             /\ p[1] \in DOMAIN scan.mNamespaceModules
             /\ p[2] \in ToSet(fFoldersNameList(d, <<p[1]>>))
             /\ p[3] \in ToSet(fFoldersNameList(d, <<p[1], p[2]>>))
  <2>1. p \in d.dirs /\ Len(p) = 3
    BY DEF ManagedPaths
  <2>2. p = <<p[1], p[2], p[3]>> /\ Front(p) = <<p[1], p[2]>> /\ Last(p) = p[3]
    BY <2>1, PathParts
  <2>3. PICK q \in d.dirs : q = <<p[1], p[2]>>
    BY <2>1, <2>2, PathParts
  <2>4. Len(q) = 2 /\ q[1] = p[1] /\ q[2] = p[2]
    BY <2>3
  <2>5. Front(q) = <<p[1]>> /\ Last(q) = p[2]
    BY <2>4, PathParts
  <2>6. p[1] \in DOMAIN scan.mNamespaceModules
    BY <1>2, <2>4
  <2>7. p[2] \in ToSet(fFoldersNameList(d, <<p[1]>>))
    BY <2>5, Folders
  <2>8. p[3] \in ToSet(fFoldersNameList(d, <<p[1], p[2]>>))
    BY <2>1, <2>2, Folders
  <2>9. QED
    BY <2>1, <2>2, <2>3, <2>6, <2>7, <2>8
<1>5. ASSUME NEW ns, NEW name, <<ns, name>> \in d.dirs
      PROVE  Lists(d, FlattenSeq(ofVersions(ns, name)), {p \in M : p[1] = ns /\ p[2] = name})
  <2>1. PICK N : N = {p \in M : p[1] = ns /\ p[2] = name}
    OBVIOUS
  <2>2. PICK list : list = fFoldersNameList(d, <<ns, name>>)
    OBVIOUS
  <2>3. versions(ns, name) = list
    <3>1. PICK q \in d.dirs : q = <<ns, name>>
      BY <1>5
    <3>2. Len(q) = 2 /\ q[1] = ns /\ q[2] = name
      BY <3>1
    <3>3. QED
      BY <1>2, <2>2, <3>1, <3>2
  <2>4. IsSeq(list) /\ \A i, j \in DOMAIN list : list[i] = list[j] => i = j
    BY <2>2, Folders
  <2>5. PICK infos : infos = [i \in DOMAIN list |-> fReadModuleNcf(d, ns, name, list[i])]
    OBVIOUS
  <2>6. ofVersions(ns, name) = infos
    BY <2>3, <2>5
  <2>7. ASSUME NEW i \in DOMAIN list
        PROVE  Lists(d, infos[i], {p \in N : p[3] = list[i]})
    <3>1. PICK path : path = <<ns, name, list[i]>>
      OBVIOUS
    <3>2. path[1] = ns /\ path[2] = name /\ path[3] = list[i] /\ Len(path) = 3
      BY <3>1
    <3>3. list[i] \in ToSet(list)
      BY DEF ToSet
    <3>4. PICK q \in d.dirs : Front(q) = <<ns, name>> /\ Last(q) = list[i]
      BY <2>2, <3>3, Folders
    <3>5. Len(q) = 3
      BY <3>4, PathParts
    <3>6. q = <<q[1], q[2], q[3]>> /\ <<q[1], q[2]>> = <<ns, name>> /\ q[3] = list[i]
      BY <3>4, <3>5, PathParts
    <3>7. q = path
      BY <3>1, <3>6
    <3>8. path \in M <=> Manages(d, path)
      BY <3>2, <3>4, <3>7 DEF ManagedPaths
    <3>9. \A p \in N : p[3] = list[i] => p = path
      BY <1>4, <2>1, <3>1
    <3>10. path \in M => path \in N
      BY <2>1, <3>2
    <3>11. N \subseteq M
      BY <2>1
    <3>12. {p \in N : p[3] = list[i]} = IF Manages(d, path) THEN {path} ELSE {}
      BY <3>2, <3>8, <3>9, <3>10, <3>11
    <3>13. infos[i] = fReadModuleNcf(d, ns, name, list[i])
      BY <2>5
    <3>14. QED
      BY <3>1, <3>12, <3>13, ReadOne
  <2>8. \A p \in N : p[3] \in ToSet(list)
    BY <1>4, <2>1, <2>2
  <2>9. IsSeq(infos) /\ Len(infos) = Len(list)
    <3>1. DOMAIN infos = DOMAIN list /\ infos = [i \in DOMAIN infos |-> infos[i]]
      BY <2>5
    <3>2. QED
      BY <2>4, <3>1, ListOver
  <2>10. Lists(d, FlattenSeq(infos), N)
    BY <2>4, <2>7, <2>8, <2>9, ListedUnder, Zenon
  <2>11. QED
    BY <2>1, <2>6, <2>10
<1>6. ASSUME NEW ns \in DOMAIN scan.mNamespaceModules
      PROVE  Lists(d, FlattenSeq(ofNames(ns)), {p \in M : p[1] = ns})
  <2>1. PICK N : N = {p \in M : p[1] = ns}
    OBVIOUS
  <2>2. PICK list : list = fFoldersNameList(d, <<ns>>)
    OBVIOUS
  <2>3. names(ns) = list
    BY <1>2, <2>2
  <2>4. IsSeq(list) /\ \A i, j \in DOMAIN list : list[i] = list[j] => i = j
    BY <2>2, Folders
  <2>5. PICK infos : infos = ofNames(ns)
    OBVIOUS
  <2>6. infos = [i \in DOMAIN list |-> FlattenSeq(ofVersions(ns, list[i]))]
    BY <2>3, <2>5
  <2>7. IsSeq(infos) /\ Len(infos) = Len(list)
    <3>1. DOMAIN infos = DOMAIN list /\ infos = [i \in DOMAIN infos |-> infos[i]]
      BY <2>6
    <3>2. QED
      BY <2>4, <3>1, ListOver
  <2>8. ASSUME NEW i \in DOMAIN list
        PROVE  Lists(d, infos[i], {p \in N : p[2] = list[i]})
    <3>1. <<ns, list[i]>> \in d.dirs
      BY <1>2, <2>2
    <3>2. {p \in N : p[2] = list[i]} = {p \in M : p[1] = ns /\ p[2] = list[i]}
      BY <2>1
    <3>3. infos[i] = FlattenSeq(ofVersions(ns, list[i]))
      BY <2>6
    <3> HIDE DEF ofVersions
    <3>4. QED
      BY <1>5, <3>1, <3>2, <3>3
  <2>9. \A p \in N : p[2] \in ToSet(list)
    BY <1>4, <2>1, <2>2
  <2>10. Lists(d, FlattenSeq(infos), N)
    BY <2>4, <2>7, <2>8, <2>9, ListedUnder, Zenon
  <2>11. QED
    BY <2>1, <2>5, <2>10
<1>7. PICK list : list = namespaces
  OBVIOUS
<1>8. /\ IsSeq(list)
      /\ ToSet(list) = DOMAIN scan.mNamespaceModules
      /\ \A i, j \in DOMAIN list : list[i] = list[j] => i = j
  <2>1. /\ list \in Seq(DOMAIN scan.mNamespaceModules)
        /\ ToSet(list) = DOMAIN scan.mNamespaceModules
        /\ \A i, j \in DOMAIN list : list[i] = list[j] => i = j
    BY <1>2, <1>7, ListOfSet
  <2>2. QED
    BY <2>1 DEF IsSeq
<1>9. PICK infos : infos = all
  OBVIOUS
<1>10. infos = [i \in DOMAIN list |-> FlattenSeq(ofNames(list[i]))]
  BY <1>7, <1>9
<1>11. IsSeq(infos) /\ Len(infos) = Len(list)
  <2>1. DOMAIN infos = DOMAIN list /\ infos = [i \in DOMAIN infos |-> infos[i]]
    BY <1>10
  <2>2. QED
    BY <1>8, <2>1, ListOver
<1>12. ASSUME NEW i \in DOMAIN list
       PROVE  Lists(d, infos[i], {p \in M : p[1] = list[i]})
  <2>1. list[i] \in DOMAIN scan.mNamespaceModules
    BY <1>8 DEF ToSet
  <2>2. infos[i] = FlattenSeq(ofNames(list[i]))
    BY <1>10
  <2> HIDE DEF ofNames
  <2>3. QED
    BY <1>6, <2>1, <2>2
<1>13. \A p \in M : p[1] \in ToSet(list)
  BY <1>4, <1>8
<1>14. Lists(d, FlattenSeq(infos), M)
  BY <1>8, <1>11, <1>12, <1>13, ListedUnder, Zenon
<1>15. QED
  BY <1>3, <1>9, <1>14

(* It knows which modules are managed, each once. *)
LEMMA ManagedKnown ==
  ASSUME NEW d, IsDisk(d)
  PROVE  KnowsManaged(fLoadModulesInfo(d), d)
<1>1. PICK infos : infos = fLoadModulesInfo(d).mModuleInfoList
  OBVIOUS
<1>2. Lists(d, infos, ManagedPaths(d))
  BY <1>1, ListedModules
<1>3. PICK plain : plain = {p \in ModulePaths(d) : ~HiddenByEmpty(d, p, "Core", "Managed")}
  OBVIOUS
<1>4. ASSUME NEW p \in plain
      PROVE  p \in ManagedPaths(d) <=> Managed(d, p)
  <2>1. p \in d.dirs /\ Len(p) = 3 /\ p \in DOMAIN d.ncf /\ ~HiddenByEmpty(d, p, "Core", "Managed")
    BY <1>3 DEF ModulePaths
  <2>2. fGetModuleParamsValue("Core", "Managed", ModuleParams(d, p)) = SaidOf(d, p, "Core", "Managed")
    BY <2>1, ParamsGive
  <2>3. QED
    BY <2>1, <2>2 DEF ManagedPaths, Manages, Managed
<1>5. {infos[i].dir : i \in DOMAIN infos} = ManagedPaths(d)
  BY <1>2 DEF Lists
<1>6. {infos[i].dir : i \in DOMAIN infos} \cap plain = {p \in plain : Managed(d, p)}
  BY <1>4, <1>5
<1>7. \A i, j \in DOMAIN infos : infos[i].dir = infos[j].dir => i = j
  BY <1>2 DEF Lists
<1>8. QED
  BY <1>1, <1>3, <1>6, <1>7 DEF KnowsManaged

(* It knows the scripts of a managed module. *)
LEMMA ScriptsKnown ==
  ASSUME NEW d, IsDisk(d)
  PROVE  KnowsScripts(fLoadModulesInfo(d), d)
<1>1. PICK infos : infos = fLoadModulesInfo(d).mModuleInfoList
  OBVIOUS
<1>2. Lists(d, infos, ManagedPaths(d))
  BY <1>1, ListedModules
<1>3. ASSUME NEW i \in DOMAIN infos, NEW name \in {"Scripted", "StartScript", "StopScript"},
             ~HiddenByEmpty(d, infos[i].dir, "Script", name)
      PROVE  fScriptParameterValue(infos[i], name) = SaidOf(d, infos[i].dir, "Script", name)
  <2>1. PICK path : path = infos[i].dir
    OBVIOUS
  <2>2. infos[i] = InfoOf(d, path)
    BY <1>2, <2>1 DEF Lists
  <2>3. infos[i].params = ModuleParams(d, path)
    BY <2>2 DEF InfoOf, ModuleInfo
  <2>4. fGetModuleParamsValue("Script", name, ModuleParams(d, path)) = SaidOf(d, path, "Script", name)
    BY <1>3, <2>1, ParamsGive
  <2>5. QED
    BY <2>1, <2>3, <2>4 DEF fScriptParameterValue
<1>4. QED
  BY <1>1, <1>3 DEF KnowsScripts

ReadOnce == disk \in Disks /\ manager = fLoadModulesInfo(disk)

LEMMA NeverReadAgain == [Next]_vars => UNCHANGED <<disk, manager>>
BY DEF Next, GoOn, startmodule, startmoduleWaited, stopmodule, stopmoduleWaited, startallmodules,
       stopallmodules, shutdownsystem, main, exec, execReturns, exited, Request, unixSignal,
       ModuleEnds, vars

(***************************************************************************)
(* Whatever is installed and whatever the files say, what NulstarMain      *)
(* knows of a module is what the most specific file says that has the      *)
(* parameter, unless an empty value hides it, and it knows each managed    *)
(* module once (NModuleManager.cpp 37-159).                                *)
(***************************************************************************)
THEOREM WhatFilesSay == Spec => []ConfigurationRead
<1>1. Init => ReadOnce
  BY DEF Init, ReadOnce
<1>2. ReadOnce /\ [Next]_vars => ReadOnce'
  BY NeverReadAgain DEF ReadOnce
<1>3. ReadOnce => ConfigurationRead
  BY MainConstants, ManagedKnown, ScriptsKnown DEF ReadOnce, ConfigurationRead
<1>4. QED
  BY <1>1, <1>2, <1>3, PTL DEF Spec
=============================================================================
