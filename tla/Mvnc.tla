-------------------------------- MODULE Mvnc --------------------------------
(***************************************************************************)
(* The C API of the NCSDK, api/src/mvnc_api.c, as seen by the threads of   *)
(* one application: the registry of open devices and allocated graphs, the *)
(* global mutex mm, the mutex of every device, and the double buffered     *)
(* inference pipeline that LoadTensor and GetResult drive.                 *)
(*                                                                         *)
(* A thread's pc names the place it has reached inside an API call.  One   *)
(* step is the code between two points where another thread can interfere: *)
(* taking a mutex, a USB transfer, a sleep, and the load and the store of  *)
(* have_data, which the code does not always protect by the same mutex.    *)
(*                                                                         *)
(* The firmware on the stick is not part of the repository; fw is what the *)
(* host code relies on (see FirmwareRun).                                  *)
(***************************************************************************)
EXTENDS Integers, FiniteSets

CONSTANTS
    Thread,     \* threads of the application
    Device,     \* addresses of struct Device; each stands for one stick
    Graph,      \* addresses of struct Graph
    Tag,        \* identity of an input tensor and of the userParam with it
    None,       \* the null pointer, no holder, no value
    Opener,     \* threads that open and close devices and (de)allocate graphs
    Loader,     \* threads that call mvncLoadTensor
    Getter,     \* threads that call mvncGetResult
    Tuner,      \* threads that set MVNC_DONT_BLOCK
    Lister,     \* threads that read MVNC_OPTIMISATION_LIST
    Faults,     \* what may go wrong on the link or in the firmware
    Reuse       \* may malloc return the address of a freed graph?

FaultKind == {"open", "blob", "config", "input", "output", "aux", "query",
              "debug", "timeout"}

ASSUME RoleAssumption ==
    /\ Opener \subseteq Thread
    /\ Loader \subseteq Thread
    /\ Getter \subseteq Thread
    /\ Tuner \subseteq Thread
    /\ Lister \subseteq Thread

ASSUME NoneAssumption == None \notin Thread \cup Device \cup Graph \cup Tag

ASSUME FaultAssumption == Faults \subseteq FaultKind /\ Reuse \in BOOLEAN

VARIABLES
    mm,         \* holder of the global mutex
    dmm,        \* dmm[d]: holder of the mutex in struct Device d
    devices,    \* the list of open devices
    live,       \* devices whose struct has not been freed
    graphs,     \* graphs[d]: the list d->graphs
    graph,      \* graph[g]: the fields of struct Graph g
    thermal,    \* thermal[d]: graph whose aux_buffer d->thermal_stats points into
    optList,    \* optList[d]: the buffer d->optimisation_list
    fw,         \* fw[d]: what the firmware of d holds
    pc,         \* pc[t]: where thread t is
    call,       \* call[t]: arguments, locals and results of t's current call
    gone,       \* ghost: threads whose graph was freed while they slept in a call
    used        \* ghost: graph addresses malloc has returned so far

vars == <<mm, dmm, devices, live, graphs, graph, thermal, optList, fw, pc,
          call, gone, used>>

\* Places where a thread holds mm, and those where it holds the device mutex.
HoldsMm == {"cd_dmm", "ag_usb", "dg_dmm", "so_dmm", "go_dmm", "lt_opt",
            "lt_check", "lt_dmm", "gr_check", "gr_dmm", "gr_late",
            "gr_late_store"}
HoldsDmm == {"so_set", "go_list", "lt_put", "lt_xfer", "lt_store", "gr_out",
             "gr_aux", "gr_store"}
\* Places where a call sleeps and holds nothing.
Sleeping == {"lt_sleep", "gr_sleep", "gr_retry"}
\* Places where the code dereferences the graph of the call.
UsesGraph == {"dg_dmm", "so_dmm", "so_set", "lt_opt", "lt_check", "lt_dmm",
              "lt_put", "lt_xfer", "lt_store", "gr_check", "gr_dmm", "gr_out",
              "gr_aux", "gr_store", "gr_late", "gr_late_store"}
PC == {"idle"} \cup HoldsMm \cup HoldsDmm \cup Sleeping

Status == {"none", "OK", "BUSY", "ERROR", "OUT_OF_MEMORY",
           "INVALID_PARAMETERS", "TIMEOUT", "NO_DATA", "GONE", "MYRIAD_ERROR"}

\* find_graph: is g in the graph list of an open device?
FindGraph(g) == \E d \in devices : g \in graphs[d]

FreshGraph(d) ==
    [dev |-> d, started |-> FALSE, have_data |-> 0, dont_block |-> FALSE,
     input_idx |-> 0, output_idx |-> 0, failed |-> FALSE,
     user_param |-> [i \in 0..1 |-> None]]

FreedGraph == FreshGraph(None)

IdleFirmware ==
    [input |-> [i \in 0..1 |-> None], next |-> 0, go |-> FALSE, output |-> None]

\* Arguments (g, d, tag), locals (ready, hd) and results of a call.
NoCall ==
    [g |-> None, d |-> None, tag |-> None, ready |-> FALSE, hd |-> 0,
     output |-> None, userParam |-> None, rc |-> "none"]

Init ==
    /\ mm = None
    /\ dmm = [d \in Device |-> None]
    /\ devices = {}
    /\ live = {}
    /\ graphs = [d \in Device |-> {}]
    /\ graph = [g \in Graph |-> FreedGraph]
    /\ thermal = [d \in Device |-> None]
    /\ optList = [d \in Device |-> "none"]
    /\ fw = [d \in Device |-> IdleFirmware]
    /\ pc = [t \in Thread |-> "idle"]
    /\ call = [t \in Thread |-> NoCall]
    /\ gone = {}
    /\ used = {}
-----------------------------------------------------------------------------
(***************************************************************************)
(* Parts of steps.                                                         *)
(***************************************************************************)
Goto(t, label) == pc' = [pc EXCEPT ![t] = label]
SetCall(t, c) == call' = [call EXCEPT ![t] = c]
SetGraph(g, G) == graph' = [graph EXCEPT ![g] = G]
SetFw(d, F) == fw' = [fw EXCEPT ![d] = F]

\* t, idle, takes mm to start a call with graph g, device d and tag x.
Enter(t, g, d, x, label) ==
    /\ mm' = t
    /\ Goto(t, label)
    /\ SetCall(t, [NoCall EXCEPT !.g = g, !.d = d, !.tag = x])
    /\ gone' = gone \ {t}

\* A call that starts and returns s while it holds mm.
Answer(t, s) ==
    /\ SetCall(t, [NoCall EXCEPT !.rc = s])
    /\ gone' = gone \ {t}

Refuse(t, s) ==
    /\ Answer(t, s)
    /\ UNCHANGED <<mm, dmm, devices, live, graphs, graph, thermal, optList,
                   fw, pc, used>>

CanEnter(t) == pc[t] = "idle" /\ mm = None

\* A call returns s; only a GetResult that comes to its end sets results.
Return(t, s) ==
    /\ Goto(t, "idle")
    /\ SetCall(t, [NoCall EXCEPT !.rc = s])

ReturnResult(t, s) ==
    /\ Goto(t, "idle")
    /\ SetCall(t, [NoCall EXCEPT !.rc = s, !.output = call[t].output,
                                  !.userParam = call[t].userParam])

ReleaseMm == mm' = None
LockDmm(t) ==
    /\ dmm[call[t].d] = None
    /\ dmm' = [dmm EXCEPT ![call[t].d] = t]
ReleaseDmm(t) == dmm' = [dmm EXCEPT ![call[t].d] = None]

\* deallocate_graph for every graph of S that is in the list of d.  What is
\* left in freed memory does not matter: NoUseAfterFree says nobody looks at it.
FreeGraphs(d, S) ==
    LET F == S \cap graphs[d] IN
    /\ graphs' = [graphs EXCEPT ![d] = @ \ F]
    /\ graph' = [g \in Graph |-> IF g \in F THEN FreedGraph ELSE graph[g]]
    /\ thermal' = IF F = {} THEN thermal ELSE [thermal EXCEPT ![d] = None]
    /\ gone' = gone \cup {s \in Thread : pc[s] \in Sleeping /\ call[s].g \in F}
-----------------------------------------------------------------------------
(***************************************************************************)
(* Mistakes.  No action uses the operators of this section: each of them   *)
(* is a definition below with one plausible bug, and substituting it shows *)
(* that the property named with it notices.                                *)
(***************************************************************************)
\* TakeUserParam that counts slots instead of toggling them (TypeOK).
CountingTakeUserParam(t) ==
    LET g == call[t].g
        G == graph[g]
    IN
    /\ SetCall(t, [call[t] EXCEPT !.userParam = G.user_param[G.output_idx],
                                  !.hd = G.have_data])
    /\ SetGraph(g, [G EXCEPT !.output_idx = @ + 1])

\* GetAuxFails that returns with the device locked (LockDiscipline).
LeakingGetAuxFails(t) ==
    /\ pc[t] = "gr_aux"
    /\ "aux" \in Faults
    /\ SetGraph(call[t].g, [graph[call[t].g] EXCEPT !.failed = TRUE])
    /\ Return(t, "ERROR")
    /\ UNCHANGED <<mm, dmm, devices, live, graphs, thermal, optList, fw, gone,
                   used>>

\* GetWake that does not look the handle up again (NoUseAfterFree).
TrustingGetWake(t) ==
    /\ pc[t] \in {"gr_sleep", "gr_retry"}
    /\ mm = None
    /\ mm' = t
    /\ Goto(t, IF pc[t] = "gr_sleep" THEN "gr_check" ELSE "gr_dmm")
    /\ UNCHANGED <<dmm, devices, live, graphs, graph, thermal, optList, fw,
                   call, gone, used>>

\* AllocateGraph without the BUSY check (ThermalPointsToGraph).
EagerAllocateGraph(t, d) ==
    /\ CanEnter(t)
    /\ d \in devices
    /\ Enter(t, None, d, None, "ag_usb")
    /\ UNCHANGED <<dmm, devices, live, graphs, graph, thermal, optList, fw,
                   used>>

\* LoadSendOptions that forgets started, so that every tensor sends the
\* options again (LinkExclusive).
RepeatingLoadSendOptions(t) ==
    /\ pc[t] = "lt_opt"
    /\ Goto(t, "lt_check")
    /\ UNCHANGED <<mm, dmm, devices, live, graphs, graph, thermal, optList, fw,
                   call, gone, used>>

\* LoadCheck that does not wait for a free buffer (HaveDataInBounds).
HastyLoadCheck(t) ==
    /\ pc[t] = "lt_check"
    /\ Goto(t, "lt_dmm")
    /\ UNCHANGED <<mm, dmm, devices, live, graphs, graph, thermal, optList, fw,
                   call, gone, used>>

\* LoadStore that does not change buffers (ResultsMatch).
StuckLoadStore(t) ==
    LET g == call[t].g
        G == graph[g]
    IN
    /\ pc[t] = "lt_store"
    /\ SetGraph(g, [G EXCEPT !.user_param[G.input_idx] = call[t].tag,
                             !.have_data = call[t].hd + 1])
    /\ ReleaseDmm(t)
    /\ Return(t, "OK")
    /\ UNCHANGED <<mm, devices, live, graphs, thermal, optList, fw, gone, used>>

\* HostReadyOnGet that counts the inference being read (NothingStalls).
EarlyHostReadyOnGet(g) == graph[g].have_data = 1

\* LoadWake that takes a lost graph for a bad handle (GoneIsReported).
VagueLoadWake(t) ==
    LET g == call[t].g IN
    /\ pc[t] = "lt_sleep"
    /\ mm = None
    /\ \/ /\ FindGraph(g)
          /\ mm' = t
          /\ Goto(t, "lt_check")
          /\ SetCall(t, [call[t] EXCEPT !.d = graph[g].dev])
       \/ /\ ~FindGraph(g)
          /\ Return(t, "INVALID_PARAMETERS")
          /\ UNCHANGED mm
    /\ UNCHANGED <<dmm, devices, live, graphs, graph, thermal, optList, fw,
                   gone, used>>

\* GetAuxFails that does not mark the graph (SoundUntilFailure).
ForgetfulGetAuxFails(t) ==
    LET d == call[t].d IN
    /\ pc[t] = "gr_aux"
    /\ "aux" \in Faults
    /\ \E carried \in BOOLEAN :
         SetFw(d, [fw[d] EXCEPT !.go = @ \/ (carried /\ call[t].ready)])
    /\ ReleaseDmm(t)
    /\ Return(t, "ERROR")
    /\ UNCHANGED <<mm, devices, live, graphs, graph, thermal, optList, gone,
                   used>>

\* GetStore that clears have_data instead of decrementing it (ImplementsQueue).
ClearingGetStore(t) ==
    LET g == call[t].g IN
    /\ pc[t] = "gr_store"
    /\ SetGraph(g, [graph[g] EXCEPT !.have_data = 0])
    /\ ReturnResult(t, "OK")
    /\ ReleaseDmm(t)
    /\ UNCHANGED <<mm, devices, live, graphs, thermal, optList, fw, gone, used>>

\* GetCheck that waits for data with mm held (LocksAreReleased).
SpinningGetCheck(t) ==
    /\ pc[t] = "gr_check"
    /\ IF graph[call[t].g].have_data # 0 THEN Goto(t, "gr_dmm")
                                        ELSE UNCHANGED pc
    /\ UNCHANGED <<mm, dmm, devices, live, graphs, graph, thermal, optList, fw,
                   call, gone, used>>

\* HostReadyOnLoad with the count after the load (GetResultReturns).
LateHostReadyOnLoad(g) == graph[g].have_data = 1
-----------------------------------------------------------------------------
(***************************************************************************)
(* Devices.  mvncOpenDevice holds mm from start to end and nobody can know *)
(* the new device before it returns: one step.                             *)
(***************************************************************************)
OpenDevice(t, d) ==
    /\ CanEnter(t)
    /\ d \notin live
    /\ devices' = devices \cup {d}
    /\ live' = live \cup {d}
    /\ dmm' = [dmm EXCEPT ![d] = None]
    /\ Answer(t, "OK")
    /\ UNCHANGED <<mm, graphs, graph, thermal, optList, fw, pc, used>>

OpenDeviceFails(t) ==
    /\ "open" \in Faults
    /\ CanEnter(t)
    /\ Refuse(t, "ERROR")

\* The device leaves the list first, then the call waits for its mutex.
CloseDevice(t, d) ==
    /\ CanEnter(t)
    /\ IF d \in devices
         THEN /\ Enter(t, None, d, None, "cd_dmm")
              /\ devices' = devices \ {d}
              /\ UNCHANGED <<dmm, live, graphs, graph, thermal, optList, fw,
                             used>>
         ELSE Refuse(t, "INVALID_PARAMETERS")

CloseFree(t) ==
    LET d == call[t].d IN
    /\ pc[t] = "cd_dmm"
    /\ dmm[d] = None
    /\ FreeGraphs(d, graphs[d])
    /\ live' = live \ {d}
    /\ optList' = [optList EXCEPT ![d] = "none"]
    /\ SetFw(d, IdleFirmware)
    /\ ReleaseMm
    /\ Return(t, "OK")
    /\ UNCHANGED <<dmm, devices, used>>
-----------------------------------------------------------------------------
(***************************************************************************)
(* Graphs.                                                                 *)
(***************************************************************************)
AllocateGraph(t, d) ==
    /\ CanEnter(t)
    /\ IF d \notin devices THEN Refuse(t, "INVALID_PARAMETERS")
       ELSE IF graphs[d] # {} THEN Refuse(t, "BUSY")
       ELSE /\ Enter(t, None, d, None, "ag_usb")
            /\ UNCHANGED <<dmm, devices, live, graphs, graph, thermal,
                           optList, fw, used>>

\* An address malloc may return.
Available(g) ==
    /\ \A e \in Device : g \notin graphs[e]
    /\ Reuse \/ g \notin used

\* The status poll, blobFile and auxBuffer, all under mm alone.
AllocateFinish(t, g) ==
    LET d == call[t].d IN
    /\ pc[t] = "ag_usb"
    /\ Available(g)
    /\ SetGraph(g, FreshGraph(d))
    /\ graphs' = [graphs EXCEPT ![d] = @ \cup {g}]
    /\ thermal' = [thermal EXCEPT ![d] = g]
    /\ SetFw(d, IdleFirmware)
    /\ used' = used \cup {g}
    /\ ReleaseMm
    /\ Return(t, "OK")
    /\ UNCHANGED <<dmm, devices, live, optList, gone>>

\* One of the transfers fails, or the calloc of a buffer: what was allocated is
\* freed again.  The calloc of the struct itself is not checked, and the code
\* would write through a null pointer; running out of addresses stands for the
\* checked ones only.
AllocateFails(t) ==
    /\ pc[t] = "ag_usb"
    /\ \/ "blob" \in Faults /\ Return(t, "ERROR")
       \/ ~(\E g \in Graph : Available(g)) /\ Return(t, "OUT_OF_MEMORY")
    /\ ReleaseMm
    /\ UNCHANGED <<dmm, devices, live, graphs, graph, thermal, optList, fw,
                   gone, used>>

DeallocateGraph(t, g) ==
    /\ CanEnter(t)
    /\ IF FindGraph(g)
         THEN /\ Enter(t, g, graph[g].dev, None, "dg_dmm")
              /\ UNCHANGED <<dmm, devices, live, graphs, graph, thermal,
                             optList, fw, used>>
         ELSE Refuse(t, "INVALID_PARAMETERS")

DeallocateFree(t) ==
    /\ pc[t] = "dg_dmm"
    /\ dmm[call[t].d] = None
    /\ FreeGraphs(call[t].d, {call[t].g})
    /\ ReleaseMm
    /\ Return(t, "OK")
    /\ UNCHANGED <<dmm, devices, live, optList, fw, used>>
-----------------------------------------------------------------------------
(***************************************************************************)
(* Options: find under mm, take the device mutex, let mm go, do the work.  *)
(***************************************************************************)
SetGraphOption(t, g) ==
    /\ CanEnter(t)
    /\ IF FindGraph(g)
         THEN /\ Enter(t, g, graph[g].dev, None, "so_dmm")
              /\ UNCHANGED <<dmm, devices, live, graphs, graph, thermal,
                             optList, fw, used>>
         ELSE Refuse(t, "INVALID_PARAMETERS")

GetDeviceOption(t, d) ==
    /\ CanEnter(t)
    /\ IF d \in devices
         THEN /\ Enter(t, None, d, None, "go_dmm")
              /\ UNCHANGED <<dmm, devices, live, graphs, graph, thermal,
                             optList, fw, used>>
         ELSE Refuse(t, "INVALID_PARAMETERS")

OptionLock(t) ==
    /\ \/ pc[t] = "so_dmm" /\ Goto(t, "so_set")
       \/ pc[t] = "go_dmm" /\ Goto(t, "go_list")
    /\ LockDmm(t)
    /\ ReleaseMm
    /\ UNCHANGED <<devices, live, graphs, graph, thermal, optList, fw, call,
                   gone, used>>

SetDontBlock(t, v) ==
    LET g == call[t].g IN
    /\ pc[t] = "so_set"
    /\ SetGraph(g, [graph[g] EXCEPT !.dont_block = v])
    /\ ReleaseDmm(t)
    /\ Return(t, "OK")
    /\ UNCHANGED <<mm, devices, live, graphs, thermal, optList, fw, gone, used>>

\* get_optimisation_list: the buffer is allocated before the transfers that
\* fill it, and a buffer that exists is taken for a list that was read.  The
\* last transfer, which takes the query back, may fail when it is filled.  The
\* query goes out with hostready set, which starts an inference elsewhere: what
\* the firmware makes of it here is unknown, and fw is left as it was.
GetOptimisationList(t) ==
    LET d == call[t].d IN
    /\ pc[t] = "go_list"
    /\ \/ /\ optList[d] # "none"
          /\ Return(t, "OK")
          /\ UNCHANGED optList
       \/ /\ optList[d] = "none"
          /\ optList' = [optList EXCEPT ![d] = "filled"]
          /\ Return(t, "OK")
       \/ /\ optList[d] = "none"
          /\ "query" \in Faults
          /\ \E content \in {"empty", "filled"} :
               optList' = [optList EXCEPT ![d] = content]
          /\ Return(t, "ERROR")
    /\ ReleaseDmm(t)
    /\ UNCHANGED <<mm, devices, live, graphs, graph, thermal, fw, gone, used>>
-----------------------------------------------------------------------------
(***************************************************************************)
(* mvncLoadTensor.                                                         *)
(***************************************************************************)
LoadTensor(t, g, x) ==
    /\ CanEnter(t)
    /\ IF FindGraph(g)
         THEN /\ Enter(t, g, graph[g].dev, x,
                       IF graph[g].started THEN "lt_check" ELSE "lt_opt")
              /\ UNCHANGED <<dmm, devices, live, graphs, graph, thermal,
                             optList, fw, used>>
         ELSE Refuse(t, "INVALID_PARAMETERS")

\* send_opt_data, under mm alone, before the first tensor of the graph.
LoadSendOptions(t) ==
    LET g == call[t].g IN
    /\ pc[t] = "lt_opt"
    /\ \/ /\ SetGraph(g, [graph[g] EXCEPT !.started = TRUE])
          /\ Goto(t, "lt_check")
          /\ UNCHANGED <<mm, call>>
       \/ /\ "config" \in Faults
          /\ ReleaseMm
          /\ Return(t, "ERROR")
          /\ UNCHANGED graph
    /\ UNCHANGED <<dmm, devices, live, graphs, thermal, optList, fw, gone, used>>

\* while (g->have_data == 2)
LoadCheck(t) ==
    LET G == graph[call[t].g] IN
    /\ pc[t] = "lt_check"
    /\ \/ /\ G.have_data # 2
          /\ Goto(t, "lt_dmm")
          /\ UNCHANGED <<mm, call>>
       \/ /\ G.have_data = 2 /\ G.dont_block
          /\ Return(t, "BUSY")
          /\ ReleaseMm
       \/ /\ G.have_data = 2 /\ ~G.dont_block /\ G.failed
          /\ Return(t, "ERROR")
          /\ ReleaseMm
       \/ /\ G.have_data = 2 /\ ~G.dont_block /\ ~G.failed
          /\ Goto(t, "lt_sleep")
          /\ ReleaseMm
          /\ UNCHANGED call
    /\ UNCHANGED <<dmm, devices, live, graphs, graph, thermal, optList, fw,
                   gone, used>>

\* Awake after usleep(1000): lock mm and look the handle up again.
LoadWake(t) ==
    LET g == call[t].g IN
    /\ pc[t] = "lt_sleep"
    /\ mm = None
    /\ \/ /\ FindGraph(g)
          /\ mm' = t
          /\ Goto(t, "lt_check")
          /\ SetCall(t, [call[t] EXCEPT !.d = graph[g].dev])
       \/ /\ ~FindGraph(g)
          /\ Return(t, "GONE")
          /\ UNCHANGED mm
    /\ UNCHANGED <<dmm, devices, live, graphs, graph, thermal, optList, fw,
                   gone, used>>

LoadLock(t) ==
    /\ pc[t] = "lt_dmm"
    /\ LockDmm(t)
    /\ ReleaseMm
    /\ Goto(t, "lt_put")
    /\ UNCHANGED <<devices, live, graphs, graph, thermal, optList, fw, call,
                   gone, used>>

\* The arguments of usblink_setdata: hostready asks the stick to start at
\* once, when nothing is in progress.
HostReadyOnLoad(g) == graph[g].have_data = 0

LoadBegin(t) ==
    /\ pc[t] = "lt_put"
    /\ SetCall(t, [call[t] EXCEPT !.ready = HostReadyOnLoad(call[t].g)])
    /\ Goto(t, "lt_xfer")
    /\ UNCHANGED <<mm, dmm, devices, live, graphs, graph, thermal, optList, fw,
                   gone, used>>

\* The tensor goes to "input1" or "input2"; have_data is read.
LoadTransfer(t) ==
    LET g == call[t].g
        d == call[t].d
    IN
    /\ pc[t] = "lt_xfer"
    /\ SetFw(d, [fw[d] EXCEPT !.input[graph[g].input_idx] = call[t].tag,
                              !.go = @ \/ call[t].ready])
    /\ SetCall(t, [call[t] EXCEPT !.hd = graph[g].have_data])
    /\ Goto(t, "lt_store")
    /\ UNCHANGED <<mm, dmm, devices, live, graphs, graph, thermal, optList,
                   gone, used>>

\* The error branch unlocks mm, which this thread no longer holds, and
\* leaves the device mutex locked.
LoadTransferFails(t) ==
    /\ pc[t] = "lt_xfer"
    /\ "input" \in Faults
    /\ ReleaseMm
    /\ Return(t, "ERROR")
    /\ UNCHANGED <<dmm, devices, live, graphs, graph, thermal, optList, fw,
                   gone, used>>

LoadStore(t) ==
    LET g == call[t].g
        G == graph[g]
    IN
    /\ pc[t] = "lt_store"
    /\ SetGraph(g, [G EXCEPT !.user_param[G.input_idx] = call[t].tag,
                             !.input_idx = 1 - @,
                             !.have_data = call[t].hd + 1])
    /\ ReleaseDmm(t)
    /\ Return(t, "OK")
    /\ UNCHANGED <<mm, devices, live, graphs, thermal, optList, fw, gone, used>>
-----------------------------------------------------------------------------
(***************************************************************************)
(* mvncGetResult.                                                          *)
(***************************************************************************)
GetResult(t, g) ==
    /\ CanEnter(t)
    /\ IF FindGraph(g)
         THEN /\ Enter(t, g, graph[g].dev, None, "gr_check")
              /\ UNCHANGED <<dmm, devices, live, graphs, graph, thermal,
                             optList, fw, used>>
         ELSE Refuse(t, "INVALID_PARAMETERS")

\* while (!g->have_data)
GetCheck(t) ==
    LET G == graph[call[t].g] IN
    /\ pc[t] = "gr_check"
    /\ \/ /\ G.have_data # 0
          /\ Goto(t, "gr_dmm")
          /\ UNCHANGED <<mm, call>>
       \/ /\ G.have_data = 0 /\ G.dont_block
          /\ Return(t, "NO_DATA")
          /\ ReleaseMm
       \/ /\ G.have_data = 0 /\ ~G.dont_block
          /\ Goto(t, "gr_sleep")
          /\ ReleaseMm
          /\ UNCHANGED call
    /\ UNCHANGED <<dmm, devices, live, graphs, graph, thermal, optList, fw,
                   gone, used>>

\* Awake after usleep(1000), in the wait for have_data or in the retry of the
\* output transfer: lock mm and look the handle up again.
GetWake(t) ==
    LET g == call[t].g IN
    /\ pc[t] \in {"gr_sleep", "gr_retry"}
    /\ mm = None
    /\ \/ /\ FindGraph(g)
          /\ mm' = t
          /\ Goto(t, IF pc[t] = "gr_sleep" THEN "gr_check" ELSE "gr_dmm")
          /\ SetCall(t, [call[t] EXCEPT !.d = graph[g].dev])
       \/ /\ ~FindGraph(g)
          /\ Return(t, "GONE")
          /\ UNCHANGED mm
    /\ UNCHANGED <<dmm, devices, live, graphs, graph, thermal, optList, fw,
                   gone, used>>

\* The retry finds the graph, but 15 seconds have passed.
GetGiveUp(t) ==
    LET g == call[t].g IN
    /\ pc[t] = "gr_retry"
    /\ mm = None
    /\ "timeout" \in Faults
    /\ FindGraph(g)
    /\ mm' = t
    /\ Goto(t, "gr_late")
    /\ SetCall(t, [call[t] EXCEPT !.d = graph[g].dev])
    /\ UNCHANGED <<dmm, devices, live, graphs, graph, thermal, optList, fw,
                   gone, used>>

GetLock(t) ==
    /\ pc[t] = "gr_dmm"
    /\ LockDmm(t)
    /\ ReleaseMm
    /\ Goto(t, "gr_out")
    /\ UNCHANGED <<devices, live, graphs, graph, thermal, optList, fw, call,
                   gone, used>>

\* The hostready of the auxBuffer read: start the inference already loaded.
HostReadyOnGet(g) == graph[g].have_data = 2

GetOutput(t) ==
    LET d == call[t].d IN
    /\ pc[t] = "gr_out"
    /\ fw[d].output # None
    /\ SetFw(d, [fw[d] EXCEPT !.output = None])
    /\ SetCall(t, [call[t] EXCEPT !.output = fw[d].output,
                                  !.ready = HostReadyOnGet(call[t].g)])
    /\ Goto(t, "gr_aux")
    /\ UNCHANGED <<mm, dmm, devices, live, graphs, graph, thermal, optList,
                   gone, used>>

GetOutputFails(t) ==
    /\ pc[t] = "gr_out"
    /\ fw[call[t].d].output = None \/ "output" \in Faults
    /\ ReleaseDmm(t)
    /\ Goto(t, "gr_retry")
    /\ UNCHANGED <<mm, devices, live, graphs, graph, thermal, optList, fw, call,
                   gone, used>>

\* *userParam = g->user_param[g->output_idx]; g->output_idx = !g->output_idx;
\* and the load of g->have_data.
TakeUserParam(t) ==
    LET g == call[t].g
        G == graph[g]
    IN
    /\ SetCall(t, [call[t] EXCEPT !.userParam = G.user_param[G.output_idx],
                                  !.hd = G.have_data])
    /\ SetGraph(g, [G EXCEPT !.output_idx = 1 - @])

GetAux(t) ==
    LET d == call[t].d IN
    /\ pc[t] = "gr_aux"
    /\ SetFw(d, [fw[d] EXCEPT !.go = @ \/ call[t].ready])
    /\ TakeUserParam(t)
    /\ Goto(t, "gr_store")
    /\ UNCHANGED <<mm, dmm, devices, live, graphs, thermal, optList, gone, used>>

\* The failed transfer may or may not have carried hostready to the stick.
GetAuxFails(t) ==
    LET g == call[t].g
        d == call[t].d
    IN
    /\ pc[t] = "gr_aux"
    /\ "aux" \in Faults
    /\ \E carried \in BOOLEAN :
         SetFw(d, [fw[d] EXCEPT !.go = @ \/ (carried /\ call[t].ready)])
    /\ SetGraph(g, [graph[g] EXCEPT !.failed = TRUE])
    /\ ReleaseDmm(t)
    /\ Return(t, "ERROR")
    /\ UNCHANGED <<mm, devices, live, graphs, thermal, optList, gone, used>>

GetStore(t) ==
    LET g == call[t].g IN
    /\ pc[t] = "gr_store"
    /\ \/ /\ SetGraph(g, [graph[g] EXCEPT !.have_data = call[t].hd - 1])
          /\ ReturnResult(t, "OK")
       \/ /\ "debug" \in Faults
          /\ SetGraph(g, [graph[g] EXCEPT !.have_data = call[t].hd - 1,
                                          !.failed = TRUE])
          /\ ReturnResult(t, "MYRIAD_ERROR")
    /\ ReleaseDmm(t)
    /\ UNCHANGED <<mm, devices, live, graphs, thermal, optList, fw, gone, used>>

\* The time-out path does the same under mm, without the device mutex.
GetLate(t) ==
    /\ pc[t] = "gr_late"
    /\ TakeUserParam(t)
    /\ Goto(t, "gr_late_store")
    /\ UNCHANGED <<mm, dmm, devices, live, graphs, thermal, optList, fw, gone,
                   used>>

GetLateStore(t) ==
    LET g == call[t].g IN
    /\ pc[t] = "gr_late_store"
    /\ SetGraph(g, [graph[g] EXCEPT !.have_data = call[t].hd - 1,
                                    !.failed = TRUE])
    /\ ReleaseMm
    /\ ReturnResult(t, "TIMEOUT")
    /\ UNCHANGED <<dmm, devices, live, graphs, thermal, optList, fw, gone, used>>
-----------------------------------------------------------------------------
(***************************************************************************)
(* The stick (external): once told to, it runs the next input and offers   *)
(* one output, whose identity is that of the input.  input1 and input2 are *)
(* taken in turn.                                                          *)
(***************************************************************************)
FirmwareRun(d) ==
    LET i == fw[d].next IN
    /\ d \in live
    /\ fw[d].go
    /\ fw[d].input[i] # None
    /\ fw[d].output = None
    /\ SetFw(d, [fw[d] EXCEPT !.output = fw[d].input[i],
                              !.input[i] = None,
                              !.next = 1 - i,
                              !.go = FALSE])
    /\ UNCHANGED <<mm, dmm, devices, live, graphs, graph, thermal, optList, pc,
                   call, gone, used>>
-----------------------------------------------------------------------------
\* A call starts.
Begin(t) ==
    \/ t \in Opener /\ \E d \in Device :
         OpenDevice(t, d) \/ CloseDevice(t, d) \/ AllocateGraph(t, d)
    \/ t \in Opener /\ OpenDeviceFails(t)
    \/ t \in Opener /\ \E g \in Graph : DeallocateGraph(t, g)
    \/ t \in Tuner /\ \E g \in Graph : SetGraphOption(t, g)
    \/ t \in Lister /\ \E d \in Device : GetDeviceOption(t, d)
    \/ t \in Loader /\ \E g \in Graph, x \in Tag : LoadTensor(t, g, x)
    \/ t \in Getter /\ \E g \in Graph : GetResult(t, g)

\* A thread that holds a mutex goes on.
Continue(t) ==
    \/ CloseFree(t)
    \/ \E g \in Graph : AllocateFinish(t, g)
    \/ AllocateFails(t)
    \/ DeallocateFree(t)
    \/ OptionLock(t)
    \/ \E v \in BOOLEAN : SetDontBlock(t, v)
    \/ GetOptimisationList(t)
    \/ LoadSendOptions(t)
    \/ LoadCheck(t)
    \/ LoadLock(t)
    \/ LoadBegin(t)
    \/ LoadTransfer(t)
    \/ LoadTransferFails(t)
    \/ LoadStore(t)
    \/ GetCheck(t)
    \/ GetLock(t)
    \/ GetOutput(t)
    \/ GetOutputFails(t)
    \/ GetAux(t)
    \/ GetAuxFails(t)
    \/ GetStore(t)
    \/ GetLate(t)
    \/ GetLateStore(t)

\* A thread that slept goes on.
Wake(t) == LoadWake(t) \/ GetWake(t) \/ GetGiveUp(t)

Next ==
    \/ \E t \in Thread : Begin(t) \/ Continue(t) \/ Wake(t)
    \/ \E d \in Device : FirmwareRun(d)

Spec == Init /\ [][Next]_vars

Fairness ==
    /\ \A t \in Thread : WF_vars(Continue(t)) /\ SF_vars(Wake(t))
                             /\ SF_vars(GetGiveUp(t))
    /\ \A d \in Device : WF_vars(FirmwareRun(d))

FairSpec == Spec /\ Fairness
-----------------------------------------------------------------------------
(***************************************************************************)
(* Properties.                                                             *)
(***************************************************************************)
GraphState ==
    [dev: Device \cup {None}, started: BOOLEAN, have_data: Int, dont_block: BOOLEAN,
     input_idx: 0..1, output_idx: 0..1, failed: BOOLEAN,
     user_param: [0..1 -> Tag \cup {None}]]

FirmwareState ==
    [input: [0..1 -> Tag \cup {None}], next: 0..1, go: BOOLEAN,
     output: Tag \cup {None}]

CallState ==
    [g: Graph \cup {None}, d: Device \cup {None}, tag: Tag \cup {None},
     ready: BOOLEAN, hd: Int, output: Tag \cup {None},
     userParam: Tag \cup {None}, rc: Status]

Types ==
    /\ mm \in Thread \cup {None}
    /\ dmm \in [Device -> Thread \cup {None}]
    /\ devices \subseteq Device
    /\ live \subseteq Device
    /\ graphs \in [Device -> SUBSET Graph]
    /\ graph \in [Graph -> GraphState]
    /\ thermal \in [Device -> Graph \cup {None}]
    /\ optList \in [Device -> {"none", "empty", "filled"}]
    /\ fw \in [Device -> FirmwareState]
    /\ pc \in [Thread -> PC]
    /\ call \in [Thread -> CallState]
    /\ gone \subseteq Thread
    /\ used \subseteq Graph

Handles ==
    /\ \A d \in Device : \A g \in graphs[d] : graph[g].dev = d
    /\ \A t \in Thread :
         /\ pc[t] \in UsesGraph \cup Sleeping => call[t].g \in Graph
         /\ pc[t] \in HoldsMm \cup HoldsDmm => call[t].d \in Device

\* Every variable keeps the values its C declaration is used for; the graphs
\* in the list of a device point back to it, and a call that has found its
\* handle goes on with the handle of a graph and of a device.
TypeOK == Types /\ Handles

\* A thread holds mm, or the mutex of a device, exactly while it is in the
\* part of a call that the code runs under it: no path of any call returns,
\* or goes to sleep, with a mutex held, and none unlocks the mutex of another.
LockDiscipline ==
    /\ \A t \in Thread : mm = t <=> pc[t] \in HoldsMm
    /\ \A t \in Thread, d \in Device :
         dmm[d] = t <=> pc[t] \in HoldsDmm /\ call[t].d = d

\* Whatever a call dereferences is still allocated: CloseDevice and
\* DeallocateGraph of one thread never free the device or the graph that
\* another thread, past find_device or find_graph, goes on using.
NoUseAfterFree ==
    \A t \in Thread :
        /\ pc[t] \in HoldsMm \cup HoldsDmm => call[t].d \in live
        /\ pc[t] \in UsesGraph => call[t].g \in graphs[call[t].d]

\* A device has at most one graph, a graph is on at most one device, and the
\* pointer that MVNC_THERMAL_STATS hands out is that of the allocated graph.
ThermalPointsToGraph ==
    /\ \A d \in Device : graphs[d] = IF thermal[d] = None THEN {}
                                      ELSE {thermal[d]}
    /\ \A d, e \in Device : d # e => graphs[d] \cap graphs[e] = {}

\* A USB transaction of several transfers on one stick is never interleaved
\* with another one, although some are made under mm alone and others under
\* the device mutex alone.
OnLink(t) ==
    \/ pc[t] \in {"ag_usb", "lt_opt", "lt_xfer", "gr_out", "gr_aux"}
    \/ pc[t] = "go_list" /\ optList[call[t].d] = "none"

LinkExclusive ==
    \A s, t \in Thread :
        s # t /\ OnLink(s) /\ OnLink(t) => call[s].d # call[t].d

\* The two user_param slots never overflow or underflow.
HaveDataInBounds ==
    \A d \in devices : \A g \in graphs[d] : graph[g].have_data \in 0..2

\* The userParam that GetResult returns is the one given to the LoadTensor
\* whose output it returns.
ResultsMatch ==
    \A t \in Thread :
        call[t].rc \in {"OK", "MYRIAD_ERROR"} => call[t].output = call[t].userParam

\* Between calls the stick and have_data agree: it holds as many inferences
\* as have_data says, and when there is one it is running or its output waits.
\* A hostready lost by LoadTensor or GetResult would leave it idle for ever.
Pending(d) ==
    Cardinality({i \in 0..1 : fw[d].input[i] # None})
      + (IF fw[d].output = None THEN 0 ELSE 1)

InStep(d, g) ==
    /\ graph[g].have_data = Pending(d)
    /\ Pending(d) > 0 => (fw[d].go \/ fw[d].output # None)
    /\ fw[d].go => fw[d].input[fw[d].next] # None /\ fw[d].output = None

NothingStalls ==
    \A d \in live : \A g \in graphs[d] : dmm[d] = None => InStep(d, g)

\* Whichever of its transfers GetResult fails in, and when it gives up: a graph
\* that is not marked as failed, and is not about to be, still has have_data
\* within bounds and in step with the stick, and gives every output the
\* userParam of its input.  The mark is never forgotten on a path that loses
\* an inference, which is what LoadTensor trusts when it finds no room.
Failed(g) ==
    \/ graph[g].failed
    \/ \E t \in Thread : pc[t] = "gr_late_store" /\ call[t].g = g

SoundUntilFailure ==
    /\ \A d \in live : \A g \in graphs[d] : ~Failed(g) =>
         /\ graph[g].have_data \in 0..2
         /\ dmm[d] = None => InStep(d, g)
    /\ \A t \in Thread :
         pc[t] = "gr_store" /\ ~Failed(call[t].g) =>
             call[t].output = call[t].userParam

\* A LoadTensor or GetResult whose graph was freed while it slept returns GONE.
GoneIsReported ==
    \A t \in gone : pc[t] = "idle" => call[t].rc = "GONE"

\* Closing a device always comes to an end, whatever the other threads do:
\* the thread that holds the device mutex needs no other mutex to release it.
CloseReturns == \A t \in Thread : pc[t] = "cd_dmm" ~> pc[t] = "idle"

\* So does every wait for a device mutex that is entered with mm held.
LocksAreReleased ==
    \A t \in Thread : (pc[t] \in HoldsMm \cup HoldsDmm)
                        ~> (pc[t] \notin HoldsMm \cup HoldsDmm)

\* A GetResult that has seen an inference gets its answer.
GetResultReturns == \A t \in Thread : pc[t] = "gr_out" ~> pc[t] = "idle"

\* The inferences of g that LoadTensor has accepted and GetResult has not
\* returned, oldest first: the last have_data entries written to user_param.
QueueOf(g) ==
    LET G == graph[g] IN
    IF \E d \in Device : g \in graphs[d]
    THEN [i \in 1..G.have_data |->
            G.user_param[(G.input_idx + G.have_data + i - 1) % 2]]
    ELSE <<>>

AnswerTo(t) ==
    IF call[t].rc \in {"OK", "MYRIAD_ERROR"}
    THEN [output |-> call[t].output, userParam |-> call[t].userParam]
    ELSE [output |-> None, userParam |-> None]

\* The double buffering of user_param, input_idx, output_idx and have_data
\* implements a queue of two inferences per graph.
IQ == INSTANCE InferenceQueue WITH
        Client <- Thread, Capacity <- 2,
        queue <- [g \in Graph |-> QueueOf(g)],
        answer <- [t \in Thread |-> AnswerTo(t)]

ImplementsQueue == IQ!Spec
=============================================================================
