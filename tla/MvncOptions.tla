------------------------------ MODULE MvncOptions ------------------------------
(***************************************************************************)
(* How the options of api/src/mvnc_api.c reach the stick: they are stored  *)
(* in struct Device and struct Graph under the device mutex and sent once, *)
(* as a config message, by the first mvncLoadTensor of a graph, under the  *)
(* global mutex.  The query for the optimisation list sends config         *)
(* messages of its own.  Mvnc has the locking in full; here a call takes   *)
(* the mutexes it needs in one step and keeps those it keeps.  An input    *)
(* whose transfer fails (line 913) is left to Mvnc.                        *)
(***************************************************************************)
CONSTANTS
    Thread,     \* threads of the application
    Setter,     \* those that set options
    Lister,     \* those that read MVNC_OPTIMISATION_LIST
    Loader,     \* those that call mvncLoadTensor
    Owner,      \* those that allocate and deallocate graphs
    Address,    \* addresses of struct Graph, given out again once freed
    Value,      \* values of an option
    Default,    \* the value an option starts with
    Zero,       \* what a config message of zeros sets it to
    None        \* no thread, no address

ASSUME RoleAssumption ==
    /\ Setter \subseteq Thread /\ Lister \subseteq Thread
    /\ Loader \subseteq Thread /\ Owner \subseteq Thread

ASSUME ValueAssumption ==
    Default \in Value /\ None \notin Thread /\ None \notin Address

VARIABLES
    mm, dmm,    \* holders of the global and of the device mutex
    limits,     \* the options in struct Device
    graph,      \* struct Graph: allocated, started, its options, its address
    list,       \* d->optimisation_list: absent, all zeros, read, or another answer
    loglevel,   \* mvnc_loglevel
    stick,      \* the last config message the stick has taken
    pc,         \* where thread t is
    handle,     \* the address mvncLoadTensor of thread t has got
    config,     \* the message mvncLoadTensor has filled in
    changed,    \* ghost: options stored since that message was filled in
    queried,    \* ghost: a query has sent a config since the last LoadTensor did
    failed,     \* ghost: a query has failed half-way
    overtaken,  \* ghost: a config of LoadTensor went out in the middle of a query
    strange     \* ghost: threads whose graph was freed while LoadTensor slept

vars == <<mm, dmm, limits, graph, list, loglevel, stick, pc, handle, config,
          changed, queried, failed, overtaken, strange>>
locks == <<mm, dmm>>
calls == <<handle, strange>>
ghosts == <<changed, queried, failed, overtaken>>
options == <<limits, graph, list, loglevel>>

NewGraph(a) == [live |-> TRUE, started |-> FALSE, opts |-> Default, addr |-> a]
NoGraph == [NewGraph(None) EXCEPT !.live = FALSE]
Message(q, l, o) == [query |-> q, limits |-> l, opts |-> o]
Zeros(q) == Message(q, Zero, Zero)
Messages == [query : BOOLEAN, limits : Value \cup {Zero}, opts : Value \cup {Zero}]
Graphs == [live : BOOLEAN, started : BOOLEAN, opts : Value,
           addr : Address \cup {None}]
Places == {"idle", "set_device", "set_graph", "query_on", "query_read",
           "query_off", "send", "check", "sleep"}

Init ==
    /\ mm = None /\ dmm = None
    /\ limits = Default
    /\ graph = NoGraph
    /\ list = "none"
    /\ loglevel = Default
    /\ stick = Zeros(FALSE)
    /\ pc = [t \in Thread |-> "idle"]
    /\ handle = [t \in Thread |-> None]
    /\ config = Zeros(FALSE)
    /\ changed = FALSE /\ queried = FALSE
    /\ failed = FALSE /\ overtaken = FALSE
    /\ strange = {}

At(t, c) == pc[t] = c
Goto(t, c) == pc' = [pc EXCEPT ![t] = c]
\* mvncLoadTensor of t ends, with whatever status.
Return(t) ==
    /\ Goto(t, "idle")
    /\ handle' = [handle EXCEPT ![t] = None]
    /\ strange' = strange \ {t}

\* A call that takes mm and, waiting with mm held, the device mutex.
BothFree == mm = None /\ dmm = None
-----------------------------------------------------------------------------
(***************************************************************************)
(* Mutated forms of definitions below, one for each property: each breaks  *)
(* the property that its comment names.                                    *)
(***************************************************************************)
\* started is set although the message did not get through (RunsAsConfigured).
OptimisticLoadSendFails(t) ==
    /\ At(t, "send")
    /\ mm' = None
    /\ graph' = [graph EXCEPT !.started = TRUE]
    /\ Return(t)
    /\ UNCHANGED <<dmm, limits, list, loglevel, stick, config, ghosts>>

\* The second message does not reset config[1] (NoInferenceInQueryMode).
ForgetfulQueryOff(t) ==
    /\ At(t, "query_off")
    /\ stick' = Zeros(TRUE)
    /\ queried' = TRUE
    /\ dmm' = None
    /\ Goto(t, "idle")
    /\ UNCHANGED <<mm, options, config, calls, changed, failed, overtaken>>

\* The first message does not set config[1] (ListIsRead).
SilentQueryOn(t) ==
    /\ At(t, "query_on")
    /\ stick' = Zeros(FALSE)
    /\ queried' = TRUE
    /\ Goto(t, "query_read")
    /\ UNCHANGED <<locks, options, config, calls, changed, failed, overtaken>>
-----------------------------------------------------------------------------
AllocateGraph(t, a) ==
    /\ At(t, "idle") /\ mm = None
    /\ ~graph.live
    /\ graph' = NewGraph(a)
    /\ UNCHANGED <<locks, limits, list, loglevel, stick, pc, calls, config, ghosts>>

DeallocateGraph(t) ==
    /\ At(t, "idle") /\ BothFree
    /\ graph.live
    /\ graph' = NoGraph
    /\ strange' = strange \cup {u \in Loader : At(u, "sleep")}
    /\ UNCHANGED <<locks, limits, list, loglevel, stick, pc, handle, config, ghosts>>

\* mvncSetDeviceOption and mvncSetGraphOption look up the handle under mm and
\* go on under the device mutex.
SetOption(t) ==
    /\ At(t, "idle") /\ BothFree
    /\ dmm' = t
    /\ \/ Goto(t, "set_device")
       \/ graph.live /\ Goto(t, "set_graph")
    /\ UNCHANGED <<mm, options, stick, config, calls, ghosts>>

StoreOption(t, v) ==
    /\ \/ /\ At(t, "set_device")
          /\ limits' = v
          /\ UNCHANGED graph
       \/ /\ At(t, "set_graph")
          /\ graph' = [graph EXCEPT !.opts = v]
          /\ UNCHANGED limits
    /\ changed' = TRUE
    /\ dmm' = None
    /\ Goto(t, "idle")
    /\ UNCHANGED <<mm, list, loglevel, stick, config, calls, queried, failed,
                   overtaken>>

\* mvncSetGlobalOption takes no mutex.
SetGlobalOption(t, v) ==
    /\ At(t, "idle")
    /\ loglevel' = v
    /\ UNCHANGED <<locks, limits, graph, list, stick, pc, config, calls, ghosts>>
-----------------------------------------------------------------------------
(***************************************************************************)
(* get_optimisation_list, under the device mutex.                          *)
(***************************************************************************)
GetList(t) ==
    /\ At(t, "idle") /\ BothFree
    /\ list = "none"
    /\ list' = "zeros"
    /\ dmm' = t
    /\ Goto(t, "query_on")
    /\ UNCHANGED <<mm, limits, graph, loglevel, stick, config, calls, ghosts>>

QuerySent(t, q) ==
    /\ stick' = Zeros(q)
    /\ queried' = TRUE

QueryOn(t) ==
    /\ At(t, "query_on")
    /\ QuerySent(t, TRUE)
    /\ Goto(t, "query_read")
    /\ UNCHANGED <<locks, options, config, calls, changed, failed, overtaken>>

\* The stick is ready and sends its list, if it has been asked for it.
QueryRead(t) ==
    /\ At(t, "query_read")
    /\ list' = IF stick.query THEN "read" ELSE "other"
    /\ Goto(t, "query_off")
    /\ UNCHANGED <<locks, limits, graph, loglevel, stick, config, calls, ghosts>>

QueryOff(t) ==
    /\ At(t, "query_off")
    /\ QuerySent(t, FALSE)
    /\ dmm' = None
    /\ Goto(t, "idle")
    /\ UNCHANGED <<mm, options, config, calls, changed, failed, overtaken>>

\* A transfer fails or the stick is not ready within STATUS_WAIT_TIMEOUT.
QueryFails(t) ==
    /\ pc[t] \in {"query_on", "query_read", "query_off"}
    /\ failed' = TRUE
    /\ dmm' = None
    /\ Goto(t, "idle")
    /\ UNCHANGED <<mm, options, stick, config, calls, changed, queried, overtaken>>
-----------------------------------------------------------------------------
(***************************************************************************)
(* mvncLoadTensor up to the transfer of the input.                         *)
(***************************************************************************)
\* send_opt_data fills in the message, unless it has been sent.
LoadTensor(t) ==
    /\ At(t, "idle") /\ mm = None
    /\ graph.live
    /\ mm' = t
    /\ handle' = [handle EXCEPT ![t] = graph.addr]
    /\ IF graph.started
       THEN Goto(t, "check") /\ UNCHANGED <<config, changed>>
       ELSE /\ Goto(t, "send")
            /\ config' = Message(FALSE, limits, graph.opts)
            /\ changed' = FALSE
    /\ UNCHANGED <<dmm, options, stick, queried, failed, overtaken, strange>>

LoadSend(t) ==
    /\ At(t, "send")
    /\ stick' = config
    /\ queried' = FALSE
    /\ overtaken' = (overtaken \/ stick.query)
    /\ graph' = [graph EXCEPT !.started = TRUE]
    /\ Goto(t, "check")
    /\ UNCHANGED <<locks, limits, list, loglevel, config, calls, changed, failed>>

LoadSendFails(t) ==
    /\ At(t, "send")
    /\ mm' = None
    /\ Return(t)
    /\ UNCHANGED <<dmm, options, stick, config, ghosts>>

\* Both buffers are full: MVNC_BUSY, MVNC_ERROR, or mm is released for a while.
LoadFull(t) ==
    /\ At(t, "check")
    /\ mm' = None
    /\ Return(t) \/ (Goto(t, "sleep") /\ UNCHANGED calls)
    /\ UNCHANGED <<dmm, options, stick, config, ghosts>>

\* After the sleep the graph is looked up by its address: MVNC_GONE, or the
\* buffers are looked at again, of whatever graph is there; started is not.
LoadWake(t) ==
    /\ At(t, "sleep") /\ mm = None
    /\ \/ /\ graph.live /\ graph.addr = handle[t]
          /\ mm' = t
          /\ Goto(t, "check")
          /\ UNCHANGED calls
       \/ /\ ~(graph.live /\ graph.addr = handle[t])
          /\ UNCHANGED mm
          /\ Return(t)
    /\ UNCHANGED <<dmm, options, stick, config, ghosts>>

\* A buffer is free: the device mutex is taken, mm released, the input sent.
LoadInput(t) ==
    /\ At(t, "check") /\ dmm = None
    /\ mm' = None
    /\ Return(t)
    /\ UNCHANGED <<dmm, options, stick, config, ghosts>>
-----------------------------------------------------------------------------
Next ==
    \/ \E t \in Setter : SetOption(t)
    \/ \E t \in Setter, v \in Value : StoreOption(t, v) \/ SetGlobalOption(t, v)
    \/ \E t \in Lister : \/ GetList(t) \/ QueryOn(t) \/ QueryRead(t)
                         \/ QueryOff(t) \/ QueryFails(t)
    \/ \E t \in Owner, a \in Address : AllocateGraph(t, a)
    \/ \E t \in Owner : DeallocateGraph(t)
    \/ \E t \in Loader : \/ LoadTensor(t) \/ LoadSend(t) \/ LoadSendFails(t)
                         \/ LoadFull(t) \/ LoadWake(t) \/ LoadInput(t)

Spec == Init /\ [][Next]_vars
-----------------------------------------------------------------------------
(***************************************************************************)
(* Properties.                                                             *)
(***************************************************************************)
\* An inference runs with the options of its own graph and of the device as
\* they are stored, unless they were set after the first LoadTensor, a query has
\* overwritten the config since (started is per graph, the config is not), or the
\* graph was freed while the call slept and another one, whose config has not
\* been sent, has its address: started is looked at only before the wait.
RunsAsConfigured ==
    [][\A t \in Loader :
         LoadInput(t) /\ ~changed /\ ~queried /\ t \notin strange =>
           stick = Message(FALSE, limits, graph.opts)]_vars

\* No inference is loaded while the stick is in query mode, unless a query has
\* failed: the device mutex is held from the message that turns the query on to
\* the one that turns it off.
NoInferenceInQueryMode ==
    [][\A t \in Loader : LoadInput(t) /\ ~failed => ~stick.query]_vars

\* The list is kept for good once it is allocated.  A later call finds the list
\* of the stick there, unless a transfer failed, which leaves zeros, or a
\* LoadTensor that holds only mm ended the query mode before the list was read.
ListIsRead ==
    (\A t \in Lister : At(t, "idle")) /\ ~failed /\ ~overtaken =>
      list \in {"none", "read"}

TypeOK ==
    /\ mm \in Thread \cup {None} /\ dmm \in Thread \cup {None}
    /\ limits \in Value /\ loglevel \in Value
    /\ graph \in Graphs
    /\ list \in {"none", "zeros", "read", "other"}
    /\ stick \in Messages /\ config \in Messages
    /\ pc \in [Thread -> Places]
    /\ handle \in [Thread -> Address \cup {None}] /\ strange \subseteq Loader
    /\ changed \in BOOLEAN /\ queried \in BOOLEAN
    /\ failed \in BOOLEAN /\ overtaken \in BOOLEAN
=============================================================================
