-------------------------- MODULE MvncOptionsProofs --------------------------
(***************************************************************************)
(* Proofs about MvncOptions: the inductive invariant Inv says which mutex  *)
(* a thread holds where, what the message on the stick stands for once a   *)
(* graph has started, and what a query in progress has done so far.        *)
(***************************************************************************)
EXTENDS MvncOptions, TLAPS

Query == {"query_on", "query_read", "query_off"}
UnderDmm == Query \cup {"set_device", "set_graph"}
UnderMm == {"send", "check"}
Loading == {"send", "check", "sleep"}

Locking ==
    \A t \in Thread :
      /\ pc[t] \in UnderDmm <=> dmm = t
      /\ pc[t] \in UnderMm <=> mm = t
      /\ pc[t] \in Query => t \in Lister
      /\ pc[t] \in Loading => t \in Loader

Current(m) == m = Message(FALSE, limits, graph.opts)

\* started is set only with the options on the stick.
Configured ==
    /\ graph.started /\ ~changed /\ ~queried => Current(stick)
    /\ \A t \in Thread : pc[t] = "send" /\ ~changed => Current(config)
    /\ ~config.query

\* The graph that mvncLoadTensor has found started is still there, asleep or
\* not, but for the threads that are strange.
Kept ==
    \A t \in Thread :
      /\ pc[t] = "send" => graph.live
      /\ pc[t] \in {"check", "sleep"} /\ t \notin strange =>
           graph.live /\ graph.started

\* The stick is in query mode only in the middle of a query, and the list is
\* what that query has read.
Queried ==
    /\ stick.query => failed \/ \E t \in Thread : pc[t] \in {"query_read", "query_off"}
    /\ \A t \in Thread :
         /\ pc[t] = "query_read" => stick.query \/ overtaken
         /\ pc[t] \in Query => list # "none"
    /\ list = "zeros" =>
         failed \/ \E t \in Thread : pc[t] \in {"query_on", "query_read"}
    /\ list = "other" => overtaken

Inv == TypeOK /\ Locking /\ Configured /\ Kept /\ Queried

\* Nothing has been sent and nobody holds a mutex.
LEMMA InitInv == Init => Inv
<1> SUFFICES ASSUME Init
             PROVE  Inv
    OBVIOUS
<1>1. changed \in BOOLEAN /\ queried \in BOOLEAN /\ failed \in BOOLEAN
      /\ overtaken \in BOOLEAN
  BY Zenon DEF Init
<1>2. stick \in Messages /\ config \in Messages /\ ~stick.query /\ ~config.query
  BY DEF Init, Messages, Zeros, Message
<1>3. graph \in Graphs /\ ~graph.started
  BY ValueAssumption DEF Init, NoGraph, NewGraph, Graphs
<1>4. TypeOK
  BY <1>1, <1>2, <1>3, ValueAssumption DEF Init, TypeOK, Places
<1>5. Locking
  BY ValueAssumption DEF Init, Locking, UnderDmm, UnderMm, Query, Loading
<1>6. Configured /\ Kept /\ Queried
  BY <1>2, <1>3 DEF Init, Configured, Kept, Queried, Query
<1> QED
  BY <1>4, <1>5, <1>6 DEF Inv

\* A step of t changes no other thread.
LEMMA GotoOther ==
    ASSUME TypeOK, NEW t \in Thread, NEW c \in Places, Goto(t, c)
    PROVE  /\ pc' \in [Thread -> Places]
           /\ pc'[t] = c
           /\ \A u \in Thread : u # t => pc'[u] = pc[u]
BY DEF TypeOK, Goto

\* Whoever sleeps while the graph is freed becomes strange.
LEMMA DeallocateInv ==
    ASSUME Inv, NEW t \in Thread, DeallocateGraph(t)
    PROVE  Inv'
<1> USE RoleAssumption, ValueAssumption DEF Inv, At, BothFree, locks
<1>1. /\ mm = None /\ graph' \in Graphs /\ ~graph'.started
      /\ strange' = strange \cup {u \in Loader : pc[u] = "sleep"}
  BY DEF DeallocateGraph, NoGraph, NewGraph, Graphs
<1>2. UNCHANGED <<mm, dmm, limits, list, loglevel, stick, pc, handle, config,
                  changed, queried, failed, overtaken>>
  BY DEF DeallocateGraph, ghosts
<1>3. \A u \in Thread : pc[u] \notin UnderMm
  BY <1>1 DEF Locking
<1>4. TypeOK'
  BY <1>1, <1>2 DEF TypeOK
<1>5. Locking'
  BY <1>2 DEF Locking
<1>6. Configured'
  BY <1>1, <1>2, <1>3 DEF Configured, UnderMm
<1>7. Kept'
  BY <1>1, <1>2, <1>3 DEF Kept, Locking, Loading, UnderMm
<1>8. Queried'
  BY <1>2 DEF Queried
<1> QED
  BY <1>4, <1>5, <1>6, <1>7, <1>8

\* A new graph has not started.
LEMMA AllocateInv ==
    ASSUME Inv, NEW t \in Thread, NEW a \in Address, AllocateGraph(t, a)
    PROVE  Inv'
<1> USE RoleAssumption, ValueAssumption DEF Inv, At, locks, calls
<1>1. /\ mm = None /\ ~graph.live /\ graph' \in Graphs /\ graph'.live
      /\ ~graph'.started
  BY DEF AllocateGraph, NewGraph, Graphs
<1>2. UNCHANGED <<mm, dmm, limits, list, loglevel, stick, pc, handle, config,
                  changed, queried, failed, overtaken, strange>>
  BY DEF AllocateGraph, ghosts
<1>3. \A u \in Thread : pc[u] \notin UnderMm
  BY <1>1 DEF Locking
<1>4. TypeOK'
  BY <1>1, <1>2 DEF TypeOK
<1>5. Locking'
  BY <1>2 DEF Locking
<1>6. Configured' /\ Kept'
  BY <1>1, <1>2, <1>3 DEF Configured, Kept, UnderMm
<1>7. Queried'
  BY <1>2 DEF Queried
<1> QED
  BY <1>4, <1>5, <1>6, <1>7

\* An option that changes is marked as changed.
LEMMA OptionsInv ==
    ASSUME Inv, NEW t \in Thread, NEW v \in Value,
           SetOption(t) \/ StoreOption(t, v) \/ SetGlobalOption(t, v)
    PROVE  Inv'
<1> USE RoleAssumption, ValueAssumption DEF Inv, At, BothFree, locks, calls,
        options
<1>1. CASE SetOption(t)
  <2> PICK c \in {"set_device", "set_graph"} : Goto(t, c)
    BY <1>1 DEF SetOption
  <2>1. /\ pc' \in [Thread -> Places] /\ pc'[t] = c
        /\ \A u \in Thread : u # t => pc'[u] = pc[u]
    BY GotoOther DEF Places
  <2>2. pc[t] = "idle" /\ dmm = None /\ dmm' = t
        /\ UNCHANGED <<mm, limits, graph, list, loglevel, stick, handle, config,
                       changed, queried, failed, overtaken, strange>>
    BY <1>1 DEF SetOption, ghosts
  <2>3. TypeOK'
    BY <2>1, <2>2 DEF TypeOK
  <2>4. Locking'
    BY <2>1, <2>2 DEF Locking, UnderDmm, UnderMm, Query, Loading
  <2>5. Configured' /\ Kept' /\ Queried'
    BY <2>1, <2>2 DEF Configured, Kept, Queried, Current, Query
  <2> QED
    BY <2>3, <2>4, <2>5
<1>2. CASE StoreOption(t, v)
  <2>1. /\ pc' \in [Thread -> Places] /\ pc'[t] = "idle"
        /\ \A u \in Thread : u # t => pc'[u] = pc[u]
    BY <1>2, GotoOther DEF StoreOption, Places
  <2>2. /\ pc[t] \in {"set_device", "set_graph"} /\ dmm' = None /\ changed'
        /\ limits' \in Value
        /\ graph' \in Graphs /\ graph'.started = graph.started /\ graph'.live = graph.live
        /\ UNCHANGED <<mm, list, loglevel, stick, handle, config, queried, failed,
                       overtaken, strange>>
    BY <1>2 DEF StoreOption, TypeOK, Graphs
  <2>3. TypeOK'
    BY <1>2, <2>1, <2>2 DEF StoreOption, TypeOK
  <2>4. Locking'
    BY <2>1, <2>2 DEF Locking, UnderDmm, UnderMm, Query, Loading
  <2>5. Configured' /\ Kept' /\ Queried'
    BY <2>1, <2>2 DEF Configured, Kept, Queried, Current, Query
  <2> QED
    BY <2>3, <2>4, <2>5
<1>3. CASE SetGlobalOption(t, v)
  <2>1. /\ loglevel' \in Value
        /\ UNCHANGED <<mm, dmm, limits, graph, list, stick, pc, handle, config,
                       changed, queried, failed, overtaken, strange>>
    BY <1>3 DEF SetGlobalOption, ghosts
  <2>2. TypeOK' /\ Locking'
    BY <2>1 DEF TypeOK, Locking
  <2>3. Configured' /\ Kept' /\ Queried'
    BY <2>1 DEF Configured, Kept, Queried, Current
  <2> QED
    BY <2>2, <2>3
<1> QED
  BY <1>1, <1>2, <1>3

\* The query: its two messages, what it reads, and its failures.
LEMMA QueryInv ==
    ASSUME Inv, NEW t \in Lister,
           \/ GetList(t) \/ QueryOn(t) \/ QueryRead(t) \/ QueryOff(t) \/ QueryFails(t)
    PROVE  Inv'
<1> USE RoleAssumption, ValueAssumption DEF Inv, At, BothFree, locks, calls,
        options
<1>t. t \in Thread
  OBVIOUS
<1>1. CASE GetList(t)
  <2>1. /\ pc' \in [Thread -> Places] /\ pc'[t] = "query_on"
        /\ \A u \in Thread : u # t => pc'[u] = pc[u]
    BY <1>1, <1>t, GotoOther DEF GetList, Places
  <2>2. /\ pc[t] = "idle" /\ dmm = None /\ dmm' = t
        /\ list = "none" /\ list' = "zeros"
        /\ UNCHANGED <<mm, limits, graph, loglevel, stick, handle, config,
                       changed, queried, failed, overtaken, strange>>
    BY <1>1 DEF GetList, ghosts
  <2>3. TypeOK'
    BY <2>1, <2>2, <1>t DEF TypeOK
  <2>4. Locking'
    BY <2>1, <2>2, <1>t DEF Locking, UnderDmm, UnderMm, Query, Loading
  <2>5. Configured' /\ Kept' /\ Queried'
    BY <2>1, <2>2, <1>t DEF Configured, Kept, Queried, Current, Query
  <2> QED
    BY <2>3, <2>4, <2>5
<1>2. CASE QueryOn(t)
  <2>1. /\ pc' \in [Thread -> Places] /\ pc'[t] = "query_read"
        /\ \A u \in Thread : u # t => pc'[u] = pc[u]
    BY <1>2, <1>t, GotoOther DEF QueryOn, Places
  <2>2. /\ pc[t] = "query_on" /\ stick' \in Messages /\ stick'.query /\ queried'
        /\ queried' \in BOOLEAN
        /\ UNCHANGED <<mm, dmm, limits, graph, list, loglevel, handle, config,
                       changed, failed, overtaken, strange>>
    BY <1>2 DEF QueryOn, QuerySent, Zeros, Message, Messages
  <2>3. TypeOK'
    BY <2>1, <2>2 DEF TypeOK
  <2>4. Locking'
    BY <2>1, <2>2, <1>t DEF Locking, UnderDmm, UnderMm, Query, Loading
  <2>5. Configured' /\ Kept' /\ Queried'
    BY <2>1, <2>2, <1>t DEF Configured, Kept, Queried, Current, Query
  <2> QED
    BY <2>3, <2>4, <2>5
<1>3. CASE QueryRead(t)
  <2>1. /\ pc' \in [Thread -> Places] /\ pc'[t] = "query_off"
        /\ \A u \in Thread : u # t => pc'[u] = pc[u]
    BY <1>3, <1>t, GotoOther DEF QueryRead, Places
  <2>2. /\ pc[t] = "query_read"
        /\ list' \in {"read", "other"} /\ (list' = "other" => ~stick.query)
        /\ UNCHANGED <<mm, dmm, limits, graph, loglevel, stick, handle, config,
                       changed, queried, failed, overtaken, strange>>
    BY <1>3 DEF QueryRead, ghosts
  <2>3. TypeOK'
    BY <2>1, <2>2 DEF TypeOK
  <2>4. Locking'
    BY <2>1, <2>2, <1>t DEF Locking, UnderDmm, UnderMm, Query, Loading
  <2>5. Configured' /\ Kept' /\ Queried'
    BY <2>1, <2>2, <1>t DEF Configured, Kept, Queried, Current, Query
  <2> QED
    BY <2>3, <2>4, <2>5
<1>4. CASE QueryOff(t)
  <2>1. /\ pc' \in [Thread -> Places] /\ pc'[t] = "idle"
        /\ \A u \in Thread : u # t => pc'[u] = pc[u]
    BY <1>4, <1>t, GotoOther DEF QueryOff, Places
  <2>2. /\ pc[t] = "query_off" /\ dmm' = None /\ stick' \in Messages
        /\ ~stick'.query /\ queried' /\ queried' \in BOOLEAN
        /\ UNCHANGED <<mm, limits, graph, list, loglevel, handle, config,
                       changed, failed, overtaken, strange>>
    BY <1>4 DEF QueryOff, QuerySent, Zeros, Message, Messages
  <2>3. TypeOK'
    BY <2>1, <2>2 DEF TypeOK
  <2>4. Locking'
    BY <2>1, <2>2, <1>t DEF Locking, UnderDmm, UnderMm, Query, Loading
  <2>5. dmm = t /\ \A u \in Thread : pc[u] \in UnderDmm => u = t
    BY <2>2, <1>t DEF Locking, UnderDmm, Query
  <2>6. Configured' /\ Kept' /\ Queried'
    BY <2>1, <2>2, <2>5, <1>t DEF Configured, Kept, Queried, Current, Query, UnderDmm
  <2> QED
    BY <2>3, <2>4, <2>6
<1>5. CASE QueryFails(t)
  <2>1. /\ pc' \in [Thread -> Places] /\ pc'[t] = "idle"
        /\ \A u \in Thread : u # t => pc'[u] = pc[u]
    BY <1>5, <1>t, GotoOther DEF QueryFails, Places
  <2>2. /\ pc[t] \in Query /\ dmm' = None /\ failed' /\ failed' \in BOOLEAN
        /\ UNCHANGED <<mm, limits, graph, list, loglevel, stick, handle, config,
                       changed, queried, overtaken, strange>>
    BY <1>5 DEF QueryFails, Query
  <2>3. TypeOK'
    BY <2>1, <2>2 DEF TypeOK
  <2>4. Locking'
    BY <2>1, <2>2, <1>t DEF Locking, UnderDmm, UnderMm, Query, Loading
  <2>5. Configured' /\ Kept' /\ Queried'
    BY <2>1, <2>2, <1>t DEF Configured, Kept, Queried, Current, Query
  <2> QED
    BY <2>3, <2>4, <2>5
<1> QED
  BY <1>1, <1>2, <1>3, <1>4, <1>5

\* LoadTensor: the message is filled in, and started is set once it has gone out.
LEMMA LoadInv ==
    ASSUME Inv, NEW t \in Loader,
           \/ LoadTensor(t) \/ LoadSend(t) \/ LoadSendFails(t)
           \/ LoadFull(t) \/ LoadWake(t) \/ LoadInput(t)
    PROVE  Inv'
<1> USE RoleAssumption, ValueAssumption DEF Inv, At, BothFree, locks, calls,
        options
<1>t. t \in Thread
  OBVIOUS
<1>1. CASE LoadTensor(t)
  <2> PICK c \in UnderMm : Goto(t, c)
    BY <1>1 DEF LoadTensor, UnderMm
  <2>1. /\ pc' \in [Thread -> Places] /\ pc'[t] = c
        /\ \A u \in Thread : u # t => pc'[u] = pc[u]
    BY <1>t, GotoOther DEF Places, UnderMm
  <2>2. /\ pc[t] = "idle" /\ mm = None /\ mm' = t /\ graph.live
        /\ handle' \in [Thread -> Address \cup {None}]
        /\ UNCHANGED <<dmm, limits, graph, list, loglevel, stick, queried, failed,
                       overtaken, strange>>
    BY <1>1 DEF LoadTensor, TypeOK, Graphs
  <2>3. \A u \in Thread : pc[u] \notin UnderMm
    BY <2>2 DEF Locking
  <2>4. CASE graph.started
    <3>1. c = "check" /\ UNCHANGED <<config, changed>>
      <4>1. Goto(t, "check") /\ UNCHANGED <<config, changed>>
        BY <1>1, <2>4 DEF LoadTensor
      <4> QED
        BY <4>1, <2>1, <1>t DEF Goto, TypeOK
    <3>2. TypeOK'
      BY <2>1, <2>2, <3>1, <1>t DEF TypeOK
    <3>3. Locking'
      BY <2>1, <2>2, <1>t DEF Locking, UnderDmm, UnderMm, Query, Loading
    <3>4. Configured' /\ Kept' /\ Queried'
      BY <2>1, <2>2, <2>4, <3>1, <1>t DEF Configured, Kept, Queried, Current, Query
    <3> QED
      BY <3>2, <3>3, <3>4
  <2>5. CASE ~graph.started
    <3>1. /\ c = "send" /\ config' = Message(FALSE, limits, graph.opts)
          /\ changed' = FALSE
      <4>1. /\ Goto(t, "send") /\ config' = Message(FALSE, limits, graph.opts)
            /\ changed' = FALSE
        BY <1>1, <2>5 DEF LoadTensor
      <4> QED
        BY <4>1, <2>1, <1>t DEF Goto, TypeOK
    <3>2. config' \in Messages /\ ~config'.query /\ changed' \in BOOLEAN
      BY <3>1 DEF Message, Messages, TypeOK, Graphs
    <3>3. TypeOK'
      BY <2>1, <2>2, <3>2, <1>t DEF TypeOK
    <3>4. Locking'
      BY <2>1, <2>2, <1>t DEF Locking, UnderDmm, UnderMm, Query, Loading
    <3>5. Kept' /\ Queried'
      BY <2>1, <2>2, <3>1, <1>t DEF Kept, Queried, Query
    <3>6. Current(config)'
      BY <3>1, <2>2 DEF Current
    <3>7. Configured'
      BY <2>1, <2>2, <2>3, <2>5, <3>1, <3>2, <3>6, <1>t DEF Configured, UnderMm
    <3> QED
      BY <3>3, <3>4, <3>5, <3>7
  <2> QED
    BY <2>4, <2>5
<1>2. CASE LoadSend(t)
  <2>1. /\ pc' \in [Thread -> Places] /\ pc'[t] = "check"
        /\ \A u \in Thread : u # t => pc'[u] = pc[u]
    BY <1>2, <1>t, GotoOther DEF LoadSend, Places
  <2>2. /\ pc[t] = "send" /\ stick' = config /\ ~queried' /\ queried' \in BOOLEAN
        /\ UNCHANGED <<mm, dmm, limits, list, loglevel, handle, config, changed,
                       failed, strange>>
    BY <1>2 DEF LoadSend
  <2>3. /\ graph' \in Graphs /\ graph'.started /\ graph'.opts = graph.opts
        /\ graph'.live = graph.live
    BY <1>2 DEF LoadSend, TypeOK, Graphs
  <2>4. /\ overtaken' \in BOOLEAN
        /\ (overtaken \/ stick.query) => overtaken'
    BY <1>2, Zenon DEF LoadSend
  <2>5. TypeOK'
    BY <2>1, <2>2, <2>3, <2>4 DEF TypeOK
  <2>6. Locking'
    BY <2>1, <2>2, <1>t DEF Locking, UnderDmm, UnderMm, Query, Loading
  <2>7. mm = t /\ \A u \in Thread : pc[u] \in UnderMm => u = t
    BY <2>2, <1>t DEF Locking, UnderMm
  <2>8. Configured' /\ Kept'
    BY <2>1, <2>2, <2>3, <2>7, <1>t DEF Configured, Kept, Current, UnderMm
  <2>9. Queried'
    BY <2>1, <2>2, <2>4, <1>t DEF Configured, Queried, Query
  <2> QED
    BY <2>5, <2>6, <2>8, <2>9
<1>3. ASSUME Return(t),
             \/ pc[t] \in UnderMm /\ mm' = None
             \/ pc[t] = "sleep" /\ UNCHANGED mm,
             UNCHANGED <<dmm, options, stick, config, ghosts>>
      PROVE  Inv'
  <2>1. /\ pc' \in [Thread -> Places] /\ pc'[t] = "idle"
        /\ \A u \in Thread : u # t => pc'[u] = pc[u]
    BY <1>3, <1>t, GotoOther DEF Return, Places
  <2>2. /\ strange' = strange \ {t} /\ handle' \in [Thread -> Address \cup {None}]
        /\ UNCHANGED <<dmm, limits, graph, list, loglevel, stick, config, changed,
                       queried, failed, overtaken>>
    BY <1>3 DEF Return, ghosts, TypeOK
  <2>3. TypeOK'
    BY <1>3, <2>1, <2>2 DEF TypeOK
  <2>4. Locking'
    BY <1>3, <2>1, <2>2, <1>t DEF Locking, UnderDmm, UnderMm, Query, Loading
  <2>5. Configured' /\ Kept'
    BY <2>1, <2>2, <1>t DEF Configured, Kept, Current
  <2>6. Queried'
    BY <1>3, <2>1, <2>2, <1>t DEF Queried, Query, UnderMm
  <2> QED
    BY <2>3, <2>4, <2>5, <2>6
<1>4. ASSUME pc[t] = "check", Goto(t, "sleep"), mm' = None,
             UNCHANGED <<dmm, options, stick, config, calls, ghosts>>
      PROVE  Inv'
  <2>1. /\ pc' \in [Thread -> Places] /\ pc'[t] = "sleep"
        /\ \A u \in Thread : u # t => pc'[u] = pc[u]
    BY <1>4, <1>t, GotoOther DEF Places
  <2>2. UNCHANGED <<dmm, limits, graph, list, loglevel, stick, handle, config,
                    changed, queried, failed, overtaken, strange>>
    BY <1>4 DEF ghosts
  <2>3. TypeOK'
    BY <1>4, <2>1, <2>2 DEF TypeOK
  <2>4. Locking'
    BY <1>4, <2>1, <2>2, <1>t DEF Locking, UnderDmm, UnderMm, Query, Loading
  <2>5. Configured' /\ Kept' /\ Queried'
    BY <1>4, <2>1, <2>2, <1>t DEF Configured, Kept, Queried, Current, Query
  <2> QED
    BY <2>3, <2>4, <2>5
<1>5. ASSUME pc[t] = "sleep", mm = None, Goto(t, "check"), mm' = t,
             UNCHANGED <<dmm, options, stick, config, calls, ghosts>>
      PROVE  Inv'
  <2>1. /\ pc' \in [Thread -> Places] /\ pc'[t] = "check"
        /\ \A u \in Thread : u # t => pc'[u] = pc[u]
    BY <1>5, <1>t, GotoOther DEF Places
  <2>2. UNCHANGED <<dmm, limits, graph, list, loglevel, stick, handle, config,
                    changed, queried, failed, overtaken, strange>>
    BY <1>5 DEF ghosts
  <2>3. TypeOK'
    BY <1>5, <2>1, <2>2 DEF TypeOK
  <2>4. Locking'
    BY <1>5, <2>1, <2>2, <1>t DEF Locking, UnderDmm, UnderMm, Query, Loading
  <2>5. Configured' /\ Kept' /\ Queried'
    BY <1>5, <2>1, <2>2, <1>t DEF Configured, Kept, Queried, Current, Query
  <2> QED
    BY <2>3, <2>4, <2>5
<1>6. CASE LoadSendFails(t)   BY <1>6, <1>3 DEF LoadSendFails, UnderMm
<1>7. CASE LoadFull(t)        BY <1>7, <1>3, <1>4 DEF LoadFull, UnderMm
<1>8. CASE LoadWake(t)        BY <1>8, <1>3, <1>5 DEF LoadWake
<1>9. CASE LoadInput(t)       BY <1>9, <1>3 DEF LoadInput, UnderMm
<1> QED
  BY <1>1, <1>2, <1>6, <1>7, <1>8, <1>9

\* Every step keeps the invariant.
LEMMA NextInv == Inv /\ [Next]_vars => Inv'
<1> SUFFICES ASSUME Inv, [Next]_vars
             PROVE  Inv'
    OBVIOUS
<1>1. ASSUME NEW t \in Setter, NEW v \in Value,
             SetOption(t) \/ StoreOption(t, v) \/ SetGlobalOption(t, v)
      PROVE  Inv'
  BY <1>1, OptionsInv, RoleAssumption
<1>2. ASSUME NEW t \in Lister, \/ GetList(t) \/ QueryOn(t) \/ QueryRead(t)
                               \/ QueryOff(t) \/ QueryFails(t)
      PROVE  Inv'
  BY <1>2, QueryInv
<1>3. ASSUME NEW t \in Owner, NEW a \in Address, AllocateGraph(t, a)
      PROVE  Inv'
  BY <1>3, AllocateInv, RoleAssumption
<1>4. ASSUME NEW t \in Loader,
             \/ LoadTensor(t) \/ LoadSend(t) \/ LoadSendFails(t)
             \/ LoadFull(t) \/ LoadWake(t) \/ LoadInput(t)
      PROVE  Inv'
  BY <1>4, LoadInv
<1>5. CASE UNCHANGED vars
  <2>1. TypeOK' /\ Locking'
    BY <1>5 DEF vars, Inv, TypeOK, Locking
  <2>2. Configured' /\ Kept' /\ Queried'
    BY <1>5 DEF vars, Inv, Configured, Kept, Queried, Current
  <2> QED
    BY <2>1, <2>2 DEF Inv
<1>6. ASSUME NEW t \in Setter, SetOption(t)
      PROVE  Inv'
  BY <1>6, <1>1, ValueAssumption
<1>7. ASSUME NEW t \in Owner, DeallocateGraph(t)
      PROVE  Inv'
  BY <1>7, DeallocateInv, RoleAssumption
<1> QED
  BY <1>1, <1>2, <1>3, <1>4, <1>5, <1>6, <1>7 DEF Next

LEMMA InvHolds == Spec => []Inv
BY InitInv, NextInv, PTL DEF Spec

\* A thread is at a known place and every option keeps its range.
THEOREM OptionsAreTyped == Spec => []TypeOK
BY InvHolds, PTL DEF Inv

\* With any number of threads and addresses, the input of an inference goes to
\* the stick with the options of its graph and device on it, unless they were
\* stored since, a query has sent its own, or the graph was freed, and replaced
\* at its address, while the call slept (mvnc_api.c:849-912).
THEOREM InferencesAreConfigured == Spec => RunsAsConfigured
<1>1. Inv => \A t \in Loader :
               LoadInput(t) /\ ~changed /\ ~queried /\ t \notin strange =>
                 stick = Message(FALSE, limits, graph.opts)
  BY RoleAssumption DEF Inv, Configured, Kept, Current, LoadInput, At
<1> QED
  BY <1>1, InvHolds, PTL DEF RunsAsConfigured

\* No input goes out while a query is half-way (mvnc_api.c:738-768).
THEOREM QueriesAreAtomic == Spec => NoInferenceInQueryMode
<1>1. Inv => \A t \in Loader : LoadInput(t) /\ ~failed => ~stick.query
  <2> SUFFICES ASSUME Inv, NEW t \in Loader, LoadInput(t), ~failed, stick.query
               PROVE  FALSE
    OBVIOUS
  <2>1. PICK u \in Thread : pc[u] \in {"query_read", "query_off"}
    BY DEF Inv, Queried
  <2>2. dmm = u /\ dmm = None
    BY <2>1 DEF Inv, Locking, UnderDmm, Query, LoadInput
  <2> QED
    BY <2>2, ValueAssumption
<1> QED
  BY <1>1, InvHolds, PTL DEF NoInferenceInQueryMode

\* A call that finds the optimisation list allocated finds what the stick sent,
\* if no query has failed or been overtaken (mvnc_api.c:730-763).
THEOREM ListIsGenuine == Spec => []ListIsRead
<1>1. Inv => ListIsRead
  <2> SUFFICES ASSUME Inv, \A t \in Lister : pc[t] = "idle", ~failed, ~overtaken
               PROVE  list \in {"none", "read"}
    BY DEF ListIsRead, At
  <2>1. \A t \in Thread : pc[t] \notin Query
    BY DEF Inv, Locking, Query
  <2> QED
    BY <2>1 DEF Inv, TypeOK, Queried, Query
<1> QED
  BY <1>1, InvHolds, PTL
=============================================================================
