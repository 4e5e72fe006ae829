------------------------------ MODULE MvncProofs ------------------------------
(***************************************************************************)
(* Theorems about Mvnc, for every set of threads, sticks, graphs and tags. *)
(***************************************************************************)
EXTENDS Mvnc, TLAPS

-----------------------------------------------------------------------------
(***************************************************************************)
(* Assigning one or several fields of a well typed record.                 *)
(***************************************************************************)
LEMMA NoCallType == NoCall \in CallState
BY DEF NoCall, CallState, Status

LEMMA FirmwareType == IdleFirmware \in FirmwareState
BY DEF IdleFirmware, FirmwareState

LEMMA FreshType == \A d \in Device \cup {None} : FreshGraph(d) \in GraphState
BY DEF FreshGraph, GraphState

LEMMA CallFields ==
    \A c \in CallState :
      /\ \A s \in Status : [c EXCEPT !.rc = s] \in CallState
      /\ \A d \in Device : [c EXCEPT !.d = d] \in CallState
      /\ \A b \in BOOLEAN : [c EXCEPT !.ready = b] \in CallState
      /\ \A n \in Int : [c EXCEPT !.hd = n] \in CallState
      /\ \A x \in Tag \cup {None} : [c EXCEPT !.output = x] \in CallState
      /\ \A x \in Tag \cup {None} : [c EXCEPT !.userParam = x] \in CallState
BY DEF CallState

LEMMA CallArguments ==
    \A g \in Graph \cup {None}, d \in Device \cup {None}, x \in Tag \cup {None} :
        [NoCall EXCEPT !.g = g, !.d = d, !.tag = x] \in CallState
<1>1. \A c \in CallState, g \in Graph \cup {None}, d \in Device \cup {None},
        x \in Tag \cup {None} : [c EXCEPT !.g = g, !.d = d, !.tag = x] \in CallState
  BY DEF CallState
<1> QED BY <1>1, NoCallType

LEMMA CallReturns ==
    \A s \in Status : [NoCall EXCEPT !.rc = s] \in CallState
BY CallFields, NoCallType

LEMMA CallResults ==
    \A s \in Status, x, y \in Tag \cup {None} :
        [NoCall EXCEPT !.rc = s, !.output = x, !.userParam = y] \in CallState
<1>1. \A c \in CallState, s \in Status, x, y \in Tag \cup {None} :
        [c EXCEPT !.rc = s, !.output = x, !.userParam = y] \in CallState
  BY DEF CallState
<1> QED BY <1>1, NoCallType

LEMMA CallReads ==
    \A c \in CallState :
      /\ \A x \in Tag \cup {None}, b \in BOOLEAN :
           [c EXCEPT !.output = x, !.ready = b] \in CallState
      /\ \A x \in Tag \cup {None}, n \in Int :
           [c EXCEPT !.userParam = x, !.hd = n] \in CallState
<1>1. \A c \in CallState, x \in Tag \cup {None}, b \in BOOLEAN :
        [c EXCEPT !.output = x, !.ready = b] \in CallState
  BY DEF CallState
<1>2. \A c \in CallState, x \in Tag \cup {None}, n \in Int :
        [c EXCEPT !.userParam = x, !.hd = n] \in CallState
  BY DEF CallState
<1> QED BY <1>1, <1>2

LEMMA GraphFields ==
    \A G \in GraphState :
      /\ \A b \in BOOLEAN : [G EXCEPT !.started = b] \in GraphState
      /\ \A b \in BOOLEAN : [G EXCEPT !.dont_block = b] \in GraphState
      /\ [G EXCEPT !.failed = TRUE] \in GraphState
      /\ \A n \in Int : [G EXCEPT !.have_data = n] \in GraphState
BY DEF GraphState

LEMMA GraphIndexes ==
    \A G \in GraphState :
      /\ [G EXCEPT !.input_idx = 1 - @] \in GraphState
      /\ [G EXCEPT !.output_idx = 1 - @] \in GraphState
BY DEF GraphState

LEMMA GraphParam ==
    \A G \in GraphState, x \in Tag \cup {None} :
        [G EXCEPT !.user_param[G.input_idx] = x] \in GraphState
BY DEF GraphState

LEMMA GraphLoaded ==
    ASSUME NEW G \in GraphState, NEW x \in Tag \cup {None}, NEW n \in Int
    PROVE  [G EXCEPT !.user_param[G.input_idx] = x, !.input_idx = 1 - @,
                     !.have_data = n + 1] \in GraphState
<1> DEFINE G1 == [G EXCEPT !.user_param[G.input_idx] = x]
           G2 == [G1 EXCEPT !.input_idx = 1 - @]
           G3 == [G2 EXCEPT !.have_data = n + 1]
<1>0. n + 1 \in Int
  OBVIOUS
<1>1. G1 \in GraphState
  BY GraphParam
<1> HIDE DEF G1
<1>2. G2 \in GraphState
  BY <1>1, GraphIndexes
<1> HIDE DEF G2
<1>3. G3 \in GraphState
  BY <1>0, <1>2, GraphFields
<1> QED BY <1>3 DEF G1, G2, G3

LEMMA GraphFailed ==
    ASSUME NEW G \in GraphState, NEW n \in Int
    PROVE  [G EXCEPT !.have_data = n - 1, !.failed = TRUE] \in GraphState
<1> DEFINE G1 == [G EXCEPT !.have_data = n - 1]
           G2 == [G1 EXCEPT !.failed = TRUE]
<1>0. n - 1 \in Int
  OBVIOUS
<1>1. G1 \in GraphState
  BY <1>0, GraphFields
<1> HIDE DEF G1
<1>2. G2 \in GraphState
  BY <1>1, GraphFields
<1> QED BY <1>2 DEF G1, G2

LEMMA FirmwareFields ==
    \A F \in FirmwareState :
      /\ \A b \in BOOLEAN : [F EXCEPT !.go = @ \/ b] \in FirmwareState
      /\ [F EXCEPT !.output = None] \in FirmwareState
      /\ \A i \in 0..1, x \in Tag \cup {None}, b \in BOOLEAN :
           [F EXCEPT !.input[i] = x, !.go = @ \/ b] \in FirmwareState
BY DEF FirmwareState

LEMMA FirmwareRan ==
    ASSUME NEW F \in FirmwareState, NEW i \in 0..1
    PROVE  [F EXCEPT !.output = F.input[i], !.input[i] = None, !.next = 1 - i,
                     !.go = FALSE] \in FirmwareState
<1> DEFINE F1 == [F EXCEPT !.output = F.input[i]]
           F2 == [F1 EXCEPT !.input[i] = None]
           F3 == [F2 EXCEPT !.next = 1 - i]
           F4 == [F3 EXCEPT !.go = FALSE]
<1>1. F1 \in FirmwareState
  BY DEF FirmwareState
<1> HIDE DEF F1
<1>2. F2 \in FirmwareState
  BY <1>1 DEF FirmwareState
<1> HIDE DEF F2
<1>3. F3 \in FirmwareState
  BY <1>2 DEF FirmwareState
<1> HIDE DEF F3
<1>4. F4 \in FirmwareState
  BY <1>3 DEF FirmwareState
<1> QED BY <1>4 DEF F1, F2, F3, F4
-----------------------------------------------------------------------------
(***************************************************************************)
(* Type correctness.                                                       *)
(***************************************************************************)
LEMMA TypeInit == Init => TypeOK
BY NoCallType, FirmwareType, FreshType
   DEF Init, TypeOK, Types, Handles, FreedGraph, PC, UsesGraph, Sleeping,
       HoldsMm, HoldsDmm

\* What a well typed state says of the call of t.
LEMMA CallFacts ==
    ASSUME TypeOK, NEW t \in Thread
    PROVE  /\ call[t] \in CallState
           /\ pc[t] \in UsesGraph \cup Sleeping =>
                call[t].g \in Graph /\ graph[call[t].g] \in GraphState
           /\ pc[t] \in HoldsMm \cup HoldsDmm =>
                call[t].d \in Device /\ fw[call[t].d] \in FirmwareState
BY DEF TypeOK, Types, Handles

LEMMA FoundGraph ==
    ASSUME TypeOK, NEW g, FindGraph(g)
    PROVE  /\ g \in Graph
           /\ graph[g].dev \in devices
           /\ graph[g].dev \in Device
           /\ g \in graphs[graph[g].dev]
BY DEF TypeOK, Types, Handles, FindGraph

LEMMA GotoType ==
    ASSUME TypeOK, NEW t \in Thread, NEW label \in PC, Goto(t, label)
    PROVE  pc' \in [Thread -> PC]
BY DEF TypeOK, Types, Goto

LEMMA SetCallType ==
    ASSUME TypeOK, NEW t \in Thread, NEW c \in CallState, SetCall(t, c)
    PROVE  call' \in [Thread -> CallState]
BY DEF TypeOK, Types, SetCall

LEMMA SetGraphType ==
    ASSUME TypeOK, NEW g \in Graph, NEW G \in GraphState, SetGraph(g, G)
    PROVE  graph' \in [Graph -> GraphState]
BY DEF TypeOK, Types, SetGraph

LEMMA SetFwType ==
    ASSUME TypeOK, NEW d \in Device, NEW F \in FirmwareState, SetFw(d, F)
    PROVE  fw' \in [Device -> FirmwareState]
BY DEF TypeOK, Types, SetFw

LEMMA EnterType ==
    ASSUME TypeOK, NEW t \in Thread, NEW g \in Graph \cup {None},
           NEW d \in Device \cup {None}, NEW x \in Tag \cup {None},
           NEW label \in PC, Enter(t, g, d, x, label)
    PROVE  /\ mm' \in Thread \cup {None}
           /\ pc' \in [Thread -> PC]
           /\ call' \in [Thread -> CallState]
           /\ gone' \subseteq Thread
BY CallArguments, GotoType, SetCallType DEF TypeOK, Types, Enter

LEMMA AnswerType ==
    ASSUME TypeOK, NEW t \in Thread, NEW s \in Status, Answer(t, s)
    PROVE  call' \in [Thread -> CallState] /\ gone' \subseteq Thread
BY CallReturns, SetCallType DEF TypeOK, Types, Answer

LEMMA RefuseType ==
    ASSUME TypeOK, NEW t \in Thread, NEW s \in Status, Refuse(t, s)
    PROVE  Types'
BY AnswerType DEF TypeOK, Types, Refuse

LEMMA ReturnType ==
    ASSUME TypeOK, NEW t \in Thread, NEW s \in Status,
           Return(t, s) \/ ReturnResult(t, s)
    PROVE  call' \in [Thread -> CallState] /\ pc' \in [Thread -> PC]
<1>1. "idle" \in PC
  BY DEF PC
<1>2. CASE Return(t, s)
  BY <1>1, <1>2, CallReturns, GotoType, SetCallType DEF Return
<1>3. CASE ReturnResult(t, s)
  <2>1. call[t].output \in Tag \cup {None} /\ call[t].userParam \in Tag \cup {None}
    BY CallFacts DEF CallState
  <2>2. [NoCall EXCEPT !.rc = s, !.output = call[t].output,
                       !.userParam = call[t].userParam] \in CallState
    BY <2>1, CallResults
  <2> QED BY <1>1, <1>3, <2>2, GotoType, SetCallType DEF ReturnResult
<1> QED BY <1>2, <1>3

LEMMA FreeGraphsType ==
    ASSUME TypeOK, NEW d \in Device, NEW S, FreeGraphs(d, S)
    PROVE  /\ graphs' \in [Device -> SUBSET Graph]
           /\ graph' \in [Graph -> GraphState]
           /\ thermal' \in [Device -> Graph \cup {None}]
           /\ gone' \subseteq Thread
BY FreshType DEF TypeOK, Types, FreeGraphs, FreedGraph

LEMMA LockDmmType ==
    ASSUME TypeOK, NEW t \in Thread, LockDmm(t) \/ ReleaseDmm(t)
    PROVE  dmm' \in [Device -> Thread \cup {None}]
BY DEF TypeOK, Types, LockDmm, ReleaseDmm

LEMMA TakeUserParamType ==
    ASSUME TypeOK, NEW t \in Thread, TakeUserParam(t), pc[t] \in UsesGraph
    PROVE  call' \in [Thread -> CallState] /\ graph' \in [Graph -> GraphState]
<1> DEFINE g == call[t].g
           G == graph[g]
<1>1. g \in Graph /\ G \in GraphState /\ call[t] \in CallState
  BY CallFacts
<1>2. G.user_param[G.output_idx] \in Tag \cup {None} /\ G.have_data \in Int
  BY <1>1 DEF GraphState
<1>3. [call[t] EXCEPT !.userParam = G.user_param[G.output_idx],
                      !.hd = G.have_data] \in CallState
  BY <1>1, <1>2, CallReads
<1>4. [G EXCEPT !.output_idx = 1 - @] \in GraphState
  BY <1>1, GraphIndexes
<1> QED BY <1>1, <1>3, <1>4, SetCallType, SetGraphType DEF TakeUserParam

LEMMA BeginTypes ==
    ASSUME TypeOK, NEW t \in Thread, Begin(t)
    PROVE  Types'
<1> USE EnterType, RefuseType, AnswerType, FoundGraph
<1>l. /\ {"cd_dmm", "ag_usb", "dg_dmm", "so_dmm", "go_dmm", "lt_check",
          "lt_opt", "gr_check"} \subseteq PC
      /\ {"OK", "ERROR", "BUSY", "INVALID_PARAMETERS"} \subseteq Status
  BY DEF PC, HoldsMm, Status
<1>1. ASSUME NEW d \in Device, OpenDevice(t, d) PROVE Types'
  BY <1>l, <1>1 DEF TypeOK, Types, OpenDevice
<1>2. ASSUME NEW d \in Device, CloseDevice(t, d) PROVE Types'
  BY <1>l, <1>2 DEF TypeOK, Types, CloseDevice
<1>3. ASSUME NEW d \in Device, AllocateGraph(t, d) PROVE Types'
  BY <1>l, <1>3 DEF TypeOK, Types, AllocateGraph
<1>4. CASE OpenDeviceFails(t)
  BY <1>l, <1>4 DEF OpenDeviceFails
<1>5. ASSUME NEW g \in Graph, DeallocateGraph(t, g) PROVE Types'
  BY <1>l, <1>5 DEF TypeOK, Types, DeallocateGraph
<1>6. ASSUME NEW g \in Graph, SetGraphOption(t, g) PROVE Types'
  BY <1>l, <1>6 DEF TypeOK, Types, SetGraphOption
<1>7. ASSUME NEW d \in Device, GetDeviceOption(t, d) PROVE Types'
  BY <1>l, <1>7 DEF TypeOK, Types, GetDeviceOption
<1>8. ASSUME NEW g \in Graph, NEW x \in Tag, LoadTensor(t, g, x) PROVE Types'
  BY <1>l, <1>8 DEF TypeOK, Types, LoadTensor
<1>9. ASSUME NEW g \in Graph, GetResult(t, g) PROVE Types'
  BY <1>l, <1>9 DEF TypeOK, Types, GetResult
<1> HIDE EnterType, RefuseType, AnswerType, FoundGraph
<1> QED BY <1>1, <1>2, <1>3, <1>4, <1>5, <1>6, <1>7, <1>8, <1>9 DEF Begin

LEMMA ContinueTypes ==
    ASSUME TypeOK, NEW t \in Thread, Continue(t)
    PROVE  Types'
<1> DEFINE g == call[t].g
           d == call[t].d
           G == graph[g]
           F == fw[d]
<1>l. /\ {"so_set", "go_list", "lt_check", "lt_dmm", "lt_sleep", "lt_put",
          "lt_xfer", "lt_store", "gr_dmm", "gr_sleep", "gr_out", "gr_retry",
          "gr_aux", "gr_store", "gr_late_store"} \subseteq PC
      /\ {"OK", "ERROR", "OUT_OF_MEMORY", "BUSY", "NO_DATA", "MYRIAD_ERROR",
          "TIMEOUT", "INVALID_PARAMETERS"} \subseteq Status
  BY DEF PC, HoldsMm, HoldsDmm, Sleeping, Status
<1>c. call[t] \in CallState
  BY CallFacts
<1>g. ASSUME pc[t] \in {"so_set", "lt_opt", "lt_put", "lt_xfer", "lt_store",
                        "gr_out", "gr_aux", "gr_store", "gr_late",
                        "gr_late_store"}
      PROVE  g \in Graph /\ G \in GraphState /\ pc[t] \in UsesGraph
  BY <1>g, CallFacts DEF UsesGraph
<1>d. ASSUME pc[t] \in HoldsMm \cup HoldsDmm
      PROVE  d \in Device /\ F \in FirmwareState
  BY <1>d, CallFacts
<1> USE <1>l, ReturnType, GotoType DEF ReleaseMm
<1>1. CASE CloseFree(t)
  BY <1>1, <1>d, FreeGraphsType, SetFwType, FirmwareType
     DEF TypeOK, Types, CloseFree, HoldsMm
<1>2. ASSUME NEW h \in Graph, AllocateFinish(t, h) PROVE Types'
  BY <1>2, <1>d, SetGraphType, FreshType, SetFwType, FirmwareType
     DEF TypeOK, Types, AllocateFinish, HoldsMm
<1>3. CASE AllocateFails(t)
  BY <1>3 DEF TypeOK, Types, AllocateFails
<1>4. CASE DeallocateFree(t)
  BY <1>4, <1>d, FreeGraphsType DEF TypeOK, Types, DeallocateFree, HoldsMm
<1>5. CASE OptionLock(t)
  BY <1>5, LockDmmType DEF TypeOK, Types, OptionLock
<1>6. ASSUME NEW v \in BOOLEAN, SetDontBlock(t, v) PROVE Types'
  <2>1. [G EXCEPT !.dont_block = v] \in GraphState
    BY <1>6, <1>g, GraphFields DEF SetDontBlock
  <2> QED BY <1>6, <1>g, <2>1, SetGraphType, LockDmmType DEF TypeOK, Types, SetDontBlock
<1>7. CASE GetOptimisationList(t)
  BY <1>7, LockDmmType DEF TypeOK, Types, GetOptimisationList
<1>8. CASE LoadSendOptions(t)
  <2>1. [G EXCEPT !.started = TRUE] \in GraphState
    BY <1>8, <1>g, GraphFields DEF LoadSendOptions
  <2> QED BY <1>8, <1>g, <2>1, SetGraphType DEF TypeOK, Types, LoadSendOptions
<1>9. CASE LoadCheck(t)
  BY <1>9 DEF TypeOK, Types, LoadCheck
<1>10. CASE LoadLock(t)
  BY <1>10, LockDmmType DEF TypeOK, Types, LoadLock
<1>11. CASE LoadBegin(t)
  <2>1. [call[t] EXCEPT !.ready = HostReadyOnLoad(g)] \in CallState
    BY <1>c, CallFields DEF HostReadyOnLoad
  <2> QED BY <1>11, <2>1, SetCallType DEF TypeOK, Types, LoadBegin
<1>12. CASE LoadTransfer(t)
  <2>1. pc[t] = "lt_xfer" /\ pc[t] \in HoldsDmm
    BY <1>12 DEF LoadTransfer, HoldsDmm
  <2>2. /\ G.input_idx \in 0..1 /\ G.have_data \in Int
        /\ call[t].tag \in Tag \cup {None} /\ call[t].ready \in BOOLEAN
    BY <2>1, <1>g, <1>c DEF GraphState, CallState
  <2>3. [F EXCEPT !.input[G.input_idx] = call[t].tag,
                  !.go = @ \/ call[t].ready] \in FirmwareState
    BY <2>1, <2>2, <1>d, FirmwareFields
  <2>4. [call[t] EXCEPT !.hd = G.have_data] \in CallState
    BY <2>2, <1>c, CallFields
  <2> QED BY <1>12, <1>d, <2>1, <2>3, <2>4, SetFwType, SetCallType
          DEF TypeOK, Types, LoadTransfer
<1>13. CASE LoadTransferFails(t)
  BY <1>13 DEF TypeOK, Types, LoadTransferFails
<1>14. CASE LoadStore(t)
  <2>1. g \in Graph /\ G \in GraphState
    BY <1>14, <1>g DEF LoadStore
  <2>2. call[t].tag \in Tag \cup {None} /\ call[t].hd \in Int
    BY <1>c DEF CallState
  <2>3. [G EXCEPT !.user_param[G.input_idx] = call[t].tag,
                  !.input_idx = 1 - @,
                  !.have_data = call[t].hd + 1] \in GraphState
    BY <2>1, <2>2, GraphLoaded
  <2> QED BY <1>14, <2>1, <2>3, SetGraphType, LockDmmType DEF TypeOK, Types, LoadStore
<1>15. CASE GetCheck(t)
  BY <1>15 DEF TypeOK, Types, GetCheck
<1>16. CASE GetLock(t)
  BY <1>16, LockDmmType DEF TypeOK, Types, GetLock
<1>17. CASE GetOutput(t)
  <2>1. d \in Device /\ F \in FirmwareState
    BY <1>17, <1>d DEF GetOutput, HoldsDmm
  <2>2. F.output \in Tag \cup {None} /\ HostReadyOnGet(g) \in BOOLEAN
    BY <2>1 DEF FirmwareState, HostReadyOnGet
  <2>3. [call[t] EXCEPT !.output = F.output,
                        !.ready = HostReadyOnGet(g)] \in CallState
    BY <2>2, <1>c, CallReads
  <2>4. [F EXCEPT !.output = None] \in FirmwareState
    BY <2>1, FirmwareFields
  <2> QED BY <1>17, <2>1, <2>3, <2>4, SetFwType, SetCallType
          DEF TypeOK, Types, GetOutput
<1>18. CASE GetOutputFails(t)
  BY <1>18, LockDmmType DEF TypeOK, Types, GetOutputFails
<1>19. CASE GetAux(t)
  <2>1. d \in Device /\ F \in FirmwareState /\ pc[t] \in UsesGraph
    BY <1>19, <1>d, <1>g DEF GetAux, HoldsDmm
  <2>2. [F EXCEPT !.go = @ \/ call[t].ready] \in FirmwareState
    BY <2>1, <1>c, FirmwareFields DEF CallState
  <2> QED BY <1>19, <2>1, <2>2, SetFwType, TakeUserParamType DEF TypeOK, Types, GetAux
<1>20. CASE GetAuxFails(t)
  <2>1. /\ d \in Device /\ F \in FirmwareState
        /\ g \in Graph /\ G \in GraphState
    BY <1>20, <1>d, <1>g DEF GetAuxFails, HoldsDmm
  <2>2. [G EXCEPT !.failed = TRUE] \in GraphState
    BY <2>1, GraphFields
  <2>3. \A b \in BOOLEAN :
          [F EXCEPT !.go = @ \/ (b /\ call[t].ready)] \in FirmwareState
    BY <2>1, <1>c, FirmwareFields DEF CallState
  <2> QED BY <1>20, <2>1, <2>2, <2>3, SetGraphType, SetFwType, LockDmmType
          DEF TypeOK, Types, GetAuxFails
<1>21. CASE GetStore(t)
  <2>1. g \in Graph /\ G \in GraphState /\ call[t].hd \in Int
    BY <1>21, <1>g, <1>c DEF GetStore, CallState
  <2>2. call[t].hd - 1 \in Int
    BY <2>1
  <2>3. [G EXCEPT !.have_data = call[t].hd - 1] \in GraphState
    BY <2>1, <2>2, GraphFields
  <2>4. [G EXCEPT !.have_data = call[t].hd - 1, !.failed = TRUE] \in GraphState
    BY <2>1, GraphFailed
  <2> QED BY <1>21, <2>1, <2>3, <2>4, SetGraphType, LockDmmType
          DEF TypeOK, Types, GetStore
<1>22. CASE GetLate(t)
  BY <1>22, <1>g, TakeUserParamType DEF TypeOK, Types, GetLate
<1>23. CASE GetLateStore(t)
  <2>1. g \in Graph /\ G \in GraphState /\ call[t].hd \in Int
    BY <1>23, <1>g, <1>c DEF GetLateStore, CallState
  <2>2. [G EXCEPT !.have_data = call[t].hd - 1, !.failed = TRUE] \in GraphState
    BY <2>1, GraphFailed
  <2> QED BY <1>23, <2>1, <2>2, SetGraphType DEF TypeOK, Types, GetLateStore
<1> HIDE <1>l, ReturnType, GotoType
<1> QED
  BY <1>1, <1>2, <1>3, <1>4, <1>5, <1>6, <1>7, <1>8, <1>9, <1>10, <1>11,
     <1>12, <1>13, <1>14, <1>15, <1>16, <1>17, <1>18, <1>19, <1>20, <1>21,
     <1>22, <1>23 DEF Continue

LEMMA WakeTypes ==
    ASSUME TypeOK, NEW t \in Thread, Wake(t)
    PROVE  Types'
<1>l. /\ {"lt_check", "gr_check", "gr_dmm", "gr_late"} \subseteq PC
      /\ "GONE" \in Status
  BY DEF PC, HoldsMm, Status
<1>1. FindGraph(call[t].g) =>
        [call[t] EXCEPT !.d = graph[call[t].g].dev] \in CallState
  BY CallFacts, FoundGraph, CallFields
<1> USE <1>l, <1>1, ReturnType, GotoType, SetCallType
<1>2. CASE LoadWake(t)
  BY <1>2 DEF TypeOK, Types, LoadWake
<1>3. CASE GetWake(t)
  BY <1>3 DEF TypeOK, Types, GetWake
<1>4. CASE GetGiveUp(t)
  BY <1>4 DEF TypeOK, Types, GetGiveUp
<1> QED BY <1>2, <1>3, <1>4 DEF Wake

LEMMA FirmwareTypes ==
    ASSUME TypeOK, NEW d \in Device, FirmwareRun(d)
    PROVE  Types'
<1>1. fw[d] \in FirmwareState /\ fw[d].next \in 0..1
  BY DEF TypeOK, Types, FirmwareState
<1> QED BY <1>1, FirmwareRan, SetFwType DEF TypeOK, Types, FirmwareRun

\* What a call that starts, or is refused, changes of the calls.
LEMMA EnterEffect ==
    ASSUME TypeOK, NEW t \in Thread, NEW g, NEW d, NEW x, NEW label,
           Enter(t, g, d, x, label)
    PROVE  /\ pc' = [pc EXCEPT ![t] = label]
           /\ call'[t].g = g
           /\ call'[t].d = d
           /\ \A s \in Thread : s # t => call'[s] = call[s]
BY DEF Enter, Goto, SetCall, NoCall, TypeOK, Types

LEMMA AnswerEffect ==
    ASSUME TypeOK, NEW t \in Thread, NEW s, Answer(t, s)
    PROVE  \A r \in Thread : r # t => call'[r] = call[r]
BY DEF Answer, SetCall, TypeOK, Types

LEMMA BeginHandles ==
    ASSUME TypeOK, NEW t \in Thread, Begin(t)
    PROVE  Handles'
<1> USE EnterEffect, AnswerEffect
        DEF PC, HoldsMm, HoldsDmm, UsesGraph, Sleeping, TypeOK, Types, Handles,
            Refuse, CanEnter
<1>1. ASSUME NEW d \in Device, OpenDevice(t, d) PROVE Handles'
  BY <1>1, FoundGraph DEF OpenDevice
<1>2. ASSUME NEW d \in Device, CloseDevice(t, d) PROVE Handles'
  BY <1>2, FoundGraph DEF CloseDevice
<1>3. ASSUME NEW d \in Device, AllocateGraph(t, d) PROVE Handles'
  BY <1>3, FoundGraph DEF AllocateGraph
<1>4. CASE OpenDeviceFails(t)
  BY <1>4, FoundGraph DEF OpenDeviceFails
<1>5. ASSUME NEW g \in Graph, DeallocateGraph(t, g) PROVE Handles'
  BY <1>5, FoundGraph DEF DeallocateGraph
<1>6. ASSUME NEW g \in Graph, SetGraphOption(t, g) PROVE Handles'
  BY <1>6, FoundGraph DEF SetGraphOption
<1>7. ASSUME NEW d \in Device, GetDeviceOption(t, d) PROVE Handles'
  BY <1>7, FoundGraph DEF GetDeviceOption
<1>8. ASSUME NEW g \in Graph, NEW x \in Tag, LoadTensor(t, g, x) PROVE Handles'
  BY <1>8, FoundGraph DEF LoadTensor
<1>9. ASSUME NEW g \in Graph, GetResult(t, g) PROVE Handles'
  BY <1>9, FoundGraph DEF GetResult
<1> QED BY <1>1, <1>2, <1>3, <1>4, <1>5, <1>6, <1>7, <1>8, <1>9 DEF Begin

LEMMA ContinueHandles ==
    ASSUME TypeOK, NEW t \in Thread, Continue(t)
    PROVE  Handles'
<1> USE DEF PC, HoldsMm, HoldsDmm, UsesGraph, Sleeping, TypeOK, Types, Handles,
            CallState, GraphState, SetCall, SetGraph, Goto, Return, ReturnResult
<1>1. CASE CloseFree(t)
  BY <1>1 DEF CloseFree, FreeGraphs
<1>2. ASSUME NEW h \in Graph, AllocateFinish(t, h) PROVE Handles'
  BY <1>2 DEF AllocateFinish, Available, FreshGraph
<1>3. CASE AllocateFails(t)
  BY <1>3 DEF AllocateFails
<1>4. CASE DeallocateFree(t)
  BY <1>4 DEF DeallocateFree, FreeGraphs
<1>5. CASE OptionLock(t)
  BY <1>5 DEF OptionLock
<1>6. ASSUME NEW v \in BOOLEAN, SetDontBlock(t, v) PROVE Handles'
  BY <1>6 DEF SetDontBlock
<1>7. CASE GetOptimisationList(t)
  BY <1>7 DEF GetOptimisationList
<1>8. CASE LoadSendOptions(t)
  <2>1. \A x \in Graph : graph'[x].dev = graph[x].dev
    BY SMTT(20), <1>8 DEF LoadSendOptions
  <2>2. CASE Goto(t, "lt_check") /\ call' = call
    BY <1>8, <2>1, <2>2 DEF LoadSendOptions
  <2>3. CASE Return(t, "ERROR")
    BY <1>8, <2>1, <2>3 DEF LoadSendOptions
  <2> QED BY <1>8, <2>2, <2>3 DEF LoadSendOptions
<1>9. CASE LoadCheck(t)
  BY <1>9 DEF LoadCheck
<1>10. CASE LoadLock(t)
  BY <1>10 DEF LoadLock
<1>11. CASE LoadBegin(t)
  BY <1>11 DEF LoadBegin
<1>12. CASE LoadTransfer(t)
  BY <1>12 DEF LoadTransfer
<1>13. CASE LoadTransferFails(t)
  BY <1>13 DEF LoadTransferFails
<1>14. CASE LoadStore(t)
  BY <1>14 DEF LoadStore
<1>15. CASE GetCheck(t)
  BY <1>15 DEF GetCheck
<1>16. CASE GetLock(t)
  BY <1>16 DEF GetLock
<1>17. CASE GetOutput(t)
  BY <1>17 DEF GetOutput
<1>18. CASE GetOutputFails(t)
  BY <1>18 DEF GetOutputFails
<1>19. CASE GetAux(t)
  BY <1>19 DEF GetAux, TakeUserParam
<1>20. CASE GetAuxFails(t)
  BY <1>20 DEF GetAuxFails
<1>21. CASE GetStore(t)
  <2>1. \A x \in Graph : graph'[x].dev = graph[x].dev
    <3>1. \A n : [graph[call[t].g] EXCEPT !.have_data = n].dev = graph[call[t].g].dev
      BY <1>21 DEF GetStore
    <3>2. \A n : [graph[call[t].g] EXCEPT !.have_data = n, !.failed = TRUE].dev
                   = graph[call[t].g].dev
      BY <1>21 DEF GetStore
    <3>3. ASSUME NEW G, SetGraph(call[t].g, G), G.dev = graph[call[t].g].dev
          PROVE  \A x \in Graph : graph'[x].dev = graph[x].dev
      BY <3>3
    <3>4. \/ \E n : SetGraph(call[t].g, [graph[call[t].g] EXCEPT !.have_data = n])
          \/ \E n : SetGraph(call[t].g, [graph[call[t].g] EXCEPT !.have_data = n,
                                                               !.failed = TRUE])
      BY <1>21 DEF GetStore
    <3> QED BY <3>1, <3>2, <3>3, <3>4
  <2>2. pc' = [pc EXCEPT ![t] = "idle"] /\ graphs' = graphs
    BY <1>21 DEF GetStore
  <2>3. \A r \in Thread : r # t => call'[r] = call[r]
    BY <1>21 DEF GetStore
  <2> QED BY <2>1, <2>2, <2>3
<1>22. CASE GetLate(t)
  BY <1>22 DEF GetLate, TakeUserParam
<1>23. CASE GetLateStore(t)
  BY <1>23 DEF GetLateStore
<1> QED
  BY <1>1, <1>2, <1>3, <1>4, <1>5, <1>6, <1>7, <1>8, <1>9, <1>10, <1>11,
     <1>12, <1>13, <1>14, <1>15, <1>16, <1>17, <1>18, <1>19, <1>20, <1>21, <1>22, <1>23 DEF Continue

LEMMA WakeHandles ==
    ASSUME TypeOK, NEW t \in Thread, Wake(t)
    PROVE  Handles'
<1> USE FoundGraph
        DEF PC, HoldsMm, HoldsDmm, UsesGraph, Sleeping, TypeOK, Types, Handles,
            CallState, SetCall, Goto, Return
<1>1. CASE LoadWake(t)
  BY <1>1 DEF LoadWake
<1>2. CASE GetWake(t)
  BY SMTT(20), <1>2 DEF GetWake
<1>3. CASE GetGiveUp(t)
  BY <1>3 DEF GetGiveUp
<1> QED BY <1>1, <1>2, <1>3 DEF Wake

LEMMA TypeStep == TypeOK /\ [Next]_vars => TypeOK'
<1> SUFFICES ASSUME TypeOK, [Next]_vars PROVE TypeOK'
  OBVIOUS
<1>1. CASE UNCHANGED vars
  BY <1>1 DEF TypeOK, Types, Handles, vars
<1>2. ASSUME NEW t \in Thread, Begin(t) PROVE TypeOK'
  BY <1>2, BeginTypes, BeginHandles DEF TypeOK
<1>3. ASSUME NEW t \in Thread, Continue(t) PROVE TypeOK'
  BY <1>3, ContinueTypes, ContinueHandles DEF TypeOK
<1>4. ASSUME NEW t \in Thread, Wake(t) PROVE TypeOK'
  BY <1>4, WakeTypes, WakeHandles DEF TypeOK
<1>5. ASSUME NEW d \in Device, FirmwareRun(d) PROVE TypeOK'
  BY <1>5, FirmwareTypes DEF FirmwareRun, TypeOK, Handles
<1> QED BY <1>1, <1>2, <1>3, <1>4, <1>5 DEF Next

\* Every variable keeps its type, and every call that has found its handle has
\* one, whatever fails and however many threads call.
THEOREM TypeCorrect == Spec => []TypeOK
<1>1. Init => TypeOK
  BY TypeInit
<1>2. TypeOK /\ [Next]_vars => TypeOK'
  BY TypeStep
<1> QED BY <1>1, <1>2, PTL DEF Spec
-----------------------------------------------------------------------------
(***************************************************************************)
(* Locks and memory.  The inductive invariant ties every mutex to the pc   *)
(* of its holder, and adds to NoUseAfterFree and ThermalPointsToGraph what *)
(* the list of devices says: a device that is being closed is out of it,   *)
(* and nothing but CloseDevice frees a device.                             *)
(***************************************************************************)
Registry ==
    /\ devices \subseteq live
    /\ \A d \in Device : d \notin live => graphs[d] = {}
    /\ \A t \in Thread :
         /\ pc[t] = "ag_usb" => call[t].d \in devices /\ graphs[call[t].d] = {}
         /\ pc[t] = "cd_dmm" => call[t].d \notin devices

Inv == LockDiscipline /\ NoUseAfterFree /\ ThermalPointsToGraph /\ Registry

LEMMA InvInit == Init => Inv
BY NoneAssumption DEF Init, Inv, LockDiscipline, NoUseAfterFree, Registry,
   ThermalPointsToGraph, HoldsMm, HoldsDmm, UsesGraph

\* A call that takes mm after it has found device d, and graph g on it.
LEMMA EnterInv ==
    ASSUME TypeOK, Inv, NEW t \in Thread, NEW g, NEW d \in devices, NEW x,
           NEW label \in HoldsMm, label # "cd_dmm",
           CanEnter(t), Enter(t, g, d, x, label),
           label \in UsesGraph => g \in graphs[d],
           label = "ag_usb" => graphs[d] = {},
           UNCHANGED <<dmm, devices, live, graphs, thermal>>
    PROVE  Inv'
<1> USE EnterEffect, NoneAssumption DEF TypeOK, Types, CanEnter, Inv
<1>1. mm' = t /\ mm = None /\ pc[t] = "idle"
  BY DEF Enter
<1>2. label \notin HoldsDmm /\ "idle" \notin HoldsMm \cup HoldsDmm
  BY DEF HoldsMm, HoldsDmm
<1>3. LockDiscipline'
  BY <1>1, <1>2 DEF LockDiscipline
<1>4. NoUseAfterFree'
  BY <1>1, <1>2 DEF NoUseAfterFree, Registry
<1>5. ThermalPointsToGraph'
  BY DEF ThermalPointsToGraph
<1>6. Registry'
  BY <1>1 DEF Registry
<1> QED BY <1>3, <1>4, <1>5, <1>6

LEMMA RefuseInv ==
    ASSUME TypeOK, Inv, NEW t \in Thread, NEW s, CanEnter(t), Refuse(t, s)
    PROVE  Inv'
BY AnswerEffect
   DEF TypeOK, Types, CanEnter, Refuse, Inv, LockDiscipline, NoUseAfterFree,
       ThermalPointsToGraph, Registry, HoldsMm, HoldsDmm, UsesGraph

LEMMA BeginInv ==
    ASSUME TypeOK, Inv, NEW t \in Thread, Begin(t)
    PROVE  Inv'
<1>l. {"ag_usb", "dg_dmm", "so_dmm", "go_dmm", "lt_check", "lt_opt", "gr_check"}
        \subseteq HoldsMm
  BY DEF HoldsMm
<1>n. {"ag_usb", "go_dmm"} \cap UsesGraph = {}
  BY DEF UsesGraph
<1>1. ASSUME NEW d \in Device, OpenDevice(t, d) PROVE Inv'
  BY <1>1, AnswerEffect, NoneAssumption
     DEF OpenDevice, CanEnter, TypeOK, Types, Inv, LockDiscipline,
         NoUseAfterFree, ThermalPointsToGraph, Registry, HoldsMm, HoldsDmm,
         UsesGraph
<1>2. ASSUME NEW d \in Device, CloseDevice(t, d) PROVE Inv'
  <2>1. CASE d \notin devices
    BY <1>2, <2>1, RefuseInv DEF CloseDevice
  <2>2. CASE d \in devices
    <3> USE EnterEffect, NoneAssumption DEF TypeOK, Types, CanEnter, Inv
    <3>1. /\ Enter(t, None, d, None, "cd_dmm") /\ devices' = devices \ {d}
          /\ UNCHANGED <<dmm, live, graphs, thermal>> /\ CanEnter(t)
      BY <1>2, <2>2 DEF CloseDevice
    <3>2. mm' = t /\ mm = None /\ pc[t] = "idle"
      BY <3>1 DEF Enter
    <3>3. LockDiscipline'
      BY <3>1, <3>2 DEF LockDiscipline, HoldsMm, HoldsDmm
    <3>4. NoUseAfterFree'
      BY <2>2, <3>1, <3>2 DEF NoUseAfterFree, Registry, HoldsMm, HoldsDmm, UsesGraph
    <3>5. ThermalPointsToGraph'
      BY <3>1 DEF ThermalPointsToGraph
    <3>6. Registry'
      BY <3>1, <3>2 DEF Registry, LockDiscipline, HoldsMm
    <3> QED BY <3>3, <3>4, <3>5, <3>6
  <2> QED BY <2>1, <2>2
<1> USE <1>l, <1>n, EnterInv, RefuseInv, FoundGraph
<1>3. ASSUME NEW d \in Device, AllocateGraph(t, d) PROVE Inv'
  BY <1>3 DEF AllocateGraph
<1>4. CASE OpenDeviceFails(t)
  BY <1>4 DEF OpenDeviceFails
<1>5. ASSUME NEW g \in Graph, DeallocateGraph(t, g) PROVE Inv'
  BY <1>5 DEF DeallocateGraph
<1>6. ASSUME NEW g \in Graph, SetGraphOption(t, g) PROVE Inv'
  BY <1>6 DEF SetGraphOption
<1>7. ASSUME NEW d \in Device, GetDeviceOption(t, d) PROVE Inv'
  BY <1>7 DEF GetDeviceOption
<1>8. ASSUME NEW g \in Graph, NEW x \in Tag, LoadTensor(t, g, x) PROVE Inv'
  BY <1>8 DEF LoadTensor
<1>9. ASSUME NEW g \in Graph, GetResult(t, g) PROVE Inv'
  BY <1>9 DEF GetResult
<1> HIDE <1>l, <1>n, EnterInv, RefuseInv, FoundGraph
<1> QED BY <1>1, <1>2, <1>3, <1>4, <1>5, <1>6, <1>7, <1>8, <1>9 DEF Begin

LEMMA FreeThermal ==
    ASSUME TypeOK, ThermalPointsToGraph, NEW d \in Device, NEW S,
           graphs[d] \subseteq S, FreeGraphs(d, S)
    PROVE  ThermalPointsToGraph'
<1>1. graphs' = [graphs EXCEPT ![d] = {}]
  BY DEF FreeGraphs, TypeOK, Types
<1>2. thermal' = [thermal EXCEPT ![d] = None]
  <2>1. CASE graphs[d] = {}
    BY <2>1 DEF FreeGraphs, ThermalPointsToGraph, TypeOK, Types
  <2>2. CASE graphs[d] # {}
    BY <2>2 DEF FreeGraphs
  <2> QED BY <2>1, <2>2
<1> QED BY <1>1, <1>2 DEF ThermalPointsToGraph, TypeOK, Types

LEMMA CloseThermal ==
    ASSUME TypeOK, Inv, NEW t \in Thread, CloseFree(t)
    PROVE  ThermalPointsToGraph'
<1>1. call[t].d \in Device
  BY DEF TypeOK, Handles, CloseFree, HoldsMm
<1> QED BY <1>1, FreeThermal DEF CloseFree, Inv

LEMMA DeallocateThermal ==
    ASSUME TypeOK, Inv, NEW t \in Thread, DeallocateFree(t)
    PROVE  ThermalPointsToGraph'
<1>1. call[t].d \in Device /\ call[t].g \in graphs[call[t].d]
  BY DEF TypeOK, Handles, DeallocateFree, HoldsMm, UsesGraph, Inv, NoUseAfterFree
<1>2. graphs[call[t].d] \subseteq {call[t].g}
  <2>1. graphs[call[t].d] = {} \/ graphs[call[t].d] = {thermal[call[t].d]}
    BY <1>1 DEF Inv, ThermalPointsToGraph
  <2> QED BY <1>1, <2>1
<1> QED BY <1>1, <1>2, FreeThermal DEF DeallocateFree, Inv

LEMMA AllocateThermal ==
    ASSUME TypeOK, Inv, NEW t \in Thread, NEW h \in Graph, AllocateFinish(t, h)
    PROVE  ThermalPointsToGraph'
<1>1. /\ graphs' = [graphs EXCEPT ![call[t].d] = @ \cup {h}]
      /\ thermal' = [thermal EXCEPT ![call[t].d] = h]
      /\ \A e \in Device : h \notin graphs[e]
  BY DEF AllocateFinish, Available
<1>2. call[t].d \in Device /\ graphs[call[t].d] = {} /\ h # None
  BY NoneAssumption
     DEF AllocateFinish, TypeOK, Handles, HoldsMm, Inv, Registry
<1>3. graphs' = [graphs EXCEPT ![call[t].d] = {h}]
  BY <1>1, <1>2
<1>4. graphs \in [Device -> SUBSET Graph] /\ thermal \in [Device -> Graph \cup {None}]
  BY DEF TypeOK, Types
<1> QED BY SMTT(20), <1>1, <1>2, <1>3, <1>4 DEF Inv, ThermalPointsToGraph

LEMMA ContinueInv ==
    ASSUME TypeOK, Inv, "input" \notin Faults, NEW t \in Thread, Continue(t)
    PROVE  Inv'
<1> USE NoneAssumption
        DEF PC, HoldsMm, HoldsDmm, UsesGraph, Sleeping, TypeOK, Types, Handles,
            CallState, SetCall, Goto, Return, ReturnResult, ReleaseMm, LockDmm,
            ReleaseDmm,
            Inv, LockDiscipline, NoUseAfterFree, ThermalPointsToGraph, Registry
<1>1. CASE CloseFree(t)
  <2>1. LockDiscipline'
    BY <1>1 DEF CloseFree, FreeGraphs
  <2>2. NoUseAfterFree'
    BY <1>1 DEF CloseFree, FreeGraphs
  <2>3. ThermalPointsToGraph'
    BY <1>1, CloseThermal
  <2>4. Registry'
    BY <1>1 DEF CloseFree, FreeGraphs
  <2> QED BY <2>1, <2>2, <2>3, <2>4
<1>2. ASSUME NEW h \in Graph, AllocateFinish(t, h) PROVE Inv'
  <2>1. LockDiscipline'
    BY <1>2 DEF AllocateFinish, Available, FreshGraph
  <2>2. NoUseAfterFree'
    BY <1>2 DEF AllocateFinish, Available, FreshGraph
  <2>3. ThermalPointsToGraph'
    BY <1>2, AllocateThermal
  <2>4. Registry'
    BY <1>2 DEF AllocateFinish, Available, FreshGraph
  <2> QED BY <2>1, <2>2, <2>3, <2>4
<1>3. CASE AllocateFails(t)
  <2>1. LockDiscipline'
    BY <1>3 DEF AllocateFails
  <2>2. NoUseAfterFree'
    BY <1>3 DEF AllocateFails
  <2>3. ThermalPointsToGraph'
    BY <1>3 DEF AllocateFails
  <2>4. Registry'
    BY SMTT(20), <1>3 DEF AllocateFails
  <2> QED BY <2>1, <2>2, <2>3, <2>4
<1>4. CASE DeallocateFree(t)
  <2>1. LockDiscipline'
    BY <1>4 DEF DeallocateFree, FreeGraphs
  <2>2. NoUseAfterFree'
    BY <1>4 DEF DeallocateFree, FreeGraphs
  <2>3. ThermalPointsToGraph'
    BY <1>4, DeallocateThermal
  <2>4. Registry'
    BY <1>4 DEF DeallocateFree, FreeGraphs
  <2> QED BY <2>1, <2>2, <2>3, <2>4
<1>5. CASE OptionLock(t)
  <2>1. LockDiscipline'
    <3>1. CASE pc[t] = "so_dmm"
      BY <1>5, <3>1 DEF OptionLock
    <3>2. CASE pc[t] = "go_dmm"
      BY <1>5, <3>2 DEF OptionLock
    <3> QED BY <1>5, <3>1, <3>2 DEF OptionLock
  <2>2. NoUseAfterFree'
    BY <1>5 DEF OptionLock
  <2>3. ThermalPointsToGraph'
    BY <1>5 DEF OptionLock
  <2>4. Registry'
    BY <1>5 DEF OptionLock
  <2> QED BY <2>1, <2>2, <2>3, <2>4
<1>6. ASSUME NEW v \in BOOLEAN, SetDontBlock(t, v) PROVE Inv'
  BY <1>6 DEF SetDontBlock
<1>7. CASE GetOptimisationList(t)
  <2>1. LockDiscipline'
    <3>1. /\ pc' = [pc EXCEPT ![t] = "idle"] /\ pc[t] = "go_list"
          /\ mm' = mm /\ dmm' = [dmm EXCEPT ![call[t].d] = None]
      BY <1>7 DEF GetOptimisationList
    <3>2. \A r \in Thread : r # t => call'[r] = call[r]
      BY <1>7 DEF GetOptimisationList
    <3> QED BY <3>1, <3>2
  <2>2. NoUseAfterFree'
    BY <1>7 DEF GetOptimisationList
  <2>3. ThermalPointsToGraph'
    BY <1>7 DEF GetOptimisationList
  <2>4. Registry'
    BY <1>7 DEF GetOptimisationList
  <2> QED BY <2>1, <2>2, <2>3, <2>4
<1>8. CASE LoadSendOptions(t)
  <2>1. CASE Goto(t, "lt_check")
    BY <1>8, <2>1 DEF LoadSendOptions
  <2>2. CASE Return(t, "ERROR")
    BY <1>8, <2>2 DEF LoadSendOptions
  <2> QED BY <1>8, <2>1, <2>2 DEF LoadSendOptions
<1>9. CASE LoadCheck(t)
  BY <1>9 DEF LoadCheck
<1>10. CASE LoadLock(t)
  BY <1>10 DEF LoadLock
<1>11. CASE LoadBegin(t)
  BY <1>11 DEF LoadBegin
<1>12. CASE LoadTransfer(t)
  BY <1>12 DEF LoadTransfer
<1>13. CASE LoadTransferFails(t)
  BY <1>13 DEF LoadTransferFails
<1>14. CASE LoadStore(t)
  BY <1>14 DEF LoadStore
<1>15. CASE GetCheck(t)
  BY <1>15 DEF GetCheck
<1>16. CASE GetLock(t)
  BY <1>16 DEF GetLock
<1>17. CASE GetOutput(t)
  BY <1>17 DEF GetOutput
<1>18. CASE GetOutputFails(t)
  BY <1>18 DEF GetOutputFails
<1>19. CASE GetAux(t)
  <2>1. LockDiscipline'
    BY <1>19 DEF GetAux, TakeUserParam
  <2>2. NoUseAfterFree'
    BY <1>19 DEF GetAux, TakeUserParam
  <2>3. ThermalPointsToGraph'
    BY <1>19 DEF GetAux, TakeUserParam
  <2>4. Registry'
    BY <1>19 DEF GetAux, TakeUserParam
  <2> QED BY <2>1, <2>2, <2>3, <2>4
<1>20. CASE GetAuxFails(t)
  BY <1>20 DEF GetAuxFails
<1>21. CASE GetStore(t)
  <2>1. CASE ReturnResult(t, "OK")
    BY <1>21, <2>1 DEF GetStore
  <2>2. CASE ReturnResult(t, "MYRIAD_ERROR")
    BY <1>21, <2>2 DEF GetStore
  <2> QED BY <1>21, <2>1, <2>2 DEF GetStore
<1>22. CASE GetLate(t)
  BY <1>22 DEF GetLate, TakeUserParam
<1>23. CASE GetLateStore(t)
  BY <1>23 DEF GetLateStore
<1> HIDE DEF PC, HoldsMm, HoldsDmm, UsesGraph, Sleeping, TypeOK, Types, Handles,
         CallState, SetCall, Goto, Return, ReturnResult, ReleaseMm, LockDmm,
         ReleaseDmm,
         Inv, LockDiscipline, NoUseAfterFree, ThermalPointsToGraph, Registry
<1> QED
  BY <1>1, <1>2, <1>3, <1>4, <1>5, <1>6, <1>7, <1>8, <1>9, <1>10, <1>11,
     <1>12, <1>13, <1>14, <1>15, <1>16, <1>17, <1>18, <1>19, <1>20, <1>21, <1>22, <1>23 DEF Continue

\* A sleeper that finds its graph again takes mm and goes on; the device it
\* goes on with is the one the graph is on now.
LEMMA ResumeInv ==
    ASSUME TypeOK, Inv, NEW t \in Thread, NEW label \in HoldsMm,
           label \notin {"cd_dmm", "ag_usb"},
           pc[t] \in Sleeping, mm = None, mm' = t, FindGraph(call[t].g),
           Goto(t, label), SetCall(t, [call[t] EXCEPT !.d = graph[call[t].g].dev]),
           UNCHANGED <<dmm, devices, live, graphs, thermal>>
    PROVE  Inv'
<1> USE NoneAssumption DEF TypeOK, Types, Inv, Goto
<1>1. pc[t] \notin HoldsMm \cup HoldsDmm /\ label \notin HoldsDmm
  BY DEF HoldsMm, HoldsDmm, Sleeping
<1>2. /\ call'[t].d = graph[call[t].g].dev /\ call'[t].g = call[t].g
      /\ \A r \in Thread : r # t => call'[r] = call[r]
  BY DEF SetCall, CallState
<1>3. call'[t].d \in devices /\ call'[t].g \in graphs[call'[t].d]
  BY <1>2, FoundGraph
<1>4. LockDiscipline'
  BY <1>1, <1>2 DEF LockDiscipline
<1>5. NoUseAfterFree'
  BY <1>2, <1>3 DEF NoUseAfterFree, Registry
<1>6. ThermalPointsToGraph'
  BY DEF ThermalPointsToGraph
<1>7. Registry'
  BY <1>2 DEF Registry
<1> QED BY <1>4, <1>5, <1>6, <1>7

LEMMA GoneInv ==
    ASSUME TypeOK, Inv, NEW t \in Thread, NEW s, pc[t] \in Sleeping, mm = None,
           mm' = mm, Return(t, s),
           UNCHANGED <<dmm, devices, live, graphs, thermal>>
    PROVE  Inv'
BY DEF TypeOK, Types, Return, SetCall, Goto, Sleeping, Inv, LockDiscipline,
       NoUseAfterFree, ThermalPointsToGraph, Registry, HoldsMm, HoldsDmm, UsesGraph

LEMMA WakeInv ==
    ASSUME TypeOK, Inv, NEW t \in Thread, Wake(t)
    PROVE  Inv'
<1>l. {"lt_check", "gr_check", "gr_dmm", "gr_late"}
        \subseteq HoldsMm \ {"cd_dmm", "ag_usb"}
  BY DEF HoldsMm
<1>s. pc[t] \in {"lt_sleep", "gr_sleep", "gr_retry"} => pc[t] \in Sleeping
  BY DEF Sleeping
<1>1. CASE LoadWake(t)
  BY <1>1, <1>l, <1>s, ResumeInv, GoneInv DEF LoadWake
<1>2. CASE GetWake(t)
  BY <1>2, <1>l, <1>s, ResumeInv, GoneInv DEF GetWake
<1>3. CASE GetGiveUp(t)
  BY <1>3, <1>l, <1>s, ResumeInv DEF GetGiveUp
<1> QED BY <1>1, <1>2, <1>3 DEF Wake

LEMMA InvStep ==
    ASSUME "input" \notin Faults
    PROVE  TypeOK /\ Inv /\ [Next]_vars => Inv'
<1> SUFFICES ASSUME TypeOK, Inv, [Next]_vars PROVE Inv'
  OBVIOUS
<1>1. CASE UNCHANGED vars
  BY <1>1 DEF Inv, LockDiscipline, NoUseAfterFree, ThermalPointsToGraph,
              Registry, vars
<1>2. ASSUME NEW d \in Device, FirmwareRun(d) PROVE Inv'
  BY <1>2 DEF FirmwareRun, Inv, LockDiscipline, NoUseAfterFree,
              ThermalPointsToGraph, Registry
<1> QED BY <1>1, <1>2, BeginInv, ContinueInv, WakeInv DEF Next

\* When no transfer of an input tensor fails, the inductive invariant holds.
THEOREM InvHolds ==
    ASSUME "input" \notin Faults
    PROVE  Spec => [](TypeOK /\ Inv)
<1>1. Init => TypeOK /\ Inv
  BY TypeInit, InvInit
<1>2. TypeOK /\ Inv /\ [Next]_vars => (TypeOK /\ Inv)'
  BY TypeStep, InvStep
<1> QED BY <1>1, <1>2, PTL DEF Spec

\* No call returns or sleeps with a mutex held, and every mutex is held by the
\* thread that is in the code under it.
THEOREM LocksAreDisciplined ==
    ASSUME "input" \notin Faults
    PROVE  Spec => []LockDiscipline
BY InvHolds, PTL DEF Inv

\* CloseDevice and DeallocateGraph never free what another call is using.
THEOREM MemoryIsSafe ==
    ASSUME "input" \notin Faults
    PROVE  Spec => []NoUseAfterFree
BY InvHolds, PTL DEF Inv

\* At most one graph per device, and thermal_stats points into that graph.
THEOREM ThermalIsSafe ==
    ASSUME "input" \notin Faults
    PROVE  Spec => []ThermalPointsToGraph
BY InvHolds, PTL DEF Inv
-----------------------------------------------------------------------------
(***************************************************************************)
(* What the calls that sleep rely on when malloc returns no address twice. *)
(***************************************************************************)
\* t makes a step; the others stay where they are.
Alone(t) == \A u \in Thread \ {t} : pc'[u] = pc[u] /\ call'[u] = call[u]

\* A thread whose graph was freed while it slept has said so, or will when it
\* wakes up: the address is not that of a graph, and will not become one.
WillSay(t) ==
    \/ pc[t] = "idle" /\ call[t].rc = "GONE"
    \/ /\ pc[t] \in Sleeping
       /\ call[t].g \in used
       /\ \A d \in Device : call[t].g \notin graphs[d]

Lost ==
    /\ \A d \in Device : graphs[d] \subseteq used
    /\ \A t \in gone : WillSay(t)

LEMMA GotoAlone ==
    ASSUME TypeOK, NEW t \in Thread, NEW label, Goto(t, label),
           call' = call \/ \E c : SetCall(t, c)
    PROVE  pc'[t] = label /\ Alone(t)
BY DEF Goto, SetCall, Alone, TypeOK, Types

LEMMA ReturnAlone ==
    ASSUME TypeOK, NEW t \in Thread, NEW s, Return(t, s) \/ ReturnResult(t, s)
    PROVE  pc'[t] = "idle" /\ call'[t].rc = s /\ Alone(t)
<1>1. Alone(t) /\ pc'[t] = "idle"
  BY GotoAlone DEF Return, ReturnResult
<1>2. call'[t].rc = s
  <2>1. CASE Return(t, s)
    BY <2>1 DEF Return, SetCall, NoCall, TypeOK, Types
  <2>2. CASE ReturnResult(t, s)
    BY <2>2 DEF ReturnResult, SetCall, NoCall, TypeOK, Types
  <2> QED BY <2>1, <2>2
<1> QED BY <1>1, <1>2

\* The start of a call, and one that is refused.
LEMMA BeginEffect ==
    ASSUME TypeOK, NEW t \in Thread, Begin(t)
    PROVE  /\ pc[t] = "idle" /\ Alone(t) /\ gone' = gone \ {t}
           /\ UNCHANGED <<graphs, graph, used>>
<1> DEFINE Effect == /\ pc[t] = "idle" /\ Alone(t) /\ gone' = gone \ {t}
                     /\ UNCHANGED <<graphs, graph, used>>
<1> SUFFICES Effect
  OBVIOUS
<1>e. \A g, d, x, label : Enter(t, g, d, x, label) => Alone(t) /\ gone' = gone \ {t}
  BY GotoAlone DEF Enter
<1>a. \A s : Answer(t, s) /\ pc' = pc => Alone(t) /\ gone' = gone \ {t}
  BY DEF Answer, SetCall, Alone, TypeOK, Types
<1> USE <1>e, <1>a DEF CanEnter, Refuse
<1>1. ASSUME NEW d \in Device, OpenDevice(t, d) PROVE Effect
  BY <1>1 DEF OpenDevice
<1>2. ASSUME NEW d \in Device, CloseDevice(t, d) PROVE Effect
  BY <1>2 DEF CloseDevice
<1>3. ASSUME NEW d \in Device, AllocateGraph(t, d) PROVE Effect
  BY <1>3 DEF AllocateGraph
<1>4. CASE OpenDeviceFails(t)
  BY <1>4 DEF OpenDeviceFails
<1>5. ASSUME NEW g \in Graph, DeallocateGraph(t, g) PROVE Effect
  BY <1>5 DEF DeallocateGraph
<1>6. ASSUME NEW g \in Graph, SetGraphOption(t, g) PROVE Effect
  BY <1>6 DEF SetGraphOption
<1>7. ASSUME NEW d \in Device, GetDeviceOption(t, d) PROVE Effect
  BY <1>7 DEF GetDeviceOption
<1>8. ASSUME NEW g \in Graph, NEW x \in Tag, LoadTensor(t, g, x) PROVE Effect
  BY <1>8 DEF LoadTensor
<1>9. ASSUME NEW g \in Graph, GetResult(t, g) PROVE Effect
  BY <1>9 DEF GetResult
<1> QED BY <1>1, <1>2, <1>3, <1>4, <1>5, <1>6, <1>7, <1>8, <1>9 DEF Begin

\* The steps of a call that holds a mutex, as far as addresses go.
LEMMA ContinueEffect ==
    ASSUME TypeOK, NEW t \in Thread, Continue(t)
    PROVE  /\ pc[t] \in HoldsMm \cup HoldsDmm /\ Alone(t)
           /\ \/ UNCHANGED <<graphs, gone, used>>
              \/ /\ CloseFree(t) \/ DeallocateFree(t)
                 /\ UNCHANGED used
                 /\ \E d \in Device : \E S : FreeGraphs(d, S)
              \/ \E g \in Graph : AllocateFinish(t, g)
<1> USE GotoAlone, ReturnAlone DEF HoldsMm, HoldsDmm
<1> DEFINE Effect ==
             /\ pc[t] \in HoldsMm \cup HoldsDmm /\ Alone(t)
             /\ \/ UNCHANGED <<graphs, gone, used>>
                \/ /\ CloseFree(t) \/ DeallocateFree(t)
                   /\ UNCHANGED used
                   /\ \E d \in Device : \E S : FreeGraphs(d, S)
                \/ \E g \in Graph : AllocateFinish(t, g)
<1>d. pc[t] \in HoldsMm => call[t].d \in Device
  BY DEF TypeOK, Handles
<1>1. CASE CloseFree(t)
  BY <1>1, <1>d DEF CloseFree
<1>2. ASSUME NEW g \in Graph, AllocateFinish(t, g) PROVE Effect
  BY <1>2 DEF AllocateFinish
<1>3. CASE AllocateFails(t)
  BY <1>3 DEF AllocateFails
<1>4. CASE DeallocateFree(t)
  BY <1>4, <1>d DEF DeallocateFree
<1>5. CASE OptionLock(t)
  BY <1>5 DEF OptionLock
<1>6. ASSUME NEW v \in BOOLEAN, SetDontBlock(t, v) PROVE Effect
  BY <1>6 DEF SetDontBlock
<1>7. CASE GetOptimisationList(t)
  BY <1>7 DEF GetOptimisationList
<1>8. CASE LoadSendOptions(t)
  BY <1>8 DEF LoadSendOptions
<1>9. CASE LoadCheck(t)
  BY <1>9 DEF LoadCheck
<1>10. CASE LoadLock(t)
  BY <1>10 DEF LoadLock
<1>11. CASE LoadBegin(t)
  BY <1>11 DEF LoadBegin
<1>12. CASE LoadTransfer(t)
  BY <1>12 DEF LoadTransfer
<1>13. CASE LoadTransferFails(t)
  BY <1>13 DEF LoadTransferFails
<1>14. CASE LoadStore(t)
  BY <1>14 DEF LoadStore
<1>15. CASE GetCheck(t)
  BY <1>15 DEF GetCheck
<1>16. CASE GetLock(t)
  BY <1>16 DEF GetLock
<1>17. CASE GetOutput(t)
  BY <1>17 DEF GetOutput
<1>18. CASE GetOutputFails(t)
  BY <1>18 DEF GetOutputFails
<1>19. CASE GetAux(t)
  BY <1>19 DEF GetAux, TakeUserParam
<1>20. CASE GetAuxFails(t)
  BY <1>20 DEF GetAuxFails
<1>21. CASE GetStore(t)
  BY <1>21 DEF GetStore
<1>22. CASE GetLate(t)
  BY <1>22 DEF GetLate, TakeUserParam
<1>23. CASE GetLateStore(t)
  BY <1>23 DEF GetLateStore
<1> QED BY <1>1, <1>2, <1>3, <1>4, <1>5, <1>6, <1>7, <1>8, <1>9, <1>10, <1>11,
           <1>12, <1>13, <1>14, <1>15, <1>16, <1>17, <1>18, <1>19, <1>20, <1>21,
           <1>22, <1>23 DEF Continue

LEMMA LostStep ==
    ASSUME ~Reuse
    PROVE  TypeOK /\ Lost /\ [Next]_vars => Lost'
<1> SUFFICES ASSUME TypeOK, Lost, [Next]_vars PROVE Lost'
  OBVIOUS
<1>h. \A label \in HoldsMm \cup HoldsDmm : label # "idle" /\ label \notin Sleeping
  BY DEF HoldsMm, HoldsDmm, Sleeping
<1>1. ASSUME NEW t \in Thread, Begin(t) PROVE Lost'
  <2>1. Alone(t) /\ gone' = gone \ {t} /\ graphs' = graphs /\ used' = used
    BY <1>1, BeginEffect
  <2> QED BY <2>1 DEF Lost, WillSay, Alone, TypeOK, Types
<1>2. ASSUME NEW t \in Thread, Wake(t) PROVE Lost'
  <2>1. /\ UNCHANGED <<graphs, gone, used, devices>> /\ pc[t] \in Sleeping
        /\ FindGraph(call[t].g) \/ Return(t, "GONE")
    BY <1>2 DEF Wake, LoadWake, GetWake, GetGiveUp, Sleeping
  <2>2. Alone(t)
    BY <1>2, GotoAlone, ReturnAlone DEF Wake, LoadWake, GetWake, GetGiveUp
  <2>3. t \in gone => WillSay(t)'
    <3>1. t \in gone => ~FindGraph(call[t].g)
      BY <2>1, FoundGraph DEF Lost, WillSay, Sleeping
    <3> QED BY <2>1, <3>1, ReturnAlone DEF WillSay
  <2> QED BY <2>1, <2>2, <2>3 DEF Lost, WillSay, Alone, TypeOK, Types
<1>3. ASSUME NEW t \in Thread, Continue(t) PROVE Lost'
  <2>1. pc[t] \in HoldsMm \cup HoldsDmm /\ Alone(t) /\ t \notin gone
    BY <1>3, <1>h, ContinueEffect DEF Lost, WillSay
  <2>2. CASE UNCHANGED <<graphs, gone, used>>
    BY <2>1, <2>2 DEF Lost, WillSay, Alone, TypeOK, Types
  <2>3. ASSUME UNCHANGED used, NEW d \in Device, NEW S, FreeGraphs(d, S) PROVE Lost'
    <3> DEFINE F == S \cap graphs[d]
    <3>1. /\ graphs' = [graphs EXCEPT ![d] = @ \ F]
          /\ gone' = gone \cup {u \in Thread : pc[u] \in Sleeping /\ call[u].g \in F}
      BY <2>3 DEF FreeGraphs
    <3>2. \A e \in Device : graphs'[e] \subseteq graphs[e] /\ graphs'[e] \subseteq used'
      BY <2>3, <3>1 DEF Lost, TypeOK, Types
    <3>3. ASSUME NEW u \in gone PROVE WillSay(u)'
      BY <2>1, <2>3, <3>2, <3>3 DEF Lost, WillSay, Alone, TypeOK, Types
    <3>4. ASSUME NEW u \in Thread, pc[u] \in Sleeping, call[u].g \in F PROVE WillSay(u)'
      <4>1. u # t /\ call[u].g \in used /\ call[u].g \in graphs[d]
        BY <1>h, <2>1, <3>4 DEF Lost
      <4>2. ASSUME NEW e \in Device PROVE call[u].g \notin graphs'[e]
        <5>1. CASE e = d
          BY <3>1, <3>4, <5>1 DEF TypeOK, Types
        <5>2. CASE e # d
          BY <3>2, <4>1, <5>2 DEF TypeOK, Handles
        <5> QED BY <5>1, <5>2
      <4>3. pc'[u] = pc[u] /\ call'[u] = call[u]
        BY <2>1, <4>1 DEF Alone
      <4> QED BY <2>3, <3>4, <4>1, <4>2, <4>3 DEF WillSay
    <3> QED BY <3>1, <3>2, <3>3, <3>4 DEF Lost
  <2>4. ASSUME NEW g \in Graph, AllocateFinish(t, g) PROVE Lost'
    <3>1. /\ g \notin used /\ used' = used \cup {g} /\ gone' = gone
          /\ \A e \in Device : graphs'[e] \subseteq graphs[e] \cup {g}
      BY <2>4 DEF AllocateFinish, Available, TypeOK, Types
    <3>2. ASSUME NEW u \in gone PROVE WillSay(u)'
      BY <2>1, <3>1, <3>2 DEF Lost, WillSay, Alone, TypeOK, Types
    <3> QED BY <3>1, <3>2 DEF Lost
  <2> QED BY <1>3, <2>2, <2>3, <2>4, ContinueEffect
<1>4. ASSUME NEW d \in Device, FirmwareRun(d) PROVE Lost'
  BY <1>4 DEF FirmwareRun, Lost, WillSay
<1>5. CASE UNCHANGED vars
  BY <1>5 DEF vars, Lost, WillSay
<1> QED BY <1>1, <1>2, <1>3, <1>4, <1>5 DEF Next

\* A LoadTensor or GetResult whose graph is freed while it sleeps returns GONE,
\* whatever fails on the link, as long as malloc does not return the address of
\* the graph again: find_graph knows a graph by its address alone.
THEOREM GoneGraphsAreReported ==
    ASSUME ~Reuse
    PROVE  Spec => []GoneIsReported
<1>1. Init => TypeOK /\ Lost
  BY TypeInit DEF Init, Lost
<1>2. TypeOK /\ Lost /\ [Next]_vars => (TypeOK /\ Lost)'
  BY TypeStep, LostStep
<1>3. Lost => GoneIsReported
  BY DEF Lost, WillSay, GoneIsReported, Sleeping
<1> QED BY <1>1, <1>2, <1>3, PTL DEF Spec
-----------------------------------------------------------------------------
(***************************************************************************)
(* The link.  The options are sent under mm alone, other transactions      *)
(* under the mutex of the device alone.  They exclude each other because   *)
(* a graph whose options are still to be sent has no inference.            *)
(***************************************************************************)
StartedPlaces == {"lt_check", "lt_dmm", "lt_put", "lt_xfer", "lt_store", "gr_dmm",
                  "gr_out", "gr_aux", "gr_store", "gr_late", "gr_late_store"}

\* What a call knows of started.
Warm(t) ==
    LET g == call[t].g IN
    /\ pc[t] \in StartedPlaces => graph[g].started
    /\ pc[t] = "lt_opt" => ~graph[g].started
    /\ pc[t] \in {"lt_sleep", "gr_retry"} =>
         /\ g \in used
         /\ \A d \in Device : g \in graphs[d] => graph[g].started

Started ==
    /\ \A d \in Device : \A g \in graphs[d] :
         graph[g].have_data # 0 => graph[g].started
    /\ \A t \in Thread : Warm(t)

LEMMA StartedUsesGraph == StartedPlaces \cup {"lt_opt"} \subseteq UsesGraph
BY DEF StartedPlaces, UsesGraph

\* started is changed by the call that sends the options, and have_data leaves
\* zero only when started is set.
LEMMA StartedFrame ==
    ASSUME TypeOK, Inv, Inv', Started, NEW t \in Thread, Alone(t), Warm(t)',
           used \subseteq used', \A d \in Device : graphs'[d] \subseteq graphs[d],
           \A d \in Device : \A g \in graphs'[d] :
             /\ graph[g].started => graph'[g].started
             /\ graph'[g].have_data # 0 => graph'[g].started
             /\ pc[t] = "lt_opt" \/ graph'[g].started = graph[g].started
    PROVE  Started'
<1> SUFFICES ASSUME NEW u \in Thread \ {t} PROVE Warm(u)'
  BY DEF Started
<1> DEFINE g == call[u].g
<1>1. pc'[u] = pc[u] /\ call'[u] = call[u] /\ Warm(u)
  BY DEF Alone, Started
<1>2. ASSUME pc[u] \in StartedPlaces \cup {"lt_opt"}
      PROVE  call[u].d \in Device /\ g \in graphs'[call[u].d]
  <2>1. pc[u] \in UsesGraph
    BY <1>2, StartedUsesGraph
  <2>2. pc[u] \in HoldsMm \cup HoldsDmm
    BY <2>1 DEF UsesGraph, HoldsMm, HoldsDmm
  <2> QED BY <1>1, <2>1, <2>2, CallFacts DEF Inv, NoUseAfterFree
<1>3. CASE pc[u] \in StartedPlaces
  BY <1>1, <1>2, <1>3 DEF Warm, StartedPlaces
<1>4. CASE pc[u] = "lt_opt"
  <2>1. pc[t] # "lt_opt"
    BY <1>4 DEF Inv, LockDiscipline, HoldsMm
  <2> QED BY <1>1, <1>2, <1>4, <2>1 DEF Warm, StartedPlaces
<1>5. CASE pc[u] \in {"lt_sleep", "gr_retry"}
  BY <1>1, <1>5 DEF Warm, StartedPlaces
<1>6. CASE pc[u] \notin StartedPlaces \cup {"lt_opt", "lt_sleep", "gr_retry"}
  BY <1>1, <1>6 DEF Warm
<1> QED BY <1>3, <1>4, <1>5, <1>6

LEMMA StartedBegin ==
    ASSUME TypeOK, Inv, Inv', Started, NEW t \in Thread, Begin(t)
    PROVE  Started'
<1>1. /\ pc[t] = "idle" /\ Alone(t) /\ UNCHANGED <<graphs, graph, used>>
  BY BeginEffect
<1> DEFINE W == Warm(t)'
<1>2. W
  <2>1. ASSUME NEW g, NEW d, NEW x, NEW label, Enter(t, g, d, x, label),
               \/ label \notin StartedPlaces \cup {"lt_opt", "lt_sleep", "gr_retry"}
               \/ label = "lt_check" /\ graph[g].started
               \/ label = "lt_opt" /\ ~graph[g].started
        PROVE  W
    <3>1. pc'[t] = label /\ call'[t].g = g /\ graph' = graph
      BY <1>1, <2>1, EnterEffect DEF TypeOK, Types
    <3> QED BY <2>1, <3>1 DEF Warm, StartedPlaces
  <2>2. pc' = pc => W
    BY <1>1 DEF Warm, StartedPlaces
  <2> USE <2>1, <2>2 DEF Refuse, StartedPlaces
  <2>3. ASSUME NEW d \in Device, OpenDevice(t, d) PROVE W
    BY <2>3 DEF OpenDevice
  <2>4. ASSUME NEW d \in Device, CloseDevice(t, d) PROVE W
    BY <2>4 DEF CloseDevice
  <2>5. ASSUME NEW d \in Device, AllocateGraph(t, d) PROVE W
    BY <2>5 DEF AllocateGraph
  <2>6. CASE OpenDeviceFails(t)
    BY <2>6 DEF OpenDeviceFails
  <2>7. ASSUME NEW g \in Graph, DeallocateGraph(t, g) PROVE W
    BY <2>7 DEF DeallocateGraph
  <2>8. ASSUME NEW g \in Graph, SetGraphOption(t, g) PROVE W
    BY <2>8 DEF SetGraphOption
  <2>9. ASSUME NEW d \in Device, GetDeviceOption(t, d) PROVE W
    BY <2>9 DEF GetDeviceOption
  <2>10. ASSUME NEW g \in Graph, NEW x \in Tag, LoadTensor(t, g, x) PROVE W
    BY <2>10 DEF LoadTensor
  <2>11. ASSUME NEW g \in Graph, GetResult(t, g) PROVE W
    BY <2>11 DEF GetResult
  <2> QED BY <2>3, <2>4, <2>5, <2>6, <2>7, <2>8, <2>9, <2>10, <2>11 DEF Begin
<1>3. \A d \in Device : \A g \in graphs'[d] :
        /\ graph[g].started => graph'[g].started
        /\ graph'[g].have_data # 0 => graph'[g].started
        /\ graph'[g].started = graph[g].started
  BY <1>1 DEF Started
<1> QED BY <1>1, <1>2, <1>3, StartedFrame

LEMMA StartedWake ==
    ASSUME TypeOK, Inv, Inv', Started, NEW t \in Thread, Wake(t)
    PROVE  Started'
<1>1. /\ Alone(t) /\ UNCHANGED <<graphs, graph, used>> /\ pc[t] \in Sleeping
  BY GotoAlone, ReturnAlone DEF Wake, LoadWake, GetWake, GetGiveUp, Sleeping
<1>2. Warm(t)'
  <2>1. CASE Return(t, "GONE")
    BY <2>1, ReturnAlone DEF Warm, StartedPlaces
  <2>2. ASSUME NEW label, Goto(t, label), FindGraph(call[t].g),
               SetCall(t, [call[t] EXCEPT !.d = graph[call[t].g].dev]),
               \/ label = "gr_check"
               \/ /\ label \in {"lt_check", "gr_dmm", "gr_late"}
                  /\ pc[t] \in {"lt_sleep", "gr_retry"}
        PROVE  Warm(t)'
    <3>1. pc'[t] = label
      BY <2>2 DEF Goto, TypeOK, Types
    <3>2. call'[t].g = call[t].g
      BY <2>2, CallFacts DEF SetCall, CallState, TypeOK, Types
    <3>3. label # "gr_check" => graph[call[t].g].started
      BY <2>2, FoundGraph DEF Started, Warm
    <3> QED BY <1>1, <2>2, <3>1, <3>2, <3>3 DEF Warm, StartedPlaces
  <2>3. CASE LoadWake(t)
    BY <2>1, <2>2, <2>3 DEF LoadWake
  <2>4. CASE GetWake(t)
    BY <2>1, <2>2, <2>4 DEF GetWake
  <2>5. CASE GetGiveUp(t)
    BY <2>2, <2>5 DEF GetGiveUp
  <2> QED BY <2>3, <2>4, <2>5 DEF Wake
<1>3. \A d \in Device : \A g \in graphs'[d] :
        /\ graph[g].started => graph'[g].started
        /\ graph'[g].have_data # 0 => graph'[g].started
        /\ graph'[g].started = graph[g].started
  BY <1>1 DEF Started
<1> QED BY <1>1, <1>2, <1>3, StartedFrame

LEMMA StartedAllocate ==
    ASSUME ~Reuse, TypeOK, Inv, Inv', Lost, Started, NEW t \in Thread,
           NEW h \in Graph, AllocateFinish(t, h)
    PROVE  Started'
<1>1. /\ pc'[t] = "idle" /\ Alone(t) /\ call[t].d \in Device
      /\ graphs' = [graphs EXCEPT ![call[t].d] = @ \cup {h}]
      /\ graph' = [graph EXCEPT ![h] = FreshGraph(call[t].d)]
      /\ h \notin used /\ used \subseteq used'
  BY ReturnAlone
     DEF AllocateFinish, Available, SetGraph, TypeOK, Handles, HoldsMm
<1>2. \A d \in Device : \A g \in graphs'[d] :
        graph'[g].have_data # 0 => graph'[g].started
  <2>1. ASSUME NEW d \in Device, NEW g \in graphs'[d], g # h
        PROVE  g \in graphs[d] /\ graph'[g] = graph[g]
    BY <1>1, <2>1 DEF TypeOK, Types
  <2>2. graph'[h].have_data = 0
    BY <1>1 DEF FreshGraph, TypeOK, Types
  <2> QED BY <2>1, <2>2 DEF Started
<1>3. Warm(t)'
  BY <1>1 DEF Warm, StartedPlaces
<1>4. ASSUME NEW u \in Thread \ {t} PROVE Warm(u)'
  <2> DEFINE g == call[u].g
  <2>1. pc'[u] = pc[u] /\ call'[u] = call[u] /\ Warm(u)
    BY <1>1 DEF Alone, Started
  <2>2. ASSUME pc[u] \in StartedPlaces \cup {"lt_opt", "lt_sleep", "gr_retry"}
        PROVE  /\ g \in Graph /\ g # h
               /\ \A d \in Device : g \in graphs'[d] => g \in graphs[d]
    <3>1. g \in Graph
      BY <2>2, CallFacts DEF StartedPlaces, UsesGraph, Sleeping
    <3>2. g \in used
      <4>1. CASE pc[u] \in {"lt_sleep", "gr_retry"}
        BY <2>1, <4>1 DEF Warm
      <4>2. CASE pc[u] \in StartedPlaces \cup {"lt_opt"}
        <5>1. pc[u] \in UsesGraph /\ pc[u] \in HoldsMm \cup HoldsDmm
          BY <4>2 DEF StartedPlaces, UsesGraph, HoldsMm, HoldsDmm
        <5> QED BY <5>1, CallFacts DEF Inv, NoUseAfterFree, Lost
      <4> QED BY <2>2, <4>1, <4>2
    <3> QED BY <1>1, <3>1, <3>2 DEF TypeOK, Types
  <2>3. ASSUME pc[u] \in StartedPlaces \cup {"lt_opt", "lt_sleep", "gr_retry"}
        PROVE  graph'[g] = graph[g]
    BY <1>1, <2>2, <2>3 DEF TypeOK, Types
  <2> QED BY <1>1, <2>1, <2>2, <2>3 DEF Warm
<1> QED BY <1>2, <1>3, <1>4 DEF Started

\* What a step of a call that holds a mutex does to the fields of graphs.
LEMMA StartedContinue ==
    ASSUME ~Reuse, TypeOK, Inv, Inv', Lost, Started, NEW t \in Thread, Continue(t)
    PROVE  Started'
<1> DEFINE g == call[t].g
           Same == /\ graphs' = graphs /\ used' = used
                   /\ \A h \in Graph :
                        /\ graph'[h].started = graph[h].started
                        /\ graph'[h].have_data = graph[h].have_data
           Counted == /\ graphs' = graphs /\ used' = used /\ graph[g].started
                      /\ \A h \in Graph :
                           /\ graph'[h].started = graph[h].started
                           /\ h # g => graph'[h].have_data = graph[h].have_data
           Quiet == Same \/ Counted
           Out == \E s \in Status : Return(t, s) \/ ReturnResult(t, s)
           In(S) == \E label \in S : Goto(t, label)
           SameCall == call'[t].g = g
<1>a. Alone(t) /\ call[t] \in CallState
  BY ContinueEffect, CallFacts
<1>g. ASSUME pc[t] \in UsesGraph
      PROVE  /\ g \in Graph /\ graph[g] \in GraphState
             /\ call[t].d \in Device /\ g \in graphs[call[t].d] /\ g \in used
  <2>1. pc[t] \in HoldsMm \cup HoldsDmm
    BY ContinueEffect
  <2> QED BY <1>g, <2>1, CallFacts DEF Inv, NoUseAfterFree, Lost
<1>k. Same \/ Counted =>
        /\ \A d \in Device : graphs'[d] \subseteq graphs[d]
        /\ \A d \in Device : \A h \in graphs'[d] :
             /\ graph[h].started => graph'[h].started
             /\ graph'[h].have_data # 0 => graph'[h].started
             /\ graph'[h].started = graph[h].started
  BY DEF Started, TypeOK, Types
<1>q. ASSUME Same \/ Counted, Warm(t)' PROVE Started'
  <2>1. used \subseteq used'
    BY <1>q
  <2> QED BY <1>a, <1>k, <1>q, <2>1, StartedFrame
<1>o. ASSUME Out PROVE Warm(t)'
  BY <1>o, ReturnAlone DEF Warm, StartedPlaces
<1>s. graph' = graph /\ graphs' = graphs /\ used' = used => Same
  OBVIOUS
\* On the way from a place where the graph has started.
<1>i. ASSUME NEW label, Goto(t, label), SameCall, pc[t] \in StartedPlaces,
             Same \/ Counted, label # "lt_opt"
      PROVE  Warm(t)'
  <2>1. pc'[t] = label /\ graph[g].started /\ pc[t] \in UsesGraph
    BY <1>i, StartedUsesGraph DEF Goto, Started, Warm, TypeOK, Types
  <2>2. g \in used' /\ graph'[g].started
    BY <1>g, <1>i, <2>1
  <2> QED BY <1>i, <2>1, <2>2 DEF Warm
<1>u. StartedPlaces \subseteq UsesGraph
  BY StartedUsesGraph
<1>1. CASE CloseFree(t) \/ DeallocateFree(t)
  <2>0. \E d \in Device : \E S : FreeGraphs(d, S)
    BY <1>1 DEF CloseFree, DeallocateFree, TypeOK, Handles, HoldsMm
  <2>d. PICK d \in Device : \E S : FreeGraphs(d, S)
    BY <2>0
  <2>1. PICK S : FreeGraphs(d, S)
    BY <2>d
  <2>2. /\ graphs' = [graphs EXCEPT ![d] = @ \ (S \cap graphs[d])]
        /\ \A h \in Graph : h \notin S \cap graphs[d] => graph'[h] = graph[h]
    BY <2>1 DEF FreeGraphs, TypeOK, Types
  <2>3. ASSUME NEW e \in Device, NEW h \in graphs'[e]
        PROVE  h \in graphs[e] /\ graph'[h] = graph[h]
    <3>1. h \in graphs[e] /\ h \in Graph
      BY <2>2 DEF TypeOK, Types
    <3>2. h \notin S \cap graphs[d]
      <4>1. CASE e = d
        BY <2>2, <4>1 DEF TypeOK, Types
      <4>2. CASE e # d
        BY <3>1, <4>2 DEF TypeOK, Handles
      <4> QED BY <4>1, <4>2
    <3> QED BY <2>2, <3>1, <3>2
  <2>4. used' = used /\ Out
    BY <1>1 DEF CloseFree, DeallocateFree, Status
  <2>5. Warm(t)'
    BY <1>o, <2>4
  <2>6. \A e \in Device : graphs'[e] \subseteq graphs[e]
    BY <2>3
  <2>7. \A e \in Device : \A h \in graphs'[e] :
          /\ graph[h].started => graph'[h].started
          /\ graph'[h].have_data # 0 => graph'[h].started
          /\ graph'[h].started = graph[h].started
    BY <2>3 DEF Started
  <2>8. used \subseteq used'
    BY <2>4
  <2> QED BY <1>a, <2>5, <2>6, <2>7, <2>8, StartedFrame
<1>2. CASE \E h \in Graph : AllocateFinish(t, h)
  BY <1>2, StartedAllocate
<1>3. CASE AllocateFails(t) \/ GetOptimisationList(t) \/ LoadTransferFails(t)
  <2>1. Same /\ Out
    BY <1>3, <1>s DEF AllocateFails, GetOptimisationList, LoadTransferFails, Status
  <2> QED BY <1>o, <1>q, <2>1
<1>4. CASE OptionLock(t)
  <2>1. Same /\ (pc'[t] = "so_set" \/ pc'[t] = "go_list")
    BY <1>4, <1>s DEF OptionLock, Goto, TypeOK, Types
  <2> QED BY <1>q, <2>1 DEF Warm, StartedPlaces
<1>5. ASSUME NEW v \in BOOLEAN, SetDontBlock(t, v) PROVE Started'
  <2>1. Same /\ Out
    BY <1>5, <1>g DEF SetDontBlock, SetGraph, UsesGraph, Status, TypeOK, Types,
                      GraphState
  <2> QED BY <1>o, <1>q, <2>1
<1>6. CASE LoadSendOptions(t)
  <2>1. CASE Return(t, "ERROR") /\ graph' = graph
    <3>1. Same /\ Out
      BY <1>6, <1>s, <2>1 DEF LoadSendOptions, Status
    <3> QED BY <1>o, <1>q, <3>1
  <2>2. CASE /\ SetGraph(g, [graph[g] EXCEPT !.started = TRUE])
             /\ Goto(t, "lt_check") /\ call' = call
    <3>1. /\ g \in Graph /\ graph[g] \in GraphState /\ graphs' = graphs
          /\ used' = used /\ pc[t] = "lt_opt"
      BY <1>6, <1>g DEF LoadSendOptions, UsesGraph
    <3>2. /\ graph'[g].started /\ graph'[g].have_data = graph[g].have_data
          /\ \A h \in Graph : h # g => graph'[h] = graph[h]
      BY <2>2, <3>1 DEF SetGraph, GraphState, TypeOK, Types
    <3>3. Warm(t)'
      <4>1. pc'[t] = "lt_check"
        BY <2>2 DEF Goto, TypeOK, Types
      <4> QED BY <2>2, <3>2, <4>1 DEF Warm
    <3>4. \A d \in Device : \A h \in graphs'[d] :
            /\ graph[h].started => graph'[h].started
            /\ graph'[h].have_data # 0 => graph'[h].started
      BY <3>1, <3>2 DEF Started, TypeOK, Types
    <3> QED BY <1>a, <3>1, <3>3, <3>4, StartedFrame
  <2> QED BY <1>6, <2>1, <2>2 DEF LoadSendOptions
<1>7. CASE LoadCheck(t)
  <2>1. Same /\ pc[t] \in StartedPlaces
    BY <1>7, <1>s DEF LoadCheck, StartedPlaces
  <2>2. Out \/ (SameCall /\ (Goto(t, "lt_dmm") \/ Goto(t, "lt_sleep")))
    BY <1>7 DEF LoadCheck, Status
  <2> QED BY <1>i, <1>o, <1>q, <2>1, <2>2
<1>8. CASE LoadLock(t)
  <2>1. Same /\ pc[t] \in StartedPlaces /\ SameCall /\ Goto(t, "lt_put")
    BY <1>8, <1>s DEF LoadLock, StartedPlaces
  <2> QED BY <1>i, <1>q, <2>1
<1>9. CASE LoadBegin(t)
  <2>1. Same /\ pc[t] \in StartedPlaces /\ SameCall /\ Goto(t, "lt_xfer")
    BY <1>9, <1>a, <1>s DEF LoadBegin, StartedPlaces, SetCall, CallState, TypeOK, Types
  <2> QED BY <1>i, <1>q, <2>1
<1>10. CASE LoadTransfer(t)
  <2>1. Same /\ pc[t] \in StartedPlaces /\ SameCall /\ Goto(t, "lt_store")
    BY <1>10, <1>a, <1>s
       DEF LoadTransfer, StartedPlaces, SetCall, CallState, TypeOK, Types
  <2> QED BY <1>i, <1>q, <2>1
<1>11. CASE LoadStore(t)
  <2>1. Counted /\ Out
    BY <1>11, <1>g DEF LoadStore, SetGraph, UsesGraph, StartedPlaces, Status,
                       Started, Warm, TypeOK, Types, GraphState
  <2> QED BY <1>o, <1>q, <2>1
<1>12. CASE GetCheck(t)
  <2>1. Same /\ pc[t] \in UsesGraph
    BY <1>12, <1>s DEF GetCheck, UsesGraph
  <2>2. CASE Out
    BY <1>o, <1>q, <2>1, <2>2
  <2>3. CASE call' = call /\ Goto(t, "gr_sleep")
    <3>1. pc'[t] = "gr_sleep"
      BY <2>3 DEF Goto, TypeOK, Types
    <3> QED BY <1>q, <2>1, <3>1 DEF Warm, StartedPlaces
  <2>4. CASE call' = call /\ Goto(t, "gr_dmm") /\ graph[g].have_data # 0
    <3>1. pc'[t] = "gr_dmm" /\ graph[g].started /\ graph'[g].started
      BY <1>g, <2>1, <2>4 DEF Goto, Started, TypeOK, Types
    <3>2. Warm(t)'
      BY <2>4, <3>1 DEF Warm, StartedPlaces
    <3> QED BY <1>q, <2>1, <3>2
  <2> QED BY <1>12, <2>2, <2>3, <2>4 DEF GetCheck, Status
<1>13. CASE GetLock(t)
  <2>1. Same /\ pc[t] \in StartedPlaces /\ SameCall /\ Goto(t, "gr_out")
    BY <1>13, <1>s DEF GetLock, StartedPlaces
  <2> QED BY <1>i, <1>q, <2>1
<1>14. CASE GetOutput(t)
  <2>1. Same /\ pc[t] \in StartedPlaces /\ SameCall /\ Goto(t, "gr_aux")
    BY <1>14, <1>a, <1>s
       DEF GetOutput, StartedPlaces, SetCall, CallState, TypeOK, Types
  <2> QED BY <1>i, <1>q, <2>1
<1>15. CASE GetOutputFails(t)
  <2>1. Same /\ pc[t] \in StartedPlaces /\ SameCall /\ Goto(t, "gr_retry")
    BY <1>15, <1>s DEF GetOutputFails, StartedPlaces
  <2> QED BY <1>i, <1>q, <2>1
<1>t. ASSUME TakeUserParam(t), pc[t] \in StartedPlaces, UNCHANGED <<graphs, used>>
      PROVE  Same /\ SameCall
  BY <1>a, <1>g, <1>t, <1>u
     DEF TakeUserParam, SetGraph, SetCall, TypeOK, Types, GraphState, CallState
<1>16. CASE GetAux(t)
  <2>1. Same /\ pc[t] \in StartedPlaces /\ SameCall /\ Goto(t, "gr_store")
    BY <1>16, <1>t DEF GetAux, StartedPlaces
  <2> QED BY <1>i, <1>q, <2>1
<1>17. CASE GetAuxFails(t)
  <2>1. Same /\ Out
    BY <1>17, <1>g DEF GetAuxFails, SetGraph, UsesGraph, Status, TypeOK, Types,
                       GraphState
  <2> QED BY <1>o, <1>q, <2>1
<1>18. CASE GetStore(t)
  <2>1. /\ Out /\ UNCHANGED <<graphs, used>> /\ g \in Graph
        /\ graph[g] \in GraphState /\ graph[g].started
    BY <1>18, <1>g DEF GetStore, UsesGraph, StartedPlaces, Status, Started, Warm
  <2>2. Counted
    <3>1. CASE SetGraph(g, [graph[g] EXCEPT !.have_data = call[t].hd - 1])
      BY <2>1, <3>1 DEF SetGraph, TypeOK, Types, GraphState
    <3>2. CASE SetGraph(g, [graph[g] EXCEPT !.have_data = call[t].hd - 1,
                                            !.failed = TRUE])
      BY <2>1, <3>2 DEF SetGraph, TypeOK, Types, GraphState
    <3> QED BY <1>18, <3>1, <3>2 DEF GetStore
  <2> QED BY <1>o, <1>q, <2>1, <2>2
<1>19. CASE GetLate(t)
  <2>1. Same /\ pc[t] \in StartedPlaces /\ SameCall /\ Goto(t, "gr_late_store")
    BY <1>19, <1>t DEF GetLate, StartedPlaces
  <2> QED BY <1>i, <1>q, <2>1
<1>20. CASE GetLateStore(t)
  <2>1. Counted /\ Out
    BY <1>20, <1>g DEF GetLateStore, SetGraph, UsesGraph, StartedPlaces, Status,
                       Started, Warm, TypeOK, Types, GraphState
  <2> QED BY <1>o, <1>q, <2>1
<1> QED BY <1>1, <1>2, <1>3, <1>4, <1>5, <1>6, <1>7, <1>8, <1>9, <1>10, <1>11,
           <1>12, <1>13, <1>14, <1>15, <1>16, <1>17, <1>18, <1>19, <1>20
        DEF Continue

LEMMA OneGraph ==
    ASSUME Inv, NEW d \in Device, NEW g \in graphs[d], NEW h \in graphs[d]
    PROVE  g = h
<1>1. graphs[d] = {} \/ graphs[d] = {thermal[d]}
  BY DEF Inv, ThermalPointsToGraph
<1> QED BY <1>1

\* Which mutex a call holds that is in the middle of a transaction.
LEMMA OnLinkPlaces ==
    ASSUME TypeOK, Inv, NEW t \in Thread, OnLink(t), pc[t] # "go_list"
    PROVE  \/ mm = t /\ pc[t] \in {"ag_usb", "lt_opt"}
           \/ dmm[call[t].d] = t /\ pc[t] \in {"lt_xfer", "gr_out", "gr_aux"}
<1>1. pc[t] \in {"lt_xfer", "gr_out", "gr_aux"} => call[t].d \in Device
  BY DEF TypeOK, Handles, HoldsDmm
<1> QED BY <1>1 DEF OnLink, Inv, LockDiscipline, HoldsMm, HoldsDmm

LEMMA LinkExcludes ==
    ASSUME TypeOK, Inv, Started, \A t \in Thread : pc[t] # "go_list"
    PROVE  LinkExclusive
<1> SUFFICES ASSUME NEW s \in Thread, NEW t \in Thread, s # t, OnLink(s), OnLink(t),
                    call[s].d = call[t].d
             PROVE  FALSE
  BY DEF LinkExclusive
<1>1. ASSUME NEW u \in Thread, NEW v \in Thread, call[u].d = call[v].d,
             mm = u, pc[u] \in {"ag_usb", "lt_opt"},
             pc[v] \in {"lt_xfer", "gr_out", "gr_aux"}
      PROVE  FALSE
  <2>1. /\ pc[v] \in UsesGraph /\ pc[v] \in StartedPlaces /\ pc[v] \in HoldsDmm
        /\ pc[u] \in HoldsMm
    BY <1>1 DEF UsesGraph, StartedPlaces, HoldsDmm, HoldsMm
  <2>2. call[v].d \in Device /\ call[v].g \in graphs[call[v].d]
    BY <2>1, CallFacts DEF Inv, NoUseAfterFree
  <2>3. CASE pc[u] = "ag_usb"
    BY <1>1, <2>2, <2>3 DEF Inv, Registry
  <2>4. CASE pc[u] = "lt_opt"
    <3>1. call[u].g \in graphs[call[v].d]
      BY <1>1, <2>4 DEF Inv, NoUseAfterFree, UsesGraph
    <3>2. call[u].g = call[v].g
      BY <2>2, <3>1, OneGraph
    <3> QED BY <2>1, <2>4, <3>2 DEF Started, Warm
  <2> QED BY <1>1, <2>3, <2>4
<1>2. /\ \/ mm = s /\ pc[s] \in {"ag_usb", "lt_opt"}
         \/ dmm[call[s].d] = s /\ pc[s] \in {"lt_xfer", "gr_out", "gr_aux"}
      /\ \/ mm = t /\ pc[t] \in {"ag_usb", "lt_opt"}
         \/ dmm[call[t].d] = t /\ pc[t] \in {"lt_xfer", "gr_out", "gr_aux"}
  BY OnLinkPlaces
<1> QED BY <1>1, <1>2

\* The only way to the place where the list of optimisations is read.
Unlisted == \A t \in Thread : pc[t] \notin {"go_dmm", "go_list"}

LEMMA UnlistedStep ==
    ASSUME Lister = {}
    PROVE  TypeOK /\ Unlisted /\ [Next]_vars => Unlisted'
<1> SUFFICES ASSUME TypeOK, Unlisted, [Next]_vars PROVE Unlisted'
  OBVIOUS
<1> USE DEF Unlisted
<1>g. ASSUME NEW t \in Thread, NEW label, label \notin {"go_dmm", "go_list"},
             Goto(t, label)
      PROVE  Unlisted'
  BY <1>g DEF Goto, TypeOK, Types
<1>e. \A t \in Thread : \A g, d, x, label :
        Enter(t, g, d, x, label) /\ label \notin {"go_dmm", "go_list"} => Unlisted'
  BY <1>g DEF Enter
<1>r. \A t \in Thread : \A s : Return(t, s) \/ ReturnResult(t, s) => Unlisted'
  BY <1>g DEF Return, ReturnResult
<1>1. ASSUME NEW t \in Thread, Begin(t) PROVE Unlisted'
  <2> USE <1>e DEF Refuse
  <2>1. ASSUME NEW d \in Device,
               OpenDevice(t, d) \/ CloseDevice(t, d) \/ AllocateGraph(t, d)
        PROVE  Unlisted'
    BY <2>1 DEF OpenDevice, CloseDevice, AllocateGraph
  <2>2. ASSUME NEW g \in Graph,
               DeallocateGraph(t, g) \/ SetGraphOption(t, g) \/ GetResult(t, g)
        PROVE  Unlisted'
    BY <2>2 DEF DeallocateGraph, SetGraphOption, GetResult
  <2>3. ASSUME NEW g \in Graph, NEW x \in Tag, LoadTensor(t, g, x) PROVE Unlisted'
    BY <2>3 DEF LoadTensor
  <2>4. CASE OpenDeviceFails(t)
    BY <2>4 DEF OpenDeviceFails
  <2> QED BY <1>1, <2>1, <2>2, <2>3, <2>4 DEF Begin
<1>2. ASSUME NEW t \in Thread, Continue(t) PROVE Unlisted'
  <2> USE <1>g, <1>r
  <2>1. CASE CloseFree(t) \/ AllocateFails(t) \/ DeallocateFree(t)
    BY <2>1 DEF CloseFree, AllocateFails, DeallocateFree
  <2>2. CASE OptionLock(t) \/ GetOptimisationList(t)
    BY <2>2 DEF OptionLock, GetOptimisationList
  <2>3. CASE LoadSendOptions(t) \/ LoadCheck(t) \/ LoadLock(t) \/ LoadBegin(t)
    BY <2>3 DEF LoadSendOptions, LoadCheck, LoadLock, LoadBegin
  <2>4. CASE LoadTransfer(t) \/ LoadTransferFails(t) \/ LoadStore(t)
    BY <2>4 DEF LoadTransfer, LoadTransferFails, LoadStore
  <2>5. CASE GetCheck(t) \/ GetLock(t) \/ GetOutput(t) \/ GetOutputFails(t)
    BY <2>5 DEF GetCheck, GetLock, GetOutput, GetOutputFails
  <2>6. CASE GetAux(t) \/ GetAuxFails(t) \/ GetStore(t) \/ GetLate(t) \/ GetLateStore(t)
    BY <2>6 DEF GetAux, GetAuxFails, GetStore, GetLate, GetLateStore
  <2>7. ASSUME NEW g \in Graph, AllocateFinish(t, g) PROVE Unlisted'
    BY <2>7 DEF AllocateFinish
  <2>8. ASSUME NEW v \in BOOLEAN, SetDontBlock(t, v) PROVE Unlisted'
    BY <2>8 DEF SetDontBlock
  <2> QED BY <1>2, <2>1, <2>2, <2>3, <2>4, <2>5, <2>6, <2>7, <2>8 DEF Continue
<1>3. ASSUME NEW t \in Thread, Wake(t) PROVE Unlisted'
  BY <1>3, <1>g, <1>r DEF Wake, LoadWake, GetWake, GetGiveUp
<1>4. ASSUME NEW d \in Device, FirmwareRun(d) PROVE Unlisted'
  BY <1>4 DEF FirmwareRun
<1>5. CASE UNCHANGED vars
  BY <1>5 DEF vars
<1> QED BY <1>1, <1>2, <1>3, <1>4, <1>5 DEF Next

\* Two transactions with one stick are never interleaved, although allocation
\* and the first config message are made under mm alone and the transfers of
\* LoadTensor and GetResult under the mutex of the device alone; the only other
\* transaction, reading the list of optimisations, is not made.  With an address
\* that malloc returns again a call that slept could go on with a graph that
\* was not started.
THEOREM LinkIsExclusive ==
    ASSUME "input" \notin Faults, ~Reuse, Lister = {}
    PROVE  Spec => []LinkExclusive
<1> DEFINE I == TypeOK /\ Inv /\ Lost /\ Started /\ Unlisted
<1>1. Init => I
  <2>1. Init => Started
    BY DEF Init, Started, Warm, StartedPlaces
  <2>2. Init => Lost /\ Unlisted
    BY DEF Init, Lost, Unlisted
  <2> QED BY <2>1, <2>2, TypeInit, InvInit
<1>2. I /\ [Next]_vars => I'
  <2> SUFFICES ASSUME I, [Next]_vars PROVE I'
    OBVIOUS
  <2>1. TypeOK' /\ Inv' /\ Lost' /\ Unlisted'
    BY TypeStep, InvStep, LostStep, UnlistedStep
  <2>2. Started'
    <3>1. ASSUME NEW d \in Device, FirmwareRun(d) PROVE Started'
      BY <3>1 DEF FirmwareRun, Started, Warm
    <3>2. CASE UNCHANGED vars
      BY <3>2 DEF vars, Started, Warm
    <3> QED BY <2>1, <3>1, <3>2, StartedBegin, StartedContinue, StartedWake DEF Next
  <2> QED BY <2>1, <2>2
<1>3. I => LinkExclusive
  BY LinkExcludes DEF Unlisted
<1> QED BY <1>1, <1>2, <1>3, PTL DEF Spec
===============================================================================
