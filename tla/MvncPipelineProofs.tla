-------------------------- MODULE MvncPipelineProofs --------------------------
(***************************************************************************)
(* Theorems about the inference pipeline of Mvnc: have_data, the slots of  *)
(* user_param and the stick agree, so that the double buffer is a queue.   *)
(* They are about programs in which one thread loads (with two, both may   *)
(* find room for the last inference).  A graph of which GetResult has      *)
(* reported a failure is out of them, unless no transfer fails half-way.   *)
(***************************************************************************)
EXTENDS MvncProofs, SequenceTheorems, FiniteSetTheorems

OneLoader == \A s, t \in Loader : s = t

\* No transfer of a tensor fails half-way and GetResult does not give up: each
\* would leave the stick and have_data apart.
InTime == Faults \cap {"input", "aux", "timeout"} = {}

\* The graphs the pipeline is known of.
Sound(g) == InTime \/ ~Failed(g)

-----------------------------------------------------------------------------
(***************************************************************************)
(* A stick that has n inferences: the oldest is that of slot i, and p says *)
(* which inference each slot is for.                                       *)
(***************************************************************************)
Agree(F, n, i, p) ==
    /\ n \in 0..2
    /\ n > 0 => p[i] # None
    /\ n = 2 => p[1 - i] # None
    /\ F.input[1 - i] = IF n = 2 THEN p[1 - i] ELSE None
    /\ \/ /\ F.output = None
          /\ F.next = i
          /\ F.input[i] = IF n > 0 THEN p[i] ELSE None
          /\ F.go => n > 0
       \/ /\ F.output # None
          /\ n > 0
          /\ F.output = p[i]
          /\ F.next = 1 - i
          /\ F.input[i] = None
          /\ ~F.go

\* The thread that has the mutex of d is at label.
At(d, label) == dmm[d] # None /\ pc[dmm[d]] = label

\* The pipeline of graph g on d as LoadTensor and GetResult will leave it:
\* the inferences on the stick, the slot the next one goes to, the slot of
\* the oldest, and what the slots are for.
Count(d, g) ==
    IF At(d, "lt_store") THEN graph[g].have_data + 1
    ELSE IF At(d, "gr_aux") \/ At(d, "gr_store") THEN graph[g].have_data - 1
    ELSE graph[g].have_data

Slot(d, g) ==
    IF At(d, "lt_store") THEN 1 - graph[g].input_idx ELSE graph[g].input_idx

Oldest(d, g) ==
    IF At(d, "gr_aux") THEN 1 - graph[g].output_idx ELSE graph[g].output_idx

Params(d, g) ==
    IF At(d, "lt_store")
    THEN [graph[g].user_param EXCEPT ![graph[g].input_idx] = call[dmm[d]].tag]
    ELSE graph[g].user_param

Pipe(d, g) ==
    /\ Agree(fw[d], Count(d, g), Oldest(d, g), Params(d, g))
    /\ Oldest(d, g) = (Slot(d, g) + Count(d, g)) % 2
    /\ Count(d, g) > 0 =>
         \/ fw[d].go \/ fw[d].output # None
         \/ At(d, "gr_aux") /\ call[dmm[d]].ready

LoadPlaces == {"lt_opt", "lt_check", "lt_sleep", "lt_dmm", "lt_put", "lt_xfer",
               "lt_store"}

\* Where a call relies on the pipeline.
PipePlaces == {"lt_dmm", "lt_put", "lt_xfer", "lt_store", "gr_aux", "gr_store"}

\* What it knows of the pipeline at each of them.
Known(t) ==
    LET c == call[t]
        G == graph[c.g]
    IN
    /\ pc[t] \in {"lt_dmm", "lt_put", "lt_xfer", "lt_store"} => G.have_data < 2
    /\ pc[t] = "lt_xfer" => c.ready = (G.have_data = 0)
    /\ pc[t] = "lt_store" => c.hd = G.have_data /\ G.have_data >= 0
    /\ pc[t] = "gr_aux" =>
         /\ c.ready = (G.have_data = 2)
         /\ c.output = G.user_param[G.output_idx]
         /\ G.have_data <= 2
         /\ fw[c.d].output = None /\ ~fw[c.d].go
    /\ pc[t] = "gr_store" =>
         /\ c.hd = G.have_data /\ G.have_data <= 2
         /\ c.output = G.user_param[1 - G.output_idx]
         /\ c.userParam = c.output

Place(t) ==
    LET c == call[t] IN
    /\ pc[t] # "idle" => c.rc = "none"
    /\ pc[t] \in LoadPlaces => t \in Loader /\ c.tag \in Tag
    /\ InTime =>
         /\ c.rc \in {"OK", "MYRIAD_ERROR"} => c.output = c.userParam
         /\ pc[t] \notin {"gr_late", "gr_late_store"}
    /\ pc[t] \in PipePlaces /\ Sound(c.g) => Known(t)

Pipeline ==
    /\ \A d \in Device : \A g \in graphs[d] : Sound(g) => Pipe(d, g)
    /\ \A t \in Thread : Place(t)
-----------------------------------------------------------------------------
(***************************************************************************)
(* What the stick does to Agree, and what the host does.                   *)
(***************************************************************************)
LEMMA AgreeIdle ==
    ASSUME NEW p \in [0..1 -> Tag \cup {None}]
    PROVE  Agree(IdleFirmware, 0, 0, p)
BY DEF Agree, IdleFirmware

\* The next input becomes the output.
LEMMA AgreeRan ==
    ASSUME NEW F \in FirmwareState, NEW n \in Int, NEW i \in 0..1,
           NEW p \in [0..1 -> Tag \cup {None}], Agree(F, n, i, p),
           F.go, F.input[F.next] # None, F.output = None,
           NEW H, H = [F EXCEPT !.output = F.input[F.next],
                                !.input[F.next] = None,
                                !.next = 1 - F.next, !.go = FALSE]
    PROVE  Agree(H, n, i, p) /\ H.output # None
<1>1. F.next = i /\ n > 0 /\ F.input[i] = p[i]
  BY DEF Agree
<1>2. /\ H.output = p[i] /\ H.next = 1 - i /\ H.go = FALSE
      /\ H.input = [F.input EXCEPT ![i] = None]
  BY <1>1 DEF FirmwareState
<1>3. H.input[i] = None /\ H.input[1 - i] = F.input[1 - i]
  BY <1>2 DEF FirmwareState
<1> QED BY <1>1, <1>2, <1>3 DEF Agree

\* An input is written to the slot after the last one.
LEMMA AgreeLoaded ==
    ASSUME NEW F \in FirmwareState, NEW n \in Int, NEW i \in 0..1, NEW j \in 0..1,
           NEW p \in [0..1 -> Tag \cup {None}], Agree(F, n, i, p),
           n < 2, j = (i + n) % 2, NEW x \in Tag,
           NEW H, H.input = [F.input EXCEPT ![j] = x], H.next = F.next,
           H.go <=> F.go \/ n = 0, H.output = F.output
    PROVE  /\ Agree(H, n + 1, i, [p EXCEPT ![j] = x])
           /\ (n = 0 => H.go) /\ (F.go => H.go) /\ H.output = F.output
<1>1. /\ H.output = F.output /\ H.next = F.next /\ (H.go <=> F.go \/ n = 0)
      /\ H.input = [F.input EXCEPT ![j] = x]
  OBVIOUS
<1>2. H.input[j] = x /\ H.input[1 - j] = F.input[1 - j]
  BY <1>1 DEF FirmwareState
<1>3. x # None
  BY NoneAssumption
<1>4. \/ n = 0 /\ j = i
      \/ n = 1 /\ j = 1 - i
  BY DEF Agree
<1>5. [p EXCEPT ![j] = x][j] = x /\ [p EXCEPT ![j] = x][1 - j] = p[1 - j]
  OBVIOUS
<1>6. (n = 0 => H.go) /\ (F.go => H.go)
  BY <1>1
<1>7. CASE n = 0 /\ j = i
  BY <1>1, <1>2, <1>3, <1>5, <1>6, <1>7 DEF Agree
<1>8. CASE n = 1 /\ j = 1 - i
  <2>1. 1 - j = i /\ n + 1 = 2
    BY <1>8
  <2>2. H.go <=> F.go
    BY <1>1, <1>8 DEF FirmwareState
  <2> QED BY <1>1, <1>2, <1>3, <1>5, <1>6, <1>8, <2>1, <2>2 DEF Agree
<1> QED BY <1>4, <1>7, <1>8

\* The output is read.
LEMMA AgreeTaken ==
    ASSUME NEW F \in FirmwareState, NEW n \in Int, NEW i \in 0..1,
           NEW p \in [0..1 -> Tag \cup {None}], Agree(F, n, i, p),
           F.output # None, NEW H, H.input = F.input, H.next = F.next,
           H.go <=> F.go, H.output = None
    PROVE  /\ Agree(H, n - 1, 1 - i, p)
           /\ F.output = p[i] /\ ~H.go
<1>1. 1 - (1 - i) = i
  OBVIOUS
<1> QED BY <1>1 DEF Agree

\* The stick, with its output read, is told to go on.
LEMMA AgreeTold ==
    ASSUME NEW F \in FirmwareState, NEW n \in Int, NEW i \in 0..1,
           NEW p \in [0..1 -> Tag \cup {None}], Agree(F, n, i, p),
           F.output = None, NEW H, H.input = F.input, H.next = F.next,
           H.go => F.go \/ n > 0, H.output = F.output
    PROVE  Agree(H, n, i, p)
BY DEF Agree
-----------------------------------------------------------------------------
(***************************************************************************)
(* Who is where.                                                           *)
(***************************************************************************)
LEMMA PipeTypes ==
    ASSUME TypeOK, NEW d \in Device, NEW g \in Graph
    PROVE  /\ graph[g] \in GraphState /\ fw[d] \in FirmwareState
           /\ Count(d, g) \in Int /\ Oldest(d, g) \in 0..1 /\ Slot(d, g) \in 0..1
           /\ Params(d, g) \in [0..1 -> Tag \cup {None}]
<1>1. graph[g] \in GraphState /\ fw[d] \in FirmwareState
  BY DEF TypeOK, Types
<1>2. At(d, "lt_store") => call[dmm[d]] \in CallState
  BY DEF TypeOK, Types, At
<1>3. Count(d, g) \in Int
  BY <1>1 DEF Count, GraphState
<1>4. Oldest(d, g) \in 0..1 /\ Slot(d, g) \in 0..1
  BY <1>1 DEF Oldest, Slot, GraphState
<1>5. Params(d, g) \in [0..1 -> Tag \cup {None}]
  BY <1>1, <1>2 DEF Params, GraphState, CallState
<1> QED BY <1>1, <1>3, <1>4, <1>5

LEMMA Holder ==
    ASSUME TypeOK, Inv, NEW t \in Thread, pc[t] \in HoldsDmm
    PROVE  /\ call[t].d \in Device /\ dmm[call[t].d] = t /\ t # None
           /\ \A label : At(call[t].d, label) <=> pc[t] = label
           /\ \A d \in Device : d # call[t].d => dmm[d] # t
BY NoneAssumption DEF TypeOK, Handles, Inv, LockDiscipline, At

LEMMA NotHolder ==
    ASSUME TypeOK, Inv, NEW t \in Thread, pc[t] \notin HoldsDmm
    PROVE  \A d \in Device : dmm[d] # t
BY DEF Inv, LockDiscipline

LEMMA OneDevice ==
    ASSUME Inv, NEW d \in Device, NEW e \in Device, NEW g \in graphs[d],
           g \in graphs[e]
    PROVE  d = e
BY DEF Inv, ThermalPointsToGraph

\* Nobody is in the middle of changing the pipeline of d.
Calm(d) == \A label \in {"lt_store", "gr_aux", "gr_store"} : ~At(d, label)

\* A step by t keeps a graph unsound that it does not free.
LEMMA StillSound ==
    ASSUME TypeOK, TypeOK', NEW t \in Thread, Alone(t), NEW g,
           graph[g].failed => graph'[g].failed,
           pc[t] = "gr_late_store" => call[t].g # g
    PROVE  Sound(g)' => Sound(g)
BY DEF Sound, Failed, Alone

SamePipe(g) ==
    /\ graph'[g].have_data = graph[g].have_data
    /\ graph'[g].input_idx = graph[g].input_idx
    /\ graph'[g].output_idx = graph[g].output_idx
    /\ graph'[g].user_param = graph[g].user_param

LEMMA PipeFrame ==
    ASSUME TypeOK, NEW t \in Thread, Alone(t), NEW d \in Device, NEW g,
           Pipe(d, g), SamePipe(g), fw'[d] = fw[d],
           \/ dmm'[d] = dmm[d] /\ dmm[d] # t
           \/ Calm(d) /\ Calm(d)'
    PROVE  Pipe(d, g)'
<1>1. CASE dmm'[d] = dmm[d] /\ dmm[d] # t
  <2>1. \A label : At(d, label)' = At(d, label)
    BY <1>1 DEF At, Alone, TypeOK, Types
  <2>2. dmm[d] # None => call'[dmm'[d]] = call[dmm[d]]
    BY <1>1 DEF Alone, TypeOK, Types
  <2>3. At(d, "lt_store") \/ At(d, "gr_aux") => dmm[d] # None
    BY DEF At
  <2>4. /\ Count(d, g)' = Count(d, g) /\ Slot(d, g)' = Slot(d, g)
        /\ Oldest(d, g)' = Oldest(d, g) /\ Params(d, g)' = Params(d, g)
    BY <2>1, <2>2, <2>3 DEF SamePipe, Count, Slot, Oldest, Params
  <2> QED BY <2>1, <2>2, <2>3, <2>4 DEF Pipe, Agree
<1>2. CASE Calm(d) /\ Calm(d)'
  <2>1. /\ Count(d, g)' = Count(d, g) /\ Slot(d, g)' = Slot(d, g)
        /\ Oldest(d, g)' = Oldest(d, g) /\ Params(d, g)' = Params(d, g)
    BY <1>2 DEF SamePipe, Calm, Count, Slot, Oldest, Params
  <2> QED BY <1>2, <2>1 DEF Calm, Pipe, Agree
<1> QED BY <1>1, <1>2

\* What another call does to the place of u, at most.
LEMMA PlaceFrame ==
    ASSUME TypeOK, TypeOK', NEW u \in Thread, Place(u), pc'[u] = pc[u],
           call'[u] = call[u],
           pc[u] \in PipePlaces /\ Sound(call[u].g)' =>
             /\ Sound(call[u].g)
             /\ pc[u] \in {"lt_dmm", "lt_put"} =>
                  graph'[call[u].g].have_data <= graph[call[u].g].have_data
             /\ pc[u] \in {"lt_xfer", "lt_store", "gr_aux", "gr_store"} =>
                  SamePipe(call[u].g)
             /\ pc[u] = "gr_aux" => fw'[call[u].d] = fw[call[u].d]
    PROVE  Place(u)'
<1>0. ASSUME pc[u] \in PipePlaces, Sound(call[u].g)'
      PROVE  Known(u)
  BY <1>0 DEF Place
<1>1. ASSUME pc[u] \in {"lt_dmm", "lt_put"}, Sound(call[u].g)'
      PROVE  graph'[call[u].g].have_data < 2
  <2>1. /\ graph[call[u].g].have_data \in Int
        /\ graph'[call[u].g].have_data \in Int
    BY <1>1 DEF TypeOK, Types, Handles, UsesGraph, GraphState
  <2>2. graph[call[u].g].have_data < 2
    BY <1>0, <1>1 DEF Known, PipePlaces
  <2> QED BY <1>1, <2>1, <2>2 DEF PipePlaces
<1>2. ASSUME pc[u] \in PipePlaces, Sound(call[u].g)'
      PROVE  Known(u)'
  BY <1>0, <1>1, <1>2 DEF Known, SamePipe, PipePlaces
<1>3. Sound(call[u].g)' /\ pc[u] \in PipePlaces => Known(u)'
  BY <1>2
<1> QED BY <1>3 DEF Place

\* A step keeps the pipelines of the graphs that were there and still are.
Kept ==
    \A d \in Device : \A g \in graphs[d] \cap graphs'[d] :
        Sound(g)' => Sound(g) /\ SamePipe(g) /\ fw'[d] = fw[d]

LEMMA PlacesKept ==
    ASSUME TypeOK, TypeOK', Inv, Inv', Pipeline, NEW t \in Thread, Alone(t),
           Kept, Place(t)'
    PROVE  \A u \in Thread : Place(u)'
<1> SUFFICES ASSUME NEW u \in Thread \ {t} PROVE Place(u)'
  OBVIOUS
<1>1. pc'[u] = pc[u] /\ call'[u] = call[u] /\ Place(u)
  BY DEF Alone, Pipeline
<1>2. ASSUME pc[u] \in PipePlaces, Sound(call[u].g)'
      PROVE  /\ Sound(call[u].g) /\ SamePipe(call[u].g)
             /\ fw'[call[u].d] = fw[call[u].d]
  <2>1. pc[u] \in UsesGraph /\ pc[u] \in HoldsMm \cup HoldsDmm
    BY <1>2 DEF PipePlaces, UsesGraph, HoldsMm, HoldsDmm
  <2>2. call[u].d \in Device /\ call[u].g \in graphs[call[u].d]
    BY <2>1 DEF TypeOK, Handles, Inv, NoUseAfterFree
  <2>3. call[u].g \in graphs'[call[u].d]
    BY <1>1, <2>1 DEF Inv, NoUseAfterFree
  <2>4. PICK d \in Device, g \in Graph :
          /\ d = call[u].d /\ g = call[u].g
          /\ g \in graphs[d] \cap graphs'[d]
    BY <2>2, <2>3 DEF TypeOK, Types
  <2>5. Sound(g)'
    BY <1>1, <1>2, <2>4
  <2>6. Sound(g) /\ SamePipe(g) /\ fw'[d] = fw[d]
    BY <2>4, <2>5 DEF Kept
  <2> QED BY <2>4, <2>6
<1>3. ASSUME pc[u] \in {"lt_dmm", "lt_put"}, Sound(call[u].g)'
      PROVE  graph'[call[u].g].have_data <= graph[call[u].g].have_data
  <2>1. graph[call[u].g].have_data \in Int
    BY <1>3 DEF TypeOK, Types, Handles, UsesGraph, GraphState
  <2> QED BY <1>2, <1>3, <2>1 DEF SamePipe, PipePlaces
<1>4. pc[u] \in PipePlaces /\ Sound(call[u].g)' =>
        /\ Sound(call[u].g)
        /\ pc[u] \in {"lt_dmm", "lt_put"} =>
             graph'[call[u].g].have_data <= graph[call[u].g].have_data
        /\ pc[u] \in {"lt_xfer", "lt_store", "gr_aux", "gr_store"} =>
             SamePipe(call[u].g)
        /\ pc[u] = "gr_aux" => fw'[call[u].d] = fw[call[u].d]
  BY <1>2, <1>3
<1> QED BY <1>1, <1>4, PlaceFrame

Untouched(g) == SamePipe(g) /\ (graph[g].failed => graph'[g].failed)

LEMMA KeptUntouched ==
    ASSUME TypeOK, TypeOK', NEW t \in Thread, Alone(t), pc[t] # "gr_late_store",
           UNCHANGED <<graphs, fw>>, \A g \in Graph : Untouched(g)
    PROVE  Kept
<1>1. ASSUME NEW d \in Device, NEW g \in graphs[d]
      PROVE  (Sound(g)' => Sound(g)) /\ SamePipe(g)
  <2>1. g \in Graph
    BY DEF TypeOK, Types
  <2> QED BY <2>1, StillSound DEF Untouched
<1> QED BY <1>1 DEF Kept

\* A step of t that changes nothing of any pipeline.
LEMMA QuietStep ==
    ASSUME TypeOK, TypeOK', Inv, Inv', Pipeline, NEW t \in Thread, Alone(t),
           Kept, Place(t)',
           \A d \in Device : graphs'[d] \subseteq graphs[d],
           \A d \in Device : \A g \in graphs'[d] : Sound(g)' =>
               \/ dmm'[d] = dmm[d] /\ dmm[d] # t
               \/ Calm(d) /\ Calm(d)'
    PROVE  Pipeline'
<1>1. \A u \in Thread : Place(u)'
  BY PlacesKept
<1>2. ASSUME NEW d \in Device, NEW g \in graphs'[d], Sound(g)' PROVE Pipe(d, g)'
  <2>1. g \in graphs[d] /\ Sound(g) /\ SamePipe(g) /\ fw'[d] = fw[d]
    BY <1>2 DEF Kept
  <2>2. Pipe(d, g)
    BY <2>1 DEF Pipeline
  <2> QED BY <1>2, <2>1, <2>2, PipeFrame
<1> QED BY <1>1, <1>2 DEF Pipeline

\* A call that has given no answer yet, or whose answer is no inference.
Silent(c) == c.rc \in {"OK", "MYRIAD_ERROR"} => c.output = None /\ c.userParam = None

LEMMA ReturnPlace ==
    ASSUME TypeOK, NEW t \in Thread, NEW s, Return(t, s)
    PROVE  Place(t)' /\ Alone(t) /\ Silent(call'[t])
<1>1. pc'[t] = "idle" /\ call'[t].output = None /\ call'[t].userParam = None
  BY DEF Return, Goto, SetCall, NoCall, TypeOK, Types
<1>2. Alone(t)
  BY DEF Return, Goto, SetCall, Alone, TypeOK, Types
<1> QED BY <1>1, <1>2 DEF Place, PipePlaces, LoadPlaces, Silent

LEMMA AnswerPlace ==
    ASSUME TypeOK, NEW t \in Thread, NEW s, Answer(t, s), pc[t] = "idle", pc' = pc
    PROVE  Place(t)' /\ Alone(t) /\ Silent(call'[t])
<1>1. pc'[t] = "idle" /\ call'[t].output = None /\ call'[t].userParam = None
  BY DEF Answer, SetCall, NoCall, TypeOK, Types
<1>2. Alone(t)
  BY DEF Answer, SetCall, Alone, TypeOK, Types
<1> QED BY <1>1, <1>2 DEF Place, PipePlaces, LoadPlaces, Silent

LEMMA EnterPlace ==
    ASSUME TypeOK, NEW t \in Thread, NEW g, NEW d, NEW x, NEW label,
           Enter(t, g, d, x, label),
           \/ label \in {"cd_dmm", "ag_usb", "dg_dmm", "so_dmm", "go_dmm", "gr_check"}
           \/ label \in {"lt_opt", "lt_check"} /\ t \in Loader /\ x \in Tag
    PROVE  Place(t)' /\ Alone(t) /\ Silent(call'[t])
<1>1. /\ pc'[t] = label /\ call'[t].rc = "none" /\ call'[t].tag = x
      /\ call'[t].output = None /\ call'[t].userParam = None
  BY DEF Enter, Goto, SetCall, NoCall, TypeOK, Types
<1>2. Alone(t)
  BY DEF Enter, Goto, SetCall, Alone, TypeOK, Types
<1> QED BY <1>1, <1>2 DEF Place, PipePlaces, LoadPlaces, Silent

\* A call that starts, and one that is refused.
LEMMA BeginQuiet ==
    ASSUME TypeOK, NEW t \in Thread, Begin(t)
    PROVE  /\ Place(t)' /\ Alone(t) /\ CanEnter(t) /\ Silent(call'[t])
           /\ UNCHANGED <<graphs, graph, fw>>
           /\ \/ dmm' = dmm
              \/ \E d \in Device \ live : dmm' = [dmm EXCEPT ![d] = None]
<1> DEFINE Quiet ==
             /\ Place(t)' /\ Alone(t) /\ CanEnter(t) /\ Silent(call'[t])
             /\ UNCHANGED <<graphs, graph, fw>>
             /\ \/ dmm' = dmm
                \/ \E d \in Device \ live : dmm' = [dmm EXCEPT ![d] = None]
<1> SUFFICES Quiet
  OBVIOUS
<1> USE DEF CanEnter, Refuse
<1> USE AnswerPlace, EnterPlace
<1>1. ASSUME NEW d \in Device, OpenDevice(t, d) PROVE Quiet
  BY <1>1 DEF OpenDevice
<1>2. ASSUME NEW d \in Device, CloseDevice(t, d) PROVE Quiet
  BY <1>2 DEF CloseDevice
<1>3. ASSUME NEW d \in Device, AllocateGraph(t, d) PROVE Quiet
  BY <1>3 DEF AllocateGraph
<1>4. CASE OpenDeviceFails(t)
  BY <1>4 DEF OpenDeviceFails
<1>5. ASSUME NEW g \in Graph, DeallocateGraph(t, g) PROVE Quiet
  BY <1>5 DEF DeallocateGraph
<1>6. ASSUME NEW g \in Graph, SetGraphOption(t, g) PROVE Quiet
  BY <1>6 DEF SetGraphOption
<1>7. ASSUME NEW d \in Device, GetDeviceOption(t, d) PROVE Quiet
  BY <1>7 DEF GetDeviceOption
<1>8. ASSUME NEW g \in Graph, NEW x \in Tag, t \in Loader, LoadTensor(t, g, x)
      PROVE  Quiet
  BY <1>8 DEF LoadTensor
<1>9. ASSUME NEW g \in Graph, GetResult(t, g) PROVE Quiet
  BY <1>9 DEF GetResult
<1> HIDE AnswerPlace, EnterPlace
<1> QED BY <1>1, <1>2, <1>3, <1>4, <1>5, <1>6, <1>7, <1>8, <1>9 DEF Begin

LEMMA BeginPipe ==
    ASSUME TypeOK, TypeOK', Inv, Inv', Pipeline, NEW t \in Thread, Begin(t)
    PROVE  Pipeline'
<1>1. /\ Place(t)' /\ Alone(t) /\ CanEnter(t)
      /\ UNCHANGED <<graphs, graph, fw>>
      /\ \/ dmm' = dmm
         \/ \E d \in Device \ live : dmm' = [dmm EXCEPT ![d] = None]
  BY BeginQuiet
<1>2. Kept
  <2>1. \A g : graph[g].failed => graph'[g].failed
    BY <1>1
  <2>2. pc[t] # "gr_late_store"
    BY <1>1 DEF CanEnter
  <2>3. \A g : Sound(g)' => Sound(g)
    BY <1>1, <2>1, <2>2, StillSound
  <2> QED BY <1>1, <2>3 DEF Kept, SamePipe
<1>3. ASSUME NEW d \in Device, graphs'[d] # {}
      PROVE  dmm'[d] = dmm[d] /\ dmm[d] # t
  <2>1. d \in live
    BY <1>1, <1>3 DEF Inv, Registry
  <2>2. dmm[d] # t
    BY <1>1, NotHolder DEF CanEnter, HoldsDmm
  <2> QED BY <1>1, <2>1, <2>2 DEF TypeOK, Types
<1> QED BY <1>1, <1>2, <1>3, QuietStep

\* have_data counts what the stick has, but for a call that is about to store.
LEMMA HaveData ==
    ASSUME TypeOK, Inv, Pipeline, NEW d \in Device, NEW g \in graphs[d], Sound(g)
    PROVE  graph[g].have_data \in 0..2
<1> DEFINE n == graph[g].have_data
           u == dmm[d]
<1>1. n \in Int /\ Count(d, g) \in 0..2
  BY PipeTypes DEF Pipeline, Pipe, Agree, TypeOK, Types, GraphState
<1>2. ASSUME At(d, "lt_store") \/ At(d, "gr_aux") \/ At(d, "gr_store")
      PROVE  /\ u \in Thread /\ Known(u) /\ call[u].g = g
             /\ pc[u] \in {"lt_store", "gr_aux", "gr_store"}
  <2>1. u \in Thread /\ pc[u] \in {"lt_store", "gr_aux", "gr_store"}
    BY <1>2 DEF At, TypeOK, Types
  <2>2. call[u].d = d
    BY <2>1 DEF Inv, LockDiscipline
  <2>3. call[u].g \in graphs[d]
    BY <2>1, <2>2 DEF Inv, NoUseAfterFree, UsesGraph
  <2>4. call[u].g = g
    BY <2>3, OneGraph
  <2> QED BY <2>1, <2>4 DEF Pipeline, Place, PipePlaces
<1>3. CASE At(d, "lt_store")
  <2>1. n < 2 /\ n >= 0
    BY <1>2, <1>3 DEF At, Known
  <2> QED BY <1>1, <2>1
<1>4. CASE At(d, "gr_aux") \/ At(d, "gr_store")
  <2>1. n <= 2 /\ Count(d, g) = n - 1
    BY <1>2, <1>4 DEF At, Known, Count
  <2> QED BY <1>1, <2>1
<1>5. CASE Calm(d)
  BY <1>1, <1>5 DEF Calm, Count
<1> QED BY <1>3, <1>4, <1>5 DEF Calm

\* Under mm.
LEMMA QuietUnderMm ==
    ASSUME TypeOK, TypeOK', Inv, Inv', Pipeline, NEW t \in Thread, Alone(t),
           pc[t] \notin HoldsDmm, dmm' = dmm, Kept, Place(t)',
           \A d \in Device : graphs'[d] \subseteq graphs[d]
    PROVE  Pipeline'
BY NotHolder, QuietStep

\* Taking the mutex of a device.
LEMMA QuietLock ==
    ASSUME TypeOK, TypeOK', Inv, Inv', Pipeline, NEW t \in Thread, Alone(t),
           pc[t] \in HoldsMm \ {"gr_late_store"}, LockDmm(t), Place(t)',
           pc'[t] \notin {"lt_store", "gr_aux", "gr_store"},
           UNCHANGED <<graphs, graph, fw>>
    PROVE  Pipeline'
<1>1. Kept
  BY KeptUntouched DEF Untouched, SamePipe
<1>2. ASSUME NEW d \in Device
      PROVE  \/ dmm'[d] = dmm[d] /\ dmm[d] # t
             \/ Calm(d) /\ Calm(d)'
  <2>1. pc[t] \notin HoldsDmm
    BY DEF HoldsMm, HoldsDmm
  <2>2. CASE d # call[t].d
    BY <2>1, <2>2, NotHolder DEF LockDmm, TypeOK, Types
  <2>3. CASE d = call[t].d
    BY <2>3 DEF LockDmm, Calm, At, TypeOK, Types
  <2> QED BY <2>2, <2>3
<1> QED BY <1>1, <1>2, QuietStep

\* Under the mutex of a device, and releasing it.
LEMMA QuietUnderDmm ==
    ASSUME TypeOK, TypeOK', Inv, Inv', Pipeline, NEW t \in Thread, Alone(t),
           pc[t] \in HoldsDmm \ {"lt_store", "gr_aux", "gr_store"},
           \/ ReleaseDmm(t)
           \/ dmm' = dmm /\ pc'[t] \notin {"lt_store", "gr_aux", "gr_store"},
           Place(t)', \A g \in Graph : Untouched(g), UNCHANGED <<graphs, fw>>
    PROVE  Pipeline'
<1>1. Kept
  BY KeptUntouched DEF HoldsDmm
<1>2. ASSUME NEW d \in Device
      PROVE  \/ dmm'[d] = dmm[d] /\ dmm[d] # t
             \/ Calm(d) /\ Calm(d)'
  <2>1. CASE d # call[t].d
    BY <2>1, Holder DEF ReleaseDmm, TypeOK, Types
  <2>2. CASE d = call[t].d
    <3>1. Calm(d)
      BY <2>2, Holder DEF Calm
    <3>2. Calm(d)'
      BY <2>2, Holder DEF Calm, At, ReleaseDmm, TypeOK, Types
    <3> QED BY <3>1, <3>2
  <2> QED BY <2>1, <2>2
<1> QED BY <1>1, <1>2, QuietStep

LEMMA FreeKeeps ==
    ASSUME TypeOK, TypeOK', Inv, NEW t \in Thread, Alone(t),
           pc[t] # "gr_late_store", NEW d \in Device, NEW S, FreeGraphs(d, S),
           \/ fw' = fw
           \/ fw' = [fw EXCEPT ![d] = IdleFirmware] /\ graphs[d] \subseteq S
    PROVE  Kept /\ \A e \in Device : graphs'[e] \subseteq graphs[e]
<1>1. /\ graphs' = [graphs EXCEPT ![d] = @ \ (S \cap graphs[d])]
      /\ \A g \in Graph : g \notin S \cap graphs[d] => graph'[g] = graph[g]
  BY DEF FreeGraphs, TypeOK, Types
<1>2. \A e \in Device : graphs'[e] \subseteq graphs[e]
  BY <1>1 DEF TypeOK, Types
<1>3. ASSUME NEW e \in Device, NEW g \in graphs[e] \cap graphs'[e]
      PROVE  (Sound(g)' => Sound(g)) /\ SamePipe(g) /\ fw'[e] = fw[e]
  <2>1. g \in Graph /\ g \notin S \cap graphs[d]
    <3>1. e = d => g \notin S \cap graphs[d]
      BY <1>1, <1>3 DEF TypeOK, Types
    <3> QED BY <1>3, <3>1, OneDevice DEF TypeOK, Types
  <2>2. fw'[e] = fw[e]
    <3>1. e = d => fw' = fw
      BY <1>3, <2>1
    <3> QED BY <3>1 DEF TypeOK, Types
  <2>3. SamePipe(g) /\ (graph[g].failed => graph'[g].failed)
    BY <1>1, <2>1 DEF SamePipe
  <2> QED BY <2>2, <2>3, StillSound
<1> QED BY <1>2, <1>3 DEF Kept

\* The steps of Continue that leave every pipeline alone.
LEMMA QuietContinue ==
    ASSUME TypeOK, TypeOK', Inv, Inv', Pipeline, NEW t \in Thread,
           \/ CloseFree(t) \/ AllocateFails(t) \/ DeallocateFree(t)
           \/ OptionLock(t) \/ \E v \in BOOLEAN : SetDontBlock(t, v)
           \/ GetOptimisationList(t) \/ LoadSendOptions(t) \/ LoadCheck(t)
           \/ LoadLock(t) \/ LoadBegin(t) \/ GetCheck(t) \/ GetLock(t)
           \/ GetOutputFails(t)
    PROVE  Pipeline'
<1>p. Place(t) /\ call[t] \in CallState
  BY CallFacts DEF Pipeline
<1>l. pc[t] # "gr_late_store"
  BY DEF CloseFree, AllocateFails, DeallocateFree, OptionLock, SetDontBlock,
         GetOptimisationList, LoadSendOptions, LoadCheck, LoadLock, LoadBegin,
         GetCheck, GetLock, GetOutputFails
<1>k. (/\ Alone(t)
       /\ UNCHANGED <<graphs, fw>>
       /\ \A g \in Graph : Untouched(g))
        => Kept /\ \A d \in Device : graphs'[d] \subseteq graphs[d]
  BY <1>l, KeptUntouched
<1>s. graph' = graph => \A g \in Graph : Untouched(g)
  BY DEF Untouched, SamePipe
<1>z. graph' = graph /\ Alone(t) => \A g : Sound(g)' => Sound(g)
  BY <1>l, StillSound
<1>u. ASSUME pc[t] \in UsesGraph, pc[t] \in HoldsMm, Sound(call[t].g)
      PROVE  graph[call[t].g].have_data \in 0..2
  BY <1>u, HaveData DEF TypeOK, Handles, Inv, NoUseAfterFree
<1>1. CASE CloseFree(t)
  <2>1. call[t].d \in Device /\ pc[t] \notin HoldsDmm
    BY <1>1 DEF CloseFree, TypeOK, Handles, HoldsMm, HoldsDmm
  <2>2. Kept /\ \A d \in Device : graphs'[d] \subseteq graphs[d]
    BY <1>1, <1>l, <2>1, FreeKeeps, ReturnPlace DEF CloseFree, SetFw
  <2> QED BY <1>1, <2>1, <2>2, ReturnPlace, QuietUnderMm DEF CloseFree
<1>2. CASE AllocateFails(t)
  <2>1. pc[t] \notin HoldsDmm /\ Place(t)' /\ Alone(t)
    BY <1>2, ReturnPlace DEF AllocateFails, HoldsDmm
  <2> QED BY <1>2, <1>k, <1>s, <2>1, QuietUnderMm DEF AllocateFails
<1>3. CASE DeallocateFree(t)
  <2>1. call[t].d \in Device /\ pc[t] \notin HoldsDmm
    BY <1>3 DEF DeallocateFree, TypeOK, Handles, HoldsMm, HoldsDmm
  <2>2. Kept /\ \A d \in Device : graphs'[d] \subseteq graphs[d]
    BY <1>3, <1>l, <2>1, FreeKeeps, ReturnPlace DEF DeallocateFree
  <2> QED BY <1>3, <2>1, <2>2, ReturnPlace, QuietUnderMm DEF DeallocateFree
<1>4. CASE OptionLock(t)
  <2>1. /\ pc[t] \in HoldsMm \ {"gr_late_store"}
        /\ pc'[t] \in {"so_set", "go_list"} /\ Alone(t)
    BY <1>4 DEF OptionLock, Goto, HoldsMm, Alone, TypeOK, Types
  <2>2. Place(t)'
    BY <1>4, <1>p, <2>1 DEF OptionLock, Place, PipePlaces, LoadPlaces, HoldsMm
  <2> QED BY <1>4, <2>1, <2>2, QuietLock DEF OptionLock
<1>5. ASSUME NEW v \in BOOLEAN, SetDontBlock(t, v) PROVE Pipeline'
  <2>1. call[t].g \in Graph
    BY <1>5, CallFacts DEF SetDontBlock, UsesGraph
  <2>2. \A g \in Graph : Untouched(g)
    BY <1>5, <2>1
    DEF SetDontBlock, SetGraph, Untouched, SamePipe, TypeOK, Types, GraphState
  <2>3. pc[t] \in HoldsDmm \ {"lt_store", "gr_aux", "gr_store"}
    BY <1>5 DEF SetDontBlock, HoldsDmm
  <2> QED BY <1>5, <2>2, <2>3, ReturnPlace, QuietUnderDmm DEF SetDontBlock
<1>6. CASE GetOptimisationList(t)
  <2>1. pc[t] \in HoldsDmm \ {"lt_store", "gr_aux", "gr_store"}
    BY <1>6 DEF GetOptimisationList, HoldsDmm
  <2>2. Place(t)' /\ Alone(t)
    BY <1>6, ReturnPlace DEF GetOptimisationList
  <2> QED BY <1>6, <1>s, <2>1, <2>2, QuietUnderDmm DEF GetOptimisationList
<1>7. CASE LoadSendOptions(t)
  <2>1. call[t].g \in Graph /\ pc[t] \notin HoldsDmm
    BY <1>7, CallFacts DEF LoadSendOptions, UsesGraph, HoldsDmm
  <2>2. \A g \in Graph : Untouched(g)
    <3>1. CASE graph' = graph
      BY <1>s, <3>1
    <3>2. CASE SetGraph(call[t].g, [graph[call[t].g] EXCEPT !.started = TRUE])
      BY <2>1, <3>2 DEF SetGraph, Untouched, SamePipe, TypeOK, Types, GraphState
    <3> QED BY <1>7, <3>1, <3>2 DEF LoadSendOptions
  <2>3. Place(t)' /\ Alone(t)
    <3>1. CASE Return(t, "ERROR")
      BY <3>1, ReturnPlace
    <3>2. CASE Goto(t, "lt_check") /\ call' = call
      <4>1. pc'[t] = "lt_check" /\ Alone(t)
        BY <3>2 DEF Goto, Alone, TypeOK, Types
      <4> QED
        BY <1>7, <1>p, <3>2, <4>1 DEF LoadSendOptions, Place, PipePlaces, LoadPlaces
    <3> QED BY <1>7, <3>1, <3>2 DEF LoadSendOptions
  <2> QED BY <1>7, <1>k, <2>1, <2>2, <2>3, QuietUnderMm DEF LoadSendOptions
<1>8. CASE LoadCheck(t)
  <2>1. pc[t] = "lt_check" /\ pc[t] \notin HoldsDmm /\ graph' = graph
    BY <1>8 DEF LoadCheck, HoldsDmm
  <2>2. Place(t)' /\ Alone(t)
    <3>1. CASE \E s \in Status : Return(t, s)
      BY <3>1, ReturnPlace
    <3>2. CASE Goto(t, "lt_dmm") /\ call' = call /\ graph[call[t].g].have_data # 2
      <4>1. pc'[t] = "lt_dmm" /\ Alone(t)
        BY <3>2 DEF Goto, Alone, TypeOK, Types
      <4>2. Sound(call[t].g) => graph[call[t].g].have_data < 2
        BY <1>u, <2>1, <3>2 DEF UsesGraph, HoldsMm
      <4>3. Sound(call[t].g)' => Known(t)'
        BY <1>z, <2>1, <3>2, <4>1, <4>2 DEF Known
      <4> QED BY <1>p, <2>1, <3>2, <4>1, <4>3 DEF Place, LoadPlaces
    <3>3. CASE Goto(t, "lt_sleep") /\ call' = call
      <4>1. pc'[t] = "lt_sleep" /\ Alone(t)
        BY <3>3 DEF Goto, Alone, TypeOK, Types
      <4> QED BY <1>p, <2>1, <3>3, <4>1 DEF Place, PipePlaces, LoadPlaces
    <3> QED BY <1>8, <3>1, <3>2, <3>3 DEF LoadCheck, Status
  <2> QED BY <1>8, <1>k, <1>s, <2>1, <2>2, QuietUnderMm DEF LoadCheck
<1>9. CASE LoadLock(t)
  <2>1. pc[t] = "lt_dmm" /\ pc[t] \in HoldsMm /\ pc'[t] = "lt_put" /\ Alone(t)
    BY <1>9 DEF LoadLock, Goto, HoldsMm, Alone, TypeOK, Types
  <2>2. Place(t)'
    <3>1. graph' = graph /\ call' = call
      BY <1>9 DEF LoadLock
    <3>2. Sound(call[t].g)' => Known(t)
      BY <1>p, <1>z, <2>1, <3>1 DEF Place, PipePlaces
    <3>3. Sound(call[t].g)' => Known(t)'
      BY <2>1, <3>1, <3>2 DEF Known
    <3> QED BY <1>p, <2>1, <3>1, <3>3 DEF Place, LoadPlaces
  <2> QED BY <1>9, <2>1, <2>2, QuietLock DEF LoadLock
<1>10. CASE LoadBegin(t)
  <2>1. /\ pc[t] = "lt_put" /\ pc[t] \in HoldsDmm \ {"lt_store", "gr_aux", "gr_store"}
        /\ pc'[t] = "lt_xfer" /\ Alone(t) /\ graph' = graph
        /\ call'[t] = [call[t] EXCEPT !.ready = HostReadyOnLoad(call[t].g)]
    BY <1>10 DEF LoadBegin, Goto, SetCall, HoldsDmm, Alone, TypeOK, Types
  <2>2. /\ call'[t].ready = (graph[call[t].g].have_data = 0)
        /\ call'[t].g = call[t].g /\ call'[t].tag = call[t].tag
        /\ call'[t].rc = call[t].rc
    BY <1>p, <2>1 DEF CallState, HostReadyOnLoad
  <2>3. Place(t)'
    <3>1. Sound(call[t].g)' => Known(t)
      BY <1>p, <1>z, <2>1, <2>2 DEF Place, PipePlaces
    <3>2. Sound(call[t].g)' => Known(t)'
      BY <2>1, <2>2, <3>1 DEF Known
    <3> QED BY <1>p, <2>1, <2>2, <3>2 DEF Place, LoadPlaces
  <2> QED BY <1>10, <1>s, <2>1, <2>3, QuietUnderDmm DEF LoadBegin
<1>11. CASE GetCheck(t)
  <2>1. pc[t] = "gr_check" /\ pc[t] \notin HoldsDmm /\ graph' = graph
    BY <1>11 DEF GetCheck, HoldsDmm
  <2>2. Place(t)' /\ Alone(t)
    <3>1. CASE \E s \in Status : Return(t, s)
      BY <3>1, ReturnPlace
    <3>2. ASSUME NEW label \in {"gr_dmm", "gr_sleep"}, Goto(t, label), call' = call
          PROVE  Place(t)' /\ Alone(t)
      <4>1. pc'[t] = label /\ Alone(t)
        BY <3>2 DEF Goto, Alone, TypeOK, Types
      <4> QED BY <1>p, <2>1, <3>2, <4>1 DEF Place, PipePlaces, LoadPlaces
    <3> QED BY <1>11, <3>1, <3>2 DEF GetCheck, Status
  <2> QED BY <1>11, <1>k, <1>s, <2>1, <2>2, QuietUnderMm DEF GetCheck
<1>12. CASE GetLock(t)
  <2>1. pc[t] = "gr_dmm" /\ pc[t] \in HoldsMm /\ pc'[t] = "gr_out" /\ Alone(t)
    BY <1>12 DEF GetLock, Goto, HoldsMm, Alone, TypeOK, Types
  <2>2. Place(t)'
    BY <1>12, <1>p, <2>1 DEF GetLock, Place, PipePlaces, LoadPlaces
  <2> QED BY <1>12, <2>1, <2>2, QuietLock DEF GetLock
<1>13. CASE GetOutputFails(t)
  <2>1. /\ pc[t] = "gr_out" /\ pc[t] \in HoldsDmm \ {"lt_store", "gr_aux", "gr_store"}
        /\ pc'[t] = "gr_retry" /\ Alone(t) /\ graph' = graph
    BY <1>13 DEF GetOutputFails, Goto, HoldsDmm, Alone, TypeOK, Types
  <2>2. Place(t)'
    BY <1>13, <1>p, <2>1 DEF GetOutputFails, Place, PipePlaces, LoadPlaces
  <2> QED BY <1>13, <1>s, <2>1, <2>2, QuietUnderDmm DEF GetOutputFails
<1> QED BY <1>1, <1>2, <1>3, <1>4, <1>5, <1>6, <1>7, <1>8, <1>9, <1>10,
           <1>11, <1>12, <1>13

\* A call that was asleep looks its handle up again.
LEMMA WakePipe ==
    ASSUME TypeOK, TypeOK', Inv, Inv', Pipeline, NEW t \in Thread, Wake(t)
    PROVE  Pipeline'
<1>g. ASSUME NEW label, Goto(t, label), pc[t] # "idle",
             SetCall(t, [call[t] EXCEPT !.d = graph[call[t].g].dev]),
             \/ label \in {"gr_check", "gr_dmm"}
             \/ label = "lt_check" /\ pc[t] = "lt_sleep"
             \/ label = "gr_late" /\ ~InTime
      PROVE  Place(t)' /\ Alone(t)
  <2>1. pc'[t] = label /\ Alone(t)
    BY <1>g DEF Goto, SetCall, Alone, TypeOK, Types
  <2>2. call'[t] = [call[t] EXCEPT !.d = graph[call[t].g].dev]
    BY <1>g DEF SetCall, TypeOK, Types
  <2>3. /\ call'[t].rc = call[t].rc /\ call'[t].tag = call[t].tag
        /\ call'[t].output = call[t].output
        /\ call'[t].userParam = call[t].userParam
    BY <2>2, CallFacts DEF CallState
  <2>4. Place(t)
    BY DEF Pipeline
  <2> QED BY <1>g, <2>1, <2>3, <2>4 DEF Place, PipePlaces, LoadPlaces
<1>k. ASSUME Place(t)', Alone(t), UNCHANGED <<dmm, graphs, graph, fw>>, pc[t] \in Sleeping
      PROVE  Pipeline'
  <2>1. pc[t] # "gr_late_store" /\ pc[t] \notin HoldsDmm
    BY <1>k DEF Sleeping, HoldsDmm
  <2>2. Kept
    BY <1>k, <2>1, KeptUntouched DEF Untouched, SamePipe
  <2> QED BY <1>k, <2>1, <2>2, QuietUnderMm
<1>1. CASE GetGiveUp(t)
  <2>1. pc[t] = "gr_retry" /\ ~InTime /\ UNCHANGED <<dmm, graphs, graph, fw>>
    BY <1>1 DEF GetGiveUp, InTime
  <2>2. Place(t)' /\ Alone(t)
    BY <1>1, <1>g, <2>1 DEF GetGiveUp
  <2> QED BY <1>k, <2>1, <2>2 DEF Sleeping
<1>2. CASE LoadWake(t) \/ GetWake(t)
  <2>1. pc[t] \in Sleeping /\ UNCHANGED <<dmm, graphs, graph, fw>>
    BY <1>2 DEF LoadWake, GetWake, Sleeping
  <2>2. CASE LoadWake(t)
    BY <1>g, <1>k, <2>1, <2>2, ReturnPlace DEF LoadWake
  <2>3. CASE GetWake(t)
    BY <1>g, <1>k, <2>1, <2>3, ReturnPlace DEF GetWake
  <2> QED BY <1>2, <2>2, <2>3
<1> QED BY <1>1, <1>2 DEF Wake
-----------------------------------------------------------------------------
(***************************************************************************)
(* The steps that move an inference.                                       *)
(***************************************************************************)
\* Where a call is that has the mutex of its device and its graph.
LEMMA OwnGraph ==
    ASSUME TypeOK, Inv, NEW t \in Thread, pc[t] \in HoldsDmm \cap UsesGraph
    PROVE  /\ call[t].d \in Device /\ call[t].g \in graphs[call[t].d]
           /\ call[t].g \in Graph /\ call[t] \in CallState
           /\ graph[call[t].g] \in GraphState /\ fw[call[t].d] \in FirmwareState
BY CallFacts DEF Inv, NoUseAfterFree

\* It changes nothing for the other graphs and calls.
LEMMA LoudStep ==
    ASSUME OneLoader, TypeOK, TypeOK', Inv, Inv', Pipeline, NEW t \in Thread,
           Alone(t), pc[t] \in HoldsDmm \cap UsesGraph, graphs' = graphs,
           NEW d, NEW g, d = call[t].d, g = call[t].g,
           \A e \in Device \ {d} : fw'[e] = fw[e] /\ dmm'[e] = dmm[e],
           \A h \in Graph \ {g} : graph'[h] = graph[h],
           graph[g].failed => graph'[g].failed,
           Sound(g) =>
             /\ \/ graph'[g].have_data <= graph[g].have_data
                \/ pc[t] = "lt_store"
             /\ Pipe(d, g)',
           Place(t)'
    PROVE  Pipeline'
<1>0. \A h \in Graph : Sound(h)' => Sound(h)
  <2>1. pc[t] # "gr_late_store"
    BY DEF HoldsDmm
  <2>2. \A h \in Graph : graph[h].failed => graph'[h].failed
    OBVIOUS
  <2> QED BY <2>1, <2>2, StillSound
<1>1. d \in Device /\ g \in graphs[d] /\ graphs \in [Device -> SUBSET Graph]
  BY OwnGraph DEF TypeOK, Types
<1>2. ASSUME NEW e \in Device, NEW h \in graphs'[e], Sound(h)' PROVE Pipe(e, h)'
  <2>0. Sound(h)
    BY <1>0, <1>1, <1>2
  <2>1. CASE e = d
    BY <1>1, <2>0, <2>1, OneGraph
  <2>2. CASE e # d
    <3>1. h \in Graph /\ h # g
      BY <1>1, <2>2, OneDevice
    <3>2. SamePipe(h) /\ fw'[e] = fw[e] /\ dmm'[e] = dmm[e] /\ dmm[e] # t
      BY <2>2, <3>1, Holder DEF SamePipe
    <3>3. Pipe(e, h)
      BY <2>0 DEF Pipeline
    <3> QED BY <3>2, <3>3, PipeFrame
  <2> QED BY <2>1, <2>2
<1>3. ASSUME NEW u \in Thread \ {t} PROVE Place(u)'
  <2>1. pc'[u] = pc[u] /\ call'[u] = call[u] /\ Place(u)
    BY DEF Alone, Pipeline
  <2>2. ASSUME pc[u] \in {"lt_put", "lt_xfer", "lt_store", "gr_aux", "gr_store"}
        PROVE  SamePipe(call[u].g) /\ fw'[call[u].d] = fw[call[u].d]
    <3>1. pc[u] \in HoldsDmm \cap UsesGraph
      BY <2>2 DEF HoldsDmm, UsesGraph
    <3>2. call[u].d \in Device \ {d} /\ call[u].g \in graphs[call[u].d]
      BY <3>1, Holder, OwnGraph
    <3>3. call[u].g \in Graph \ {g}
      BY <1>1, <3>2, OneDevice
    <3> QED BY <3>2, <3>3 DEF SamePipe
  <2>s. pc[u] \in PipePlaces /\ Sound(call[u].g)' => Sound(call[u].g)
    <3>1. pc[u] \in PipePlaces => call[u].g \in Graph
      BY DEF PipePlaces, TypeOK, Handles, UsesGraph
    <3> QED BY <1>0, <2>1, <3>1
  <2>3. ASSUME pc[u] \in {"lt_dmm", "lt_put"}, Sound(call[u].g)
        PROVE  graph'[call[u].g].have_data <= graph[call[u].g].have_data
    <3>1. u \in Loader /\ pc[t] # "lt_store"
      BY <2>1, <2>3 DEF Place, Pipeline, LoadPlaces, OneLoader
    <3>2. call[u].g \in Graph /\ graph[call[u].g].have_data \in Int
      BY <2>3 DEF TypeOK, Types, Handles, UsesGraph, GraphState
    <3> QED BY <2>3, <3>1, <3>2
  <2>4. pc[u] \in PipePlaces /\ Sound(call[u].g)' =>
          /\ Sound(call[u].g)
          /\ pc[u] \in {"lt_dmm", "lt_put"} =>
               graph'[call[u].g].have_data <= graph[call[u].g].have_data
          /\ pc[u] \in {"lt_xfer", "lt_store", "gr_aux", "gr_store"} =>
               SamePipe(call[u].g)
          /\ pc[u] = "gr_aux" => fw'[call[u].d] = fw[call[u].d]
    BY <2>s, <2>2, <2>3
  <2> QED BY <2>1, <2>4, PlaceFrame
<1> QED BY <1>2, <1>3 DEF Pipeline

\* Nothing is known of a graph that is not sound, but the steps of a call
\* that go on with it leave the others alone.
LEMMA UnsoundStep ==
    ASSUME OneLoader, TypeOK, TypeOK', Inv, Inv', Pipeline, NEW t \in Thread,
           ~Sound(call[t].g),
           \/ LoadTransfer(t) \/ LoadStore(t) \/ GetOutput(t) \/ GetAux(t)
           \/ GetStore(t)
    PROVE  Pipeline'
<1>0. pc[t] \in HoldsDmm \cap UsesGraph \cap
        {"lt_xfer", "lt_store", "gr_out", "gr_aux", "gr_store"}
  BY DEF LoadTransfer, LoadStore, GetOutput, GetAux, GetStore, HoldsDmm, UsesGraph
<1>1. PICK d \in Device, g \in Graph :
        d = call[t].d /\ g = call[t].g /\ g \in graphs[d]
  BY <1>0, OwnGraph
<1>2. /\ graph[g] \in GraphState /\ call[t] \in CallState
      /\ ~InTime /\ call[t].rc = "none"
      /\ pc[t] \in LoadPlaces => t \in Loader /\ call[t].tag \in Tag
  BY <1>0, <1>1, OwnGraph DEF Pipeline, Place, Sound
<1>3. /\ Alone(t) /\ graphs' = graphs
      /\ \/ fw' = fw
         \/ \E F : fw' = [fw EXCEPT ![d] = F]
      /\ dmm' = dmm \/ dmm' = [dmm EXCEPT ![d] = None]
  <2>1. Alone(t) /\ graphs' = graphs
    BY GotoAlone, ReturnAlone
    DEF LoadTransfer, LoadStore, GetOutput, GetAux, GetStore, TakeUserParam
  <2> QED BY <1>1, <2>1
          DEF LoadTransfer, LoadStore, GetOutput, GetAux, GetStore, SetFw, ReleaseDmm
<1>4. \E G : /\ graph' = [graph EXCEPT ![g] = G]
             /\ graph[g].failed => G.failed
  <2>1. CASE LoadTransfer(t) \/ GetOutput(t)
    <3>1. graph' = [graph EXCEPT ![g] = graph[g]]
      BY <1>1, <2>1 DEF LoadTransfer, GetOutput, TypeOK, Types
    <3> QED BY <3>1
  <2>2. CASE LoadStore(t)
    <3> DEFINE G == [graph[g] EXCEPT !.user_param[graph[g].input_idx] = call[t].tag,
                                     !.input_idx = 1 - @,
                                     !.have_data = call[t].hd + 1]
    <3>1. graph' = [graph EXCEPT ![g] = G]
      BY <1>1, <2>2 DEF LoadStore, SetGraph
    <3>2. G.failed = graph[g].failed
      BY <1>2 DEF GraphState
    <3> QED BY <3>1, <3>2
  <2>3. CASE GetAux(t)
    <3> DEFINE G == [graph[g] EXCEPT !.output_idx = 1 - @]
    <3>1. graph' = [graph EXCEPT ![g] = G]
      BY <1>1, <2>3 DEF GetAux, TakeUserParam, SetGraph
    <3>2. G.failed = graph[g].failed
      BY <1>2 DEF GraphState
    <3> QED BY <3>1, <3>2
  <2>4. CASE GetStore(t)
    <3> DEFINE G == [graph[g] EXCEPT !.have_data = call[t].hd - 1]
               H == [graph[g] EXCEPT !.have_data = call[t].hd - 1, !.failed = TRUE]
    <3>1. graph' = [graph EXCEPT ![g] = G] \/ graph' = [graph EXCEPT ![g] = H]
      BY <1>1, <2>4 DEF GetStore, SetGraph
    <3>2. G.failed = graph[g].failed /\ H.failed
      BY <1>2 DEF GraphState
    <3> QED BY <3>1, <3>2
  <2> QED BY <2>1, <2>2, <2>3, <2>4
<1>5. /\ \A e \in Device \ {d} : fw'[e] = fw[e] /\ dmm'[e] = dmm[e]
      /\ \A h \in Graph \ {g} : graph'[h] = graph[h]
      /\ graph[g].failed => graph'[g].failed
  BY <1>1, <1>3, <1>4 DEF TypeOK, Types
<1>6. Place(t)'
  <2>1. ~Sound(g)'
    <3>1. pc[t] # "gr_late_store"
      BY <1>0
    <3> QED BY <1>1, <1>3, <1>5, <3>1, StillSound
  <2>2. CASE LoadTransfer(t)
    <3>1. /\ pc'[t] = "lt_store" /\ pc[t] = "lt_xfer"
          /\ call'[t] = [call[t] EXCEPT !.hd = graph[call[t].g].have_data]
      BY <2>2 DEF LoadTransfer, Goto, SetCall, TypeOK, Types
    <3>2. call'[t].g = g /\ call'[t].rc = "none" /\ call'[t].tag = call[t].tag
      BY <1>1, <1>2, <3>1 DEF CallState
    <3> QED BY <1>2, <2>1, <3>1, <3>2 DEF Place, LoadPlaces
  <2>3. CASE LoadStore(t)
    BY <2>3, ReturnPlace DEF LoadStore
  <2>4. CASE GetOutput(t)
    <3>1. /\ pc'[t] = "gr_aux"
          /\ call'[t] = [call[t] EXCEPT !.output = fw[d].output,
                                        !.ready = HostReadyOnGet(g)]
      BY <1>1, <2>4 DEF GetOutput, Goto, SetCall, TypeOK, Types
    <3>2. call'[t].g = g /\ call'[t].rc = "none"
      BY <1>1, <1>2, <3>1 DEF CallState
    <3> QED BY <1>2, <2>1, <3>1, <3>2 DEF Place, LoadPlaces
  <2>5. CASE GetAux(t)
    <3>1. /\ pc'[t] = "gr_store"
          /\ \E x, n : call'[t] = [call[t] EXCEPT !.userParam = x, !.hd = n]
      BY <2>5 DEF GetAux, TakeUserParam, Goto, SetCall, TypeOK, Types
    <3>2. call'[t].g = g /\ call'[t].rc = "none"
      BY <1>1, <1>2, <3>1 DEF CallState
    <3> QED BY <1>2, <2>1, <3>1, <3>2 DEF Place, LoadPlaces
  <2>6. CASE GetStore(t)
    <3>1. pc'[t] = "idle"
      BY <2>6 DEF GetStore, ReturnResult, Goto, TypeOK, Types
    <3> QED BY <1>2, <3>1 DEF Place, PipePlaces, LoadPlaces
  <2> QED BY <2>2, <2>3, <2>4, <2>5, <2>6
<1> QED BY <1>0, <1>1, <1>3, <1>5, <1>6, LoudStep

\* A graph starts with nothing on the stick.
LEMMA AllocatePipe ==
    ASSUME TypeOK, TypeOK', Inv, Inv', Pipeline, NEW t \in Thread,
           NEW h \in Graph, AllocateFinish(t, h)
    PROVE  Pipeline'
<1>d. PICK d \in Device : d = call[t].d
  BY DEF AllocateFinish, TypeOK, Handles, HoldsMm
<1>1. /\ d \in Device /\ graphs[d] = {} /\ pc[t] \notin HoldsDmm
      /\ Place(t)' /\ Alone(t) /\ dmm' = dmm
      /\ graphs' = [graphs EXCEPT ![d] = {h}]
      /\ graph' = [graph EXCEPT ![h] = FreshGraph(d)]
      /\ fw' = [fw EXCEPT ![d] = IdleFirmware]
      /\ \A e \in Device : h \notin graphs[e]
  <2>1. d \in Device /\ graphs[d] = {} /\ pc[t] \notin HoldsDmm
    BY <1>d DEF AllocateFinish, HoldsDmm, Inv, Registry
  <2>2. graphs' = [graphs EXCEPT ![d] = {h}]
    BY <1>d, <2>1 DEF AllocateFinish
  <2> QED
    BY <1>d, <2>1, <2>2, ReturnPlace DEF AllocateFinish, SetGraph, SetFw, Available
<1>2. ASSUME NEW e \in Device, e # d, NEW g \in graphs[e]
      PROVE  (Sound(g)' => Sound(g)) /\ SamePipe(g) /\ fw'[e] = fw[e]
  <2>1. SamePipe(g) /\ fw'[e] = fw[e] /\ (graph[g].failed => graph'[g].failed)
    BY <1>1, <1>2 DEF SamePipe, TypeOK, Types
  <2>2. pc[t] # "gr_late_store"
    BY DEF AllocateFinish
  <2> QED BY <1>1, <2>1, <2>2, StillSound
<1>3. Kept
  BY <1>1, <1>2 DEF Kept
<1>4. ASSUME NEW e \in Device, NEW g \in graphs'[e], Sound(g)' PROVE Pipe(e, g)'
  <2>1. CASE e # d
    <3>1. g \in graphs[e] /\ Sound(g) /\ SamePipe(g) /\ fw'[e] = fw[e]
      BY <1>1, <1>2, <1>4, <2>1 DEF TypeOK, Types
    <3>2. dmm'[e] = dmm[e] /\ dmm[e] # t
      BY <1>1, NotHolder
    <3> QED BY <1>1, <3>1, <3>2, PipeFrame DEF Pipeline
  <2>2. CASE e = d
    <3>1. g = h /\ fw'[d] = IdleFirmware /\ graph'[h] = FreshGraph(d)
      BY <1>1, <2>2 DEF TypeOK, Types
    <3>2. Calm(d)'
      <4>1. ASSUME NEW u \in Thread, dmm[d] = u
            PROVE  pc'[u] \notin {"lt_store", "gr_aux", "gr_store"}
        <5>1. pc[u] \in HoldsDmm /\ call[u].d = d
          BY <4>1 DEF Inv, LockDiscipline
        <5>2. pc[u] \notin UsesGraph /\ u # t
          BY <1>1, <5>1 DEF Inv, NoUseAfterFree
        <5> QED BY <1>1, <5>2 DEF Alone, UsesGraph
      <4> QED BY <1>1, <4>1 DEF Calm, At, TypeOK, Types
    <3>3. /\ Count(d, h)' = 0 /\ Slot(d, h)' = 0 /\ Oldest(d, h)' = 0
          /\ Params(d, h)' = [i \in 0..1 |-> None]
      BY <3>1, <3>2 DEF Calm, Count, Slot, Oldest, Params, FreshGraph
    <3>4. Agree(IdleFirmware, 0, 0, [i \in 0..1 |-> None])
      BY AgreeIdle
    <3> QED BY <2>2, <3>1, <3>3, <3>4 DEF Pipe, Agree
  <2> QED BY <2>1, <2>2
<1> QED BY <1>1, <1>3, <1>4, PlacesKept DEF Pipeline

\* The stick runs an inference.
LEMMA FirmwarePipe ==
    ASSUME TypeOK, TypeOK', Inv, Pipeline, NEW d \in Device, FirmwareRun(d)
    PROVE  Pipeline'
<1>1. /\ UNCHANGED <<dmm, graphs, graph, pc, call>>
      /\ \A e \in Device : e # d => fw'[e] = fw[e]
      /\ fw[d].go /\ fw[d].input[fw[d].next] # None /\ fw[d].output = None
      /\ fw'[d] = [fw[d] EXCEPT !.output = fw[d].input[fw[d].next],
                                !.input[fw[d].next] = None,
                                !.next = 1 - fw[d].next, !.go = FALSE]
  BY DEF FirmwareRun, SetFw, TypeOK, Types
<1>2. ASSUME NEW u \in Thread PROVE Place(u)'
  <2>1. Place(u) /\ pc'[u] = pc[u] /\ call'[u] = call[u]
    BY <1>1 DEF Pipeline
  <2>s. Sound(call[u].g)' => Sound(call[u].g)
    BY <1>1 DEF Sound, Failed
  <2>2. pc[u] = "gr_aux" /\ Sound(call[u].g) => call[u].d \in Device \ {d}
    BY <1>1, <2>1, CallFacts DEF Place, PipePlaces, Known, HoldsDmm
  <2>3. pc[u] \in {"lt_dmm", "lt_put"} => graph[call[u].g].have_data \in Int
    BY DEF TypeOK, Types, Handles, UsesGraph, GraphState
  <2>4. SamePipe(call[u].g)
    BY <1>1 DEF SamePipe
  <2>5. pc[u] \in {"lt_dmm", "lt_put"} =>
          graph'[call[u].g].have_data <= graph[call[u].g].have_data
    BY <1>1, <2>3
  <2>6. pc[u] = "gr_aux" /\ Sound(call[u].g) => fw'[call[u].d] = fw[call[u].d]
    BY <1>1, <2>2
  <2> QED BY <2>s, <2>1, <2>4, <2>5, <2>6, PlaceFrame
<1>3. ASSUME NEW e \in Device, NEW g \in graphs'[e], Sound(g)' PROVE Pipe(e, g)'
  <2>1. /\ Count(e, g)' = Count(e, g) /\ Slot(e, g)' = Slot(e, g)
        /\ Oldest(e, g)' = Oldest(e, g) /\ Params(e, g)' = Params(e, g)
        /\ \A label : At(e, label)' = At(e, label)
    BY <1>1 DEF Count, Slot, Oldest, Params, At
  <2>2. Pipe(e, g) /\ g \in Graph
    <3>1. Sound(g)
      BY <1>1, <1>3 DEF Sound, Failed
    <3> QED BY <1>1, <3>1 DEF Pipeline, TypeOK, Types
  <2>3. CASE e # d
    BY <1>1, <2>1, <2>2, <2>3 DEF Pipe, Agree
  <2>4. CASE e = d
    <3>1. Agree(fw'[d], Count(d, g), Oldest(d, g), Params(d, g)) /\ fw'[d].output # None
      BY <1>1, <2>2, <2>4, AgreeRan, PipeTypes DEF Pipe
    <3> QED BY <2>1, <2>2, <2>4, <3>1 DEF Pipe, Agree
  <2> QED BY <2>3, <2>4
<1> QED BY <1>2, <1>3 DEF Pipeline

LEMMA LoadTransferPipe ==
    ASSUME OneLoader, TypeOK, TypeOK', Inv, Inv', Pipeline, NEW t \in Thread,
           Sound(call[t].g), LoadTransfer(t)
    PROVE  Pipeline'
<1>0. pc[t] = "lt_xfer" /\ pc[t] \in HoldsDmm \cap UsesGraph
  BY DEF LoadTransfer, HoldsDmm, UsesGraph
<1>1. PICK d \in Device, g \in Graph :
        d = call[t].d /\ g = call[t].g /\ g \in graphs[d]
  BY <1>0, OwnGraph
<1> DEFINE n == graph[g].have_data
           j == graph[g].input_idx
           i == graph[g].output_idx
           p == graph[g].user_param
           x == call[t].tag
           r == call[t].ready
<1>2. /\ g \in Graph /\ graph[g] \in GraphState /\ call[t] \in CallState
      /\ fw[d] \in FirmwareState /\ n \in 0..2 /\ j \in 0..1 /\ i \in 0..1
      /\ p \in [0..1 -> Tag \cup {None}] /\ r \in BOOLEAN
  BY <1>0, <1>1, OwnGraph, HaveData DEF GraphState, CallState
<1>3. /\ t \in Loader /\ x \in Tag /\ n < 2 /\ r = (n = 0)
      /\ call[t].rc = "none"
  BY <1>0, <1>1 DEF Pipeline, Place, Known, PipePlaces, LoadPlaces
<1>4. /\ graph' = graph /\ graphs' = graphs /\ dmm' = dmm
      /\ pc'[t] = "lt_store" /\ Alone(t)
      /\ call'[t] = [call[t] EXCEPT !.hd = n]
      /\ fw' = [fw EXCEPT ![d] = [fw[d] EXCEPT !.input[j] = x, !.go = @ \/ r]]
  BY <1>1, <1>3 DEF LoadTransfer, SetFw, SetCall, Goto, Alone, TypeOK, Types
<1>5. /\ Agree(fw[d], n, i, p) /\ i = (j + n) % 2
      /\ n > 0 => fw[d].go \/ fw[d].output # None
  <2>1. /\ Count(d, g) = n /\ Oldest(d, g) = i /\ Slot(d, g) = j /\ Params(d, g) = p
        /\ ~At(d, "gr_aux")
    BY <1>0, <1>1, Holder DEF Count, Oldest, Slot, Params
  <2> QED BY <1>1, <2>1 DEF Pipeline, Pipe
<1>6. j = (i + n) % 2 /\ i = ((1 - j) + (n + 1)) % 2
  BY <1>2, <1>3, <1>5
<1>7. /\ Agree(fw'[d], n + 1, i, [p EXCEPT ![j] = x])
      /\ n = 0 => fw'[d].go
      /\ fw[d].go => fw'[d].go
      /\ fw'[d].output = fw[d].output
  <2>1. /\ fw'[d].input = [fw[d].input EXCEPT ![j] = x] /\ fw'[d].next = fw[d].next
        /\ fw'[d].go = (fw[d].go \/ r) /\ fw'[d].output = fw[d].output
    <3>1. fw'[d] = [fw[d] EXCEPT !.input[j] = x, !.go = @ \/ r]
      BY <1>4 DEF TypeOK, Types
    <3> QED BY <1>2, <3>1 DEF FirmwareState
  <2>2. n \in Int
    BY <1>2
  <2>3. /\ fw[d] \in FirmwareState /\ i \in 0..1 /\ j \in 0..1 /\ x \in Tag
        /\ p \in [0..1 -> Tag \cup {None}] /\ r \in BOOLEAN /\ n < 2
        /\ Agree(fw[d], n, i, p) /\ j = (i + n) % 2 /\ r = (n = 0)
    BY <1>2, <1>3, <1>5, <1>6
  <2> DEFINE F == fw[d]
             H == fw'[d]
  <2>4. /\ F \in FirmwareState /\ i \in 0..1 /\ j \in 0..1 /\ x \in Tag
        /\ p \in [0..1 -> Tag \cup {None}] /\ r \in BOOLEAN /\ n < 2
        /\ Agree(F, n, i, p) /\ j = (i + n) % 2 /\ r = (n = 0)
    BY <2>3
  <2>5. /\ H.input = [F.input EXCEPT ![j] = x] /\ H.next = F.next
        /\ (H.go <=> F.go \/ n = 0) /\ H.output = F.output
    BY <2>1, <2>3
  <2> HIDE DEF n, j, i, p, x, r, F, H
  <2>6. /\ Agree(H, n + 1, i, [p EXCEPT ![j] = x])
        /\ n = 0 => H.go
        /\ F.go => H.go
        /\ H.output = F.output
    BY <2>2, <2>4, <2>5, AgreeLoaded
  <2> QED BY <2>6 DEF F, H
<1>8. call'[t].tag = x /\ call'[t].hd = n /\ call'[t].g = g /\ call'[t].rc = "none"
  BY <1>1, <1>2, <1>3, <1>4 DEF CallState
<1>9. Pipe(d, g)'
  <2>1. dmm[d] = t /\ t # None
    BY <1>0, <1>1, Holder
  <2>2. At(d, "lt_store")' /\ call'[dmm'[d]].tag = x
    BY <1>4, <1>8, <2>1 DEF At
  <2>3. ~At(d, "gr_aux")' /\ ~At(d, "gr_store")'
    BY <1>4, <2>1 DEF At
  <2>4. /\ Count(d, g)' = n + 1 /\ Oldest(d, g)' = i /\ Slot(d, g)' = 1 - j
        /\ Params(d, g)' = [p EXCEPT ![j] = x]
    BY <1>4, <2>2, <2>3 DEF Count, Oldest, Slot, Params
  <2>5. fw'[d].go \/ fw'[d].output # None
    BY <1>2, <1>5, <1>7
  <2> QED BY <1>6, <1>7, <2>4, <2>5 DEF Pipe, Agree
<1>10. Place(t)'
  BY <1>2, <1>3, <1>4, <1>8 DEF Place, Known, PipePlaces, LoadPlaces
<1> QED BY <1>0, <1>1, <1>2, <1>4, <1>9, <1>10, LoudStep DEF TypeOK, Types

LEMMA LoadStorePipe ==
    ASSUME OneLoader, TypeOK, TypeOK', Inv, Inv', Pipeline, NEW t \in Thread,
           Sound(call[t].g), LoadStore(t)
    PROVE  Pipeline'
<1>0. pc[t] = "lt_store" /\ pc[t] \in HoldsDmm \cap UsesGraph
  BY DEF LoadStore, HoldsDmm, UsesGraph
<1>1. PICK d \in Device, g \in Graph :
        d = call[t].d /\ g = call[t].g /\ g \in graphs[d]
  BY <1>0, OwnGraph
<1> DEFINE G == graph[g]
<1>2. g \in Graph /\ G \in GraphState /\ dmm[d] = t
  BY <1>0, <1>1, OwnGraph, Holder
<1>3. call[t].hd = G.have_data
  BY <1>0, <1>1 DEF Pipeline, Place, Known, PipePlaces
<1>4. /\ graphs' = graphs /\ fw' = fw /\ dmm' = [dmm EXCEPT ![d] = None]
      /\ graph' = [graph EXCEPT ![g] =
                     [G EXCEPT !.user_param[G.input_idx] = call[t].tag,
                               !.input_idx = 1 - @, !.have_data = call[t].hd + 1]]
      /\ Place(t)' /\ Alone(t)
  BY <1>1, ReturnPlace DEF LoadStore, SetGraph, ReleaseDmm
<1>5. /\ graph'[g].have_data = Count(d, g) /\ graph'[g].input_idx = Slot(d, g)
      /\ graph'[g].output_idx = Oldest(d, g) /\ graph'[g].user_param = Params(d, g)
  <2>1. At(d, "lt_store") /\ ~At(d, "gr_aux")
    BY <1>0, <1>1, Holder
  <2>2. /\ graph'[g].have_data = call[t].hd + 1
        /\ graph'[g].input_idx = 1 - G.input_idx
        /\ graph'[g].output_idx = G.output_idx
        /\ graph'[g].user_param = [G.user_param EXCEPT ![G.input_idx] = call[t].tag]
    BY <1>2, <1>4 DEF GraphState, TypeOK, Types
  <2> QED BY <1>2, <1>3, <2>1, <2>2 DEF Count, Slot, Oldest, Params
<1>6. Pipe(d, g)'
  <2>1. Calm(d)'
    BY <1>4 DEF Calm, At, TypeOK, Types
  <2>2. /\ Count(d, g)' = Count(d, g) /\ Slot(d, g)' = Slot(d, g)
        /\ Oldest(d, g)' = Oldest(d, g) /\ Params(d, g)' = Params(d, g)
    BY <1>5, <2>1 DEF Calm, Count, Slot, Oldest, Params
  <2>3. Pipe(d, g)
    BY <1>1 DEF Pipeline
  <2>a. ~At(d, "gr_aux")
    BY <1>0, <1>1, Holder
  <2>4. /\ Agree(fw[d], Count(d, g), Oldest(d, g), Params(d, g))
        /\ Oldest(d, g) = (Slot(d, g) + Count(d, g)) % 2
        /\ Count(d, g) > 0 => fw[d].go \/ fw[d].output # None
    BY <2>3, <2>a DEF Pipe
  <2>5. /\ Agree(fw[d]', Count(d, g)', Oldest(d, g)', Params(d, g)')
        /\ Oldest(d, g)' = (Slot(d, g)' + Count(d, g)') % 2
        /\ Count(d, g)' > 0 => fw[d]'.go \/ fw[d]'.output # None
    BY <1>4, <2>2, <2>4
  <2> QED BY <2>5 DEF Pipe
<1> QED BY <1>0, <1>1, <1>4, <1>6, LoudStep DEF TypeOK, Types

LEMMA GetOutputPipe ==
    ASSUME OneLoader, TypeOK, TypeOK', Inv, Inv', Pipeline, NEW t \in Thread,
           Sound(call[t].g), GetOutput(t)
    PROVE  Pipeline'
<1>0. pc[t] = "gr_out" /\ pc[t] \in HoldsDmm \cap UsesGraph
  BY DEF GetOutput, HoldsDmm, UsesGraph
<1>1. PICK d \in Device, g \in Graph :
        d = call[t].d /\ g = call[t].g /\ g \in graphs[d]
  BY <1>0, OwnGraph
<1> DEFINE n == graph[g].have_data
           j == graph[g].input_idx
           i == graph[g].output_idx
           p == graph[g].user_param
<1>2. /\ g \in Graph /\ graph[g] \in GraphState /\ call[t] \in CallState
      /\ fw[d] \in FirmwareState /\ n \in 0..2 /\ j \in 0..1 /\ i \in 0..1
      /\ p \in [0..1 -> Tag \cup {None}]
  BY <1>0, <1>1, OwnGraph, HaveData DEF GraphState
<1>3. call[t].rc = "none"
  BY <1>0 DEF Pipeline, Place, Known, PipePlaces
<1>4. /\ graph' = graph /\ graphs' = graphs /\ dmm' = dmm
      /\ pc'[t] = "gr_aux" /\ Alone(t)
      /\ call'[t] = [call[t] EXCEPT !.output = fw[d].output, !.ready = (n = 2)]
      /\ fw[d].output # None
      /\ fw' = [fw EXCEPT ![d] = [fw[d] EXCEPT !.output = None]]
  BY <1>1 DEF GetOutput, HostReadyOnGet, SetFw, SetCall, Goto, Alone, TypeOK, Types
<1>5. Agree(fw[d], n, i, p) /\ i = (j + n) % 2
  <2>1. /\ Count(d, g) = n /\ Oldest(d, g) = i /\ Slot(d, g) = j /\ Params(d, g) = p
    BY <1>0, <1>1, Holder DEF Count, Oldest, Slot, Params
  <2> QED BY <1>1, <2>1 DEF Pipeline, Pipe
<1>6. n > 0 /\ 1 - i = (j + (n - 1)) % 2
  <2>1. n > 0
    BY <1>2, <1>4, <1>5 DEF Agree
  <2> HIDE DEF n, i, j, p
  <2>2. n = 1 \/ n = 2
    BY <1>2, <2>1
  <2>3. CASE n = 1
    BY <1>2, <1>5, <2>3
  <2>4. CASE n = 2
    BY <1>2, <1>5, <2>4
  <2> QED BY <2>1, <2>2, <2>3, <2>4
<1>7. /\ Agree(fw'[d], n - 1, 1 - i, p)
      /\ fw[d].output = p[i] /\ fw'[d].output = None /\ ~fw'[d].go
  <2> DEFINE F == fw[d]
             H == fw'[d]
  <2>1. H.input = F.input /\ H.next = F.next /\ (H.go <=> F.go) /\ H.output = None
    BY <1>2, <1>4 DEF FirmwareState, TypeOK, Types
  <2>2. n \in Int /\ F.output # None /\ F \in FirmwareState /\ Agree(F, n, i, p)
    BY <1>2, <1>4, <1>5
  <2> HIDE DEF F, H, n, i, j, p
  <2>3. Agree(H, n - 1, 1 - i, p) /\ F.output = p[i] /\ ~H.go
    BY <1>2, <2>1, <2>2, AgreeTaken
  <2> QED BY <2>1, <2>3 DEF F, H
<1>8. /\ call'[t].output = p[i] /\ call'[t].ready = (n = 2) /\ call'[t].g = g
      /\ call'[t].d = d /\ call'[t].rc = "none"
  BY <1>1, <1>2, <1>3, <1>4, <1>7 DEF CallState
<1>9. Pipe(d, g)'
  <2>1. dmm[d] = t /\ t # None
    BY <1>0, <1>1, Holder
  <2>2. At(d, "gr_aux")' /\ ~At(d, "lt_store")' /\ call'[dmm'[d]].ready = (n = 2)
    BY <1>4, <1>8, <2>1 DEF At
  <2>3. /\ Count(d, g)' = n - 1 /\ Oldest(d, g)' = 1 - i /\ Slot(d, g)' = j
        /\ Params(d, g)' = p
    BY <1>4, <2>2 DEF Count, Oldest, Slot, Params
  <2>4. n - 1 > 0 => n = 2
    BY <1>2
  <2> QED BY <1>6, <1>7, <2>2, <2>3, <2>4 DEF Pipe, Agree
<1>10. Place(t)'
  BY <1>2, <1>4, <1>7, <1>8 DEF Place, Known, PipePlaces, LoadPlaces
<1> QED BY <1>0, <1>1, <1>2, <1>4, <1>9, <1>10, LoudStep DEF TypeOK, Types

LEMMA GetAuxPipe ==
    ASSUME OneLoader, TypeOK, TypeOK', Inv, Inv', Pipeline, NEW t \in Thread,
           Sound(call[t].g), GetAux(t)
    PROVE  Pipeline'
<1>0. pc[t] = "gr_aux" /\ pc[t] \in HoldsDmm \cap UsesGraph
  BY DEF GetAux, HoldsDmm, UsesGraph
<1>1. PICK d \in Device, g \in Graph :
        d = call[t].d /\ g = call[t].g /\ g \in graphs[d]
  BY <1>0, OwnGraph
<1> DEFINE n == graph[g].have_data
           j == graph[g].input_idx
           i == graph[g].output_idx
           p == graph[g].user_param
           r == call[t].ready
<1>2. /\ g \in Graph /\ graph[g] \in GraphState /\ call[t] \in CallState
      /\ fw[d] \in FirmwareState /\ n \in 0..2 /\ j \in 0..1 /\ i \in 0..1
      /\ p \in [0..1 -> Tag \cup {None}] /\ r \in BOOLEAN
  BY <1>0, <1>1, OwnGraph, HaveData DEF GraphState, CallState
<1>3. /\ call[t].rc = "none" /\ r = (n = 2) /\ call[t].output = p[i]
      /\ fw[d].output = None
  BY <1>0, <1>1 DEF Pipeline, Place, Known, PipePlaces
<1>4. /\ graphs' = graphs /\ dmm' = dmm
      /\ pc'[t] = "gr_store" /\ Alone(t)
      /\ call'[t] = [call[t] EXCEPT !.userParam = p[i], !.hd = n]
      /\ graph' = [graph EXCEPT ![g] = [graph[g] EXCEPT !.output_idx = 1 - i]]
      /\ fw' = [fw EXCEPT ![d] = [fw[d] EXCEPT !.go = @ \/ r]]
  BY <1>1 DEF GetAux, TakeUserParam, SetGraph, SetFw, SetCall, Goto, Alone,
              TypeOK, Types
<1>5. /\ Agree(fw[d], n - 1, 1 - i, p) /\ 1 - i = (j + (n - 1)) % 2
      /\ n - 1 > 0 => r
  <2>1. /\ Count(d, g) = n - 1 /\ Oldest(d, g) = 1 - i /\ Slot(d, g) = j
        /\ Params(d, g) = p
    <3>1. At(d, "gr_aux") /\ ~At(d, "lt_store")
      BY <1>0, <1>1, Holder
    <3>2. Count(d, g) = n - 1 /\ Oldest(d, g) = 1 - i
      BY <3>1 DEF Count, Oldest
    <3>3. Slot(d, g) = j /\ Params(d, g) = p
      BY <3>1 DEF Slot, Params
    <3> QED BY <3>2, <3>3
  <2>2. n - 1 > 0 => n = 2
    BY <1>2
  <2> QED BY <1>1, <1>3, <2>1, <2>2 DEF Pipeline, Pipe
<1>6. Agree(fw'[d], n - 1, 1 - i, p) /\ (r => fw'[d].go)
  <2> DEFINE F == fw[d]
             H == fw'[d]
             m == n - 1
             k == 1 - i
  <2>1. /\ H.input = F.input /\ H.next = F.next /\ (H.go <=> F.go \/ r)
        /\ H.output = F.output
    <3>1. H = [F EXCEPT !.go = @ \/ r]
      BY <1>4 DEF TypeOK, Types
    <3> QED BY <1>2, <3>1 DEF FirmwareState
  <2>2. m \in Int /\ k \in 0..1 /\ (r => m > 0)
    <3>1. r => n = 2
      BY <1>3
    <3>2. n = 2 => m > 0
      OBVIOUS
    <3> QED BY <1>2, <3>1, <3>2
  <2>3. /\ F.output = None /\ F \in FirmwareState /\ Agree(F, m, k, p)
        /\ p \in [0..1 -> Tag \cup {None}]
    BY <1>2, <1>3, <1>5
  <2> HIDE DEF F, H, m, k, r, p
  <2>4. Agree(H, m, k, p)
    BY <2>1, <2>2, <2>3, AgreeTold
  <2> QED BY <2>1, <2>4 DEF F, H, m, k
<1>7. /\ call'[t].userParam = p[i] /\ call'[t].output = p[i] /\ call'[t].g = g
      /\ call'[t].hd = n /\ call'[t].rc = "none"
  BY <1>1, <1>2, <1>3, <1>4 DEF CallState
<1>8. /\ graph'[g].have_data = n /\ graph'[g].input_idx = j
      /\ graph'[g].output_idx = 1 - i /\ graph'[g].user_param = p
  BY <1>2, <1>4 DEF TypeOK, Types, GraphState
<1>9. Pipe(d, g)'
  <2>1. dmm[d] = t /\ t # None
    BY <1>0, <1>1, Holder
  <2>2. At(d, "gr_store")' /\ ~At(d, "lt_store")' /\ ~At(d, "gr_aux")'
    BY <1>4, <2>1 DEF At
  <2>3. /\ Count(d, g)' = n - 1 /\ Oldest(d, g)' = 1 - i /\ Slot(d, g)' = j
        /\ Params(d, g)' = p
    BY <1>8, <2>2 DEF Count, Oldest, Slot, Params
  <2> QED BY <1>5, <1>6, <2>3 DEF Pipe, Agree
<1>10. Place(t)'
  <2>1. 1 - (1 - i) = i /\ n <= 2
    BY <1>2
  <2> DEFINE c == call'[t]
             G == graph'[c.g]
  <2>2. /\ c.hd = G.have_data /\ G.have_data <= 2
        /\ c.output = G.user_param[1 - G.output_idx]
        /\ c.userParam = c.output /\ c.rc = "none"
    BY <1>7, <1>8, <2>1
  <2> HIDE DEF c, G
  <2>3. pc'[t] = "gr_store"
    BY <1>4
  <2> QED BY <2>2, <2>3 DEF Place, Known, PipePlaces, LoadPlaces, c, G
<1>11. /\ \A e \in Device \ {d} : fw'[e] = fw[e] /\ dmm'[e] = dmm[e]
       /\ \A h \in Graph \ {g} : graph'[h] = graph[h]
  BY <1>2, <1>4 DEF TypeOK, Types
<1>12. graph'[g].have_data <= graph[g].have_data
  BY <1>2, <1>8
<1>13. Alone(t) /\ graphs' = graphs /\ (graph[g].failed => graph'[g].failed)
  <2>1. graph'[g].failed = graph[g].failed
    BY <1>2, <1>4 DEF TypeOK, Types, GraphState
  <2> QED BY <1>4, <2>1
<1> HIDE DEF n, j, i, p, r
<1> QED BY <1>0, <1>1, <1>9, <1>10, <1>11, <1>12, <1>13, LoudStep

LEMMA GetStorePipe ==
    ASSUME OneLoader, TypeOK, TypeOK', Inv, Inv', Pipeline, NEW t \in Thread,
           Sound(call[t].g), GetStore(t)
    PROVE  Pipeline'
<1>0. pc[t] = "gr_store" /\ pc[t] \in HoldsDmm \cap UsesGraph
  BY DEF GetStore, HoldsDmm, UsesGraph
<1>1. PICK d \in Device, g \in Graph :
        d = call[t].d /\ g = call[t].g /\ g \in graphs[d]
  BY <1>0, OwnGraph
<1> DEFINE G == graph[g]
<1>2. g \in Graph /\ G \in GraphState /\ dmm[d] = t /\ call[t] \in CallState
  BY <1>0, <1>1, OwnGraph, Holder
<1>3. call[t].hd = G.have_data /\ call[t].userParam = call[t].output
  BY <1>0, <1>1 DEF Pipeline, Place, Known, PipePlaces
<1>4. PICK s \in {"OK", "MYRIAD_ERROR"} : ReturnResult(t, s)
  BY DEF GetStore
<1>5. pc'[t] = "idle" /\ call'[t].output = call'[t].userParam /\ Alone(t)
  BY <1>3, <1>4 DEF ReturnResult, Goto, SetCall, NoCall, Alone, TypeOK, Types
<1>6. Place(t)'
  BY <1>5 DEF Place, Known, PipePlaces, LoadPlaces
<1>7. PICK f \in BOOLEAN :
        /\ G.failed => f
        /\ graph' = [graph EXCEPT ![g] =
                       [G EXCEPT !.have_data = G.have_data - 1, !.failed = f]]
  <2>1. CASE SetGraph(g, [G EXCEPT !.have_data = call[t].hd - 1])
    <3>1. [G EXCEPT !.have_data = call[t].hd - 1]
            = [G EXCEPT !.have_data = G.have_data - 1, !.failed = G.failed]
      BY <1>2, <1>3 DEF GraphState
    <3> QED BY <1>2, <2>1, <3>1 DEF SetGraph, GraphState
  <2>2. CASE SetGraph(g, [G EXCEPT !.have_data = call[t].hd - 1, !.failed = TRUE])
    BY <1>3, <2>2 DEF SetGraph
  <2> QED BY <1>1, <2>1, <2>2 DEF GetStore
<1>8. /\ graphs' = graphs /\ fw' = fw /\ dmm' = [dmm EXCEPT ![d] = None]
      /\ \A h \in Graph \ {g} : graph'[h] = graph[h]
      /\ graph'[g].have_data = G.have_data - 1
      /\ graph'[g].input_idx = G.input_idx
      /\ graph'[g].output_idx = G.output_idx
      /\ graph'[g].user_param = G.user_param
      /\ G.failed => graph'[g].failed
  BY <1>1, <1>2, <1>7 DEF GetStore, ReleaseDmm, GraphState, TypeOK, Types
<1>9. Pipe(d, g)'
  <2>1. Calm(d)' /\ At(d, "gr_store") /\ ~At(d, "gr_aux") /\ ~At(d, "lt_store")
    BY <1>0, <1>1, <1>8, Holder DEF Calm, At, TypeOK, Types
  <2>2. /\ Count(d, g)' = Count(d, g) /\ Slot(d, g)' = Slot(d, g)
        /\ Oldest(d, g)' = Oldest(d, g) /\ Params(d, g)' = Params(d, g)
    BY <1>8, <2>1 DEF Calm, Count, Slot, Oldest, Params
  <2>3. Pipe(d, g)
    BY <1>1 DEF Pipeline
  <2> QED BY <1>8, <2>1, <2>2, <2>3 DEF Pipe, Agree
<1>10. graph'[g].have_data <= G.have_data
  BY <1>2, <1>8 DEF GraphState
<1> QED BY <1>0, <1>1, <1>5, <1>6, <1>8, <1>9, <1>10, LoudStep DEF TypeOK, Types
\* The auxBuffer transfer fails: the graph is marked, and no longer sound.
LEMMA GetAuxFailsPipe ==
    ASSUME TypeOK, TypeOK', Inv, Inv', Pipeline, NEW t \in Thread, GetAuxFails(t)
    PROVE  Pipeline'
<1>0. pc[t] = "gr_aux" /\ pc[t] \in HoldsDmm \cap UsesGraph /\ ~InTime
  BY DEF GetAuxFails, HoldsDmm, UsesGraph, InTime
<1>1. PICK d \in Device, g \in Graph :
        d = call[t].d /\ g = call[t].g /\ g \in graphs[d]
  BY <1>0, OwnGraph
<1>2. /\ graphs' = graphs /\ dmm' = [dmm EXCEPT ![d] = None]
      /\ graph' = [graph EXCEPT ![g] = [graph[g] EXCEPT !.failed = TRUE]]
      /\ \A e \in Device \ {d} : fw'[e] = fw[e]
      /\ Place(t)' /\ Alone(t)
  BY <1>1, ReturnPlace DEF GetAuxFails, SetGraph, SetFw, ReleaseDmm, TypeOK, Types
<1>3. ~Sound(g)'
  <2>1. graph'[g].failed
    BY <1>0, <1>1, <1>2, OwnGraph DEF GraphState, TypeOK, Types
  <2> QED BY <1>0, <2>1 DEF Sound, Failed
<1>4. ASSUME NEW e \in Device, NEW h \in graphs[e], Sound(h)'
      PROVE  /\ Sound(h) /\ SamePipe(h) /\ fw'[e] = fw[e]
             /\ dmm'[e] = dmm[e] /\ dmm[e] # t
  <2>1. h # g
    BY <1>3, <1>4
  <2>2. e # d
    BY <1>1, <2>1, OneGraph
  <2>3. graph'[h] = graph[h]
    BY <1>2, <2>1 DEF TypeOK, Types
  <2>4. Sound(h)
    BY <1>0, <1>2, <1>4, <2>3, StillSound
  <2> QED BY <1>0, <1>1, <1>2, <2>2, <2>3, <2>4, Holder DEF SamePipe, TypeOK, Types
<1>5. Kept
  BY <1>4 DEF Kept
<1> QED BY <1>2, <1>4, <1>5, QuietStep

\* GetResult gives up, without the mutex of the device: from the toggle of
\* output_idx on, the graph is about to be marked.
LEMMA GetLatePipe ==
    ASSUME TypeOK, TypeOK', Inv, Inv', Pipeline, NEW t \in Thread,
           GetLate(t) \/ GetLateStore(t)
    PROVE  Pipeline'
<1>0. /\ pc[t] \in {"gr_late", "gr_late_store"} /\ pc[t] \in UsesGraph
      /\ pc[t] \notin HoldsDmm
  BY DEF GetLate, GetLateStore, HoldsDmm, UsesGraph
<1>1. PICK g \in Graph : g = call[t].g
  BY <1>0, CallFacts
<1>2. ~InTime /\ call[t].rc = "none" /\ call[t] \in CallState
  BY <1>0, CallFacts DEF Pipeline, Place
<1>3. /\ UNCHANGED <<dmm, graphs, fw>>
      /\ \A h \in Graph \ {g} : graph'[h] = graph[h]
  BY <1>1 DEF GetLate, GetLateStore, TakeUserParam, SetGraph, TypeOK, Types
<1>4. Place(t)' /\ Alone(t) /\ ~Sound(g)'
  <2>1. CASE GetLate(t)
    <3>1. /\ pc'[t] = "gr_late_store" /\ Alone(t)
          /\ \E x, n : call'[t] = [call[t] EXCEPT !.userParam = x, !.hd = n]
      BY <2>1 DEF GetLate, TakeUserParam, Goto, SetCall, Alone, TypeOK, Types
    <3>2. call'[t].g = g /\ call'[t].rc = "none"
      BY <1>1, <1>2, <3>1 DEF CallState
    <3>3. ~Sound(g)'
      BY <1>2, <3>1, <3>2 DEF Sound, Failed
    <3> QED BY <1>2, <3>1, <3>2, <3>3 DEF Place, PipePlaces, LoadPlaces
  <2>2. CASE GetLateStore(t)
    <3>1. pc'[t] = "idle" /\ Alone(t)
      BY <2>2 DEF GetLateStore, ReturnResult, Goto, SetCall, Alone, TypeOK, Types
    <3>2. graph' = [graph EXCEPT ![g] = [graph[g] EXCEPT !.have_data = call[t].hd - 1,
                                                        !.failed = TRUE]]
      BY <1>1, <2>2 DEF GetLateStore, SetGraph
    <3>3. graph'[g].failed
      BY <3>2 DEF TypeOK, Types, GraphState
    <3>4. ~Sound(g)'
      BY <1>2, <3>3 DEF Sound, Failed
    <3> QED BY <1>2, <3>1, <3>4 DEF Place, PipePlaces, LoadPlaces
  <2> QED BY <2>1, <2>2
<1>5. ASSUME NEW h \in Graph, Sound(h)' PROVE Sound(h) /\ SamePipe(h)
  <2>1. h # g
    BY <1>4, <1>5
  <2>2. graph'[h] = graph[h]
    BY <1>3, <2>1
  <2> QED BY <1>1, <1>4, <1>5, <2>1, <2>2, StillSound DEF SamePipe
<1>6. Kept /\ \A d \in Device : graphs'[d] \subseteq graphs[d]
  BY <1>3, <1>5 DEF Kept, TypeOK, Types
<1> QED BY <1>0, <1>3, <1>4, <1>6, QuietUnderMm
-----------------------------------------------------------------------------
LEMMA PipelineInit == Init => Pipeline
BY DEF Init, Pipeline, Place, PipePlaces, LoadPlaces, NoCall

LEMMA PipelineStep ==
    ASSUME OneLoader, "input" \notin Faults, TypeOK, TypeOK', Inv, Inv', Pipeline, [Next]_vars
    PROVE  Pipeline'
<1>1. ASSUME NEW t \in Thread, Begin(t) PROVE Pipeline'
  BY <1>1, BeginPipe
<1>2. ASSUME NEW t \in Thread, Wake(t) PROVE Pipeline'
  BY <1>2, WakePipe
<1>3. ASSUME NEW t \in Thread, Continue(t) PROVE Pipeline'
  <2>1. CASE \E g \in Graph : AllocateFinish(t, g)
    BY <2>1, AllocatePipe
  <2>2. CASE LoadTransferFails(t)
    BY <2>2 DEF LoadTransferFails
  <2>a. CASE GetAuxFails(t)
    BY <2>a, GetAuxFailsPipe
  <2>3. CASE GetLate(t) \/ GetLateStore(t)
    BY <2>3, GetLatePipe
  <2>4. CASE LoadTransfer(t)
    BY <2>4, LoadTransferPipe, UnsoundStep
  <2>5. CASE LoadStore(t)
    BY <2>5, LoadStorePipe, UnsoundStep
  <2>6. CASE GetOutput(t)
    BY <2>6, GetOutputPipe, UnsoundStep
  <2>7. CASE GetAux(t)
    BY <2>7, GetAuxPipe, UnsoundStep
  <2>8. CASE GetStore(t)
    BY <2>8, GetStorePipe, UnsoundStep
  <2> QED
    BY <1>3, <2>1, <2>2, <2>a, <2>3, <2>4, <2>5, <2>6, <2>7, <2>8, QuietContinue
    DEF Continue
<1>4. ASSUME NEW d \in Device, FirmwareRun(d) PROVE Pipeline'
  BY <1>4, FirmwarePipe
<1>5. CASE UNCHANGED vars
  <2>1. UNCHANGED <<graphs, graph, fw, dmm, pc, call>>
    BY <1>5 DEF vars
  <2>s. \A g : Sound(g)' <=> Sound(g)
    BY <2>1 DEF Sound, Failed
  <2>2. ASSUME NEW d \in Device, NEW g \in graphs[d], Sound(g)' PROVE Pipe(d, g)'
    <3>1. Pipe(d, g)
      BY <2>s, <2>2 DEF Pipeline
    <3>2. \A label : At(d, label)' <=> At(d, label)
      BY <2>1 DEF At
    <3>3. /\ Count(d, g)' = Count(d, g) /\ Slot(d, g)' = Slot(d, g)
          /\ Oldest(d, g)' = Oldest(d, g) /\ Params(d, g)' = Params(d, g)
      BY <2>1, <3>2 DEF Count, Slot, Oldest, Params
    <3> QED BY <2>1, <3>1, <3>2, <3>3 DEF Pipe
  <2>3. ASSUME NEW t \in Thread PROVE Place(t)'
    BY <2>s, <2>1 DEF Pipeline, Place, Known
  <2> QED BY <2>1, <2>2, <2>3 DEF Pipeline
<1> QED BY <1>1, <1>2, <1>3, <1>4, <1>5 DEF Next

\* The counts, the slots and the stick agree in every reachable state, and every
\* call knows what it relies on between its transfers, for the graphs that are
\* sound: the inductive invariant of the theorems below.
THEOREM PipelineHolds ==
    ASSUME OneLoader, "input" \notin Faults
    PROVE  Spec => [](TypeOK /\ Inv /\ Pipeline)
<1> DEFINE I == TypeOK /\ Inv /\ Pipeline
<1>1. Init => I
  BY PipelineInit, TypeInit, InvInit
<1>2. I /\ [Next]_vars => I'
  BY PipelineStep, TypeStep, InvStep
<1> QED BY <1>1, <1>2, PTL DEF Spec

\* No LoadTensor and no GetResult makes have_data, and so the use of the two
\* slots of user_param, overflow or underflow, whoever reads and whatever is
\* closed meanwhile.
THEOREM HaveDataIsBounded ==
    ASSUME OneLoader, InTime
    PROVE  Spec => []HaveDataInBounds
<1>1. TypeOK /\ Inv /\ Pipeline => HaveDataInBounds
  BY HaveData DEF HaveDataInBounds, TypeOK, Types, Sound
<1>2. "input" \notin Faults
  BY DEF InTime
<1> QED BY <1>1, <1>2, PipelineHolds, PTL

\* A GetResult returns the userParam of the LoadTensor whose output it returns.
THEOREM ResultsAreMatched ==
    ASSUME OneLoader, InTime
    PROVE  Spec => []ResultsMatch
<1>1. Pipeline => ResultsMatch
  BY DEF Pipeline, Place, ResultsMatch
<1>2. "input" \notin Faults
  BY DEF InTime
<1> QED BY <1>1, <1>2, PipelineHolds, PTL

\* What Pending counts, for a stick that agrees with n inferences.
LEMMA PendingIs ==
    ASSUME NEW d \in Device, fw[d] \in FirmwareState, NEW n \in 0..2,
           NEW i \in 0..1, NEW p \in [0..1 -> Tag \cup {None}], Agree(fw[d], n, i, p)
    PROVE  Pending(d) = n
<1> DEFINE F == fw[d]
           S == {k \in 0..1 : F.input[k] # None}
<1>0. /\ F.output = None => Pending(d) = Cardinality(S)
      /\ F.output # None => Pending(d) = Cardinality(S) + 1
  <2>1. Pending(d) = Cardinality(S) + IF F.output = None THEN 0 ELSE 1
    BY DEF Pending
  <2>2. Cardinality(S) \in Int
    BY FS_Interval, FS_Subset, FS_CardinalityType
  <2> QED BY <2>1, <2>2
<1>1. 0..1 = {i, 1 - i} /\ i # 1 - i
  OBVIOUS
<1>2. Cardinality({}) = 0 /\ Cardinality({i}) = 1 /\ Cardinality({1 - i}) = 1
  BY FS_EmptySet, FS_Singleton
<1>3. Cardinality({i, 1 - i}) = 2
  <2>1. {i, 1 - i} = {i} \cup {1 - i}
    OBVIOUS
  <2>2. Cardinality({i} \cup {1 - i}) = Cardinality({i}) + 1
    BY <1>1, FS_Singleton, FS_AddElement
  <2> QED BY <1>2, <2>1, <2>2
<1>4. CASE F.output = None
  <2>1. /\ F.input[i] # None <=> n > 0
        /\ F.input[1 - i] # None <=> n = 2
    BY <1>4 DEF Agree
  <2>2. CASE n = 0
    <3>1. S = {}
      BY <1>1, <2>1, <2>2
    <3> QED BY <1>0, <1>2, <1>4, <2>2, <3>1
  <2>3. CASE n = 1
    <3>1. S = {i}
      BY <1>1, <2>1, <2>3
    <3> QED BY <1>0, <1>2, <1>4, <2>3, <3>1
  <2>4. CASE n = 2
    <3>1. S = {i, 1 - i}
      BY <1>1, <2>1, <2>4
    <3> QED BY <1>0, <1>3, <1>4, <2>4, <3>1
  <2> QED BY <2>2, <2>3, <2>4
<1>5. CASE F.output # None
  <2>1. /\ n > 0 /\ F.input[i] = None
        /\ F.input[1 - i] # None <=> n = 2
    BY <1>5 DEF Agree
  <2>2. CASE n = 1
    <3>1. S = {}
      BY <1>1, <2>1, <2>2
    <3> QED BY <1>0, <1>2, <1>5, <2>2, <3>1
  <2>3. CASE n = 2
    <3>1. S = {1 - i}
      BY <1>1, <2>1, <2>3
    <3> QED BY <1>0, <1>2, <1>5, <2>3, <3>1
  <2> QED BY <2>1, <2>2, <2>3
<1> QED BY <1>4, <1>5

\* A sound graph whose device nobody has locked is in step with the stick.
LEMMA SoundInStep ==
    ASSUME TypeOK, Pipeline, NEW d \in Device, NEW g \in graphs[d], Sound(g),
           dmm[d] = None
    PROVE  InStep(d, g)
<1> DEFINE n == graph[g].have_data
           i == graph[g].output_idx
           p == graph[g].user_param
<1>1. g \in Graph
  BY DEF TypeOK, Types
<1>2. Pipe(d, g)
  BY DEF Pipeline
<1>3. /\ Count(d, g) = n /\ Oldest(d, g) = i /\ Params(d, g) = p
      /\ ~At(d, "gr_aux")
  BY DEF Count, Oldest, Params, At
<1>4. Agree(fw[d], n, i, p) /\ (n > 0 => fw[d].go \/ fw[d].output # None)
  BY <1>2, <1>3 DEF Pipe
<1>5. /\ fw[d] \in FirmwareState /\ n \in 0..2 /\ i \in 0..1
      /\ p \in [0..1 -> Tag \cup {None}]
  BY <1>1, <1>3, <1>4, PipeTypes DEF Agree
<1>6. n = Pending(d)
  BY <1>4, <1>5, PendingIs
<1>7. fw[d].go => fw[d].input[fw[d].next] # None /\ fw[d].output = None
  BY <1>4, <1>5 DEF Agree
<1> QED BY <1>4, <1>6, <1>7 DEF InStep

\* Between calls the stick holds as many inferences as have_data says and works
\* on one of them or offers its output: no hostready is lost and none is sent
\* twice, in whatever order LoadTensor and GetResult overtake each other.
THEOREM NothingIsStalled ==
    ASSUME OneLoader, InTime
    PROVE  Spec => []NothingStalls
<1>1. TypeOK /\ Inv /\ Pipeline => NothingStalls
  BY SoundInStep DEF NothingStalls, Sound, TypeOK, Types
<1>2. "input" \notin Faults
  BY DEF InTime
<1> QED BY <1>1, <1>2, PipelineHolds, PTL

\* The same, and the pairing of outputs and userParams, for programs in which
\* any transfer of GetResult may fail and any GetResult may give up, next to any
\* number of others: a graph that is not marked as failed has lost nothing.
THEOREM FailuresAreMarked ==
    ASSUME OneLoader, "input" \notin Faults
    PROVE  Spec => []SoundUntilFailure
<1>1. ASSUME TypeOK, Inv, Pipeline PROVE SoundUntilFailure
  <2>1. ASSUME NEW d \in live, NEW g \in graphs[d], ~Failed(g)
        PROVE  /\ graph[g].have_data \in 0..2
               /\ dmm[d] = None => InStep(d, g)
    <3>1. d \in Device /\ Sound(g)
      BY <1>1, <2>1 DEF TypeOK, Types, Sound
    <3> QED BY <1>1, <3>1, HaveData, SoundInStep
  <2>2. ASSUME NEW t \in Thread, pc[t] = "gr_store", ~Failed(call[t].g)
        PROVE  call[t].output = call[t].userParam
    <3>1. Known(t)
      BY <1>1, <2>2 DEF Pipeline, Place, PipePlaces, Sound
    <3> QED BY <2>2, <3>1 DEF Known
  <2> QED BY <2>1, <2>2 DEF SoundUntilFailure
<1> QED BY <1>1, PipelineHolds, PTL
-----------------------------------------------------------------------------
(***************************************************************************)
(* The double buffer implements a queue.                                   *)
(***************************************************************************)
\* The last n entries written to p, when the next one goes to slot j.
Queued(n, j, p) == [i \in 1..n |-> p[(j + n + i - 1) % 2]]

LEMMA QueuedIs ==
    ASSUME NEW j \in 0..1, NEW p
    PROVE  /\ Queued(0, j, p) = <<>>
           /\ Queued(1, j, p) = <<p[1 - j]>>
           /\ Queued(2, j, p) = <<p[j], p[1 - j]>>
<1>1. /\ (j + 1 + 1 - 1) % 2 = 1 - j
      /\ (j + 2 + 1 - 1) % 2 = j /\ (j + 2 + 2 - 1) % 2 = 1 - j
  OBVIOUS
<1>2. 1..0 = {} /\ 1..1 = {1} /\ 1..2 = {1, 2}
  OBVIOUS
<1>3. Queued(0, j, p) = <<>>
  BY <1>2 DEF Queued
<1>4. Queued(1, j, p) = <<p[1 - j]>>
  BY <1>1, <1>2 DEF Queued
<1>5. Queued(2, j, p) = <<p[j], p[1 - j]>>
  BY <1>1, <1>2 DEF Queued
<1> QED BY <1>3, <1>4, <1>5

LEMMA ShortSequences ==
    ASSUME NEW x, NEW y
    PROVE  /\ Append(<<>>, x) = <<x>> /\ Len(<<>>) = 0
           /\ Append(<<x>>, y) = <<x, y>> /\ Len(<<x>>) = 1
           /\ Head(<<x>>) = x /\ Tail(<<x>>) = <<>> /\ <<x>> # <<>>
           /\ Head(<<x, y>>) = x /\ Tail(<<x, y>>) = <<y>> /\ <<x, y>> # <<>>
<1>1. Append(<<>>, x) = <<x>> /\ Len(<<>>) = 0 /\ Len(<<x>>) = 1
  OBVIOUS
<1>2. Head(<<x>>) = x /\ Tail(<<x>>) = <<>> /\ <<x>> # <<>>
  OBVIOUS
<1>3. Head(<<x, y>>) = x /\ <<x, y>> # <<>>
  OBVIOUS
<1>4. Tail(<<x, y>>) = <<y>>
  OBVIOUS
<1>5. Append(<<x>>, y) = <<x, y>>
  <2> DEFINE S == {x, y}
             s == Append(<<x>>, y)
  <2>1. <<x>> \in Seq(S) /\ <<x, y>> \in Seq(S) /\ Len(<<x, y>>) = 2
    OBVIOUS
  <2>2. y \in S
    OBVIOUS
  <2>3. s \in Seq(S) /\ Len(s) = 2 /\ s[1] = x /\ s[2] = y
    <3> HIDE DEF S
    <3>1. /\ s \in Seq(S) /\ Len(s) = Len(<<x>>) + 1
          /\ \A i \in 1..Len(<<x>>) : s[i] = <<x>>[i]
          /\ s[Len(<<x>>) + 1] = y
      BY <2>1, <2>2, AppendProperties
    <3>2. 1 \in 1..Len(<<x>>) /\ <<x>>[1] = x /\ Len(<<x>>) + 1 = 2
      BY <1>1
    <3> QED BY <3>1, <3>2
  <2>4. \A i \in 1..2 : s[i] = <<x, y>>[i]
    BY <2>3
  <2> HIDE DEF S, s
  <2>5. s = <<x, y>>
    BY <2>1, <2>3, <2>4, SeqEqual
  <2> QED BY <2>5 DEF s
<1> QED BY <1>1, <1>2, <1>3, <1>4, <1>5

LEMMA QueuedLoad ==
    ASSUME NEW n \in 0..1, NEW j \in 0..1, NEW p \in [0..1 -> Tag \cup {None}],
           NEW x \in Tag
    PROVE  /\ Len(Queued(n, j, p)) < 2
           /\ Queued(n + 1, 1 - j, [p EXCEPT ![j] = x]) = Append(Queued(n, j, p), x)
<1> DEFINE q == [p EXCEPT ![j] = x]
           y == p[1 - j]
<1>1. q[j] = x /\ q[1 - j] = y /\ 1 - (1 - j) = j /\ 1 - j \in 0..1
  OBVIOUS
<1>2. /\ Queued(0, j, p) = <<>> /\ Queued(1, j, p) = <<y>>
      /\ Queued(1, 1 - j, q) = <<x>> /\ Queued(2, 1 - j, q) = <<y, x>>
  <2> HIDE DEF q
  <2> QED BY <1>1, QueuedIs
<1> HIDE DEF q, y
<1>3. CASE n = 0
  <2>1. Len(Queued(0, j, p)) = 0 /\ Queued(1, 1 - j, q) = Append(Queued(0, j, p), x)
    BY <1>2, ShortSequences
  <2>2. n + 1 = 1
    BY <1>3
  <2>3. Len(Queued(n, j, p)) < 2
    BY <1>3, <2>1
  <2>4. Queued(n + 1, 1 - j, q) = Append(Queued(n, j, p), x)
    BY <1>3, <2>1, <2>2
  <2> QED BY <2>3, <2>4 DEF q
<1>4. CASE n = 1
  <2>1. Len(Queued(1, j, p)) = 1 /\ Queued(2, 1 - j, q) = Append(Queued(1, j, p), x)
    BY <1>2, ShortSequences
  <2>2. n + 1 = 2
    BY <1>4
  <2>3. Len(Queued(n, j, p)) < 2
    BY <1>4, <2>1
  <2>4. Queued(n + 1, 1 - j, q) = Append(Queued(n, j, p), x)
    BY <1>4, <2>1, <2>2
  <2> QED BY <2>3, <2>4 DEF q
<1>5. n = 0 \/ n = 1
  OBVIOUS
<1> QED BY <1>3, <1>4, <1>5

LEMMA QueuedGet ==
    ASSUME NEW n \in 1..2, NEW j \in 0..1, NEW p \in [0..1 -> Tag \cup {None}]
    PROVE  /\ Queued(n, j, p) # <<>>
           /\ Head(Queued(n, j, p)) = p[(j + n) % 2]
           /\ Queued(n - 1, j, p) = Tail(Queued(n, j, p))
<1> DEFINE x == p[j]
           y == p[1 - j]
<1>1. /\ Queued(0, j, p) = <<>> /\ Queued(1, j, p) = <<y>>
      /\ Queued(2, j, p) = <<x, y>>
  BY QueuedIs
<1>2. CASE n = 1
  <2>1. (j + n) % 2 = 1 - j /\ n - 1 = 0
    BY <1>2
  <2>2. /\ Queued(1, j, p) # <<>> /\ Head(Queued(1, j, p)) = y
        /\ Queued(0, j, p) = Tail(Queued(1, j, p))
    <3> HIDE DEF y
    <3> QED BY <1>1, ShortSequences
  <2> QED BY <1>2, <2>1, <2>2
<1>3. CASE n = 2
  <2>1. (j + n) % 2 = j /\ n - 1 = 1
    BY <1>3
  <2>2. /\ Queued(2, j, p) # <<>> /\ Head(Queued(2, j, p)) = x
        /\ Queued(1, j, p) = Tail(Queued(2, j, p))
    <3> HIDE DEF x, y
    <3>1. Head(<<x, y>>) = x /\ Tail(<<x, y>>) = <<y>> /\ <<x, y>> # <<>>
      BY ShortSequences
    <3> QED BY <1>1, <3>1
  <2> QED BY <1>3, <2>1, <2>2
<1> QED BY <1>2, <1>3

Listed(g) == \E d \in Device : g \in graphs[d]

LEMMA QueueIs ==
    ASSUME NEW g
    PROVE  QueueOf(g) = IF Listed(g)
                        THEN Queued(graph[g].have_data, graph[g].input_idx,
                                    graph[g].user_param)
                        ELSE <<>>
BY DEF QueueOf, Queued, Listed

LEMMA SilentAnswer ==
    ASSUME NEW t
    PROVE  Silent(call[t]) => AnswerTo(t) = [output |-> None, userParam |-> None]
BY DEF Silent, AnswerTo

\* Steps of the queue, in terms of Mvnc.
LEMMA QueueStutters ==
    ASSUME \A g \in Graph : QueueOf(g)' = QueueOf(g),
           \A t \in Thread : AnswerTo(t)' = AnswerTo(t)
    PROVE  UNCHANGED IQ!vars
BY DEF IQ!vars

LEMMA QueueForgets ==
    ASSUME NEW t \in Thread, \A g \in Graph : QueueOf(g)' = QueueOf(g),
           \A u \in Thread \ {t} : AnswerTo(u)' = AnswerTo(u),
           AnswerTo(t)' = [output |-> None, userParam |-> None]
    PROVE  IQ!Next
<1>1. IQ!Forget(t)
  BY DEF IQ!Forget, IQ!NoAnswer
<1> QED BY <1>1 DEF IQ!Next

LEMMA QueueDrops ==
    ASSUME NEW g \in Graph, \A h \in Graph \ {g} : QueueOf(h)' = QueueOf(h),
           QueueOf(g)' = <<>>, \A t \in Thread : AnswerTo(t)' = AnswerTo(t)
    PROVE  IQ!Next
<1>1. IQ!Drop(g)
  BY DEF IQ!Drop
<1> QED BY <1>1 DEF IQ!Next

LEMMA QueueLoads ==
    ASSUME NEW g \in Graph, NEW x \in Tag,
           \A h \in Graph \ {g} : QueueOf(h)' = QueueOf(h),
           Len(QueueOf(g)) < 2, QueueOf(g)' = Append(QueueOf(g), x),
           \A t \in Thread : AnswerTo(t)' = AnswerTo(t)
    PROVE  IQ!Next
<1>1. IQ!Load(g, x)
  BY DEF IQ!Load
<1> QED BY <1>1 DEF IQ!Next

LEMMA QueueDelivers ==
    ASSUME NEW g \in Graph, NEW t \in Thread,
           \A h \in Graph \ {g} : QueueOf(h)' = QueueOf(h),
           \A u \in Thread \ {t} : AnswerTo(u)' = AnswerTo(u),
           QueueOf(g) # <<>>, QueueOf(g)' = Tail(QueueOf(g)),
           AnswerTo(t)' = [output |-> Head(QueueOf(g)), userParam |-> Head(QueueOf(g))]
    PROVE  IQ!Next
<1>1. IQ!Deliver(t, g)
  BY DEF IQ!Deliver
<1> QED BY <1>1 DEF IQ!Next

LEMMA QueueFrame ==
    ASSUME NEW g, graphs' = graphs, graph'[g].have_data = graph[g].have_data,
           graph'[g].input_idx = graph[g].input_idx,
           graph'[g].user_param = graph[g].user_param
    PROVE  QueueOf(g)' = QueueOf(g)
BY DEF QueueOf

LEMMA AnswerFrame ==
    ASSUME TypeOK, TypeOK', NEW t \in Thread, Alone(t)
    PROVE  \A u \in Thread \ {t} : AnswerTo(u)' = AnswerTo(u)
BY DEF Alone, AnswerTo

\* A call that goes on, or comes to an end other than GetResult's, gives no
\* inference to its caller.
LEMMA NoAnswer ==
    ASSUME TypeOK, TypeOK', Pipeline, Pipeline', NEW t \in Thread, Alone(t),
           pc[t] # "idle", pc'[t] # "idle" \/ \E s \in Status : Return(t, s)
    PROVE  \A u \in Thread : AnswerTo(u)' = AnswerTo(u)
<1>1. AnswerTo(t) = [output |-> None, userParam |-> None]
  <2>1. call[t].rc = "none"
    BY DEF Pipeline, Place
  <2> QED BY <2>1 DEF AnswerTo
<1>2. AnswerTo(t)' = [output |-> None, userParam |-> None]
  <2>1. CASE pc'[t] # "idle"
    <3>1. call'[t].rc = "none"
      BY <2>1 DEF Pipeline, Place
    <3> QED BY <3>1 DEF AnswerTo
  <2>2. ASSUME NEW s \in Status, Return(t, s)
        PROVE  AnswerTo(t)' = [output |-> None, userParam |-> None]
    <3>1. Silent(call'[t])
      BY <2>2, ReturnPlace
    <3> QED BY <3>1 DEF Silent, AnswerTo
  <2> QED BY <2>1, <2>2
<1> QED BY <1>1, <1>2, AnswerFrame

\* The steps between two points at which the queue changes.
LEMMA QuietQueue ==
    ASSUME TypeOK, TypeOK', Inv, Inv', Pipeline, Pipeline', NEW t \in Thread,
           \/ AllocateFails(t) \/ OptionLock(t)
           \/ \E v \in BOOLEAN : SetDontBlock(t, v)
           \/ GetOptimisationList(t) \/ LoadSendOptions(t) \/ LoadCheck(t)
           \/ LoadLock(t) \/ LoadBegin(t) \/ LoadTransfer(t) \/ GetCheck(t)
           \/ GetLock(t) \/ GetOutput(t) \/ GetOutputFails(t) \/ GetAux(t)
           \/ LoadWake(t) \/ GetWake(t)
    PROVE  UNCHANGED IQ!vars
<1> DEFINE Still ==
             /\ graphs' = graphs
             /\ \A g \in Graph :
                  /\ graph'[g].have_data = graph[g].have_data
                  /\ graph'[g].input_idx = graph[g].input_idx
                  /\ graph'[g].user_param = graph[g].user_param
           Back == \E s \in Status : Return(t, s)
<1>g. pc[t] \in UsesGraph => call[t].g \in Graph
  BY CallFacts
<1>1. ASSUME NEW label, Goto(t, label), label # "idle"
      PROVE  pc'[t] # "idle"
  BY <1>1 DEF Goto, TypeOK, Types
<1>2. ASSUME NEW label, Goto(t, label),
             call' = call \/ \E c : SetCall(t, c)
      PROVE  Alone(t)
  BY <1>2 DEF Goto, SetCall, Alone, TypeOK, Types
<1>3. Back => Alone(t)
  BY ReturnPlace
<1>4. Still /\ pc[t] # "idle" /\ Alone(t) /\ (pc'[t] # "idle" \/ Back)
  <2>1. CASE AllocateFails(t)
    BY <2>1, <1>3 DEF AllocateFails, Status
  <2>2. CASE OptionLock(t)
    BY <2>2, <1>1, <1>2 DEF OptionLock
  <2>3. ASSUME NEW v \in BOOLEAN, SetDontBlock(t, v)
        PROVE  Still /\ pc[t] # "idle" /\ Alone(t) /\ (pc'[t] # "idle" \/ Back)
    <3>1. Still
      BY <2>3, <1>g DEF SetDontBlock, SetGraph, UsesGraph, TypeOK, Types, GraphState
    <3> QED BY <2>3, <3>1, <1>3 DEF SetDontBlock, Status
  <2>4. CASE GetOptimisationList(t)
    BY <2>4, <1>3 DEF GetOptimisationList, Status
  <2>5. CASE LoadSendOptions(t)
    <3>1. Still
      BY <2>5, <1>g DEF LoadSendOptions, SetGraph, UsesGraph, TypeOK, Types, GraphState
    <3> QED BY <2>5, <3>1, <1>1, <1>2, <1>3 DEF LoadSendOptions, Status
  <2>6. CASE LoadCheck(t)
    BY <2>6, <1>1, <1>2, <1>3 DEF LoadCheck, Status
  <2>7. CASE LoadLock(t)
    BY <2>7, <1>1, <1>2 DEF LoadLock
  <2>8. CASE LoadBegin(t)
    BY <2>8, <1>1, <1>2 DEF LoadBegin
  <2>9. CASE LoadTransfer(t)
    BY <2>9, <1>1, <1>2 DEF LoadTransfer
  <2>10. CASE GetCheck(t)
    BY <2>10, <1>1, <1>2, <1>3 DEF GetCheck, Status
  <2>11. CASE GetLock(t)
    BY <2>11, <1>1, <1>2 DEF GetLock
  <2>12. CASE GetOutput(t)
    BY <2>12, <1>1, <1>2 DEF GetOutput
  <2>13. CASE GetOutputFails(t)
    BY <2>13, <1>1, <1>2 DEF GetOutputFails
  <2>14. CASE GetAux(t)
    <3>1. Still
      <4> DEFINE h == call[t].g
                 H == [graph[h] EXCEPT !.output_idx = 1 - @]
      <4>1. h \in Graph /\ graphs' = graphs
        BY <2>14, <1>g DEF GetAux, UsesGraph
      <4>2. graph' = [graph EXCEPT ![h] = H]
        BY <2>14 DEF GetAux, TakeUserParam, SetGraph
      <4>3. /\ H.have_data = graph[h].have_data /\ H.input_idx = graph[h].input_idx
            /\ H.user_param = graph[h].user_param
        BY <4>1 DEF TypeOK, Types, GraphState
      <4> HIDE DEF H
      <4> QED BY <4>1, <4>2, <4>3 DEF TypeOK, Types
    <3> QED BY <2>14, <3>1, <1>1, <1>2 DEF GetAux, TakeUserParam
  <2>15. CASE LoadWake(t)
    BY <2>15, <1>1, <1>2, <1>3 DEF LoadWake, Status
  <2>16. CASE GetWake(t)
    BY <2>16, <1>1, <1>2, <1>3 DEF GetWake, Status
  <2> QED BY <2>1, <2>2, <2>3, <2>4, <2>5, <2>6, <2>7, <2>8, <2>9, <2>10, <2>11,
             <2>12, <2>13, <2>14, <2>15, <2>16
<1>5. \A g \in Graph : QueueOf(g)' = QueueOf(g)
  BY <1>4, QueueFrame
<1>6. \A u \in Thread : AnswerTo(u)' = AnswerTo(u)
  BY <1>4, NoAnswer
<1> QED BY <1>5, <1>6, QueueStutters

\* Freeing the graph of a device, if it has one, drops its queue.
LEMMA FreeDrops ==
    ASSUME TypeOK, TypeOK', Inv, Pipeline, Pipeline', NEW t \in Thread,
           pc[t] # "idle", NEW s \in Status, Return(t, s), NEW d \in Device, NEW S,
           FreeGraphs(d, S)
    PROVE  IQ!Next \/ UNCHANGED IQ!vars
<1>1. \A u \in Thread : AnswerTo(u)' = AnswerTo(u)
  BY ReturnPlace, NoAnswer
<1>2. /\ graphs' = [graphs EXCEPT ![d] = @ \ (S \cap graphs[d])]
      /\ \A g \in Graph : g \notin S \cap graphs[d] => graph'[g] = graph[g]
  BY DEF FreeGraphs, TypeOK, Types
<1>3. ASSUME NEW g \in Graph \ (S \cap graphs[d]) PROVE QueueOf(g)' = QueueOf(g)
  <2>1. Listed(g)' <=> Listed(g)
    BY <1>2, <1>3 DEF Listed, TypeOK, Types
  <2> QED BY <1>2, <1>3, <2>1 DEF QueueOf, Listed
<1>4. CASE S \cap graphs[d] = {}
  BY <1>1, <1>3, <1>4, QueueStutters
<1>5. ASSUME NEW g \in S \cap graphs[d] PROVE IQ!Next
  <2>1. g \in Graph /\ \A h \in Graph \ {g} : h \notin S \cap graphs[d]
    BY <1>5, OneGraph DEF TypeOK, Types
  <2>2. ~Listed(g)'
    BY <1>2, <1>5, <2>1, OneDevice DEF Listed, TypeOK, Types
  <2>3. QueueOf(g)' = <<>>
    BY <2>2 DEF QueueOf, Listed
  <2> QED BY <1>1, <1>3, <2>1, <2>3, QueueDrops
<1> QED BY <1>4, <1>5

\* A new graph has the empty queue it had while it was not allocated.
LEMMA AllocateQueue ==
    ASSUME TypeOK, TypeOK', Inv, Inv', Pipeline, Pipeline', NEW t \in Thread,
           NEW h \in Graph, AllocateFinish(t, h)
    PROVE  UNCHANGED IQ!vars
<1>d. PICK d \in Device : d = call[t].d
  BY DEF AllocateFinish, TypeOK, Handles, HoldsMm
<1>1. /\ graphs' = [graphs EXCEPT ![d] = @ \cup {h}]
      /\ graph' = [graph EXCEPT ![h] = FreshGraph(d)]
      /\ \A e \in Device : h \notin graphs[e]
      /\ pc[t] # "idle" /\ Return(t, "OK")
  BY <1>d DEF AllocateFinish, SetGraph, Available
<1>2. ASSUME NEW g \in Graph, g # h PROVE QueueOf(g)' = QueueOf(g)
  <2>1. Listed(g)' <=> Listed(g)
    BY <1>1, <1>2 DEF Listed, TypeOK, Types
  <2> QED BY <1>1, <1>2, <2>1 DEF QueueOf, Listed, TypeOK, Types
<1>3. QueueOf(h)' = QueueOf(h)
  <2>1. QueueOf(h) = <<>>
    BY <1>1 DEF QueueOf
  <2>2. /\ Listed(h)' /\ graph'[h].have_data = 0 /\ graph'[h].input_idx \in 0..1
    BY <1>1 DEF Listed, FreshGraph, TypeOK, Types
  <2>3. QueueOf(h)' = Queued(0, graph'[h].input_idx, graph'[h].user_param)
    BY <2>2 DEF QueueOf, Queued, Listed
  <2> QED BY <2>1, <2>2, <2>3, QueuedIs
<1>4. \A u \in Thread : AnswerTo(u)' = AnswerTo(u)
  BY <1>1, ReturnPlace, NoAnswer DEF Status
<1> QED BY <1>2, <1>3, <1>4, QueueStutters

\* LoadTensor appends its inference when it stores have_data.
LEMMA LoadQueue ==
    ASSUME InTime, TypeOK, TypeOK', Inv, Inv', Pipeline, Pipeline', NEW t \in Thread,
           LoadStore(t)
    PROVE  IQ!Next
<1>0. pc[t] = "lt_store" /\ pc[t] \in HoldsDmm \cap UsesGraph
  BY DEF LoadStore, HoldsDmm, UsesGraph
<1>1. PICK d \in Device, g \in Graph :
        d = call[t].d /\ g = call[t].g /\ g \in graphs[d]
  BY <1>0, OwnGraph
<1> DEFINE G == graph[g]
           n == G.have_data
           j == G.input_idx
           p == G.user_param
           x == call[t].tag
<1>2. G \in GraphState /\ n \in 0..1 /\ x \in Tag /\ call[t].hd = n
  BY <1>0, <1>1, OwnGraph
  DEF Pipeline, Place, Known, PipePlaces, LoadPlaces, Sound, GraphState
<1>3. /\ graphs' = graphs
      /\ graph' = [graph EXCEPT ![g] =
                     [G EXCEPT !.user_param[j] = x,
                               !.input_idx = 1 - @, !.have_data = n + 1]]
      /\ Return(t, "OK") /\ pc[t] # "idle"
  BY <1>1, <1>2 DEF LoadStore, SetGraph
<1>4. /\ graph'[g].have_data = n + 1 /\ graph'[g].input_idx = 1 - j
      /\ graph'[g].user_param = [p EXCEPT ![j] = x]
      /\ \A h \in Graph \ {g} : graph'[h] = graph[h]
  BY <1>2, <1>3 DEF GraphState, TypeOK, Types
<1>5. Listed(g) /\ Listed(g)'
  BY <1>1, <1>3 DEF Listed
<1>6. /\ QueueOf(g) = Queued(n, j, p)
      /\ QueueOf(g)' = Queued(n + 1, 1 - j, [p EXCEPT ![j] = x])
  BY <1>4, <1>5 DEF QueueOf, Queued, Listed
<1>7. Len(QueueOf(g)) < 2 /\ QueueOf(g)' = Append(QueueOf(g), x)
  <2>1. j \in 0..1 /\ p \in [0..1 -> Tag \cup {None}]
    BY <1>2 DEF GraphState
  <2> DEFINE q == Queued(n, j, p)
             r == Queued(n + 1, 1 - j, [p EXCEPT ![j] = x])
  <2>2. n \in 0..1 /\ x \in Tag
    BY <1>2
  <2>3. Len(q) < 2 /\ r = Append(q, x)
    <3> HIDE DEF n, j, p, x
    <3> QED BY <2>1, <2>2, QueuedLoad
  <2> HIDE DEF q, r, x
  <2>4. QueueOf(g) = q /\ QueueOf(g)' = r
    BY <1>6 DEF q, r, x
  <2> QED BY <2>3, <2>4
<1>8. \A u \in Thread : AnswerTo(u)' = AnswerTo(u)
  BY <1>3, ReturnPlace, NoAnswer DEF Status
<1>9. \A h \in Graph \ {g} : QueueOf(h)' = QueueOf(h)
  BY <1>3, <1>4, QueueFrame
<1> QED BY <1>2, <1>7, <1>8, <1>9, QueueLoads

\* GetResult removes the oldest inference when it stores have_data.
LEMMA GetQueue ==
    ASSUME InTime, TypeOK, TypeOK', Inv, Inv', Pipeline, Pipeline', NEW t \in Thread,
           GetStore(t)
    PROVE  IQ!Next
<1>0. pc[t] = "gr_store" /\ pc[t] \in HoldsDmm \cap UsesGraph
  BY DEF GetStore, HoldsDmm, UsesGraph
<1>1. PICK d \in Device, g \in Graph :
        d = call[t].d /\ g = call[t].g /\ g \in graphs[d]
  BY <1>0, OwnGraph
<1> DEFINE G == graph[g]
           n == G.have_data
           j == G.input_idx
           i == G.output_idx
           p == G.user_param
<1>2. /\ G \in GraphState /\ j \in 0..1 /\ i \in 0..1
      /\ p \in [0..1 -> Tag \cup {None}] /\ call[t] \in CallState
  BY <1>0, <1>1, OwnGraph DEF GraphState
<1>3. /\ call[t].hd = n /\ call[t].output = p[1 - i]
      /\ call[t].userParam = call[t].output
  BY <1>0, <1>1 DEF Pipeline, Place, Known, PipePlaces, Sound
<1>4. n \in 1..2 /\ 1 - i = (j + n) % 2
  <2>1. Count(d, g) = n - 1 /\ Oldest(d, g) = i /\ Slot(d, g) = j
    BY <1>0, <1>1, Holder DEF Count, Oldest, Slot
  <2>2. n - 1 \in 0..2 /\ i = (j + (n - 1)) % 2
    <3>1. Pipe(d, g)
      BY <1>1 DEF Pipeline, Sound
    <3>2. Count(d, g) \in 0..2 /\ Oldest(d, g) = (Slot(d, g) + Count(d, g)) % 2
      BY <3>1 DEF Pipe, Agree
    <3> HIDE DEF n, i, j
    <3> QED BY <2>1, <3>2
  <2>3. n \in 0..2
    BY <1>1, HaveData DEF Sound
  <2> HIDE DEF n, i, j
  <2>4. n = 1 \/ n = 2
    BY <2>2, <2>3
  <2>5. CASE n = 1
    BY <1>2, <2>2, <2>5
  <2>6. CASE n = 2
    BY <1>2, <2>2, <2>6
  <2> QED BY <2>4, <2>5, <2>6
<1>5. /\ graphs' = graphs /\ \A h \in Graph \ {g} : graph'[h] = graph[h]
      /\ graph'[g].have_data = n - 1 /\ graph'[g].input_idx = j
      /\ graph'[g].user_param = p
  <2>1. ASSUME NEW H, SetGraph(g, H)
        PROVE  graph'[g] = H /\ \A h \in Graph \ {g} : graph'[h] = graph[h]
    BY <1>1, <2>1 DEF SetGraph, TypeOK, Types
  <2>2. /\ [G EXCEPT !.have_data = n - 1].have_data = n - 1
        /\ [G EXCEPT !.have_data = n - 1].input_idx = j
        /\ [G EXCEPT !.have_data = n - 1].user_param = p
    BY <1>2 DEF GraphState
  <2>3. /\ [G EXCEPT !.have_data = n - 1, !.failed = TRUE].have_data = n - 1
        /\ [G EXCEPT !.have_data = n - 1, !.failed = TRUE].input_idx = j
        /\ [G EXCEPT !.have_data = n - 1, !.failed = TRUE].user_param = p
    BY <1>2 DEF GraphState
  <2>4. /\ \/ SetGraph(g, [G EXCEPT !.have_data = n - 1])
           \/ SetGraph(g, [G EXCEPT !.have_data = n - 1, !.failed = TRUE])
        /\ graphs' = graphs
    BY <1>1, <1>3 DEF GetStore
  <2> QED BY <2>1, <2>2, <2>3, <2>4
<1>6. PICK s \in {"OK", "MYRIAD_ERROR"} : ReturnResult(t, s)
  BY DEF GetStore
<1>7. AnswerTo(t)' = [output |-> p[1 - i], userParam |-> p[1 - i]] /\ Alone(t)
  <2>1. /\ call'[t].rc = s /\ call'[t].output = p[1 - i]
        /\ call'[t].userParam = p[1 - i] /\ Alone(t)
    BY <1>3, <1>6 DEF ReturnResult, Goto, SetCall, NoCall, Alone, TypeOK, Types
  <2> QED BY <2>1 DEF AnswerTo
<1>8. Listed(g) /\ Listed(g)'
  BY <1>1, <1>5 DEF Listed
<1>9. QueueOf(g) = Queued(n, j, p) /\ QueueOf(g)' = Queued(n - 1, j, p)
  BY <1>5, <1>8 DEF QueueOf, Queued, Listed
<1>10. /\ QueueOf(g) # <<>> /\ Head(QueueOf(g)) = p[1 - i]
       /\ QueueOf(g)' = Tail(QueueOf(g))
  <2> HIDE DEF n, j, i, p
  <2> QED BY <1>2, <1>4, <1>9, QueuedGet
<1>11. \A h \in Graph \ {g} : QueueOf(h)' = QueueOf(h)
  BY <1>5, QueueFrame
<1>12. \A u \in Thread \ {t} : AnswerTo(u)' = AnswerTo(u)
  BY <1>7, AnswerFrame
<1> QED BY <1>7, <1>10, <1>11, <1>12, QueueDelivers

LEMMA QueueInit == Init => IQ!Init
<1> SUFFICES ASSUME Init PROVE IQ!Init
  OBVIOUS
<1>1. \A g \in Graph : QueueOf(g) = <<>>
  BY DEF Init, QueueOf
<1>2. \A t \in Thread : AnswerTo(t) = [output |-> None, userParam |-> None]
  BY DEF Init, AnswerTo, NoCall
<1> QED BY <1>1, <1>2 DEF IQ!Init, IQ!NoAnswer

LEMMA QueueStep ==
    ASSUME InTime, TypeOK, TypeOK', Inv, Inv', Pipeline, Pipeline', [Next]_vars
    PROVE  [IQ!Next]_IQ!vars
<1>1. ASSUME NEW t \in Thread, Begin(t) PROVE IQ!Next
  <2>1. Alone(t) /\ Silent(call'[t]) /\ graphs' = graphs /\ graph' = graph
    BY <1>1, BeginQuiet
  <2>2. AnswerTo(t)' = [output |-> None, userParam |-> None]
    BY <2>1 DEF Silent, AnswerTo
  <2>3. \A g \in Graph : QueueOf(g)' = QueueOf(g)
    BY <2>1, QueueFrame
  <2> QED BY <2>1, <2>2, <2>3, AnswerFrame, QueueForgets
<1>2. ASSUME NEW t \in Thread, Wake(t) PROVE UNCHANGED IQ!vars
  <2>1. ~GetGiveUp(t)
    BY DEF GetGiveUp, InTime
  <2> QED BY <1>2, <2>1, QuietQueue DEF Wake
<1>3. ASSUME NEW t \in Thread, Continue(t) PROVE IQ!Next \/ UNCHANGED IQ!vars
  <2>1. CASE CloseFree(t)
    <3>1. call[t].d \in Device /\ pc[t] # "idle"
      BY <2>1 DEF CloseFree, TypeOK, Handles, HoldsMm
    <3> QED BY <2>1, <3>1, FreeDrops DEF CloseFree, Status
  <2>2. CASE DeallocateFree(t)
    <3>1. call[t].d \in Device /\ pc[t] # "idle"
      BY <2>2 DEF DeallocateFree, TypeOK, Handles, HoldsMm
    <3> QED BY <2>2, <3>1, FreeDrops DEF DeallocateFree, Status
  <2>3. CASE \E g \in Graph : AllocateFinish(t, g)
    BY <2>3, AllocateQueue
  <2>4. CASE LoadStore(t)
    BY <2>4, LoadQueue
  <2>5. CASE GetStore(t)
    BY <2>5, GetQueue
  <2>6. CASE LoadTransferFails(t) \/ GetAuxFails(t)
    BY <2>6 DEF LoadTransferFails, GetAuxFails, InTime
  <2>7. CASE GetLate(t) \/ GetLateStore(t)
    BY <2>7 DEF GetLate, GetLateStore, Pipeline, Place
  <2> QED BY <1>3, <2>1, <2>2, <2>3, <2>4, <2>5, <2>6, <2>7, QuietQueue DEF Continue
<1>4. ASSUME NEW d \in Device, FirmwareRun(d) PROVE UNCHANGED IQ!vars
  <2>1. graphs' = graphs /\ graph' = graph /\ call' = call
    BY <1>4 DEF FirmwareRun
  <2> QED BY <2>1, QueueFrame, QueueStutters DEF AnswerTo
<1>5. CASE UNCHANGED vars
  <2>1. graphs' = graphs /\ graph' = graph /\ call' = call
    BY <1>5 DEF vars
  <2> QED BY <2>1, QueueFrame, QueueStutters DEF AnswerTo
<1> QED BY <1>1, <1>2, <1>3, <1>4, <1>5 DEF Next

\* The two slots of user_param, toggled by LoadTensor and GetResult under the
\* mutex of the device, implement a queue of two inferences: every LoadTensor
\* that returns OK appends, every GetResult removes the oldest and returns it,
\* freeing the graph drops what is left, and nothing else touches the queue.
THEOREM QueueIsImplemented ==
    ASSUME OneLoader, InTime
    PROVE  Spec => ImplementsQueue
<1>1. Init => IQ!Init
  BY QueueInit
<1>0. "input" \notin Faults
  BY DEF InTime
<1>2. (TypeOK /\ Inv /\ Pipeline) /\ (TypeOK /\ Inv /\ Pipeline)' /\ [Next]_vars
        => [IQ!Next]_IQ!vars
  BY QueueStep
<1> QED BY <1>0, <1>1, <1>2, PipelineHolds, PTL DEF Spec, ImplementsQueue, IQ!Spec
===============================================================================
