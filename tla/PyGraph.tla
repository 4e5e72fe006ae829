------------------------------- MODULE PyGraph -------------------------------
(***************************************************************************)
(* The Python binding, api/python/mvnc/mvncapi.py, over the C library.     *)
(* The library is InferenceQueue, for each address of a struct Graph: so   *)
(* Mvnc implements it, with one loading thread and one that does the rest, *)
(* without time-outs and failing transfers of input and auxBuffer.  The    *)
(* userParam it carries is the address of a ctypes py_object, and          *)
(* Graph.userobjs keeps that object alive until GetResult has looked it    *)
(* up.  ctypes releases the interpreter lock in a call of the library, so  *)
(* that the two threads interleave there.  A Graph object keeps its        *)
(* handle, and malloc gives out an address again: a call may reach another *)
(* graph.  The application keeps its Graph objects.                        *)
(***************************************************************************)
EXTENDS Naturals, Sequences

CONSTANTS
    Thread,     \* threads of the application
    Loader,     \* the one that calls LoadTensor
    Reader,     \* the one that calls GetResult, and opens, closes, allocates and
                \* deallocates
    Graph,      \* Python objects of class Graph
    Handle,     \* addresses of struct Graph
    Object,     \* user objects; each stands for the tensor it goes with too
    Addr,       \* addresses of py_objects
    None,       \* no value
    Capacity    \* inferences a graph holds (2 in the library)

ASSUME RoleAssumption ==
    /\ Loader \subseteq Thread /\ Reader \subseteq Thread
    /\ \A t, u \in Loader : t = u
    /\ \A t, u \in Reader : t = u

ASSUME NoneAssumption == None \notin Object \cup Addr \cup Graph \cup Handle

VARIABLES
    opened,     \* does Device.handle name an open device?
    made,       \* Graph objects that AllocateGraph has returned
    handle,     \* handle[g]: g.handle, None once it is 0
    graphOf,    \* graphOf[h]: the Graph the struct at h was allocated for, or None
    userobjs,   \* userobjs[g]: the dictionary g.userobjs
    queue,      \* queue[h]: what the library has at h (see InferenceQueue)
    answer,     \* answer[t]: what mvncGetResult returned last to t
    output,     \* output[h]: the tensor in the buffer mvncGetResult points to
    pc,         \* where thread t is
    frame,      \* locals and result of the current call of t
    leaked,     \* ghost: addresses left in userobjs by calls that failed
    stray       \* ghost: Graphs a call of which has reached another one's struct

vars == <<opened, made, handle, graphOf, userobjs, queue, answer, output, pc,
          frame, leaked, stray>>
library == <<opened, made, handle, graphOf>>

\* An inference: the userParam that goes with it, its input, and (ghost) the
\* Graph whose LoadTensor it comes from.
Inference == [key : Addr, input : Object, by : Graph]

Lib == INSTANCE InferenceQueue
         WITH Graph <- Handle, Tag <- Inference, Client <- Thread

NoFrame == [g |-> None, h |-> None, key |-> None, by |-> None, obj |-> None,
            tensor |-> None, status |-> "none"]

Init ==
    /\ opened = FALSE
    /\ made = {}
    /\ handle = [g \in Graph |-> None]
    /\ graphOf = [h \in Handle |-> None]
    /\ userobjs = [g \in Graph |-> <<>>]
    /\ Lib!Init
    /\ output = [h \in Handle |-> None]
    /\ pc = [t \in Thread |-> "idle"]
    /\ frame = [t \in Thread |-> NoFrame]
    /\ leaked = {}
    /\ stray = {}

Goto(t, c) == pc' = [pc EXCEPT ![t] = c]
SetFrame(t, f) == frame' = [frame EXCEPT ![t] = f]
SetObjs(g, f) == userobjs' = [userobjs EXCEPT ![g] = f]

\* A dictionary after f[k] = v and after del f[k].
With(f, k, v) == [x \in DOMAIN f \cup {k} |-> IF x = k THEN v ELSE f[x]]
Without(f, k) == [x \in DOMAIN f \ {k} |-> f[x]]
-----------------------------------------------------------------------------
(***************************************************************************)
(* Mutated forms of definitions below, one for each property: each breaks  *)
(* the property that its comment names.                                    *)
(***************************************************************************)
\* The py_object is not kept by its entry: only its address is the key
\* (TensorMatchesObject).
ShortInUse == {frame[t].key : t \in {u \in Thread : pc[u] \in {"load", "loaded"}}}

\* The entry is deleted whatever mvncLoadTensor returned (UserParamsAreLive).
ForgettingLoadReturn(t) ==
    /\ pc[t] = "loaded"
    /\ SetObjs(frame[t].g, Without(userobjs[frame[t].g], frame[t].key))
    /\ SetFrame(t, NoFrame)
    /\ Goto(t, "idle")
    /\ UNCHANGED <<library, queue, answer, output, leaked, stray>>

\* The entry is looked up and not deleted (LeaksAreKnown).
KeepingLookUp(t) ==
    LET f == frame[t] IN
    /\ pc[t] = "lookup"
    /\ f.key \in DOMAIN userobjs[f.g]
    /\ SetFrame(t, [f EXCEPT !.obj = userobjs[f.g][f.key], !.status = "OK"])
    /\ Goto(t, "idle")
    /\ UNCHANGED <<library, userobjs, queue, answer, output, leaked, stray>>
-----------------------------------------------------------------------------
\* Addresses of py_objects that something refers to: an entry of a dictionary
\* or the local of a LoadTensor that has not returned.
InUse ==
    UNION {DOMAIN userobjs[g] : g \in Graph}
      \cup {frame[t].key : t \in {u \in Thread : pc[u] \in {"load", "loaded"}}}
-----------------------------------------------------------------------------
(***************************************************************************)
(* Device and Graph.  A call with a handle at which the library has        *)
(* nothing raises.                                                         *)
(***************************************************************************)
OpenDevice(t) ==
    /\ pc[t] = "idle" /\ ~opened
    /\ opened' = TRUE
    /\ UNCHANGED <<made, handle, graphOf, userobjs, queue, answer, output, pc,
                   frame, leaked, stray>>

\* The library frees the graph of the device; Graph.handle stays as it was.
CloseDevice(t) ==
    /\ pc[t] = "idle" /\ opened
    /\ opened' = FALSE
    /\ graphOf' = [h \in Handle |-> None]
    /\ queue' = [h \in Handle |-> <<>>]
    /\ output' = [h \in Handle |-> None]
    /\ UNCHANGED <<made, handle, userobjs, answer, pc, frame, leaked, stray>>

\* The library refuses a second graph on the device; it gives the new one any
\* address.
AllocateGraph(t) ==
    /\ pc[t] = "idle" /\ opened
    /\ \A h \in Handle : graphOf[h] = None
    /\ \E g \in Graph \ made, h \in Handle :
         /\ made' = made \cup {g}
         /\ handle' = [handle EXCEPT ![g] = h]
         /\ graphOf' = [graphOf EXCEPT ![h] = g]
    /\ UNCHANGED <<opened, userobjs, queue, answer, output, pc, frame, leaked, stray>>

\* The library frees what is at that address, if anything.
DeallocateGraph(t) ==
    /\ pc[t] = "idle"
    /\ \E g \in made :
         LET h == handle[g] IN
         /\ h # None
         /\ handle' = [handle EXCEPT ![g] = None]
         /\ graphOf' = [graphOf EXCEPT ![h] = None]
         /\ Lib!Drop(h)
         /\ output' = [output EXCEPT ![h] = None]
    /\ UNCHANGED <<opened, made, userobjs, pc, frame, leaked, stray>>

\* The library has a graph at address h; the call of g that reaches it is astray
\* if it is not that of g.
Found(h) == h # None /\ graphOf[h] # None
Reach(g, h) == stray' = IF graphOf[h] = g THEN stray ELSE stray \cup {g}
-----------------------------------------------------------------------------
(***************************************************************************)
(* Graph.LoadTensor.                                                       *)
(***************************************************************************)
\* A new py_object, at an address nothing refers to, goes into the dictionary.
LoadTensor(t, g, obj) ==
    /\ pc[t] = "idle"
    /\ g \in made
    /\ \E k \in Addr \ InUse :
         /\ SetObjs(g, With(userobjs[g], k, obj))
         /\ SetFrame(t, [NoFrame EXCEPT !.g = g, !.h = handle[g], !.key = k,
                                        !.by = g, !.obj = obj])
    /\ Goto(t, "load")
    /\ UNCHANGED <<library, queue, answer, output, leaked, stray>>

\* mvncLoadTensor: it queues the inference with the graph that is at the address
\* by then, finds the queue full with MVNC_DONT_BLOCK set, or fails.
LoadCall(t) ==
    LET f == frame[t] IN
    /\ pc[t] = "load"
    /\ \/ /\ Found(f.h)
          /\ Lib!Load(f.h, [key |-> f.key, input |-> f.obj, by |-> f.g])
          /\ SetFrame(t, [f EXCEPT !.status = "OK"])
          /\ Reach(f.g, f.h)
       \/ /\ Found(f.h) /\ Len(queue[f.h]) = Capacity
          /\ SetFrame(t, [f EXCEPT !.status = "BUSY"])
          /\ UNCHANGED <<queue, answer, stray>>
       \/ /\ SetFrame(t, [f EXCEPT !.status = "ERROR"])
          /\ UNCHANGED <<queue, answer, stray>>
    /\ Goto(t, "loaded")
    /\ UNCHANGED <<library, userobjs, output, leaked>>

\* The entry goes if the call failed, and stays if it was busy.
LoadReturn(t) ==
    LET f == frame[t] IN
    /\ pc[t] = "loaded"
    /\ IF f.status = "ERROR"
       THEN SetObjs(f.g, Without(userobjs[f.g], f.key))
       ELSE UNCHANGED userobjs
    /\ leaked' = IF f.status = "BUSY" THEN leaked \cup {f.key} ELSE leaked
    /\ SetFrame(t, NoFrame)
    /\ Goto(t, "idle")
    /\ UNCHANGED <<library, queue, answer, output, stray>>
-----------------------------------------------------------------------------
(***************************************************************************)
(* Graph.GetResult.                                                        *)
(***************************************************************************)
\* mvncGetResult delivers; the exception for a failed inference comes after
\* the library has let go of it.  Calls that return nothing change nothing.
GetResult(t, g) ==
    LET h == handle[g]
        x == answer'[t].userParam
    IN
    /\ pc[t] = "idle"
    /\ Found(h)
    /\ Lib!Deliver(t, h)
    /\ output' = [output EXCEPT ![h] = Head(queue[h]).input]
    /\ Reach(g, h)
    /\ \/ /\ SetFrame(t, [NoFrame EXCEPT !.g = g, !.h = h, !.key = x.key, !.by = x.by])
          /\ Goto(t, "copy")
          /\ UNCHANGED leaked
       \/ /\ SetFrame(t, [NoFrame EXCEPT !.status = "MYRIAD_ERROR"])
          /\ leaked' = leaked \cup {Head(queue[h]).key}
          /\ UNCHANGED pc
    /\ UNCHANGED <<library, userobjs>>

\* memmove from the buffer of the library.
CopyTensor(t) ==
    /\ pc[t] = "copy"
    /\ SetFrame(t, [frame[t] EXCEPT !.tensor = output[frame[t].h]])
    /\ Goto(t, "lookup")
    /\ UNCHANGED <<library, userobjs, queue, answer, output, leaked, stray>>

\* retuserobj = self.userobjs[...]; del self.userobjs[...]
LookUp(t) ==
    LET f == frame[t]
        objs == userobjs[f.g]
    IN
    /\ pc[t] = "lookup"
    /\ \/ /\ f.key \in DOMAIN objs
          /\ SetFrame(t, [f EXCEPT !.obj = objs[f.key], !.status = "OK"])
          /\ SetObjs(f.g, Without(objs, f.key))
          /\ UNCHANGED leaked
       \/ /\ f.key \notin DOMAIN objs
          /\ SetFrame(t, [f EXCEPT !.status = "KeyError"])
          /\ leaked' = leaked \cup {f.key}
          /\ UNCHANGED userobjs
    /\ Goto(t, "idle")
    /\ UNCHANGED <<library, queue, answer, output, stray>>
-----------------------------------------------------------------------------
Next ==
    \/ \E t \in Reader :
         OpenDevice(t) \/ CloseDevice(t) \/ AllocateGraph(t) \/ DeallocateGraph(t)
    \/ \E t \in Loader, g \in Graph, obj \in Object : LoadTensor(t, g, obj)
    \/ \E t \in Loader : LoadCall(t) \/ LoadReturn(t)
    \/ \E t \in Reader, g \in Graph : GetResult(t, g)
    \/ \E t \in Reader : CopyTensor(t) \/ LookUp(t)

Spec == Init /\ [][Next]_vars
-----------------------------------------------------------------------------
(***************************************************************************)
(* Properties.                                                             *)
(***************************************************************************)
Loading == {t \in Thread : pc[t] \in {"load", "loaded"}}
Reading == {t \in Thread : pc[t] \in {"copy", "lookup"}}
Queued(h) == {queue[h][i] : i \in DOMAIN queue[h]}
Keys == {x.key : x \in UNION {Queued(h) : h \in Handle}}

\* Every userParam the library holds, or has just returned, is the key of a
\* live object in the dictionary of the Graph that loaded it, of one inference
\* only.  That is the Graph it is delivered to, so that GetResult raises no
\* KeyError, unless one of the two is stray: its own struct was freed, and its
\* handle, or a LoadTensor that slept in the library, met the next one there.
UserParamsAreLive ==
    /\ \A h \in Handle : \A i, j \in DOMAIN queue[h] :
         LET x == queue[h][i] IN
         /\ x.key \in DOMAIN userobjs[x.by]
         /\ userobjs[x.by][x.key] = x.input
         /\ i # j => x.key # queue[h][j].key
         /\ x.by = graphOf[h] \/ x.by \in stray
    /\ \A t \in Reading :
         LET f == frame[t] IN
         /\ f.key \in DOMAIN userobjs[f.by] \ Keys
         /\ f.by = f.g \/ f.by \in stray \/ f.g \in stray

\* GetResult returns the tensor and the object of the same LoadTensor, although
\* the tensor is copied from a buffer the library may write again once its
\* mutexes are released, and although addresses of graphs and of py_objects are
\* given out again: at worst it raises.
TensorMatchesObject ==
    \A t \in Thread :
      pc[t] = "idle" /\ frame[t].status = "OK" => frame[t].tensor = frame[t].obj

\* While its struct is there, userobjs of a Graph keeps an object only while its
\* inference is under way, or because LoadTensor was busy or GetResult raised:
\* nothing else leaks.
LeaksAreKnown ==
    \A h \in Handle : graphOf[h] # None =>
      DOMAIN userobjs[graphOf[h]] \subseteq
        Keys \cup {frame[t].key : t \in Loading \cup Reading} \cup leaked
=============================================================================
