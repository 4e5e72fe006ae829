---------------------------- MODULE PyGraphProofs ----------------------------
(***************************************************************************)
(* Proofs about PyGraph.  An entry of userobjs belongs to an inference in  *)
(* the library, to a call that may still delete it, or is leaked; the      *)
(* invariant says that no two of these share an address, whatever struct   *)
(* a handle reaches.                                                       *)
(***************************************************************************)
EXTENDS PyGraph, TLAPS, SequenceTheorems

\* Calls that still have an entry of their own: LoadTensor until the library
\* has the inference, GetResult until it has looked the entry up.
Holds(t) ==
    \/ pc[t] \in {"load", "copy", "lookup"}
    \/ pc[t] = "loaded" /\ frame[t].status # "OK"

Places == {"idle", "load", "loaded", "copy", "lookup"}

Frames == [g : Graph \cup {None}, h : Handle \cup {None}, key : Addr \cup {None},
           by : Graph \cup {None}, obj : Object \cup {None},
           tensor : Object \cup {None},
           status : {"none", "OK", "BUSY", "ERROR", "MYRIAD_ERROR", "KeyError"}]

Types ==
    /\ opened \in BOOLEAN
    /\ made \subseteq Graph
    /\ handle \in [Graph -> Handle \cup {None}]
    /\ graphOf \in [Handle -> Graph \cup {None}]
    /\ queue \in [Handle -> Seq(Inference)]
    /\ DOMAIN userobjs = Graph /\ userobjs = [g \in Graph |-> userobjs[g]]
    /\ \A g \in Graph : DOMAIN userobjs[g] \subseteq Addr
    /\ \A g \in Graph : \A k \in DOMAIN userobjs[g] : userobjs[g][k] \in Object
    /\ DOMAIN answer = Thread /\ answer = [t \in Thread |-> answer[t]]
    /\ output \in [Handle -> Object \cup {None}]
    /\ pc \in [Thread -> Places]
    /\ frame \in [Thread -> Frames]

\* The library has one graph, of a Graph that was made, and what is queued is
\* queued there.
OneGraph ==
    /\ \A g \in Graph : handle[g] # None => g \in made
    /\ \A h \in Handle : graphOf[h] # None => graphOf[h] \in made
    /\ \A h, i \in Handle : graphOf[h] # None /\ graphOf[i] # None => h = i
    /\ \A h \in Handle : graphOf[h] = None => queue[h] = <<>>

\* A py_object is in one dictionary.
Dictionaries ==
    /\ \A g \in Graph \ made : DOMAIN userobjs[g] = {}
    /\ \A g, i \in Graph : g # i => DOMAIN userobjs[g] \cap DOMAIN userobjs[i] = {}

\* What the frame f of a call at place c says.
FrameOf(f, c) ==
    /\ f.g \in made /\ f.by \in made /\ f.key \in Addr
    /\ c \in {"load", "loaded"} => f.by = f.g /\ f.obj \in Object
    /\ c = "loaded" => f.status \in {"OK", "BUSY", "ERROR"}
    /\ c \in {"copy", "lookup"} =>
         f.h \in Handle /\ (f.by = f.g \/ f.by \in stray \/ f.g \in stray)

Begun == \A t \in Thread : pc[t] # "idle" => FrameOf(frame[t], pc[t])

\* The inference x, queued at h, has its object.
Kept(x, h) ==
    /\ x.key \in DOMAIN userobjs[x.by]
    /\ userobjs[x.by][x.key] = x.input
    /\ x.by = graphOf[h] \/ x.by \in stray

\* No two inferences that are queued have the same key, and each has its object.
QueueIsKept ==
    \A h \in Handle : \A i, j \in DOMAIN queue[h] :
      /\ Kept(queue[h][i], h)
      /\ i # j => queue[h][i].key # queue[h][j].key

\* An inference with key k is queued.
IsQueued(k) == \E h \in Handle : \E i \in DOMAIN queue[h] : queue[h][i].key = k

\* The frame f of a call at place c has its entry.
Entry(f, c) ==
    /\ f.key \in DOMAIN userobjs[f.by]
    /\ c \in {"load", "loaded"} => userobjs[f.by][f.key] = f.obj

\* A call that holds an entry shares it neither with the queue nor with another.
CallsAreKept ==
    \A t \in Thread : Holds(t) =>
      /\ Entry(frame[t], pc[t])
      /\ ~IsQueued(frame[t].key)
      /\ \A u \in Thread \ {t} : Holds(u) => frame[u].key # frame[t].key

\* Every entry of the Graph whose struct is there is accounted for.
IsHeld(k) == \E t \in Thread : Holds(t) /\ frame[t].key = k

NothingElseLeaks ==
    \A h \in Handle : graphOf[h] # None =>
      \A k \in DOMAIN userobjs[graphOf[h]] : IsQueued(k) \/ k \in leaked \/ IsHeld(k)

Inv ==
    /\ Types /\ OneGraph /\ Dictionaries /\ Begun
    /\ QueueIsKept /\ CallsAreKept /\ NothingElseLeaks

\* Sequences: what Append and Tail do to the entries.
LEMMA AppendEntries ==
    ASSUME NEW S, NEW s \in Seq(S), NEW x \in S
    PROVE  /\ Append(s, x) \in Seq(S)
           /\ DOMAIN Append(s, x) = DOMAIN s \cup {Len(s) + 1}
           /\ \A i \in DOMAIN s : Append(s, x)[i] = s[i] /\ i # Len(s) + 1
           /\ Append(s, x)[Len(s) + 1] = x
OBVIOUS

LEMMA TailEntries ==
    ASSUME NEW S, NEW s \in Seq(S), s # <<>>
    PROVE  /\ Tail(s) \in Seq(S)
           /\ 1 \in DOMAIN s /\ Head(s) = s[1] /\ Head(s) \in S
           /\ \A i \in DOMAIN Tail(s) : /\ i + 1 \in DOMAIN s /\ i + 1 # 1
                                        /\ Tail(s)[i] = s[i + 1]
           /\ \A i \in DOMAIN s : i # 1 =>
                i - 1 \in DOMAIN Tail(s) /\ Tail(s)[i - 1] = s[i]
OBVIOUS

LEMMA InitInv == Init => Inv
<1> SUFFICES ASSUME Init
             PROVE  Inv
    OBVIOUS
<1> USE DEF Init
<1>1. queue = [h \in Handle |-> <<>>] /\ DOMAIN answer = Thread
      /\ answer = [t \in Thread |-> answer[t]]
  BY DEF Lib!Init
<1>2. Types
  <2>1. opened \in BOOLEAN
    BY Zenon
  <2>2. frame \in [Thread -> Frames]
    BY DEF NoFrame, Frames
  <2>3. queue \in [Handle -> Seq(Inference)]
    BY <1>1
  <2>4. \A g \in Graph : DOMAIN userobjs[g] = {}
    OBVIOUS
  <2> QED
    BY <1>1, <2>1, <2>2, <2>3, <2>4 DEF Types, Places
<1>3. /\ \A g \in Graph : DOMAIN userobjs[g] = {}
      /\ \A h \in Handle : DOMAIN queue[h] = {}
  BY <1>1
<1>4. OneGraph /\ Dictionaries
  BY <1>1, <1>3 DEF OneGraph, Dictionaries
<1>5. Begun /\ QueueIsKept /\ CallsAreKept /\ NothingElseLeaks
  BY <1>3 DEF Begun, QueueIsKept, CallsAreKept, NothingElseLeaks, Holds
<1> QED
  BY <1>2, <1>4, <1>5 DEF Inv

\* Steps of the library that leave the calls and the dictionaries alone: queues
\* are kept or emptied, graphs are kept, freed or new.
LEMMA LibraryInv ==
    ASSUME Inv, OneGraph', made \subseteq made', made' \subseteq Graph,
           opened' \in BOOLEAN, handle' \in [Graph -> Handle \cup {None}],
           graphOf' \in [Handle -> Graph \cup {None}],
           queue' \in [Handle -> Seq(Inference)],
           output' \in [Handle -> Object \cup {None}],
           \A h \in Handle : \/ queue'[h] = <<>>
                             \/ queue'[h] = queue[h] /\ graphOf'[h] = graphOf[h],
           \A h \in Handle : graphOf'[h] # None =>
             \/ graphOf'[h] \in Graph \ made
             \/ graphOf'[h] = graphOf[h] /\ queue' = queue,
           UNCHANGED <<userobjs, answer, pc, frame, leaked, stray>>
    PROVE  Inv'
<1> USE DEF Inv
<1>1. Types'
  BY DEF Types
<1>2. Dictionaries'
  BY DEF Dictionaries
<1>3. Begun'
  BY DEF Begun, FrameOf
<1>4. \A h \in Handle : \A i \in DOMAIN queue'[h] :
        /\ i \in DOMAIN queue[h] /\ queue'[h] = queue[h]
        /\ graphOf'[h] = graphOf[h]
  BY SMT
<1>5. QueueIsKept'
  BY <1>4 DEF QueueIsKept, Kept
<1>6. \A u \in Thread : Holds(u)' <=> Holds(u)
  BY DEF Holds
<1>7. \A k : IsQueued(k)' => IsQueued(k)
  BY <1>4 DEF IsQueued
<1>8. CallsAreKept'
  BY <1>6, <1>7 DEF CallsAreKept, Entry
<1>9. NothingElseLeaks'
  <2> SUFFICES ASSUME NEW h \in Handle, graphOf'[h] # None,
                      NEW k \in DOMAIN userobjs[graphOf'[h]]
               PROVE  IsQueued(k)' \/ k \in leaked \/ IsHeld(k)'
    BY DEF NothingElseLeaks
  <2>1. graphOf'[h] = graphOf[h] /\ queue' = queue
    BY DEF Dictionaries
  <2>2. (IsQueued(k)' <=> IsQueued(k)) /\ (IsHeld(k)' <=> IsHeld(k))
    BY <1>6, <2>1 DEF IsQueued, IsHeld
  <2> QED
    BY <2>1, <2>2 DEF NothingElseLeaks
<1> QED
  BY <1>1, <1>2, <1>3, <1>5, <1>8, <1>9

\* Opening, closing, allocating and deallocating.
LEMMA OwnerInv ==
    ASSUME Inv, NEW t \in Thread,
           \/ OpenDevice(t) \/ CloseDevice(t) \/ AllocateGraph(t)
           \/ DeallocateGraph(t)
    PROVE  Inv'
<1> USE DEF Inv
<1>1. CASE OpenDevice(t)
  <2>1. /\ opened' = TRUE
        /\ UNCHANGED <<made, handle, graphOf, userobjs, queue, answer, output, pc,
                       frame, leaked, stray>>
    BY <1>1 DEF OpenDevice
  <2>2. opened' \in BOOLEAN
    BY <2>1, Zenon
  <2>3. OneGraph'
    BY <2>1 DEF OneGraph
  <2>4. \A h \in Handle : queue'[h] = queue[h] /\ graphOf'[h] = graphOf[h]
    BY <2>1
  <2> QED
    BY <2>1, <2>2, <2>3, <2>4, LibraryInv DEF Types
<1>2. CASE CloseDevice(t)
  <2>1. /\ opened' = FALSE
        /\ graphOf' = [h \in Handle |-> None]
        /\ queue' = [h \in Handle |-> <<>>]
        /\ output' = [h \in Handle |-> None]
        /\ UNCHANGED <<made, handle, userobjs, answer, pc, frame, leaked, stray>>
    BY <1>2 DEF CloseDevice
  <2>2. opened' \in BOOLEAN
    BY <2>1, Zenon
  <2>3. OneGraph'
    BY <2>1 DEF OneGraph
  <2>4. /\ graphOf' \in [Handle -> Graph \cup {None}]
        /\ queue' \in [Handle -> Seq(Inference)]
        /\ output' \in [Handle -> Object \cup {None}]
        /\ \A h \in Handle : queue'[h] = <<>> /\ graphOf'[h] = None
    BY <2>1
  <2> QED
    BY <2>1, <2>2, <2>3, <2>4, LibraryInv DEF Types
<1>3. CASE AllocateGraph(t)
  <2> PICK g \in Graph \ made, h \in Handle :
         /\ made' = made \cup {g}
         /\ handle' = [handle EXCEPT ![g] = h]
         /\ graphOf' = [graphOf EXCEPT ![h] = g]
    BY <1>3 DEF AllocateGraph
  <2>1. /\ \A i \in Handle : graphOf[i] = None
        /\ UNCHANGED <<opened, userobjs, queue, answer, output, pc, frame, leaked,
                       stray>>
    BY <1>3 DEF AllocateGraph
  <2>2. /\ made \subseteq made' /\ made' \subseteq Graph
        /\ handle' \in [Graph -> Handle \cup {None}]
        /\ graphOf' \in [Handle -> Graph \cup {None}]
    BY DEF Types
  <2>3. \A i \in Handle : queue'[i] = <<>>
    BY <2>1 DEF OneGraph
  <2>4. \A i \in Handle : graphOf'[i] # None => i = h /\ graphOf'[i] = g
    BY <2>1 DEF Types
  <2>5. OneGraph'
    BY <2>3, <2>4 DEF OneGraph, Types
  <2> QED
    BY <2>1, <2>2, <2>3, <2>4, <2>5, LibraryInv DEF Types
<1>4. CASE DeallocateGraph(t)
  <2> PICK g \in made :
         /\ handle[g] # None
         /\ handle' = [handle EXCEPT ![g] = None]
         /\ graphOf' = [graphOf EXCEPT ![handle[g]] = None]
         /\ queue' = [queue EXCEPT ![handle[g]] = <<>>]
         /\ answer' = answer
         /\ output' = [output EXCEPT ![handle[g]] = None]
    BY <1>4 DEF DeallocateGraph, Lib!Drop
  <2> DEFINE h == handle[g]
  <2>1. UNCHANGED <<opened, made, userobjs, pc, frame, leaked, stray>>
    BY <1>4 DEF DeallocateGraph
  <2>2. /\ handle' \in [Graph -> Handle \cup {None}]
        /\ graphOf' \in [Handle -> Graph \cup {None}]
        /\ queue' \in [Handle -> Seq(Inference)]
        /\ output' \in [Handle -> Object \cup {None}]
    BY DEF Types
  <2>3. h \in Handle /\ graphOf'[h] = None /\ queue'[h] = <<>>
    BY DEF Types
  <2>4. \A i \in Handle \ {h} : graphOf'[i] = graphOf[i] /\ queue'[i] = queue[i]
    BY DEF Types
  <2>5. OneGraph'
    <3>1. \A i \in Graph : handle'[i] # None => handle[i] # None
      BY DEF Types
    <3> QED
      BY <2>1, <2>3, <2>4, <3>1 DEF OneGraph
  <2>6. \A i \in Handle : graphOf'[i] # None =>
          graphOf'[i] = graphOf[i] /\ queue' = queue
    <3> SUFFICES ASSUME NEW i \in Handle, graphOf'[i] # None
                 PROVE  graphOf'[i] = graphOf[i] /\ queue' = queue
      OBVIOUS
    <3>1. i # h /\ graphOf'[i] = graphOf[i]
      BY <2>3, <2>4
    <3>2. queue[h] = <<>>
      BY <2>3, <3>1 DEF OneGraph
    <3> QED
      BY <2>2, <2>3, <2>4, <3>1, <3>2 DEF Types
  <2> QED
    BY <2>1, <2>2, <2>3, <2>4, <2>5, <2>6, LibraryInv DEF Types
<1> QED
  BY <1>1, <1>2, <1>3, <1>4

\* A step of t at Goto and SetFrame changes no other call.
LEMMA CallOther ==
    ASSUME Types, NEW t \in Thread, NEW c \in Places, NEW f, Goto(t, c),
           SetFrame(t, f)
    PROVE  /\ pc' \in [Thread -> Places]
           /\ pc'[t] = c /\ frame'[t] = f
           /\ \A u \in Thread \ {t} : pc'[u] = pc[u] /\ frame'[u] = frame[u]
           /\ \A u \in Thread \ {t} : Holds(u)' <=> Holds(u)
BY DEF Types, Goto, SetFrame, Holds

\* What is queued is an inference.
LEMMA QueueItem ==
    ASSUME Types, NEW h \in Handle, NEW i \in DOMAIN queue[h]
    PROVE  queue[h][i] \in Inference /\ queue[h][i].by \in Graph
<1>1. queue[h] \in Seq(Inference)
  BY DEF Types
<1>2. queue[h][i] \in Inference
  BY <1>1
<1> QED
  BY <1>2 DEF Inference

\* A new entry: its key is in no dictionary.
LEMMA LoadTensorInv ==
    ASSUME Inv, NEW t \in Thread, NEW g \in Graph, NEW obj \in Object,
           LoadTensor(t, g, obj)
    PROVE  Inv'
<1> USE DEF Inv
<1> PICK k \in Addr \ InUse :
      /\ SetObjs(g, With(userobjs[g], k, obj))
      /\ SetFrame(t, [NoFrame EXCEPT !.g = g, !.h = handle[g], !.key = k, !.by = g,
                                     !.obj = obj])
  BY DEF LoadTensor
<1> DEFINE f == [NoFrame EXCEPT !.g = g, !.h = handle[g], !.key = k, !.by = g,
                                !.obj = obj]
<1>1. /\ pc[t] = "idle" /\ g \in made /\ Goto(t, "load")
      /\ UNCHANGED <<opened, made, handle, graphOf, queue, answer, output, leaked,
                     stray>>
  BY DEF LoadTensor, library
<1>2. /\ f.g = g /\ f.by = g /\ f.key = k /\ f.obj = obj
      /\ f \in Frames
  BY DEF NoFrame, Frames, Types
<1> HIDE DEF f
<1>3. /\ pc' \in [Thread -> Places] /\ pc'[t] = "load" /\ frame'[t] = f
      /\ \A u \in Thread \ {t} : pc'[u] = pc[u] /\ frame'[u] = frame[u]
      /\ \A u \in Thread \ {t} : Holds(u)' <=> Holds(u)
  BY <1>1, CallOther DEF Places, f
<1>4. frame' \in [Thread -> Frames]
  BY <1>2 DEF Types, SetFrame, f
<1>5. \A i \in Graph : k \notin DOMAIN userobjs[i]
  BY DEF InUse
<1>6. /\ userobjs'[g] = With(userobjs[g], k, obj)
      /\ \A i \in Graph \ {g} : userobjs'[i] = userobjs[i]
      /\ DOMAIN userobjs' = Graph /\ userobjs' = [i \in Graph |-> userobjs'[i]]
  BY DEF SetObjs, Types
<1>7. /\ DOMAIN userobjs'[g] = DOMAIN userobjs[g] \cup {k}
      /\ userobjs'[g][k] = obj
      /\ \A x \in DOMAIN userobjs[g] : userobjs'[g][x] = userobjs[g][x]
  BY <1>5, <1>6 DEF With
<1>8. \A i \in Graph : \A x \in DOMAIN userobjs[i] :
        x # k /\ x \in DOMAIN userobjs'[i] /\ userobjs'[i][x] = userobjs[i][x]
  BY <1>5, <1>6, <1>7
<1>9. Types'
  <2>1. \A i \in Graph : DOMAIN userobjs'[i] \subseteq Addr
    BY <1>6, <1>7 DEF Types
  <2>2. \A i \in Graph : \A x \in DOMAIN userobjs'[i] : userobjs'[i][x] \in Object
    BY <1>6, <1>7 DEF Types
  <2> QED
    BY <1>1, <1>3, <1>4, <1>6, <2>1, <2>2 DEF Types
<1>10. OneGraph'
  BY <1>1 DEF OneGraph
<1>11. Dictionaries'
  BY <1>1, <1>5, <1>6, <1>7 DEF Dictionaries
<1>12. Begun'
  <2>1. FrameOf(frame[t], pc[t])'
    BY <1>1, <1>2, <1>3 DEF FrameOf
  <2> QED
    BY <1>1, <1>3, <2>1 DEF Begun, FrameOf
<1>13. QueueIsKept'
  <2>1. ASSUME NEW h \in Handle, NEW i \in DOMAIN queue[h]
        PROVE  Kept(queue[h][i], h)'
    <3>1. queue[h][i].by \in Graph
      BY QueueItem
    <3> QED
      BY <1>1, <1>8, <3>1 DEF QueueIsKept, Kept
  <2> QED
    BY <1>1, <2>1 DEF QueueIsKept
<1>14. ~IsQueued(k)
  <2>1. ASSUME NEW h \in Handle, NEW i \in DOMAIN queue[h]
        PROVE  queue[h][i].key # k
    <3>1. queue[h][i].by \in Graph
      BY QueueItem
    <3> QED
      BY <1>5, <3>1 DEF QueueIsKept, Kept
  <2> QED
    BY <2>1 DEF IsQueued
<1>15. \A x : IsQueued(x)' <=> IsQueued(x)
  BY <1>1 DEF IsQueued
<1>16. CallsAreKept'
  <2>1. ASSUME NEW u \in Thread \ {t}, Holds(u)
        PROVE  Entry(frame[u], pc[u])' /\ frame[u].key # k
    <3>1. frame[u].by \in Graph
      BY <2>1 DEF Holds, Begun, FrameOf, Types
    <3> QED
      BY <1>3, <1>8, <2>1, <3>1 DEF CallsAreKept, Entry
  <2>2. Entry(frame[t], pc[t])'
    BY <1>2, <1>3, <1>7 DEF Entry
  <2>3. ASSUME NEW u \in Thread, Holds(u)'
        PROVE  Entry(frame[u], pc[u])' /\ ~IsQueued(frame'[u].key)
    <3>1. CASE u = t
      BY <3>1, <1>2, <1>3, <1>14, <2>2
    <3>2. CASE u # t
      BY <3>2, <1>3, <2>1, <2>3 DEF CallsAreKept
    <3> QED
      BY <3>1, <3>2
  <2>4. ASSUME NEW u \in Thread, NEW v \in Thread \ {u}, Holds(u)', Holds(v)'
        PROVE  frame'[v].key # frame'[u].key
    BY <1>2, <1>3, <2>1, <2>4 DEF CallsAreKept
  <2> QED
    BY <1>15, <2>3, <2>4 DEF CallsAreKept
<1>17. NothingElseLeaks'
  <2>1. Holds(t)' /\ ~Holds(t)
    BY <1>1, <1>3 DEF Holds
  <2> SUFFICES ASSUME NEW h \in Handle, graphOf[h] # None,
                      NEW x \in DOMAIN userobjs'[graphOf[h]]
               PROVE  IsQueued(x) \/ x \in leaked \/ IsHeld(x)'
    BY <1>1, <1>15 DEF NothingElseLeaks
  <2>2. CASE x = k
    BY <1>2, <1>3, <2>1, <2>2 DEF IsHeld
  <2>3. CASE x \in DOMAIN userobjs[graphOf[h]]
    <3>1. IsHeld(x) => IsHeld(x)'
      BY <1>3, <2>1 DEF IsHeld
    <3> QED
      BY <2>3, <3>1 DEF NothingElseLeaks
  <2>4. graphOf[h] \in Graph
    BY DEF Types
  <2> QED
    BY <2>2, <2>3, <2>4, <1>6, <1>7
<1> QED
  BY <1>9, <1>10, <1>11, <1>12, <1>13, <1>16, <1>17

\* A step that changes the call of t alone: the call goes on with the same
\* entry, or ends, and what it gives up is leaked.
LEMMA FrameInv ==
    ASSUME Inv, NEW t \in Thread, NEW c \in Places, NEW f \in Frames,
           Goto(t, c), SetFrame(t, f),
           c # "idle" => FrameOf(f, c),
           Holds(t)' => Holds(t) /\ f.key = frame[t].key /\ Entry(f, c),
           Holds(t) => Holds(t)' \/ frame[t].key \in leaked',
           leaked \subseteq leaked',
           UNCHANGED <<opened, made, handle, graphOf, userobjs, queue, answer,
                       output, stray>>
    PROVE  Inv'
<1> USE DEF Inv
<1>1. /\ pc' \in [Thread -> Places] /\ pc'[t] = c /\ frame'[t] = f
      /\ \A u \in Thread \ {t} : pc'[u] = pc[u] /\ frame'[u] = frame[u]
      /\ \A u \in Thread \ {t} : Holds(u)' <=> Holds(u)
  BY CallOther
<1>2. frame' \in [Thread -> Frames]
  BY DEF Types, SetFrame
<1>3. Types'
  BY <1>1, <1>2 DEF Types
<1>4. OneGraph' /\ Dictionaries' /\ QueueIsKept'
  BY DEF OneGraph, Dictionaries, QueueIsKept, Kept
<1>5. Begun'
  BY <1>1 DEF Begun, FrameOf
<1>6. \A x : IsQueued(x)' <=> IsQueued(x)
  BY DEF IsQueued
<1>7. \A u \in Thread : Holds(u)' => Holds(u) /\ frame'[u].key = frame[u].key
  BY <1>1
<1>8. CallsAreKept'
  <2>1. ASSUME NEW u \in Thread, Holds(u)'
        PROVE  Entry(frame'[u], pc'[u])
    BY <1>1, <2>1 DEF CallsAreKept
  <2>2. \A u \in Thread : Entry(frame[u], pc[u])' <=> Entry(frame'[u], pc'[u])
    BY DEF Entry
  <2> QED
    BY <1>6, <1>7, <2>1, <2>2 DEF CallsAreKept
<1>9. NothingElseLeaks'
  <2>1. \A x : IsHeld(x) => IsHeld(x)' \/ x \in leaked'
    BY <1>1, <1>7 DEF IsHeld
  <2> QED
    BY <1>6, <2>1 DEF NothingElseLeaks
<1> QED
  BY <1>3, <1>4, <1>5, <1>8, <1>9

\* The library takes the inference, or the entry stays with the call.
LEMMA LoadCallInv ==
    ASSUME Inv, NEW t \in Thread, LoadCall(t)
    PROVE  Inv'
<1> USE DEF Inv
<1> DEFINE f(st) == [frame[t] EXCEPT !.status = st]
           g == frame[t].g
           h == frame[t].h
           k == frame[t].key
           e == [key |-> k, input |-> frame[t].obj, by |-> g]
<1>1. /\ pc[t] = "load" /\ Goto(t, "loaded")
      /\ UNCHANGED <<opened, made, handle, graphOf, userobjs, output, leaked>>
  BY DEF LoadCall, library
<1>2. /\ Holds(t) /\ FrameOf(frame[t], "load") /\ Entry(frame[t], "load")
      /\ frame[t] \in Frames
  BY <1>1 DEF Holds, Begun, CallsAreKept, Types
<1>3. ASSUME NEW st \in {"OK", "BUSY", "ERROR"}
      PROVE  /\ f(st) \in Frames /\ f(st).key = k /\ f(st).status = st
             /\ f(st).g = g /\ f(st).by = g /\ f(st).obj = frame[t].obj
             /\ FrameOf(f(st), "loaded") /\ Entry(f(st), "loaded")
  <2>1. f(st) \in Frames
    BY <1>2 DEF Frames
  <2>2. /\ f(st).key = k /\ f(st).status = st /\ f(st).obj = frame[t].obj
        /\ f(st).g = g /\ f(st).by = frame[t].by
    BY <1>2 DEF Frames
  <2> HIDE DEF f
  <2> QED
    BY <1>2, <2>1, <2>2 DEF FrameOf, Entry
<1>4. /\ g \in made /\ g \in Graph /\ k \in Addr /\ frame[t].obj \in Object
      /\ frame[t].by = g /\ k \in DOMAIN userobjs[g] /\ userobjs[g][k] = frame[t].obj
  BY <1>2 DEF FrameOf, Entry, Types
<1>5. \/ /\ Found(h) /\ Lib!Load(h, e) /\ SetFrame(t, f("OK")) /\ Reach(g, h)
      \/ /\ \E st \in {"BUSY", "ERROR"} : SetFrame(t, f(st))
         /\ UNCHANGED <<queue, answer, stray>>
  BY DEF LoadCall
<1> HIDE DEF f
<1>6. ASSUME NEW st \in {"BUSY", "ERROR"}, SetFrame(t, f(st)),
             UNCHANGED <<queue, answer, stray>>
      PROVE  Inv'
  <2>1. pc'[t] = "loaded" /\ frame'[t] = f(st)
    BY <1>1, <1>6, CallOther DEF Places
  <2>2. Holds(t)'
    BY <1>3, <2>1 DEF Holds
  <2> QED
    BY <1>1, <1>2, <1>3, <1>6, <2>2, FrameInv DEF Places
<1>7. ASSUME Found(h), Lib!Load(h, e), SetFrame(t, f("OK")), Reach(g, h)
      PROVE  Inv'
  <2>1. e \in Inference /\ e.key = k /\ e.input = frame[t].obj /\ e.by = g
    BY <1>4 DEF Inference
  <2>2. h \in Handle /\ graphOf[h] # None
    BY <1>2, <1>7 DEF Found, Frames
  <2>3. queue' = [queue EXCEPT ![h] = Append(queue[h], e)] /\ answer' = answer
    BY <1>7 DEF Lib!Load
  <2>4. stray \subseteq stray' /\ (graphOf[h] = g \/ g \in stray')
    BY <1>7 DEF Reach
  <2> DEFINE n == Len(queue[h]) + 1
  <2>5. /\ queue' \in [Handle -> Seq(Inference)]
        /\ \A i \in Handle \ {h} : queue'[i] = queue[i]
        /\ DOMAIN queue'[h] = DOMAIN queue[h] \cup {n}
        /\ \A i \in DOMAIN queue[h] : queue'[h][i] = queue[h][i] /\ i # n
        /\ queue'[h][n] = e
    <3>1. queue[h] \in Seq(Inference)
      BY <2>2 DEF Types
    <3>2. /\ Append(queue[h], e) \in Seq(Inference)
          /\ DOMAIN Append(queue[h], e) = DOMAIN queue[h] \cup {n}
          /\ \A i \in DOMAIN queue[h] :
               Append(queue[h], e)[i] = queue[h][i] /\ i # n
          /\ Append(queue[h], e)[n] = e
      BY <2>1, <3>1, AppendEntries
    <3> QED
      BY <2>2, <2>3, <3>2 DEF Types
  <2> HIDE DEF e, n
  <2>6. /\ pc' \in [Thread -> Places] /\ pc'[t] = "loaded" /\ frame'[t] = f("OK")
        /\ \A u \in Thread \ {t} : pc'[u] = pc[u] /\ frame'[u] = frame[u]
        /\ \A u \in Thread \ {t} : Holds(u)' <=> Holds(u)
    BY <1>1, <1>7, CallOther DEF Places
  <2>7. ~Holds(t)'
    BY <1>3, <2>6 DEF Holds
  <2>8. Types'
    <3>1. frame' \in [Thread -> Frames]
      BY <1>3, <1>7 DEF Types, SetFrame
    <3> QED
      BY <1>1, <2>3, <2>5, <2>6, <3>1 DEF Types
  <2>9. OneGraph' /\ Dictionaries'
    BY <1>1, <2>2, <2>5 DEF OneGraph, Dictionaries
  <2>10. Begun'
    <3>1. FrameOf(frame[t], pc[t])'
      BY <1>1, <1>3, <2>6 DEF FrameOf
    <3> QED
      BY <1>1, <2>4, <2>6, <3>1 DEF Begun, FrameOf
  <2>11. ~IsQueued(k)
    BY <1>2 DEF CallsAreKept
  <2>12. QueueIsKept'
    <3> DEFINE NextKept(x, i) == /\ x.key \in DOMAIN userobjs[x.by]
                                 /\ userobjs[x.by][x.key] = x.input
                                 /\ x.by = graphOf[i] \/ x.by \in stray'
    <3>1. NextKept(e, h)
      BY <1>4, <2>1, <2>4
    <3>2. ASSUME NEW i \in Handle, NEW j \in DOMAIN queue[i]
          PROVE  NextKept(queue[i][j], i) /\ queue[i][j].key # k
      BY <2>4, <2>11 DEF QueueIsKept, Kept, IsQueued
    <3> HIDE DEF NextKept
    <3>3. ASSUME NEW i \in Handle, NEW j \in DOMAIN queue'[i]
          PROVE  NextKept(queue'[i][j], i)
      <4>1. CASE i = h /\ j = n
        BY <2>5, <3>1, <4>1
      <4>2. CASE j \in DOMAIN queue[i] /\ queue'[i][j] = queue[i][j]
        BY <3>2, <4>2
      <4> QED
        BY <2>5, <4>1, <4>2
    <3>4. ASSUME NEW i \in Handle, NEW j \in DOMAIN queue'[i],
                 NEW m \in DOMAIN queue'[i], j # m
          PROVE  queue'[i][j].key # queue'[i][m].key
      <4>1. CASE i = h /\ (j = n \/ m = n)
        BY <2>1, <2>5, <3>2, <3>4, <4>1
      <4>2. CASE /\ j \in DOMAIN queue[i] /\ queue'[i][j] = queue[i][j]
                 /\ m \in DOMAIN queue[i] /\ queue'[i][m] = queue[i][m]
        BY <3>4, <4>2 DEF QueueIsKept
      <4> QED
        BY <2>5, <4>1, <4>2
    <3> QED
      BY <1>1, <3>3, <3>4 DEF QueueIsKept, Kept, NextKept
  <2>13. \A x : IsQueued(x)' <=> IsQueued(x) \/ x = k
    BY <2>1, <2>2, <2>5 DEF IsQueued
  <2>14. CallsAreKept'
    <3>1. ASSUME NEW u \in Thread, Holds(u)'
          PROVE  /\ u # t /\ Holds(u) /\ frame'[u] = frame[u] /\ pc'[u] = pc[u]
                 /\ frame[u].key # k
      BY <1>2, <2>6, <2>7, <3>1 DEF CallsAreKept
    <3>2. ASSUME NEW u \in Thread, Holds(u)'
          PROVE  Entry(frame[u], pc[u])'
      BY <1>1, <3>1, <3>2 DEF CallsAreKept, Entry
    <3> QED
      BY <2>13, <3>1, <3>2 DEF CallsAreKept
  <2>15. NothingElseLeaks'
    <3>1. \A x : IsHeld(x) => IsHeld(x)' \/ x = k
      BY <2>6 DEF IsHeld
    <3> QED
      BY <1>1, <2>13, <3>1 DEF NothingElseLeaks
  <2> QED
    BY <2>8, <2>9, <2>10, <2>12, <2>14, <2>15
<1> QED
  BY <1>5, <1>6, <1>7

\* A call deletes the entry it holds and ends.
LEMMA DropEntryInv ==
    ASSUME Inv, NEW t \in Thread, Holds(t), NEW f \in Frames,
           frame[t].by = frame[t].g,
           Goto(t, "idle"), SetFrame(t, f),
           SetObjs(frame[t].g, Without(userobjs[frame[t].g], frame[t].key)),
           UNCHANGED <<opened, made, handle, graphOf, queue, answer, output, leaked,
                       stray>>
    PROVE  Inv'
<1> USE DEF Inv
<1> DEFINE g == frame[t].g
           k == frame[t].key
<1>1. /\ pc' \in [Thread -> Places] /\ pc'[t] = "idle" /\ frame'[t] = f
      /\ \A u \in Thread \ {t} : pc'[u] = pc[u] /\ frame'[u] = frame[u]
      /\ \A u \in Thread \ {t} : Holds(u)' <=> Holds(u)
  BY CallOther DEF Places
<1>2. ~Holds(t)'
  BY <1>1 DEF Holds
<1>3. g \in Graph /\ ~IsQueued(k)
  BY DEF CallsAreKept, Holds, Begun, FrameOf, Types
<1>4. /\ userobjs'[g] = Without(userobjs[g], k)
      /\ \A i \in Graph \ {g} : userobjs'[i] = userobjs[i]
      /\ DOMAIN userobjs' = Graph /\ userobjs' = [i \in Graph |-> userobjs'[i]]
  BY <1>3 DEF SetObjs, Types
<1>5. \A i \in Graph : \A x \in DOMAIN userobjs[i] :
        x # k => x \in DOMAIN userobjs'[i] /\ userobjs'[i][x] = userobjs[i][x]
  BY <1>4 DEF Without
<1>6. \A i \in Graph : \A x \in DOMAIN userobjs'[i] :
        /\ i # g \/ x # k
        /\ x \in DOMAIN userobjs[i] /\ userobjs'[i][x] = userobjs[i][x]
  BY <1>4 DEF Without
<1>7. Types'
  <2>1. frame' \in [Thread -> Frames]
    BY DEF Types, SetFrame
  <2>2. \A i \in Graph : DOMAIN userobjs'[i] \subseteq Addr
    BY <1>6 DEF Types
  <2>3. \A i \in Graph : \A x \in DOMAIN userobjs'[i] : userobjs'[i][x] \in Object
    BY <1>6 DEF Types
  <2> QED
    BY <1>1, <1>4, <2>1, <2>2, <2>3 DEF Types
<1>8. OneGraph'
  BY DEF OneGraph
<1>9. Dictionaries'
  BY <1>6 DEF Dictionaries
<1>10. Begun'
  BY <1>1 DEF Begun, FrameOf
<1>11. \A x : IsQueued(x)' <=> IsQueued(x)
  BY DEF IsQueued
<1>12. QueueIsKept'
  <2>1. ASSUME NEW h \in Handle, NEW i \in DOMAIN queue[h]
        PROVE  Kept(queue[h][i], h)'
    <3>1. queue[h][i].by \in Graph /\ queue[h][i].key # k
      BY <1>3, QueueItem DEF IsQueued
    <3> QED
      BY <1>5, <3>1 DEF QueueIsKept, Kept
  <2> QED
    BY <2>1 DEF QueueIsKept
<1>13. CallsAreKept'
  <2>1. ASSUME NEW u \in Thread, Holds(u)'
        PROVE  /\ u # t /\ Holds(u) /\ frame'[u] = frame[u] /\ pc'[u] = pc[u]
               /\ frame[u].by \in Graph /\ frame[u].key # k
    BY <1>1, <1>2, <2>1 DEF CallsAreKept, Holds, Begun, FrameOf, Types
  <2>2. ASSUME NEW u \in Thread, Holds(u)'
        PROVE  Entry(frame[u], pc[u])'
    BY <1>5, <2>1, <2>2 DEF CallsAreKept, Entry
  <2> QED
    BY <1>11, <2>1, <2>2 DEF CallsAreKept
<1>14. NothingElseLeaks'
  <2> SUFFICES ASSUME NEW h \in Handle, graphOf[h] # None,
                      NEW x \in DOMAIN userobjs'[graphOf[h]]
               PROVE  IsQueued(x) \/ x \in leaked \/ IsHeld(x)'
    BY <1>11 DEF NothingElseLeaks
  <2>1. graphOf[h] \in Graph /\ x \in DOMAIN userobjs[graphOf[h]]
    BY <1>6 DEF Types
  <2>2. x # k
    <3>1. k \in DOMAIN userobjs[g]
      BY DEF CallsAreKept, Entry
    <3>2. graphOf[h] # g => k \notin DOMAIN userobjs[graphOf[h]]
      BY <1>3, <2>1, <3>1 DEF Dictionaries
    <3> QED
      BY <1>6, <2>1, <3>2
  <2>3. IsHeld(x) => IsHeld(x)'
    BY <1>1, <2>2 DEF IsHeld
  <2> QED
    BY <2>1, <2>3 DEF NothingElseLeaks
<1> QED
  BY <1>7, <1>8, <1>9, <1>10, <1>12, <1>13, <1>14

\* mvncLoadTensor has returned: the entry goes, stays with the inference, or
\* is leaked.
LEMMA LoadReturnInv ==
    ASSUME Inv, NEW t \in Thread, LoadReturn(t)
    PROVE  Inv'
<1> USE DEF Inv
<1>1. /\ pc[t] = "loaded" /\ Goto(t, "idle") /\ SetFrame(t, NoFrame)
      /\ UNCHANGED <<opened, made, handle, graphOf, queue, answer, output, stray>>
  BY DEF LoadReturn, library
<1>2. NoFrame \in Frames
  BY DEF NoFrame, Frames
<1>3. FrameOf(frame[t], "loaded")
  BY <1>1 DEF Begun
<1>4. CASE frame[t].status = "ERROR"
  <2>1. Holds(t) /\ frame[t].by = frame[t].g
    BY <1>1, <1>3, <1>4 DEF Holds, FrameOf
  <2>2. /\ SetObjs(frame[t].g, Without(userobjs[frame[t].g], frame[t].key))
        /\ UNCHANGED leaked
    BY <1>4 DEF LoadReturn
  <2> QED
    BY <1>1, <1>2, <2>1, <2>2, DropEntryInv
<1>5. CASE frame[t].status # "ERROR"
  <2>1. userobjs' = userobjs /\ leaked \subseteq leaked'
    BY <1>5 DEF LoadReturn
  <2>2. ~Holds(t)'
    BY <1>1, <1>2, CallOther DEF Holds, Places
  <2>3. Holds(t) => frame[t].key \in leaked'
    <3>1. frame[t].status = "BUSY" => frame[t].key \in leaked'
      BY DEF LoadReturn
    <3>2. Holds(t) => frame[t].status # "OK"
      BY <1>1 DEF Holds
    <3> QED
      BY <1>3, <1>5, <3>1, <3>2 DEF FrameOf
  <2> QED
    BY <1>1, <1>2, <2>1, <2>2, <2>3, FrameInv DEF Places
<1> QED
  BY <1>4, <1>5

\* The library returns its oldest inference; the entry passes to the call, or
\* is leaked by the exception.
LEMMA GetResultInv ==
    ASSUME Inv, NEW t \in Thread, NEW g \in Graph, GetResult(t, g)
    PROVE  Inv'
<1> USE DEF Inv
<1> PICK h, x, k : h = handle[g] /\ x = Head(queue[h]) /\ k = x.key
  OBVIOUS
<1> DEFINE fc == [NoFrame EXCEPT !.g = g, !.h = h, !.key = answer'[t].userParam.key,
                                 !.by = answer'[t].userParam.by]
           fe == [NoFrame EXCEPT !.status = "MYRIAD_ERROR"]
<1>1. /\ pc[t] = "idle" /\ Found(h) /\ Lib!Deliver(t, h) /\ Reach(g, h)
      /\ output' = [output EXCEPT ![h] = x.input]
      /\ UNCHANGED <<opened, made, handle, graphOf, userobjs>>
      /\ \/ SetFrame(t, fc) /\ Goto(t, "copy") /\ UNCHANGED leaked
         \/ SetFrame(t, fe) /\ leaked' = leaked \cup {k} /\ UNCHANGED pc
  BY DEF GetResult, library
<1>2. /\ h \in Handle /\ g \in made
      /\ stray \subseteq stray' /\ (graphOf[h] = g \/ g \in stray')
  BY <1>1 DEF Found, Reach, Types, OneGraph
<1>3. /\ queue[h] # <<>> /\ queue' = [queue EXCEPT ![h] = Tail(queue[h])]
      /\ answer' = [answer EXCEPT ![t] = [output |-> x, userParam |-> x]]
  BY <1>1 DEF Lib!Deliver
<1>4. /\ Tail(queue[h]) \in Seq(Inference)
      /\ 1 \in DOMAIN queue[h] /\ x = queue[h][1]
      /\ x \in Inference
      /\ \A i \in DOMAIN Tail(queue[h]) :
           /\ i + 1 \in DOMAIN queue[h] /\ i + 1 # 1
           /\ Tail(queue[h])[i] = queue[h][i + 1]
      /\ \A i \in DOMAIN queue[h] : i # 1 =>
           /\ i - 1 \in DOMAIN Tail(queue[h])
           /\ Tail(queue[h])[i - 1] = queue[h][i]
  <2>1. queue[h] \in Seq(Inference)
    BY <1>2 DEF Types
  <2> QED
    BY <1>3, <2>1, TailEntries
<1>5. /\ queue' \in [Handle -> Seq(Inference)] /\ queue'[h] = Tail(queue[h])
      /\ \A i \in Handle \ {h} : queue'[i] = queue[i]
  BY <1>2, <1>3, <1>4 DEF Types
<1>6. /\ DOMAIN answer' = Thread /\ answer' = [u \in Thread |-> answer'[u]]
      /\ answer'[t].userParam = x
  BY <1>3 DEF Types
<1>7. /\ k \in Addr /\ x.input \in Object /\ x.by \in made
      /\ Kept(x, h)
  <2>1. Kept(x, h)
    BY <1>2, <1>4 DEF QueueIsKept
  <2>2. k \in Addr /\ x.input \in Object /\ x.by \in Graph
    BY <1>4 DEF Inference
  <2> QED
    BY <2>1, <2>2 DEF Kept, Dictionaries
<1>8. /\ fc \in Frames /\ fc.g = g /\ fc.h = h /\ fc.key = k /\ fc.by = x.by
      /\ fe \in Frames
  BY <1>2, <1>6, <1>7 DEF NoFrame, Frames, Types
<1>9. \A i \in Handle : \A j \in DOMAIN queue'[i] :
        \E m \in DOMAIN queue[i] : queue[i][m] = queue'[i][j] /\ (i # h \/ m # 1)
  <2>1. ASSUME NEW j \in DOMAIN queue'[h]
        PROVE  \E m \in DOMAIN queue[h] : queue[h][m] = queue'[h][j] /\ m # 1
    <3>1. j + 1 \in DOMAIN queue[h] /\ queue[h][j + 1] = queue'[h][j] /\ j + 1 # 1
      BY <1>4, <1>5
    <3> QED
      BY <3>1
  <2>2. \A i \in Handle \ {h} : \A j \in DOMAIN queue'[i] :
          j \in DOMAIN queue[i] /\ queue[i][j] = queue'[i][j]
    BY <1>5
  <2> QED
    BY <2>1, <2>2
<1>10. \A i \in Handle : \A j \in DOMAIN queue[i] : (i # h \/ j # 1) =>
         \E m \in DOMAIN queue'[i] : queue'[i][m] = queue[i][j]
  <2>1. ASSUME NEW j \in DOMAIN queue[h], j # 1
        PROVE  \E m \in DOMAIN queue'[h] : queue'[h][m] = queue[h][j]
    <3>1. j - 1 \in DOMAIN queue'[h] /\ queue'[h][j - 1] = queue[h][j]
      BY <1>4, <1>5, <2>1
    <3> QED
      BY <3>1
  <2>2. \A i \in Handle \ {h} : \A j \in DOMAIN queue[i] :
          j \in DOMAIN queue'[i] /\ queue'[i][j] = queue[i][j]
    BY <1>5
  <2> QED
    BY <2>1, <2>2
<1>11. \A i \in Handle \ {h} : DOMAIN queue[i] = {}
  BY <1>1, <1>2 DEF Found, OneGraph
<1>12. ~IsQueued(k)'
  <2>1. \A i \in Handle : \A j \in DOMAIN queue'[i] : queue'[i][j].key # k
    BY <1>2, <1>4, <1>9, <1>11 DEF QueueIsKept
  <2> QED
    BY <2>1 DEF IsQueued
<1>13. /\ IsQueued(k)
       /\ \A y : IsQueued(y)' => IsQueued(y)
       /\ \A y : IsQueued(y) => IsQueued(y)' \/ y = k
  <2>1. IsQueued(k)
    BY <1>2, <1>4 DEF IsQueued
  <2>2. ASSUME NEW y, IsQueued(y)'
        PROVE  IsQueued(y)
    BY <1>9, <2>2 DEF IsQueued
  <2>3. ASSUME NEW y, IsQueued(y), y # k
        PROVE  IsQueued(y)'
    BY <1>4, <1>10, <2>3 DEF IsQueued
  <2> QED
    BY <2>1, <2>2, <2>3
<1>14. ~Holds(t)
  BY <1>1 DEF Holds
<1> HIDE DEF fc, fe
<1>15. /\ frame' \in [Thread -> Frames] /\ pc' \in [Thread -> Places]
       /\ \A u \in Thread \ {t} : /\ pc'[u] = pc[u] /\ frame'[u] = frame[u]
                                  /\ Holds(u)' <=> Holds(u)
       /\ \/ Holds(t)' /\ pc'[t] = "copy" /\ frame'[t] = fc /\ leaked' = leaked
          \/ ~Holds(t)' /\ pc'[t] = "idle" /\ leaked' = leaked \cup {k}
  <2>1. CASE SetFrame(t, fc) /\ Goto(t, "copy") /\ UNCHANGED leaked
    <3>1. /\ pc' \in [Thread -> Places] /\ pc'[t] = "copy" /\ frame'[t] = fc
          /\ \A u \in Thread \ {t} : pc'[u] = pc[u] /\ frame'[u] = frame[u]
          /\ \A u \in Thread \ {t} : Holds(u)' <=> Holds(u)
      BY <2>1, CallOther DEF Places
    <3>2. frame' \in [Thread -> Frames]
      BY <1>8, <2>1 DEF SetFrame, Types
    <3>3. Holds(t)'
      BY <3>1 DEF Holds
    <3> QED
      BY <2>1, <3>1, <3>2, <3>3
  <2>2. CASE SetFrame(t, fe) /\ leaked' = leaked \cup {k} /\ UNCHANGED pc
    <3>1. frame' \in [Thread -> Frames]
      BY <1>8, <2>2 DEF SetFrame, Types
    <3>2. \A u \in Thread \ {t} : pc'[u] = pc[u] /\ frame'[u] = frame[u]
      BY <2>2 DEF SetFrame, Types
    <3>3. \A u \in Thread \ {t} : Holds(u)' <=> Holds(u)
      BY <3>2 DEF Holds
    <3>4. pc'[t] = "idle" /\ ~Holds(t)'
      BY <1>1, <2>2 DEF Holds
    <3> QED
      BY <2>2, <3>1, <3>2, <3>3, <3>4 DEF Types
  <2> QED
    BY <1>1, <2>1, <2>2
<1>16. Types'
  <2>1. output' \in [Handle -> Object \cup {None}]
    BY <1>1, <1>7 DEF Types
  <2> QED
    BY <1>1, <1>5, <1>6, <1>15, <2>1 DEF Types
<1>17. OneGraph' /\ Dictionaries'
  BY <1>1, <1>2, <1>5 DEF OneGraph, Dictionaries, Found
<1>18. Begun'
  <2>1. pc'[t] = "copy" => FrameOf(frame[t], pc[t])'
    BY <1>1, <1>2, <1>7, <1>8, <1>15 DEF FrameOf, Kept
  <2>2. \A u \in Thread \ {t} : pc[u] # "idle" => FrameOf(frame[u], pc[u])'
    BY <1>1, <1>2, <1>15 DEF Begun, FrameOf
  <2> QED
    BY <1>15, <2>1, <2>2 DEF Begun
<1>19. QueueIsKept'
  <2>1. ASSUME NEW i \in Handle, NEW j \in DOMAIN queue'[i]
        PROVE  Kept(queue[i][j], i)'
    <3> PICK m \in DOMAIN queue[i] : queue[i][m] = queue'[i][j]
      BY <1>9
    <3>1. Kept(queue[i][m], i)
      BY DEF QueueIsKept
    <3> QED
      BY <1>1, <1>2, <3>1 DEF Kept
  <2>2. ASSUME NEW i \in DOMAIN queue'[h], NEW j \in DOMAIN queue'[h], i # j
        PROVE  queue'[h][i].key # queue'[h][j].key
    <3>1. i + 1 # j + 1
      BY <1>4, <1>5, <2>2
    <3> QED
      BY <1>2, <1>4, <1>5, <3>1 DEF QueueIsKept
  <2>3. \A i \in Handle \ {h} : DOMAIN queue'[i] = {}
    BY <1>5, <1>11
  <2> QED
    BY <2>1, <2>2, <2>3 DEF QueueIsKept
<1>20. CallsAreKept'
  <2>1. ASSUME NEW u \in Thread \ {t}, Holds(u)
        PROVE  Entry(frame[u], pc[u])' /\ ~IsQueued(frame[u].key)' /\ frame[u].key # k
    <3>1. Entry(frame[u], pc[u]) /\ ~IsQueued(frame[u].key)
      BY <2>1 DEF CallsAreKept
    <3>2. frame'[u] = frame[u] /\ pc'[u] = pc[u]
      BY <1>15
    <3>3. ~IsQueued(frame[u].key)' /\ frame[u].key # k
      BY <1>13, <3>1, <3>2
    <3> QED
      BY <1>1, <3>1, <3>2, <3>3 DEF Entry
  <2>2. ASSUME Holds(t)'
        PROVE  Entry(frame[t], pc[t])' /\ ~IsQueued(frame[t].key)' /\ frame'[t].key = k
    <3>1. frame'[t] = fc /\ pc'[t] = "copy"
      BY <1>15, <2>2
    <3>2. Entry(frame[t], pc[t])'
      BY <1>1, <1>7, <1>8, <3>1 DEF Entry, Kept
    <3> QED
      BY <1>8, <1>12, <3>1, <3>2
  <2>3. ASSUME NEW u \in Thread, Holds(u)', NEW v \in Thread \ {u}, Holds(v)'
        PROVE  frame'[v].key # frame'[u].key
    <3>1. CASE u = t
      BY <1>15, <2>1, <2>2, <2>3, <3>1
    <3>2. CASE v = t
      BY <1>15, <2>1, <2>2, <2>3, <3>2
    <3>3. CASE u # t /\ v # t
      BY <1>15, <2>3, <3>3 DEF CallsAreKept
    <3> QED
      BY <3>1, <3>2, <3>3
  <2>4. \A u \in Thread : Holds(u)' =>
          Entry(frame[u], pc[u])' /\ ~IsQueued(frame[u].key)'
    BY <1>15, <2>1, <2>2
  <2> QED
    BY <2>3, <2>4 DEF CallsAreKept
<1>21. NothingElseLeaks'
  <2>1. IsHeld(k)' \/ k \in leaked'
    BY <1>8, <1>15 DEF IsHeld
  <2>2. \A y : IsHeld(y) => IsHeld(y)'
    BY <1>14, <1>15 DEF IsHeld
  <2>3. leaked \subseteq leaked'
    BY <1>15
  <2> QED
    BY <1>1, <1>13, <2>1, <2>2, <2>3 DEF NothingElseLeaks
<1> QED
  BY <1>16, <1>17, <1>18, <1>19, <1>20, <1>21

LEMMA CopyTensorInv ==
    ASSUME Inv, NEW t \in Thread, CopyTensor(t)
    PROVE  Inv'
<1> USE DEF Inv
<1> DEFINE f == [frame[t] EXCEPT !.tensor = output[frame[t].h]]
<1>1. /\ pc[t] = "copy" /\ Goto(t, "lookup") /\ SetFrame(t, f)
      /\ UNCHANGED <<opened, made, handle, graphOf, userobjs, queue, answer, output,
                     leaked, stray>>
  BY DEF CopyTensor, library
<1>2. /\ Holds(t) /\ frame[t] \in Frames
      /\ FrameOf(frame[t], "copy") /\ Entry(frame[t], "copy")
  BY <1>1 DEF Types, Begun, CallsAreKept, Holds
<1>3. /\ f \in Frames /\ f.g = frame[t].g /\ f.key = frame[t].key
      /\ f.by = frame[t].by /\ f.h = frame[t].h
  BY <1>2 DEF Types, Frames, FrameOf
<1> HIDE DEF f
<1>4. FrameOf(f, "lookup") /\ Entry(f, "lookup")
  BY <1>2, <1>3 DEF FrameOf, Entry
<1>5. Holds(t)'
  BY <1>1, CallOther DEF Holds, Places
<1> QED
  BY <1>1, <1>2, <1>3, <1>4, <1>5, FrameInv DEF Places

\* The entry is deleted, or the lookup raises and the entry is leaked.
LEMMA LookUpInv ==
    ASSUME Inv, NEW t \in Thread, LookUp(t)
    PROVE  Inv'
<1> USE DEF Inv
<1> DEFINE g == frame[t].g
           k == frame[t].key
           found == [frame[t] EXCEPT !.obj = userobjs[g][k], !.status = "OK"]
           lost == [frame[t] EXCEPT !.status = "KeyError"]
<1>1. /\ pc[t] = "lookup" /\ Goto(t, "idle")
      /\ UNCHANGED <<opened, made, handle, graphOf, queue, answer, output, stray>>
      /\ \/ /\ k \in DOMAIN userobjs[g] /\ SetFrame(t, found)
            /\ SetObjs(g, Without(userobjs[g], k)) /\ UNCHANGED leaked
         \/ SetFrame(t, lost) /\ leaked' = leaked \cup {k} /\ UNCHANGED userobjs
  BY DEF LookUp, library
<1>2. /\ Holds(t) /\ frame[t] \in Frames /\ g \in Graph /\ frame[t].by \in Graph
      /\ Entry(frame[t], "lookup")
  BY <1>1 DEF Types, Begun, FrameOf, CallsAreKept, Holds
<1>3. lost \in Frames /\ (k \in DOMAIN userobjs[g] => found \in Frames)
  BY <1>2 DEF Types, Frames
<1> HIDE DEF found, lost
<1>4. CASE /\ k \in DOMAIN userobjs[g] /\ SetFrame(t, found)
           /\ SetObjs(g, Without(userobjs[g], k)) /\ UNCHANGED leaked
  <2>1. frame[t].by = g
    BY <1>2, <1>4 DEF Dictionaries, Entry
  <2> QED
    BY <1>1, <1>2, <1>3, <1>4, <2>1, DropEntryInv
<1>5. CASE SetFrame(t, lost) /\ leaked' = leaked \cup {k} /\ UNCHANGED userobjs
  <2>1. ~Holds(t)'
    BY <1>1, <1>5, CallOther DEF Holds, Places
  <2> QED
    BY <1>1, <1>3, <1>5, <2>1, FrameInv DEF Places
<1> QED
  BY <1>1, <1>4, <1>5

LEMMA NextInv == Inv /\ [Next]_vars => Inv'
<1> SUFFICES ASSUME Inv, [Next]_vars
             PROVE  Inv'
    OBVIOUS
<1>1. CASE Next
  <2>1. Loader \subseteq Thread /\ Reader \subseteq Thread
    BY RoleAssumption
  <2>2. ASSUME NEW t \in Reader, \/ OpenDevice(t) \/ CloseDevice(t)
                                 \/ AllocateGraph(t) \/ DeallocateGraph(t)
        PROVE  Inv'
    BY <2>1, <2>2, OwnerInv
  <2>3. ASSUME NEW t \in Loader, NEW g \in Graph, NEW obj \in Object,
               LoadTensor(t, g, obj)
        PROVE  Inv'
    BY <2>1, <2>3, LoadTensorInv
  <2>4. ASSUME NEW t \in Loader, LoadCall(t) \/ LoadReturn(t)
        PROVE  Inv'
    BY <2>1, <2>4, LoadCallInv, LoadReturnInv
  <2>5. ASSUME NEW t \in Reader, NEW g \in Graph, GetResult(t, g)
        PROVE  Inv'
    BY <2>1, <2>5, GetResultInv
  <2>6. ASSUME NEW t \in Reader, CopyTensor(t) \/ LookUp(t)
        PROVE  Inv'
    BY <2>1, <2>6, CopyTensorInv, LookUpInv
  <2> QED
    BY <1>1, <2>2, <2>3, <2>4, <2>5, <2>6 DEF Next
<1>2. CASE UNCHANGED vars
  <2>1. UNCHANGED <<opened, made, handle, graphOf, userobjs, queue, answer, output,
                    pc, frame, leaked, stray>>
    BY <1>2 DEF vars
  <2>2. Types' /\ OneGraph' /\ Dictionaries'
    BY <2>1 DEF Inv, Types, OneGraph, Dictionaries
  <2>3. Begun' /\ QueueIsKept'
    BY <2>1 DEF Inv, Begun, FrameOf, QueueIsKept, Kept
  <2>4. CallsAreKept' /\ NothingElseLeaks'
    BY <2>1 DEF Inv, CallsAreKept, Entry, NothingElseLeaks, IsQueued, IsHeld, Holds
  <2> QED
    BY <2>2, <2>3, <2>4 DEF Inv
<1> QED
  BY <1>1, <1>2

LEMMA InvHolds == Spec => []Inv
BY InitInv, NextInv, PTL DEF Spec

\* Every inference in the library, and every one that GetResult reads, has its
\* object under its own address in the dictionary of the Graph that loaded it,
\* and GetResult looks there unless a struct was freed and its address given
\* out again (mvncapi.py:241-268): for any number of Graphs, addresses and
\* objects and any capacity, with the one loading thread and the one thread for
\* the rest for which the library is a queue.
THEOREM UserParamsLive == Spec => []UserParamsAreLive
<1>1. ASSUME Inv
      PROVE  UserParamsAreLive
  <2> USE <1>1 DEF Inv
  <2>1. \A h \in Handle : \A i, j \in DOMAIN queue[h] :
          /\ queue[h][i].key \in DOMAIN userobjs[queue[h][i].by]
          /\ userobjs[queue[h][i].by][queue[h][i].key] = queue[h][i].input
          /\ i # j => queue[h][i].key # queue[h][j].key
          /\ queue[h][i].by = graphOf[h] \/ queue[h][i].by \in stray
    BY DEF QueueIsKept, Kept
  <2>2. ASSUME NEW t \in Reading
        PROVE  /\ frame[t].key \in DOMAIN userobjs[frame[t].by] \ Keys
               /\ \/ frame[t].by = frame[t].g \/ frame[t].by \in stray
                  \/ frame[t].g \in stray
    <3>1. t \in Thread /\ Holds(t) /\ pc[t] \in {"copy", "lookup"}
      BY DEF Reading, Holds
    <3>2. frame[t].key \in DOMAIN userobjs[frame[t].by] /\ ~IsQueued(frame[t].key)
      BY <3>1 DEF CallsAreKept, Entry
    <3>3. frame[t].key \notin Keys
      BY <3>2 DEF Keys, Queued, IsQueued
    <3>4. FrameOf(frame[t], pc[t])
      BY <3>1 DEF Begun
    <3> QED
      BY <3>1, <3>2, <3>3, <3>4 DEF FrameOf
  <2> QED
    BY <2>1, <2>2 DEF UserParamsAreLive
<1> QED
  BY <1>1, InvHolds, PTL

\* What userobjs keeps of a Graph whose struct is there is under way, or was
\* left there by a LoadTensor that was busy or a GetResult that raised
\* (mvncapi.py:241-268): nothing else leaks.  The threads are those of
\* UserParamsLive.
THEOREM OnlyKnownLeaks == Spec => []LeaksAreKnown
<1>1. ASSUME Inv
      PROVE  LeaksAreKnown
  <2> SUFFICES ASSUME NEW h \in Handle, graphOf[h] # None,
                      NEW k \in DOMAIN userobjs[graphOf[h]]
               PROVE  k \in Keys \cup {frame[t].key : t \in Loading \cup Reading}
                             \cup leaked
      BY DEF LeaksAreKnown
  <2>1. IsHeld(k) => \E t \in Loading \cup Reading : frame[t].key = k
    BY DEF IsHeld, Holds, Loading, Reading
  <2>2. IsQueued(k) => k \in Keys
    BY DEF IsQueued, Keys, Queued
  <2>3. IsQueued(k) \/ k \in leaked \/ IsHeld(k)
    BY <1>1 DEF Inv, NothingElseLeaks
  <2> QED
    BY <2>1, <2>2, <2>3
<1> QED
  BY <1>1, InvHolds, PTL
-----------------------------------------------------------------------------
\* The object of the inference that thread t is reading.
Expected(t) == userobjs[frame[t].by][frame[t].key]

\* Until it is copied the tensor is in the buffer of the library; then it is in
\* the frame of the call, until the object is looked up.
MatchedAt(t, f, c) ==
    /\ c \in {"copy", "lookup"} => t \in Reader
    /\ c = "copy" => output[f.h] = Expected(t)
    /\ c = "lookup" => f.tensor = Expected(t)
    /\ c = "idle" /\ f.status = "OK" => f.tensor = f.obj

Matched == \A t \in Thread : MatchedAt(t, frame[t], pc[t])

\* A thread whose call, buffer and entry a step leaves alone.
LEMMA UndisturbedMatch ==
    ASSUME Matched, NEW u \in Thread, pc'[u] = pc[u], frame'[u] = frame[u],
           pc[u] = "copy" => output'[frame[u].h] = output[frame[u].h],
           pc[u] \in {"copy", "lookup"} => Expected(u)' = Expected(u)
    PROVE  MatchedAt(u, frame[u], pc[u])'
<1> HIDE DEF Expected
<1>1. MatchedAt(u, frame[u], pc[u])
  BY DEF Matched
<1> QED
  BY <1>1 DEF MatchedAt

\* There is one reading thread: while it is idle nobody reads.
LEMMA NobodyReads ==
    ASSUME Matched, NEW t \in Reader, pc[t] = "idle", NEW u \in Thread
    PROVE  pc[u] \notin {"copy", "lookup"}
<1>1. pc[u] \in {"copy", "lookup"} => u = t
  BY RoleAssumption DEF Matched, MatchedAt
<1> QED
  BY <1>1

\* Opening, closing, allocating and deallocating: nobody is reading.
LEMMA OwnerMatch ==
    ASSUME Matched, NEW t \in Reader,
           \/ OpenDevice(t) \/ CloseDevice(t) \/ AllocateGraph(t)
           \/ DeallocateGraph(t)
    PROVE  Matched'
<1>1. pc[t] = "idle" /\ UNCHANGED <<userobjs, pc, frame>>
  BY DEF OpenDevice, CloseDevice, AllocateGraph, DeallocateGraph
<1>2. ASSUME NEW u \in Thread
      PROVE  pc[u] \notin {"copy", "lookup"}
  BY <1>1, NobodyReads
<1>3. ASSUME NEW u \in Thread
      PROVE  MatchedAt(u, frame[u], pc[u])'
  BY <1>1, <1>2, UndisturbedMatch
<1> QED
  BY <1>3 DEF Matched

\* An entry is added for a new address: those of the calls stay.
LEMMA LoadTensorMatch ==
    ASSUME Inv, Matched, NEW t \in Thread, NEW g \in Graph, NEW obj \in Object,
           LoadTensor(t, g, obj)
    PROVE  Matched'
<1> USE DEF Inv
<1> PICK k \in Addr \ InUse :
      /\ SetObjs(g, With(userobjs[g], k, obj))
      /\ SetFrame(t, [NoFrame EXCEPT !.g = g, !.h = handle[g], !.key = k, !.by = g,
                                     !.obj = obj])
  BY DEF LoadTensor
<1>1. pc[t] = "idle" /\ Goto(t, "load") /\ UNCHANGED output
  BY DEF LoadTensor
<1>2. /\ pc'[t] = "load"
      /\ \A u \in Thread \ {t} : pc'[u] = pc[u] /\ frame'[u] = frame[u]
  BY <1>1 DEF Goto, SetFrame, Types
<1>3. \A i \in Graph : \A x \in DOMAIN userobjs[i] :
        x # k /\ userobjs'[i][x] = userobjs[i][x]
  BY DEF InUse, SetObjs, With, Types
<1>4. ASSUME NEW u \in Thread, pc[u] \in {"copy", "lookup"}
      PROVE  Expected(u)' = Expected(u)
  <2>1. u # t /\ Entry(frame[u], pc[u]) /\ frame[u].by \in Graph
    BY <1>1, <1>4 DEF CallsAreKept, Holds, Begun, FrameOf, Types
  <2> QED
    BY <1>2, <1>3, <2>1 DEF Expected, Entry
<1>5. ASSUME NEW u \in Thread \ {t}
      PROVE  MatchedAt(u, frame[u], pc[u])'
  BY <1>1, <1>2, <1>4, UndisturbedMatch
<1> QED
  BY <1>2, <1>5 DEF Matched, MatchedAt

\* The library takes the inference; no call that reads is concerned.
LEMMA LoadCallMatch ==
    ASSUME Inv, Matched, NEW t \in Thread, LoadCall(t)
    PROVE  Matched'
<1>1. /\ pc[t] = "load" /\ Goto(t, "loaded") /\ UNCHANGED <<userobjs, output>>
      /\ \E s \in {"OK", "BUSY", "ERROR"} :
           SetFrame(t, [frame[t] EXCEPT !.status = s])
  BY DEF LoadCall
<1>2. /\ pc'[t] = "loaded"
      /\ \A u \in Thread \ {t} : pc'[u] = pc[u] /\ frame'[u] = frame[u]
  BY <1>1 DEF Goto, SetFrame, Inv, Types
<1>3. ASSUME NEW u \in Thread \ {t}
      PROVE  Expected(u)' = Expected(u)
  BY <1>1, <1>2 DEF Expected
<1>4. ASSUME NEW u \in Thread \ {t}
      PROVE  MatchedAt(u, frame[u], pc[u])'
  BY <1>1, <1>2, <1>3, UndisturbedMatch
<1> QED
  BY <1>2, <1>4 DEF Matched, MatchedAt

\* A call deletes its own entry: the others keep theirs.
LEMMA EntryOfOthers ==
    ASSUME Inv, NEW t \in Thread, Holds(t),
           SetObjs(frame[t].g, Without(userobjs[frame[t].g], frame[t].key)),
           NEW u \in Thread \ {t}, pc[u] \in {"copy", "lookup"},
           frame'[u] = frame[u]
    PROVE  Expected(u)' = Expected(u)
<1> USE DEF Inv
<1>1. /\ frame[u].by \in Graph /\ Entry(frame[u], pc[u])
      /\ frame[u].key # frame[t].key
  BY DEF CallsAreKept, Holds, Begun, FrameOf, Types
<1> QED
  BY <1>1 DEF Expected, Entry, SetObjs, Without, Types

LEMMA LoadReturnMatch ==
    ASSUME Inv, Matched, NEW t \in Thread, LoadReturn(t)
    PROVE  Matched'
<1>1. /\ pc[t] = "loaded" /\ Goto(t, "idle") /\ SetFrame(t, NoFrame)
      /\ UNCHANGED output
      /\ \/ UNCHANGED userobjs
         \/ /\ frame[t].status = "ERROR"
            /\ SetObjs(frame[t].g, Without(userobjs[frame[t].g], frame[t].key))
  BY DEF LoadReturn
<1>2. /\ pc'[t] = "idle" /\ frame'[t].status = "none"
      /\ \A u \in Thread \ {t} : pc'[u] = pc[u] /\ frame'[u] = frame[u]
  BY <1>1 DEF Goto, SetFrame, NoFrame, Inv, Types
<1>3. ASSUME NEW u \in Thread \ {t}, pc[u] \in {"copy", "lookup"}
      PROVE  Expected(u)' = Expected(u)
  <2>1. CASE UNCHANGED userobjs
    BY <1>2, <2>1 DEF Expected
  <2>2. CASE /\ frame[t].status = "ERROR"
             /\ SetObjs(frame[t].g, Without(userobjs[frame[t].g], frame[t].key))
    BY <1>1, <1>2, <1>3, <2>2, EntryOfOthers DEF Holds
  <2> QED
    BY <1>1, <2>1, <2>2
<1>4. ASSUME NEW u \in Thread \ {t}
      PROVE  MatchedAt(u, frame[u], pc[u])'
  BY <1>1, <1>2, <1>3, UndisturbedMatch
<1> QED
  BY <1>2, <1>4 DEF Matched, MatchedAt

\* The buffer gets the tensor of the inference whose userParam is returned;
\* nobody else is still copying from it.
LEMMA GetResultMatch ==
    ASSUME Inv, Matched, NEW t \in Reader, NEW g \in Graph, GetResult(t, g)
    PROVE  Matched'
<1> USE DEF Inv
<1> PICK h, x : h = handle[g] /\ x = Head(queue[h])
  OBVIOUS
<1> DEFINE fc == [NoFrame EXCEPT !.g = g, !.h = h, !.key = answer'[t].userParam.key,
                                 !.by = answer'[t].userParam.by]
           fe == [NoFrame EXCEPT !.status = "MYRIAD_ERROR"]
<1>1. /\ t \in Thread /\ pc[t] = "idle" /\ Found(h) /\ queue[h] # <<>>
      /\ output' = [output EXCEPT ![h] = x.input]
      /\ answer' = [answer EXCEPT ![t] = [output |-> x, userParam |-> x]]
      /\ UNCHANGED userobjs
      /\ \/ SetFrame(t, fc) /\ Goto(t, "copy")
         \/ SetFrame(t, fe) /\ UNCHANGED pc
  BY RoleAssumption DEF GetResult, Lib!Deliver
<1>2. h \in Handle
  BY <1>1 DEF Found, Types
<1>3. answer'[t].userParam = x /\ output'[h] = x.input
  BY <1>1, <1>2 DEF Types
<1>4. userobjs[x.by][x.key] = x.input
  <2>1. queue[h] \in Seq(Inference)
    BY <1>2 DEF Types
  <2>2. 1 \in DOMAIN queue[h] /\ x = queue[h][1]
    BY <1>1, <2>1, TailEntries
  <2> QED
    BY <1>2, <2>2 DEF QueueIsKept, Kept
<1>5. fc.h = h /\ fc.key = x.key /\ fc.by = x.by /\ fe.status # "OK"
  BY <1>3 DEF NoFrame
<1> HIDE DEF fc, fe
<1>6. /\ \A u \in Thread \ {t} : pc'[u] = pc[u] /\ frame'[u] = frame[u]
      /\ \/ pc'[t] = "copy" /\ frame'[t] = fc
         \/ pc'[t] = "idle" /\ frame'[t] = fe
  BY <1>1 DEF Goto, SetFrame, Types
<1>7. ASSUME NEW u \in Thread \ {t}
      PROVE  MatchedAt(u, frame[u], pc[u])'
  <2>1. pc[u] \notin {"copy", "lookup"}
    BY <1>1, NobodyReads
  <2> QED
    BY <1>6, <2>1, UndisturbedMatch
<1>8. pc'[t] = "copy" => output'[frame'[t].h] = Expected(t)'
  BY <1>1, <1>3, <1>4, <1>5, <1>6 DEF Expected
<1>9. MatchedAt(t, frame[t], pc[t])'
  BY <1>5, <1>6, <1>8 DEF MatchedAt
<1> QED
  BY <1>7, <1>9 DEF Matched

LEMMA CopyTensorMatch ==
    ASSUME Inv, Matched, NEW t \in Thread, CopyTensor(t)
    PROVE  Matched'
<1> DEFINE f == [frame[t] EXCEPT !.tensor = output[frame[t].h]]
<1>1. /\ pc[t] = "copy" /\ Goto(t, "lookup") /\ SetFrame(t, f)
      /\ UNCHANGED <<userobjs, output>>
  BY DEF CopyTensor
<1>2. f.by = frame[t].by /\ f.key = frame[t].key /\ f.tensor = output[frame[t].h]
  BY DEF Inv, Types, Frames
<1> HIDE DEF f
<1>3. /\ pc'[t] = "lookup" /\ frame'[t] = f
      /\ \A u \in Thread \ {t} : pc'[u] = pc[u] /\ frame'[u] = frame[u]
  BY <1>1 DEF Goto, SetFrame, Inv, Types
<1>4. ASSUME NEW u \in Thread
      PROVE  Expected(u)' = Expected(u)
  BY <1>1, <1>2, <1>3 DEF Expected
<1>5. t \in Reader /\ output[frame[t].h] = Expected(t)
  BY <1>1 DEF Matched, MatchedAt
<1>6. MatchedAt(t, frame[t], pc[t])'
  <2>1. frame'[t].tensor = Expected(t)'
    BY <1>2, <1>3, <1>4, <1>5
  <2> QED
    BY <1>3, <1>5, <2>1 DEF MatchedAt
<1>7. ASSUME NEW u \in Thread \ {t}
      PROVE  MatchedAt(u, frame[u], pc[u])'
  BY <1>1, <1>3, <1>4, UndisturbedMatch
<1> QED
  BY <1>6, <1>7 DEF Matched

\* The object found is that of the inference read: its address is in no other
\* dictionary.
LEMMA LookUpMatch ==
    ASSUME Inv, Matched, NEW t \in Thread, LookUp(t)
    PROVE  Matched'
<1> USE DEF Inv
<1> DEFINE g == frame[t].g
           k == frame[t].key
           found == [frame[t] EXCEPT !.obj = userobjs[g][k], !.status = "OK"]
           lost == [frame[t] EXCEPT !.status = "KeyError"]
<1>1. /\ pc[t] = "lookup" /\ Goto(t, "idle") /\ UNCHANGED output
      /\ \/ /\ k \in DOMAIN userobjs[g] /\ SetFrame(t, found)
            /\ SetObjs(g, Without(userobjs[g], k))
         \/ SetFrame(t, lost) /\ UNCHANGED userobjs
  BY DEF LookUp
<1>2. /\ Holds(t) /\ frame[t].tensor = Expected(t) /\ frame[t] \in Frames
      /\ g \in Graph /\ frame[t].by \in Graph /\ Entry(frame[t], "lookup")
  BY <1>1 DEF Matched, MatchedAt, Holds, CallsAreKept, Begun, FrameOf, Types
<1>3. /\ found.obj = userobjs[g][k] /\ found.tensor = frame[t].tensor
      /\ lost.status # "OK"
  BY <1>2 DEF Frames
<1>4. k \in DOMAIN userobjs[g] => found.obj = Expected(t)
  BY <1>2, <1>3 DEF Dictionaries, Entry, Expected
<1> HIDE DEF found, lost
<1>5. /\ pc'[t] = "idle"
      /\ \A u \in Thread \ {t} : pc'[u] = pc[u] /\ frame'[u] = frame[u]
      /\ \/ k \in DOMAIN userobjs[g] /\ frame'[t] = found
         \/ frame'[t] = lost
  BY <1>1 DEF Goto, SetFrame, Types
<1>6. MatchedAt(t, frame[t], pc[t])'
  BY <1>2, <1>3, <1>4, <1>5 DEF MatchedAt
<1>7. ASSUME NEW u \in Thread \ {t}
      PROVE  MatchedAt(u, frame[u], pc[u])'
  <2>1. ASSUME pc[u] \in {"copy", "lookup"}
        PROVE  Expected(u)' = Expected(u)
    <3>1. CASE UNCHANGED userobjs
      BY <1>5, <3>1 DEF Expected
    <3>2. CASE SetObjs(g, Without(userobjs[g], k))
      BY <1>2, <1>5, <2>1, <3>2, EntryOfOthers
    <3> QED
      BY <1>1, <3>1, <3>2
  <2> QED
    BY <1>1, <1>5, <2>1, UndisturbedMatch
<1> QED
  BY <1>6, <1>7 DEF Matched

LEMMA NextMatch == Inv /\ Matched /\ [Next]_vars => Matched'
<1> SUFFICES ASSUME Inv, Matched, [Next]_vars
             PROVE  Matched'
    OBVIOUS
<1>1. CASE Next
  <2>1. Loader \subseteq Thread /\ Reader \subseteq Thread
    BY RoleAssumption
  <2>2. ASSUME NEW t \in Reader, \/ OpenDevice(t) \/ CloseDevice(t)
                                 \/ AllocateGraph(t) \/ DeallocateGraph(t)
        PROVE  Matched'
    BY <2>2, OwnerMatch
  <2>3. ASSUME NEW t \in Loader, NEW g \in Graph, NEW obj \in Object,
               LoadTensor(t, g, obj)
        PROVE  Matched'
    BY <2>1, <2>3, LoadTensorMatch
  <2>4. ASSUME NEW t \in Loader, LoadCall(t) \/ LoadReturn(t)
        PROVE  Matched'
    BY <2>1, <2>4, LoadCallMatch, LoadReturnMatch
  <2>5. ASSUME NEW t \in Reader, NEW g \in Graph, GetResult(t, g)
        PROVE  Matched'
    BY <2>5, GetResultMatch
  <2>6. ASSUME NEW t \in Reader, CopyTensor(t) \/ LookUp(t)
        PROVE  Matched'
    BY <2>1, <2>6, CopyTensorMatch, LookUpMatch
  <2> QED
    BY <1>1, <2>2, <2>3, <2>4, <2>5, <2>6 DEF Next
<1>2. CASE UNCHANGED vars
  BY <1>2 DEF vars, Matched, MatchedAt, Expected
<1> QED
  BY <1>1, <1>2

\* GetResult returns the tensor and the object that one LoadTensor was given,
\* or raises (mvncapi.py:254-268), although the buffer it copies from is the
\* library's and is written again by the next mvncGetResult, and although
\* addresses of graphs and of py_objects are given out again.  The threads are
\* those of UserParamsLive: one loads, one reads, closes and deallocates.
THEOREM TensorsMatch == Spec => []TensorMatchesObject
<1>1. Init => Matched
  <2>1. Init => \A t \in Thread : pc[t] = "idle" /\ frame[t] = NoFrame
    BY DEF Init
  <2>2. NoFrame.status = "none"
    BY DEF NoFrame
  <2> QED
    BY <2>1, <2>2 DEF Matched, MatchedAt
<1>2. Matched => TensorMatchesObject
  BY DEF Matched, MatchedAt, TensorMatchesObject
<1>3. Inv /\ Matched /\ [Next]_vars => Matched'
  BY NextMatch
<1> QED
  BY <1>1, <1>2, <1>3, InvHolds, PTL DEF Spec
=============================================================================
