--------------------------- MODULE InferenceQueue ---------------------------
(***************************************************************************)
(* What the inference half of the API promises a caller, without locks,    *)
(* buffers or USB: a graph is a queue of at most Capacity inferences.      *)
(* LoadTensor appends one; GetResult removes the oldest and returns its    *)
(* output together with the userParam of the LoadTensor that started it;   *)
(* deallocating the graph, or closing its device, drops what is queued.    *)
(***************************************************************************)
EXTENDS Naturals, Sequences

CONSTANTS
    Graph,      \* graph handles
    Tag,        \* identity of an inference: its input and its userParam
    Client,     \* threads of the application
    None,       \* no value
    Capacity    \* inferences a graph holds before LoadTensor waits

VARIABLES
    queue,      \* queue[g]: the inferences of g not yet returned, oldest first
    answer      \* answer[c]: what the last GetResult of c returned

vars == <<queue, answer>>

NoAnswer == [output |-> None, userParam |-> None]

Init ==
    /\ queue = [g \in Graph |-> <<>>]
    /\ answer = [c \in Client |-> NoAnswer]

Load(g, x) ==
    /\ Len(queue[g]) < Capacity
    /\ queue' = [queue EXCEPT ![g] = Append(@, x)]
    /\ UNCHANGED answer

Deliver(c, g) ==
    /\ queue[g] # <<>>
    /\ answer' = [answer EXCEPT ![c] = [output |-> Head(queue[g]),
                                        userParam |-> Head(queue[g])]]
    /\ queue' = [queue EXCEPT ![g] = Tail(@)]

Forget(c) ==
    /\ answer' = [answer EXCEPT ![c] = NoAnswer]
    /\ UNCHANGED queue

Drop(g) ==
    /\ queue' = [queue EXCEPT ![g] = <<>>]
    /\ UNCHANGED answer

Next ==
    \/ \E g \in Graph, x \in Tag : Load(g, x)
    \/ \E c \in Client, g \in Graph : Deliver(c, g)
    \/ \E c \in Client : Forget(c)
    \/ \E g \in Graph : Drop(g)

Spec == Init /\ [][Next]_vars
=============================================================================
