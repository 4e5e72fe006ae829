------------------------------- MODULE Mailbox -------------------------------
(***************************************************************************)
(* What the USB link promises to the code above it: named buffers on the   *)
(* stick that usblink_setdata overwrites and usblink_getdata reads, each   *)
(* as one step, or a call that fails and changes nothing.  The promise is  *)
(* void from the first transfer that times out to the next reset.          *)
(***************************************************************************)
CONSTANTS Name,     \* names of buffers
          Content,  \* what a buffer may hold
          Empty     \* Empty[n]: what buffer n holds after a reset

VARIABLES stored,   \* stored[n]: the contents of buffer n
          answer,   \* what the last call returned: a status and data
          trusted   \* no transfer has timed out since the last reset

vars == <<stored, answer, trusted>>

Failed == [rc |-> "ERROR", data |-> <<>>]
Done(x) == [rc |-> "OK", data |-> x]

Init == stored = Empty /\ answer = Done(<<>>) /\ trusted = TRUE

Set(n, x) ==
    /\ stored' = [stored EXCEPT ![n] = x]
    /\ answer' = Done(<<>>)
    /\ UNCHANGED trusted

Get(n) == answer' = Done(stored[n]) /\ UNCHANGED <<stored, trusted>>

Refuse == answer' = Failed /\ UNCHANGED <<stored, trusted>>

\* A reset, or a status query.
Other == answer' = Done(<<>>) /\ stored' \in {stored, Empty} /\ UNCHANGED trusted

TimeOut == trusted' = FALSE

\* A reset ends a call that is in progress.
Reset == trusted' = TRUE /\ stored' = Empty /\ answer' \in {answer, Failed}

Next ==
    \/ trusted /\ \E n \in Name, x \in Content : Set(n, x)
    \/ trusted /\ \E n \in Name : Get(n)
    \/ trusted /\ (Refuse \/ Other)
    \/ TimeOut
    \/ ~trusted /\ (Reset \/ UNCHANGED trusted)

Spec == Init /\ [][Next]_vars
=============================================================================
