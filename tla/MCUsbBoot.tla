----------------------------- MODULE MCUsbBoot -----------------------------
(***************************************************************************)
(* Instances of UsbBoot for TLC: sticks are numbers and addresses strings, *)
(* so that the configurations can name functions between them.             *)
(***************************************************************************)
EXTENDS UsbBoot

\* Stick 1 keeps its address when it boots, stick 2 gets another one.
TwoAddr == {"1", "2", "2.1"}
TwoRomAddr == <<"1", "2">>
TwoRunAddr == <<"1", "2.1">>

\* The name of either stick, also with the second part where there is one.
TwoName ==
    {[first |-> "1", second |-> None], [first |-> "2", second |-> None],
     [first |-> "2", second |-> "2.1"]}

\* Nobody is in a loop over the names.
NobodyEnumerates == \A p \in Process : ~enum[p].on

ProcessSymmetry == Permutations(Process)
=============================================================================
