--------------------------- MODULE UsbBootProofs ---------------------------
(***************************************************************************)
(* Theorems about UsbBoot, for every number of processes and sticks and    *)
(* every assignment of addresses.                                          *)
(***************************************************************************)
EXTENDS UsbBoot, FiniteSetTheorems, SequenceTheorems,
        WellFoundedInduction, TLAPS

\* The number of sticks that usblink_resetall counts is a number.
LEMMA ConnectedType == Cardinality(Connected) \in Nat
<1>1. Connected \subseteq Stick
  BY DEF Connected
<1> QED
  BY <1>1, StickAssumption, FS_Subset, FS_CardinalityType

-----------------------------------------------------------------------------
(***************************************************************************)
(* Assigning fields of the record of a call.                               *)
(***************************************************************************)
LEMMA NoCallType == NoCall \in CallState /\ NoCall.handle = None
BY DEF NoCall, CallState

LEMMA CallFields ==
    \A c \in CallState :
      /\ c.name \in Addr \cup {None} /\ c.second \in Addr \cup {None}
      /\ c.name2 \in Addr \cup {None} /\ c.handle \in Stick \cup {None}
      /\ c.tries \in Nat /\ c.count \in Nat
      /\ \A n \in Nat : /\ [c EXCEPT !.expected = n] \in CallState
                        /\ [c EXCEPT !.expected = n].name = c.name
                        /\ [c EXCEPT !.expected = n].handle = c.handle
      /\ \A n \in Nat : /\ [c EXCEPT !.tries = n] \in CallState
                        /\ [c EXCEPT !.tries = n].name = c.name
                        /\ [c EXCEPT !.tries = n].handle = c.handle
      /\ \A n \in Nat : /\ [c EXCEPT !.count = n] \in CallState
                        /\ [c EXCEPT !.count = n].name = c.name
                        /\ [c EXCEPT !.count = n].handle = c.handle
      /\ \A s \in Stick \cup {None} : /\ [c EXCEPT !.handle = s] \in CallState
                                      /\ [c EXCEPT !.handle = s].name = c.name
                                      /\ [c EXCEPT !.handle = s].handle = s
BY DEF CallState

LEMMA CallNames ==
    \A c \in CallState, a \in Addr :
      /\ \A b \in Addr \cup {None} :
           /\ [c EXCEPT !.name = a, !.second = b] \in CallState
           /\ [c EXCEPT !.name = a, !.second = b].name = a
           /\ [c EXCEPT !.name = a, !.second = b].handle = c.handle
      /\ /\ [c EXCEPT !.handle = None, !.name = a] \in CallState
         /\ [c EXCEPT !.handle = None, !.name = a].name = a
         /\ [c EXCEPT !.handle = None, !.name = a].handle = None
BY DEF CallState
-----------------------------------------------------------------------------
(***************************************************************************)
(* Types.                                                                  *)
(***************************************************************************)
LEMMA InitState == Init => StateOK
<1>1. \A p \in Process : [q \in Process |-> NoCall][p] = NoCall
  OBVIOUS
<1> QED
  BY <1>1, NoCallType DEF Init, StateOK, Rom, Running, Away, PC

\* A call begins with no stick, and if it has a name it goes on to boot.
LEMMA BeginCall ==
    ASSUME NEW p \in Process, NEW c \in CallState, c.handle = None, Begin(p, c)
    PROVE  \E x \in CallState, l \in {"name", "boot", "reset"} :
             /\ x.handle = None /\ x.name = c.name
             /\ call' = [call EXCEPT ![p] = x]
             /\ pc' = [pc EXCEPT ![p] = l]
             /\ l = "boot" => c.name # None
             /\ initialized' = initialized \cup {p}
<1> DEFINE found == [i \in DOMAIN bus |-> IF Listing[i].run THEN bus[i] ELSE None]
           started == p \in initialized \/ \A i \in DOMAIN bus : found[i] = None
<1>1. CASE started
  <2>1. Body(c) \in {"name", "boot", "reset"} /\ (Body(c) = "boot" => c.name # None)
    BY DEF Body
  <2> QED
    BY <1>1, <2>1 DEF Begin, SetCall, Goto
<1>2. CASE ~started
  <2> DEFINE n == Cardinality(Connected)
  <2>1. call' = [call EXCEPT ![p] = [c EXCEPT !.expected = n]] /\ pc' = [pc EXCEPT ![p] = "reset"]
    BY <1>2 DEF Begin, SetCall, Goto
  <2>2. n \in Nat
    BY ConnectedType
  <2> HIDE DEF n
  <2> QED
    BY <2>1, <2>2, CallFields DEF Begin
<1> QED
  BY <1>1, <1>2

Modes == Rom \cup Running \cup Away

\* A step of p that leaves it at l with the call x.
LEMMA MoveState ==
    ASSUME StateOK, NEW p \in Process, NEW x \in CallState, NEW l \in PC,
           call' = [call EXCEPT ![p] = x],
           pc' = [pc EXCEPT ![p] = l],
           l \notin {"idle", "reset", "settle", "name"} => x.name \in Addr,
           x.handle # None => l \in {"send", "status"},
           mode' \in [Stick -> Modes],
           claim' \in [Stick -> Process \cup {None}],
           initialized' \subseteq Process,
           opened' \in [Process -> SUBSET [stick: Stick \cup {None}, addr: Addr]]
    PROVE  StateOK'
BY DEF StateOK, Modes

\* A step that does not move any process.
LEMMA StayState ==
    ASSUME StateOK, UNCHANGED <<claim, initialized, opened, pc, call>>,
           mode' \in [Stick -> Modes]
    PROVE  StateOK'
BY DEF StateOK, Modes

LEMMA ReturnState ==
    ASSUME StateOK, NEW p \in Process, Return(p),
           mode' \in [Stick -> Modes],
           claim' \in [Stick -> Process \cup {None}],
           initialized' \subseteq Process,
           opened' \in [Process -> SUBSET [stick: Stick \cup {None}, addr: Addr]]
    PROVE  StateOK'
<1>1. "idle" \in PC
  BY DEF PC
<1>2. call' = [call EXCEPT ![p] = NoCall] /\ pc' = [pc EXCEPT ![p] = "idle"]
  BY DEF Return, Goto, SetCall
<1> QED
  BY <1>1, <1>2, NoCallType, MoveState

LEMMA BeginState ==
    ASSUME StateOK, NEW p \in Process, NEW c \in CallState, c.handle = None,
           Begin(p, c), UNCHANGED <<mode, claim, opened>>
    PROVE  StateOK'
<1>1. PICK x \in CallState, l \in {"name", "boot", "reset"} :
             /\ x.handle = None /\ x.name = c.name
             /\ call' = [call EXCEPT ![p] = x]
             /\ pc' = [pc EXCEPT ![p] = l]
             /\ l = "boot" => c.name # None
             /\ initialized' = initialized \cup {p}
  BY BeginCall
<1>2. l = "boot" => x.name \in Addr
  BY <1>1, CallFields
<1>3. l \in PC
  BY DEF PC
<1>4. /\ mode' \in [Stick -> Modes]
      /\ claim' \in [Stick -> Process \cup {None}]
      /\ initialized' \subseteq Process
      /\ opened' \in [Process -> SUBSET [stick: Stick \cup {None}, addr: Addr]]
  BY <1>1 DEF StateOK, Modes
<1> QED
  BY <1>1, <1>2, <1>3, <1>4, MoveState

\* What a step finds in a well typed state.
LEMMA InState ==
    ASSUME StateOK, NEW p \in Process
    PROVE  /\ call[p] \in CallState
           /\ pc[p] \in PC
           /\ pc = [pc EXCEPT ![p] = pc[p]]
           /\ call = [call EXCEPT ![p] = call[p]]
           /\ mode \in [Stick -> Modes]
           /\ claim \in [Stick -> Process \cup {None}]
           /\ initialized \subseteq Process
           /\ opened \in [Process -> SUBSET [stick: Stick \cup {None}, addr: Addr]]
           /\ pc[p] \notin {"idle", "reset", "settle", "name"} => call[p].name \in Addr
           /\ pc[p] \notin {"send", "status"} => call[p].handle = None
           /\ call[p].handle \in Stick \cup {None}
           /\ call[p].tries \in Nat /\ call[p].count \in Nat
<1>1. call[p] \in CallState
  BY DEF StateOK
<1> QED
  BY <1>1, CallFields DEF StateOK, Modes

LEMMA ClaimTypes ==
    ASSUME StateOK
    PROVE  /\ \A p \in Process, s \in Stick :
                Claim(p, s) => claim' \in [Stick -> Process \cup {None}]
           /\ \A s \in Stick \cup {None} :
                Release(s) => claim' \in [Stick -> Process \cup {None}]
BY DEF StateOK, Claim, Release

LEMMA ModeTypes ==
    ASSUME StateOK, NEW s
    PROVE  /\ [mode EXCEPT ![s] = "booting"] \in [Stick -> Modes]
           /\ [mode EXCEPT ![s] = "resetting"] \in [Stick -> Modes]
           /\ [mode EXCEPT ![s] = "waiting"] \in [Stick -> Modes]
           /\ [mode EXCEPT ![s] = "starting"] \in [Stick -> Modes]
           /\ [mode EXCEPT ![s] = "rom"] \in [Stick -> Modes]
BY DEF StateOK, Modes, Rom, Running, Away
-----------------------------------------------------------------------------
LEMMA ResetOneState == ASSUME StateOK, NEW p \in Process, ResetOne(p) PROVE StateOK'
<1>1. mode' \in [Stick -> Modes]
  BY InState, ModeTypes DEF ResetOne
<1>2. CASE stale[p] = <<>>
  <2>1. /\ call' = [call EXCEPT ![p] = call[p]] /\ pc' = [pc EXCEPT ![p] = "settle"]
        /\ UNCHANGED <<claim, initialized, opened>>
        /\ pc[p] = "reset"
    BY <1>2, InState DEF ResetOne, Goto
  <2> QED
    BY <1>1, <2>1, InState, MoveState DEF PC
<1>3. CASE stale[p] # <<>>
  BY <1>1, <1>3, StayState DEF ResetOne
<1> QED
  BY <1>2, <1>3

LEMMA SettleState == ASSUME StateOK, NEW p \in Process, Settle(p) PROVE StateOK'
<1> DEFINE c == call[p]
<1>1. /\ UNCHANGED <<mode, claim, initialized, opened>>
      /\ c \in CallState /\ c.handle = None
  BY InState DEF Settle
<1>2. c.tries + 1 \in Nat /\ 0 \in Nat
  BY InState
<1>3. CASE /\ SetCall(p, [c EXCEPT !.tries = c.tries + 1])
           /\ UNCHANGED pc
  <2>1. pc' = [pc EXCEPT ![p] = pc[p]] /\ pc[p] = "settle" /\ pc[p] \in PC
    BY <1>3, InState DEF Settle
  <2>2. PICK x \in CallState : x.handle = None /\ call' = [call EXCEPT ![p] = x]
    <3> DEFINE y == [c EXCEPT !.tries = c.tries + 1]
    <3>1. y \in CallState /\ y.handle = None
      BY <1>1, <1>2, CallFields
    <3> HIDE DEF y
    <3>2. call' = [call EXCEPT ![p] = y]
      BY <1>3 DEF SetCall, y
    <3> QED
      BY <3>1, <3>2
  <2> QED
    BY <1>1, <2>1, <2>2, InState, MoveState
<1>4. CASE /\ SetCall(p, [c EXCEPT !.tries = 0, !.expected = 0])
           /\ Goto(p, Body(c))
  <2>1. Body(c) \in PC /\ (Body(c) # "name" => c.name \in Addr)
    BY <1>1, CallFields DEF Body, PC
  <2> DEFINE x == [c EXCEPT !.tries = 0, !.expected = 0]
  <2>2. x \in CallState /\ x.handle = None /\ x.name = c.name
    BY <1>1 DEF CallState
  <2>3. call' = [call EXCEPT ![p] = x] /\ pc' = [pc EXCEPT ![p] = Body(c)]
    BY <1>4 DEF SetCall, Goto
  <2> HIDE DEF x
  <2> QED
    BY <1>1, <2>1, <2>2, <2>3, InState, MoveState
<1> QED
  BY <1>3, <1>4 DEF Settle

LEMMA NameAtState == ASSUME StateOK, NEW p \in Process, NameAt(p) PROVE StateOK'
<1>1. Return(p) /\ UNCHANGED <<mode, claim, initialized, opened>>
  BY DEF NameAt
<1> QED
  BY <1>1, InState, ReturnState

LEMMA NoFirmwareState == ASSUME StateOK, NEW p \in Process, NoFirmware(p) PROVE StateOK'
<1>1. Return(p) /\ UNCHANGED <<mode, claim, initialized, opened>>
  BY DEF NoFirmware
<1> QED
  BY <1>1, InState, ReturnState

LEMMA BootState == ASSUME StateOK, NEW p \in Process, Boot(p) PROVE StateOK'
<1> DEFINE c == call[p]
           found == FindAddr(c.name, FALSE)
<1>0. UNCHANGED <<mode, initialized, opened>> /\ pc[p] = "boot"
  BY DEF Boot
<1>1. /\ c \in CallState /\ c.handle = None /\ c.name \in Addr
      /\ c.tries + 1 \in Nat /\ 0 \in Nat
  BY <1>0, InState
<1>2. CASE Return(p) /\ UNCHANGED claim
  BY <1>0, <1>1, <1>2, InState, ReturnState
<1>3. ASSUME NEW s \in Stick, Claim(p, s), Goto(p, "send"),
             SetCall(p, [c EXCEPT !.handle = s, !.tries = 0])
      PROVE  StateOK'
  <2>1. claim' \in [Stick -> Process \cup {None}]
    BY <1>3, ClaimTypes
  <2> DEFINE x == [c EXCEPT !.handle = s, !.tries = 0]
  <2>2. x \in CallState /\ x.handle = s /\ x.name = c.name
    BY <1>1 DEF CallState
  <2>3. call' = [call EXCEPT ![p] = x] /\ pc' = [pc EXCEPT ![p] = "send"]
    BY <1>3 DEF SetCall, Goto
  <2> HIDE DEF x
  <2> QED
    BY <1>0, <1>1, <2>1, <2>2, <2>3, InState, MoveState DEF PC
<1>4. CASE SetCall(p, [c EXCEPT !.tries = c.tries + 1]) /\ UNCHANGED <<pc, claim>>
  <2>1. PICK x \in CallState : /\ x.handle = None /\ x.name = c.name
                               /\ call' = [call EXCEPT ![p] = x]
    <3> DEFINE y == [c EXCEPT !.tries = c.tries + 1]
    <3>1. y \in CallState /\ y.handle = None /\ y.name = c.name
      BY <1>1, CallFields
    <3> HIDE DEF y
    <3>2. call' = [call EXCEPT ![p] = y]
      BY <1>4 DEF SetCall, y
    <3> QED
      BY <3>1, <3>2
  <2>2. pc' = [pc EXCEPT ![p] = pc[p]] /\ pc[p] \in PC
    BY <1>4, InState
  <2> QED
    BY <1>0, <1>1, <1>4, <2>1, <2>2, InState, MoveState
<1> QED
  BY <1>2, <1>3, <1>4 DEF Boot

LEMMA SendFileState == ASSUME StateOK, NEW p \in Process, SendFile(p) PROVE StateOK'
<1> DEFINE c == call[p]
<1>0. UNCHANGED <<initialized, opened>> /\ pc[p] = "send" /\ Release(c.handle)
  BY DEF SendFile
<1>1. /\ c \in CallState /\ c.name \in Addr /\ c.handle \in Stick \cup {None}
      /\ opened \in [Process -> SUBSET [stick: Stick \cup {None}, addr: Addr]]
      /\ initialized \subseteq Process
  BY <1>0, InState
<1>2. claim' \in [Stick -> Process \cup {None}]
  BY <1>0, <1>1, ClaimTypes
<1>3. mode' \in [Stick -> Modes]
  BY InState, ModeTypes DEF SendFile
<1>4. CASE Return(p)
  BY <1>0, <1>1, <1>2, <1>3, <1>4, ReturnState
<1>5. CASE Booted(p)
  <2> DEFINE a == IF c.second = None THEN c.name ELSE c.second
             x == [c EXCEPT !.handle = None, !.name = a]
  <2>1. a \in Addr
    BY <1>1, CallFields
  <2>2. call' = [call EXCEPT ![p] = x] /\ pc' = [pc EXCEPT ![p] = "open"]
    BY <1>5 DEF Booted, SetCall, Goto
  <2> HIDE DEF a
  <2>3. x \in CallState /\ x.handle = None /\ x.name = a
    BY <1>1, <2>1, CallNames
  <2> HIDE DEF x
  <2> QED
    BY <1>0, <1>1, <1>2, <1>3, <2>1, <2>2, <2>3, MoveState DEF PC
<1> QED
  BY <1>4, <1>5 DEF SendFile

LEMMA OpenByNameState == ASSUME StateOK, NEW p \in Process, OpenByName(p) PROVE StateOK'
<1> DEFINE c == call[p]
<1>0. UNCHANGED <<mode, initialized, opened>> /\ pc[p] = "open"
  BY DEF OpenByName
<1>1. /\ c \in CallState /\ c.name \in Addr /\ c.handle = None /\ 0 \in Nat
      /\ mode \in [Stick -> Modes]
      /\ opened \in [Process -> SUBSET [stick: Stick \cup {None}, addr: Addr]]
      /\ initialized \subseteq Process
  BY <1>0, InState
<1>2. ASSUME NEW s \in Stick, Claim(p, s), SetCall(p, [c EXCEPT !.handle = s]),
             Goto(p, "status")
      PROVE  StateOK'
  <2> DEFINE x == [c EXCEPT !.handle = s]
  <2>1. call' = [call EXCEPT ![p] = x] /\ pc' = [pc EXCEPT ![p] = "status"]
    BY <1>2 DEF SetCall, Goto
  <2>2. x \in CallState /\ x.handle = s /\ x.name = c.name
    BY <1>1, CallFields
  <2>3. claim' \in [Stick -> Process \cup {None}]
    BY <1>2, ClaimTypes
  <2> HIDE DEF x
  <2> QED
    BY <1>0, <1>1, <2>1, <2>2, <2>3, MoveState DEF PC
<1>3. ASSUME SetCall(p, [c EXCEPT !.count = 0]), UNCHANGED claim,
             Goto(p, IF c.second = None THEN "scan" ELSE "wait")
      PROVE  StateOK'
  <2> DEFINE x == [c EXCEPT !.count = 0]
             l == IF c.second = None THEN "scan" ELSE "wait"
  <2>1. call' = [call EXCEPT ![p] = x] /\ pc' = [pc EXCEPT ![p] = l]
    BY <1>3 DEF SetCall, Goto
  <2>2. x \in CallState /\ x.handle = None /\ x.name = c.name /\ l \in PC
    BY <1>1, CallFields DEF PC
  <2>3. claim' \in [Stick -> Process \cup {None}]
    BY <1>3, InState
  <2> HIDE DEF x, l
  <2> QED
    BY <1>0, <1>1, <2>1, <2>2, <2>3, MoveState
<1> QED
  BY <1>2, <1>3 DEF OpenByName

LEMMA ScanState == ASSUME StateOK, NEW p \in Process, Scan(p) PROVE StateOK'
<1> DEFINE c == call[p]
<1>0. UNCHANGED <<mode, initialized, opened>> /\ pc[p] = "scan"
  BY DEF Scan
<1>1. /\ c \in CallState /\ c.name \in Addr /\ c.handle = None
      /\ 0 \in Nat /\ c.count + 1 \in Nat
      /\ mode \in [Stick -> Modes]
      /\ claim \in [Stick -> Process \cup {None}]
      /\ opened \in [Process -> SUBSET [stick: Stick \cup {None}, addr: Addr]]
      /\ initialized \subseteq Process
      /\ pc = [pc EXCEPT ![p] = "scan"]
  BY <1>0, InState
<1>2. ASSUME NEW a \in Addr \cup {None}, NEW n \in Nat, NEW l \in {"scan", "wait"},
             SetCall(p, [c EXCEPT !.name2 = a, !.count = n]),
             pc' = [pc EXCEPT ![p] = l], UNCHANGED claim
      PROVE  StateOK'
  <2> DEFINE x == [c EXCEPT !.name2 = a, !.count = n]
  <2>1. call' = [call EXCEPT ![p] = x]
    BY <1>2 DEF SetCall
  <2>2. x \in CallState /\ x.handle = c.handle /\ x.name = c.name
    BY <1>1 DEF CallState
  <2>3. l \in PC
    BY DEF PC
  <2> HIDE DEF x
  <2> QED
    BY <1>0, <1>1, <1>2, <2>1, <2>2, <2>3, MoveState
<1>3. ASSUME NEW a \in Addr, NEW s \in Stick, Claim(p, s), Goto(p, "status"),
             SetCall(p, [c EXCEPT !.name2 = a, !.handle = s, !.count = 0])
      PROVE  StateOK'
  <2> DEFINE x == [c EXCEPT !.name2 = a, !.handle = s, !.count = 0]
  <2>1. call' = [call EXCEPT ![p] = x] /\ pc' = [pc EXCEPT ![p] = "status"]
    BY <1>3 DEF SetCall, Goto
  <2>2. x \in CallState /\ x.handle = s /\ x.name = c.name
    BY <1>1 DEF CallState
  <2>3. claim' \in [Stick -> Process \cup {None}]
    BY <1>3, ClaimTypes
  <2> HIDE DEF x
  <2> QED
    BY <1>0, <1>1, <2>1, <2>2, <2>3, MoveState DEF PC
<1>4. CASE /\ SetCall(p, [c EXCEPT !.name2 = None, !.count = 0])
           /\ Goto(p, "wait") /\ UNCHANGED claim
  BY <1>1, <1>2, <1>4 DEF Goto
<1>5. ASSUME NEW a \in Addr, UNCHANGED <<pc, claim>>,
             SetCall(p, [c EXCEPT !.name2 = a, !.count = c.count + 1])
      PROVE  StateOK'
  <2>1. pc' = [pc EXCEPT ![p] = "scan"]
    BY <1>1, <1>5
  <2> QED
    BY <1>1, <1>2, <1>5, <2>1
<1> QED
  BY <1>3, <1>4, <1>5 DEF Scan

LEMMA CheckStatusState ==
    ASSUME StateOK, NEW p \in Process, CheckStatus(p) PROVE StateOK'
<1> DEFINE c == call[p]
           a == IF c.name2 # None THEN c.name2 ELSE c.name
<1>0. UNCHANGED <<mode, initialized>> /\ pc[p] = "status"
  BY DEF CheckStatus
<1>1. /\ c \in CallState /\ c.name \in Addr /\ c.handle \in Stick \cup {None}
      /\ mode \in [Stick -> Modes]
      /\ claim \in [Stick -> Process \cup {None}]
      /\ opened \in [Process -> SUBSET [stick: Stick \cup {None}, addr: Addr]]
      /\ initialized \subseteq Process
      /\ a \in Addr
  BY <1>0, InState, CallFields
<1>2. CASE /\ opened' = [opened EXCEPT ![p] = @ \cup {[stick |-> c.handle, addr |-> a]}]
           /\ Return(p) /\ UNCHANGED claim
  <2>1. [stick |-> c.handle, addr |-> a] \in [stick: Stick \cup {None}, addr: Addr]
    BY <1>1
  <2> HIDE DEF a
  <2>2. opened' \in [Process -> SUBSET [stick: Stick \cup {None}, addr: Addr]]
    BY <1>1, <1>2, <2>1
  <2> QED
    BY <1>0, <1>1, <1>2, <2>2, ReturnState
<1>3. CASE /\ Release(c.handle) /\ SetCall(p, [c EXCEPT !.handle = None])
           /\ Goto(p, "wait") /\ UNCHANGED opened
  <2> DEFINE x == [c EXCEPT !.handle = None]
  <2>1. call' = [call EXCEPT ![p] = x] /\ pc' = [pc EXCEPT ![p] = "wait"]
    BY <1>3 DEF SetCall, Goto
  <2>2. x \in CallState /\ x.handle = None /\ x.name = c.name
    BY <1>1, CallFields
  <2>3. claim' \in [Stick -> Process \cup {None}]
    BY <1>1, <1>3, ClaimTypes
  <2> HIDE DEF x
  <2> QED
    BY <1>0, <1>1, <1>3, <2>1, <2>2, <2>3, MoveState DEF PC
<1> QED
  BY <1>2, <1>3 DEF CheckStatus

LEMMA WaitState == ASSUME StateOK, NEW p \in Process, Wait(p) PROVE StateOK'
<1> DEFINE c == call[p]
<1>0. UNCHANGED <<mode, claim, initialized, opened>> /\ pc[p] = "wait"
  BY DEF Wait
<1>1. c \in CallState /\ c.name \in Addr /\ c.handle = None /\ c.tries + 1 \in Nat
  BY <1>0, InState
<1>2. CASE SetCall(p, [c EXCEPT !.tries = c.tries + 1]) /\ Goto(p, "open")
  <2> DEFINE x == [c EXCEPT !.tries = c.tries + 1]
  <2>1. call' = [call EXCEPT ![p] = x] /\ pc' = [pc EXCEPT ![p] = "open"]
    BY <1>2 DEF SetCall, Goto
  <2>2. x \in CallState /\ x.handle = None /\ x.name = c.name
    BY <1>1, CallFields
  <2> HIDE DEF x
  <2> QED
    BY <1>0, <1>1, <2>1, <2>2, InState, MoveState DEF PC
<1>3. CASE Return(p)
  BY <1>0, <1>3, InState, ReturnState
<1> QED
  BY <1>2, <1>3 DEF Wait

LEMMA CloseDeviceState ==
    ASSUME StateOK, NEW p \in Process, NEW d \in opened[p], CloseDevice(p, d)
    PROVE  StateOK'
<1>1. /\ mode \in [Stick -> Modes]
      /\ opened \in [Process -> SUBSET [stick: Stick \cup {None}, addr: Addr]]
      /\ d.stick \in Stick \cup {None}
  BY InState
<1>2. mode' \in [Stick -> Modes]
  BY <1>1, ModeTypes DEF CloseDevice
<1>3. claim' \in [Stick -> Process \cup {None}]
  BY <1>1, ClaimTypes DEF CloseDevice
<1>4. opened' \in [Process -> SUBSET [stick: Stick \cup {None}, addr: Addr]]
  BY <1>1 DEF CloseDevice
<1> QED
  BY <1>2, <1>3, <1>4 DEF StateOK, CloseDevice, Modes

LEMMA ExitState == ASSUME StateOK, NEW p \in Process, Exit(p) PROVE StateOK'
<1>1. /\ claim \in [Stick -> Process \cup {None}]
      /\ opened \in [Process -> SUBSET [stick: Stick \cup {None}, addr: Addr]]
      /\ initialized \subseteq Process
      /\ mode' \in [Stick -> Modes]
  BY InState DEF Exit
<1>2. claim' \in [Stick -> Process \cup {None}]
  BY <1>1 DEF Exit
<1>3. opened' \in [Process -> SUBSET [stick: Stick \cup {None}, addr: Addr]]
  BY <1>1 DEF Exit
<1>4. initialized' \subseteq Process /\ Return(p)
  BY <1>1 DEF Exit, Return
<1> QED
  BY <1>1, <1>2, <1>3, <1>4, ReturnState

LEMMA ArriveState == ASSUME StateOK, NEW s \in Stick, Arrive(s) PROVE StateOK'
<1>1. mode' \in [Stick -> Modes]
  BY ModeTypes DEF Arrive
<1> QED
  BY <1>1, StayState DEF Arrive

LEMMA ReadyState == ASSUME StateOK, NEW s \in Stick, Ready(s) PROVE StateOK'
<1>1. mode' \in [Stick -> Modes]
  BY ModeTypes DEF Ready
<1> QED
  BY <1>1, StayState DEF Ready

LEMMA LeaveState ==
    ASSUME StateOK, NEW s \in Stick, NEW m \in Away, Leave(s, m),
           UNCHANGED <<initialized, devs, pc>>
    PROVE  StateOK'
<1> DEFINE dead(d) == IF d.stick = s THEN [d EXCEPT !.stick = None] ELSE d
<1>1. mode' \in [Stick -> Modes] /\ claim' \in [Stick -> Process \cup {None}]
  BY DEF StateOK, Leave, Modes
<1>2. opened' \in [Process -> SUBSET [stick: Stick \cup {None}, addr: Addr]]
  <2>1. \A d \in [stick: Stick \cup {None}, addr: Addr] :
          dead(d) \in [stick: Stick \cup {None}, addr: Addr]
    OBVIOUS
  <2>2. opened' = [p \in Process |-> {dead(d) : d \in opened[p]}]
    BY DEF Leave
  <2>3. \A p \in Process : opened[p] \subseteq [stick: Stick \cup {None}, addr: Addr]
    BY DEF StateOK
  <2> HIDE DEF dead
  <2>4. \A p \in Process :
          {dead(d) : d \in opened[p]} \subseteq [stick: Stick \cup {None}, addr: Addr]
    BY <2>1, <2>3
  <2> QED
    BY <2>2, <2>4
<1> DEFINE rest == [p \in Process |-> IF call[p].handle = s
                                      THEN [call[p] EXCEPT !.handle = None] ELSE call[p]]
<1>3. call' = rest /\ pc' = pc
  BY DEF Leave
<1>4. ASSUME NEW p \in Process
      PROVE  /\ rest[p] \in CallState
             /\ rest[p].name = call[p].name
             /\ rest[p].handle # None => rest[p].handle = call[p].handle
  <2>1. call[p] \in CallState
    BY InState
  <2>2. /\ [call[p] EXCEPT !.handle = None] \in CallState
        /\ [call[p] EXCEPT !.handle = None].name = call[p].name
        /\ [call[p] EXCEPT !.handle = None].handle = None
    BY <2>1, CallFields
  <2> QED
    BY <2>1, <2>2
<1>5. rest \in [Process -> CallState]
  BY <1>4
<1> HIDE DEF rest
<1> QED
  BY <1>1, <1>2, <1>3, <1>4, <1>5 DEF StateOK, Modes

LEMMA GetDeviceNameState ==
    ASSUME StateOK, NEW p \in Process, GetDeviceName(p) PROVE StateOK'
BY NoCallType, BeginState DEF GetDeviceName

LEMMA OpenDeviceState ==
    ASSUME StateOK, NEW p \in Process, NEW n \in Name, OpenDevice(p, n) PROVE StateOK'
<1> DEFINE c == [NoCall EXCEPT !.name = n.first, !.second = n.second]
<1>1. n.first \in Addr /\ n.second \in Addr \cup {None}
  BY NameAssumption
<1>2. c \in CallState /\ c.handle = None
  BY <1>1, NoCallType DEF CallState
<1>3. Begin(p, c) /\ UNCHANGED <<mode, claim, opened>>
  BY DEF OpenDevice
<1> HIDE DEF c
<1> QED
  BY <1>2, <1>3, BeginState

LEMMA NextState == StateOK /\ [Next]_vars => StateOK'
<1> SUFFICES ASSUME StateOK, [Next]_vars PROVE StateOK'
  OBVIOUS
<1>1. ASSUME NEW p \in Process, Call(p) PROVE StateOK'
  <2>1. CASE StartLoop(p)
    BY <2>1, InState, StayState DEF StartLoop, StateOK, Modes
  <2> QED
    BY <1>1, <2>1, GetDeviceNameState, OpenDeviceState, CloseDeviceState DEF Call
<1>2. ASSUME NEW p \in Process, Continue(p) PROVE StateOK'
  BY <1>2, ResetOneState, SettleState, NameAtState, NoFirmwareState, BootState,
     SendFileState, OpenByNameState, ScanState, CheckStatusState, WaitState
     DEF Continue
<1>3. ASSUME NEW p \in Process, Exit(p) PROVE StateOK'
  BY <1>3, ExitState
<1>4. ASSUME NEW s \in Stick, Arrive(s) \/ Ready(s) PROVE StateOK'
  BY <1>4, ArriveState, ReadyState
<1>5. ASSUME NEW s \in Stick, Depart(s) \/ Unplug(s) PROVE StateOK'
  BY <1>5, LeaveState DEF Depart, Unplug, Away
<1>6. CASE UNCHANGED vars
  BY <1>6 DEF vars, StateOK
<1> QED
  BY <1>1, <1>2, <1>3, <1>4, <1>5, <1>6 DEF Next

\* Whatever goes wrong, a device has an address, a search has a name, and a
\* call that is over has no stick in its hands.
THEOREM StateIsTyped == Spec => []StateOK
BY InitState, NextState, PTL DEF Spec
-----------------------------------------------------------------------------
(***************************************************************************)
(* Claims.  NothingIsLeaked alone is not inductive: a call that releases   *)
(* its stick must not take it from a device of the same process, and       *)
(* closing one of two devices for a stick would leave the other without.   *)
(***************************************************************************)
OwnOnce ==
    \A p \in Process : \A d \in opened[p] :
        d.stick # None => /\ d.stick # call[p].handle
                          /\ \A e \in opened[p] : e.stick = d.stick => e = d

Own == StateOK /\ NothingIsLeaked /\ OwnOnce

LEMMA InitOwn == Init => Own
<1> SUFFICES ASSUME Init PROVE Own
  OBVIOUS
<1>1. StateOK
  BY InitState
<1>2. \A p \in Process : opened[p] = {} /\ call[p].handle = None
  BY NoCallType DEF Init
<1>3. \A p \in Process, s \in Stick : claim[s] # p
  BY NoneAssumption DEF Init
<1> QED
  BY <1>1, <1>2, <1>3, NoneAssumption DEF Own, NothingIsLeaked, OwnOnce

\* Only p moves, and has no stick in its hands before and after.
LEMMA QuietOwn ==
    ASSUME Own, StateOK', NEW p \in Process, UNCHANGED <<claim, opened>>,
           pc[p] \notin {"send", "status"}, pc'[p] \notin {"send", "status"},
           \A q \in Process : q # p => call'[q] = call[q]
    PROVE  Own'
<1>1. \A q \in Process : call'[q].handle = call[q].handle
  BY DEF Own, StateOK
<1> QED
  BY <1>1 DEF Own, NothingIsLeaked, OwnOnce

LEMMA TakeOwn ==
    ASSUME Own, StateOK', NEW p \in Process, NEW s \in Stick, claim[s] = None,
           Claim(p, s), UNCHANGED opened,
           call[p].handle = None, call'[p].handle = s,
           \A q \in Process : q # p => call'[q] = call[q]
    PROVE  Own'
<1>1. \A q \in Process : /\ s # call[q].handle
                          /\ \A d \in opened[q] : d.stick # s
  BY NoneAssumption DEF Own, NothingIsLeaked
<1>2. claim'[s] = p /\ \A x \in Stick : x # s => claim'[x] = claim[x]
  BY DEF Own, StateOK, Claim
<1>3. NothingIsLeaked'
  BY <1>1, <1>2, NoneAssumption DEF Own, NothingIsLeaked
<1>4. OwnOnce'
  BY <1>1 DEF Own, OwnOnce
<1> QED
  BY <1>3, <1>4 DEF Own

LEMMA DropOwn ==
    ASSUME Own, StateOK', NEW p \in Process, Release(call[p].handle), UNCHANGED opened,
           call'[p].handle = None,
           \A q \in Process : q # p => call'[q] = call[q]
    PROVE  Own'
<1> DEFINE s == call[p].handle
<1>1. OwnOnce'
  <2>1. \A q \in Process : \A d \in opened[q] : d.stick # None => d.stick # call'[q].handle
    BY DEF Own, OwnOnce
  <2> QED
    BY <2>1 DEF Own, OwnOnce
<1>2. CASE s = None
  <2>1. claim' = claim /\ \A q \in Process : call'[q].handle = call[q].handle
    BY <1>2 DEF Release
  <2>2. NothingIsLeaked'
    BY <2>1 DEF Own, NothingIsLeaked
  <2> QED
    BY <1>1, <2>2 DEF Own
<1>3. CASE s # None
  <2>1. s \in Stick /\ claim[s] = p
    BY <1>3, InState DEF Own, NothingIsLeaked
  <2>2. claim'[s] = None /\ \A x \in Stick : x # s => claim'[x] = claim[x]
    BY <1>3, <2>1 DEF Own, StateOK, Release
  <2>3. \A q \in Process : \A d \in opened[q] : d.stick # s
    BY <1>3, <2>1 DEF Own, NothingIsLeaked, OwnOnce
  <2>4. \A q \in Process : s # call'[q].handle
    BY <1>3, <2>1 DEF Own, NothingIsLeaked
  <2> HIDE DEF s
  <2>5. \A q \in Process, x \in Stick : x # s => (x = call'[q].handle <=> x = call[q].handle)
    BY NoneAssumption DEF s
  <2>6. NothingIsLeaked'
    BY <2>2, <2>3, <2>4, <2>5, NoneAssumption DEF Own, NothingIsLeaked
  <2> QED
    BY <1>1, <2>6 DEF Own
<1> QED
  BY <1>2, <1>3

\* The stick in the hands of p becomes that of a device.
LEMMA KeepOwn ==
    ASSUME Own, StateOK', NEW p \in Process, NEW d, UNCHANGED claim,
           call[p].handle # None, d.stick = call[p].handle,
           opened' = [opened EXCEPT ![p] = @ \cup {d}],
           call'[p].handle = None,
           \A q \in Process : q # p => call'[q] = call[q]
    PROVE  Own'
<1>1. opened'[p] = opened[p] \cup {d} /\ \A q \in Process : q # p => opened'[q] = opened[q]
  BY DEF Own, StateOK
<1>2. \A e \in opened[p] : e.stick # d.stick
  BY DEF Own, OwnOnce
<1>3. NothingIsLeaked'
  BY <1>1, NoneAssumption DEF Own, NothingIsLeaked
<1>4. OwnOnce'
  BY <1>1, <1>2 DEF Own, OwnOnce
<1> QED
  BY <1>3, <1>4 DEF Own

LEMMA CloseOwn ==
    ASSUME Own, StateOK', NEW p \in Process, NEW d \in opened[p], CloseDevice(p, d)
    PROVE  Own'
<1> DEFINE s == d.stick
<1>1. /\ opened'[p] = opened[p] \ {d}
      /\ \A q \in Process : q # p => opened'[q] = opened[q]
      /\ call' = call /\ Release(s) /\ s \in Stick \cup {None}
  BY DEF CloseDevice, Own, StateOK
<1>2. OwnOnce'
  <2>1. \A q \in Process : opened'[q] \subseteq opened[q]
    BY <1>1
  <2> QED
    BY <1>1, <2>1 DEF Own, OwnOnce
<1>3. CASE s = None
  <2>1. claim' = claim
    BY <1>1, <1>3 DEF Release
  <2>2. \A q \in Process, x \in Stick :
          (\E e \in opened'[q] : e.stick = x) <=> (\E e \in opened[q] : e.stick = x)
    BY <1>1, <1>3, NoneAssumption
  <2>3. NothingIsLeaked'
    BY <1>1, <2>1, <2>2 DEF Own, NothingIsLeaked
  <2> QED
    BY <1>2, <2>3 DEF Own
<1>4. CASE s # None
  <2>1. s \in Stick /\ claim[s] = p
    BY <1>1, <1>4 DEF Own, NothingIsLeaked
  <2>2. claim'[s] = None /\ \A x \in Stick : x # s => claim'[x] = claim[x]
    BY <1>1, <1>4, <2>1 DEF Own, StateOK, Release
  <2>3. \A q \in Process : s # call[q].handle /\ \A e \in opened'[q] : e.stick # s
    BY <1>1, <1>4, <2>1 DEF Own, NothingIsLeaked, OwnOnce
  <2>4. \A q \in Process, x \in Stick : x # s =>
          ((\E e \in opened'[q] : e.stick = x) <=> (\E e \in opened[q] : e.stick = x))
    BY <1>1
  <2> HIDE DEF s
  <2>5. NothingIsLeaked'
    BY <1>1, <2>2, <2>3, <2>4, NoneAssumption DEF Own, NothingIsLeaked
  <2> QED
    BY <1>2, <2>5 DEF Own
<1> QED
  BY <1>3, <1>4

LEMMA ExitOwn ==
    ASSUME Own, StateOK', NEW p \in Process, Exit(p)
    PROVE  Own'
<1>1. /\ opened'[p] = {} /\ call'[p].handle = None
      /\ \A q \in Process : q # p => opened'[q] = opened[q] /\ call'[q] = call[q]
      /\ \A s \in Stick : claim'[s] = IF claim[s] = p THEN None ELSE claim[s]
  BY NoCallType DEF Exit, SetCall, Own, StateOK
<1>2. NothingIsLeaked'
  BY <1>1, NoneAssumption DEF Own, NothingIsLeaked
<1>3. OwnOnce'
  BY <1>1 DEF Own, OwnOnce
<1> QED
  BY <1>2, <1>3 DEF Own

LEMMA LeaveOwn ==
    ASSUME Own, StateOK', NEW s \in Stick, NEW m, Leave(s, m)
    PROVE  Own'
<1>1. /\ claim'[s] = None /\ \A x \in Stick : x # s => claim'[x] = claim[x]
      /\ s # None
  BY NoneAssumption DEF Leave, Own, StateOK
<1>2. ASSUME NEW q \in Process
      PROVE  /\ call'[q].handle # s
             /\ \A x \in Stick : x # s => (x = call'[q].handle <=> x = call[q].handle)
             /\ call'[q].handle # None => call'[q].handle = call[q].handle
  <2>1. call[q] \in CallState
    BY InState DEF Own
  <2>2. [call[q] EXCEPT !.handle = None].handle = None
    BY <2>1, CallFields
  <2>3. call'[q] = IF call[q].handle = s THEN [call[q] EXCEPT !.handle = None] ELSE call[q]
    BY DEF Leave
  <2> QED
    BY <1>1, <2>2, <2>3, NoneAssumption
<1>3. ASSUME NEW q \in Process
      PROVE  /\ \A d \in opened'[q] : d.stick # s /\ (d.stick # None => d \in opened[q])
             /\ \A d \in opened[q] : d.stick # s => d \in opened'[q]
  <2>1. \A d \in opened[q] : d \in [stick: Stick \cup {None}, addr: Addr]
    BY DEF Own, StateOK
  <2>2. \A d \in opened[q] : [d EXCEPT !.stick = None].stick = None
    BY <2>1
  <2>3. opened'[q] = {IF d.stick = s THEN [d EXCEPT !.stick = None] ELSE d : d \in opened[q]}
    BY DEF Leave
  <2> QED
    BY <1>1, <2>2, <2>3
<1>4. NothingIsLeaked'
  <2> SUFFICES ASSUME NEW q \in Process, NEW x \in Stick
               PROVE  claim'[x] = q <=> \/ x = call'[q].handle
                                        \/ \E d \in opened'[q] : d.stick = x
    BY DEF NothingIsLeaked
  <2>1. CASE x = s
    BY <1>1, <1>2, <1>3, <2>1, NoneAssumption
  <2>2. CASE x # s
    <3>1. (\E d \in opened'[q] : d.stick = x) <=> (\E d \in opened[q] : d.stick = x)
      BY <1>3, <2>2, NoneAssumption
    <3> QED
      BY <1>1, <1>2, <2>2, <3>1 DEF Own, NothingIsLeaked
  <2> QED
    BY <2>1, <2>2
<1>5. OwnOnce'
  <2> SUFFICES ASSUME NEW q \in Process, NEW d \in opened'[q], d.stick # None
               PROVE  /\ d.stick # call'[q].handle
                      /\ \A e \in opened'[q] : e.stick = d.stick => e = d
    BY DEF OwnOnce
  <2>1. d \in opened[q] /\ \A e \in opened'[q] : e.stick = d.stick => e \in opened[q]
    BY <1>3
  <2> QED
    BY <1>2, <2>1 DEF Own, OwnOnce
<1> QED
  BY <1>4, <1>5 DEF Own
-----------------------------------------------------------------------------
(***************************************************************************)
(* The actions.                                                            *)
(***************************************************************************)
LEMMA BeginOwn ==
    ASSUME Own, StateOK', NEW p \in Process, NEW c \in CallState, c.handle = None,
           Begin(p, c), pc[p] = "idle", UNCHANGED <<claim, opened>>
    PROVE  Own'
<1>1. PICK x \in CallState, l \in {"name", "boot", "reset"} :
        call' = [call EXCEPT ![p] = x] /\ pc' = [pc EXCEPT ![p] = l]
  BY BeginCall
<1>2. /\ pc'[p] \notin {"send", "status"}
      /\ \A q \in Process : q # p => call'[q] = call[q]
  BY <1>1 DEF Own, StateOK
<1> QED
  BY <1>2, QuietOwn

LEMMA CallOwn ==
    ASSUME Own, StateOK', NEW p \in Process, Call(p)
    PROVE  Own'
<1>1. CASE StartLoop(p)
  BY <1>1, QuietOwn DEF StartLoop
<1>2. CASE GetDeviceName(p)
  BY <1>2, NoCallType, BeginOwn DEF GetDeviceName
<1>3. ASSUME NEW n \in Name, OpenDevice(p, n) PROVE Own'
  <2> DEFINE c == [NoCall EXCEPT !.name = n.first, !.second = n.second]
  <2>1. n.first \in Addr /\ n.second \in Addr \cup {None}
    BY NameAssumption
  <2>2. c \in CallState /\ c.handle = None
    BY <2>1, NoCallType DEF CallState
  <2>3. Begin(p, c) /\ pc[p] = "idle" /\ UNCHANGED <<claim, opened>>
    BY <1>3 DEF OpenDevice
  <2> HIDE DEF c
  <2> QED
    BY <2>2, <2>3, BeginOwn
<1> QED
  BY <1>1, <1>2, <1>3, CloseOwn DEF Call

\* Where a call moves without touching a stick.
LEMMA QuietSteps ==
    ASSUME Own, StateOK', NEW p \in Process,
           ResetOne(p) \/ Settle(p) \/ NameAt(p) \/ NoFirmware(p) \/ Wait(p)
    PROVE  Own'
<1>1. UNCHANGED <<claim, opened>> /\ pc[p] \notin {"send", "status"}
  BY DEF ResetOne, Settle, NameAt, NoFirmware, Wait
<1>2. pc'[p] \notin {"send", "status"}
  <2>1. pc \in [Process -> PC]
    BY DEF Own, StateOK
  <2> QED
    BY <1>1, <2>1 DEF ResetOne, Settle, NameAt, NoFirmware, Wait, Goto, Return, Body
<1>3. \A q \in Process : q # p => call'[q] = call[q]
  <2>1. call \in [Process -> CallState]
    BY DEF Own, StateOK
  <2> QED
    BY <2>1 DEF ResetOne, Settle, NameAt, NoFirmware, Wait, SetCall, Return
<1> QED
  BY <1>1, <1>2, <1>3, QuietOwn

\* What every step of a call has in common.
LEMMA Others ==
    ASSUME StateOK, NEW p \in Process, NEW x, call' = [call EXCEPT ![p] = x]
    PROVE  call'[p] = x /\ \A q \in Process : q # p => call'[q] = call[q]
BY DEF StateOK

\* A call that has no stick claims s.
LEMMA ClaimOwn ==
    ASSUME Own, StateOK', NEW p \in Process, NEW s \in Stick, claim[s] = None,
           Claim(p, s), UNCHANGED opened, pc[p] \notin {"send", "status"},
           NEW x, x.handle = s, SetCall(p, x)
    PROVE  Own'
<1>1. StateOK /\ call' = [call EXCEPT ![p] = x]
  BY DEF Own, SetCall
<1> QED
  BY <1>1, Others, InState, TakeOwn

LEMMA BootOwn == ASSUME Own, StateOK', NEW p \in Process, Boot(p) PROVE Own'
<1> DEFINE c == call[p]
<1>1. c \in CallState /\ pc[p] = "boot" /\ UNCHANGED opened
  BY InState DEF Own, Boot
<1>2. ASSUME NEW s \in Stick, claim[s] = None, Claim(p, s),
             SetCall(p, [c EXCEPT !.handle = s, !.tries = 0])
      PROVE  Own'
  <2>1. [c EXCEPT !.handle = s, !.tries = 0].handle = s
    BY <1>1 DEF CallState
  <2> QED
    BY <1>1, <1>2, <2>1, ClaimOwn
<1>3. CASE Return(p) /\ UNCHANGED claim
  <2>1. pc'[p] = "idle" /\ \A q \in Process : q # p => call'[q] = call[q]
    BY <1>3 DEF Return, Goto, SetCall, Own, StateOK
  <2> QED
    BY <1>1, <1>3, <2>1, QuietOwn
<1>4. CASE SetCall(p, [c EXCEPT !.tries = c.tries + 1]) /\ UNCHANGED <<pc, claim>>
  <2>1. \A q \in Process : q # p => call'[q] = call[q]
    BY <1>4 DEF SetCall, Own, StateOK
  <2> QED
    BY <1>1, <1>4, <2>1, QuietOwn
<1> QED
  BY <1>2, <1>3, <1>4 DEF Boot

LEMMA SendFileOwn == ASSUME Own, StateOK', NEW p \in Process, SendFile(p) PROVE Own'
<1>1. Release(call[p].handle) /\ UNCHANGED opened
  BY DEF SendFile
<1>2. /\ call'[p].handle = None
      /\ \A q \in Process : q # p => call'[q] = call[q]
  <2>1. pc'[p] \notin {"send", "status"} /\ \A q \in Process : q # p => call'[q] = call[q]
    BY DEF SendFile, Return, Booted, SetCall, Goto, Own, StateOK
  <2> QED
    BY <2>1 DEF StateOK
<1> QED
  BY <1>1, <1>2, DropOwn

LEMMA OpenByNameOwn == ASSUME Own, StateOK', NEW p \in Process, OpenByName(p) PROVE Own'
<1> DEFINE c == call[p]
<1>1. c \in CallState /\ pc[p] = "open" /\ UNCHANGED opened
  BY InState DEF Own, OpenByName
<1>2. ASSUME NEW s \in Stick, CanOpen(c.name, s), Claim(p, s),
             SetCall(p, [c EXCEPT !.handle = s])
      PROVE  Own'
  <2>1. [c EXCEPT !.handle = s].handle = s
    BY <1>1 DEF CallState
  <2> QED
    BY <1>1, <1>2, <2>1, ClaimOwn DEF CanOpen
<1>3. CASE /\ SetCall(p, [c EXCEPT !.count = 0]) /\ UNCHANGED claim
           /\ Goto(p, IF c.second = None THEN "scan" ELSE "wait")
  <2>1. pc'[p] \in {"scan", "wait"} /\ \A q \in Process : q # p => call'[q] = call[q]
    BY <1>3 DEF SetCall, Goto, Own, StateOK
  <2> QED
    BY <1>1, <1>3, <2>1, QuietOwn
<1> QED
  BY <1>2, <1>3 DEF OpenByName

LEMMA ScanOwn == ASSUME Own, StateOK', NEW p \in Process, Scan(p) PROVE Own'
<1> DEFINE c == call[p]
<1>1. c \in CallState /\ pc[p] = "scan" /\ UNCHANGED opened
  BY InState DEF Own, Scan
<1>2. ASSUME NEW a \in Addr, NEW s \in Stick, CanOpen(a, s), Claim(p, s),
             SetCall(p, [c EXCEPT !.name2 = a, !.handle = s, !.count = 0])
      PROVE  Own'
  <2>1. [c EXCEPT !.name2 = a, !.handle = s, !.count = 0].handle = s
    BY <1>1 DEF CallState
  <2> QED
    BY <1>1, <1>2, <2>1, ClaimOwn DEF CanOpen
<1>3. ASSUME NEW a, NEW n, SetCall(p, [c EXCEPT !.name2 = a, !.count = n]),
             UNCHANGED claim, Goto(p, "wait") \/ UNCHANGED pc
      PROVE  Own'
  <2>1. pc'[p] \in {"scan", "wait"} /\ \A q \in Process : q # p => call'[q] = call[q]
    BY <1>1, <1>3 DEF SetCall, Goto, Own, StateOK
  <2> QED
    BY <1>1, <1>3, <2>1, QuietOwn
<1> QED
  BY <1>2, <1>3 DEF Scan

LEMMA CheckStatusOwn == ASSUME Own, StateOK', NEW p \in Process, CheckStatus(p) PROVE Own'
<1> DEFINE c == call[p]
           d == [stick |-> c.handle, addr |-> IF c.name2 # None THEN c.name2 ELSE c.name]
<1>1. /\ pc'[p] \notin {"send", "status"} /\ call'[p].handle = None
      /\ \A q \in Process : q # p => call'[q] = call[q]
  <2>1. pc'[p] \notin {"send", "status"} /\ \A q \in Process : q # p => call'[q] = call[q]
    BY DEF CheckStatus, Return, SetCall, Goto, Own, StateOK
  <2> QED
    BY <2>1 DEF StateOK
<1>2. CASE c.handle # None /\ opened' = [opened EXCEPT ![p] = @ \cup {d}] /\ UNCHANGED claim
  <2>1. d.stick = c.handle
    OBVIOUS
  <2> HIDE DEF d
  <2> QED
    BY <1>1, <1>2, <2>1, KeepOwn
<1>3. CASE Release(c.handle) /\ UNCHANGED opened
  BY <1>1, <1>3, DropOwn
<1> QED
  BY <1>2, <1>3 DEF CheckStatus

LEMMA NextOwn == Own /\ [Next]_vars => Own'
<1> SUFFICES ASSUME Own, [Next]_vars PROVE Own'
  OBVIOUS
<1>1. StateOK'
  BY NextState DEF Own
<1>2. ASSUME NEW p \in Process, Call(p) PROVE Own'
  BY <1>1, <1>2, CallOwn
<1>3. ASSUME NEW p \in Process, Continue(p) PROVE Own'
  BY <1>1, <1>3, QuietSteps, BootOwn, SendFileOwn, OpenByNameOwn, ScanOwn, CheckStatusOwn
     DEF Continue
<1>4. ASSUME NEW p \in Process, Exit(p) PROVE Own'
  BY <1>1, <1>4, ExitOwn
<1>5. ASSUME NEW s \in Stick, Arrive(s) \/ Ready(s) PROVE Own'
  BY <1>1, <1>5 DEF Arrive, Ready, Own, NothingIsLeaked, OwnOnce
<1>6. ASSUME NEW s \in Stick, Depart(s) \/ Unplug(s) PROVE Own'
  BY <1>1, <1>6, LeaveOwn DEF Depart, Unplug
<1>7. CASE UNCHANGED vars
  BY <1>1, <1>7 DEF vars, Own, NothingIsLeaked, OwnOnce
<1> QED
  BY <1>2, <1>3, <1>4, <1>5, <1>6, <1>7 DEF Next

LEMMA OwnAlways == Spec => []Own
BY InitOwn, NextOwn, PTL DEF Spec

\* A process has claimed exactly the sticks of its devices and of its call:
\* usb_boot and every path of mvncOpenDevice give back what they claim.
THEOREM ClaimsAreReturned == Spec => []NothingIsLeaked
<1>1. Own => NothingIsLeaked
  BY DEF Own
<1> QED
  BY <1>1, OwnAlways, PTL

\* No stick is behind two open devices, whatever their names say.
THEOREM SticksAreExclusive == Spec => []OneHandle
<1>1. Own => OneHandle
  <2> SUFFICES ASSUME Own, NEW p \in Process, NEW q \in Process,
                      NEW d \in opened[p], NEW e \in opened[q],
                      d.stick = e.stick, d.stick # None
               PROVE  p = q /\ d = e
    BY DEF OneHandle
  <2>1. d.stick \in Stick
    BY DEF Own, StateOK
  <2>2. claim[d.stick] = p /\ claim[e.stick] = q
    BY <2>1 DEF Own, NothingIsLeaked
  <2> QED
    BY <2>2 DEF Own, OwnOnce
<1> QED
  BY <1>1, OwnAlways, PTL

\* usblink_resetall, which resets what it can claim, cannot claim a stick that
\* is in use: only the mvncCloseDevice of its owner resets it.
THEOREM ResetsAreByOwner == Spec => InUseIsNotReset
<1>1. Own /\ [Next]_vars => [ResetByOwner]_vars
  <2> SUFFICES ASSUME Own, Next, NEW p \in Process, NEW s \in Stick,
                      claim[s] = p, mode[s] = "waiting", mode'[s] = "resetting"
               PROVE  \E d \in opened[p] : d.stick = s /\ d \notin opened'[p]
    BY DEF ResetByOwner
  <2> USE DEF Own
  <2>1. mode \in [Stick -> Modes] /\ opened \in [Process -> SUBSET [stick: Stick \cup {None}, addr: Addr]]
    BY DEF StateOK, Modes
  <2>2. ASSUME NEW q \in Process, NEW d \in opened[q], CloseDevice(q, d)
        PROVE  d \in opened[p] /\ d.stick = s /\ d \notin opened'[p]
    <3>1. d.stick # None /\ d.stick = s
      BY <2>1, <2>2 DEF CloseDevice
    <3>2. q = p
      BY <3>1 DEF NothingIsLeaked
    <3> QED
      BY <2>1, <2>2, <3>1, <3>2 DEF CloseDevice
  <2>3. ASSUME NEW q \in Process, ResetOne(q) PROVE FALSE
    BY <2>1, <2>3, NoneAssumption DEF ResetOne, CanReset
  <2>4. ASSUME NEW q \in Process, Continue(q), ~ResetOne(q) PROVE FALSE
    <3>1. CASE SendFile(q)
      BY <2>1, <3>1 DEF SendFile
    <3>2. CASE ~SendFile(q)
      <4>1. mode' = mode
        BY <2>4, <3>2 DEF Continue, Settle, NameAt, NoFirmware, Boot, OpenByName, Scan,
           CheckStatus, Wait
      <4> QED
        BY <4>1
    <3> QED
      BY <3>1, <3>2
  <2>5. ASSUME NEW q \in Process, StartLoop(q) \/ GetDeviceName(q) \/ Exit(q) PROVE FALSE
    BY <2>5 DEF StartLoop, GetDeviceName, Exit
  <2>6. ASSUME NEW q \in Process, NEW n \in Name, OpenDevice(q, n) PROVE FALSE
    BY <2>6 DEF OpenDevice
  <2>7. ASSUME NEW x \in Stick, Arrive(x) \/ Ready(x) \/ Depart(x) \/ Unplug(x) PROVE FALSE
    BY <2>1, <2>7 DEF Arrive, Ready, Depart, Unplug, Leave
  <2> QED
    BY <2>2, <2>3, <2>4, <2>5, <2>6, <2>7 DEF Next, Call
<1> QED
  BY <1>1, OwnAlways, PTL DEF Spec, InUseIsNotReset
-----------------------------------------------------------------------------
(***************************************************************************)
(* Lists.  That a list is a list of sticks is not inductive alone: a stick *)
(* that is reset, or gets the firmware, must be on the bus when it is, or  *)
(* it would have to leave the bus a second time.  So what                  *)
(* usblink_resetall has still to look at and what applications have open   *)
(* runs the firmware, and what gets firmware is a ROM.                     *)
(***************************************************************************)
StaleRuns(p) ==
    \A i \in DOMAIN stale[p] : stale[p][i] # None => mode[stale[p][i]] \in Running

DevicesRun(p) == \A d \in opened[p] : d.stick # None => mode[d.stick] \in Running

RomIsSent(p) ==
    pc[p] = "send" /\ call[p].handle # None => mode[call[p].handle] \in Rom

Kinds(p) == StaleRuns(p) /\ DevicesRun(p) /\ RomIsSent(p)

\* How far a loop over the names has come, when nothing disturbed it; the list
\* that usb_find_device keeps is either gone or up to date.
InLoop(p) ==
    enum[p].on /\ enum[p].clean =>
      /\ enum[p].next <= Len(bus)
      /\ enum[p].names = [i \in 1..enum[p].next |-> AddrOf(Listing[i])]
      /\ enum[p].next > 0 /\ devs[p] # <<>> => devs[p] = Listing

Listed == StateOK /\ ListsOK /\ \A p \in Process : Kinds(p) /\ InLoop(p)

\* No stick changes between ROM, firmware and away.
Same ==
    \A s \in Stick : /\ mode'[s] \in Rom <=> mode[s] \in Rom
                     /\ mode'[s] \in Running <=> mode[s] \in Running

LEMMA ModesApart ==
    \A m \in Modes : /\ m \in Rom => m \notin Running \cup Away
                     /\ m \in Running => m \notin Rom \cup Away
                     /\ m \in Away => m \notin Rom \cup Running
BY DEF Modes, Rom, Running, Away

LEMMA ListingType ==
    ASSUME bus \in Seq(Stick)
    PROVE  /\ Listing \in Seq(Entry) /\ DOMAIN Listing = 1..Len(bus)
           /\ Len(Listing) = Len(bus)
           /\ \A i \in 1..Len(bus) : /\ Listing[i].stick = bus[i]
                                     /\ Listing[i].run = (mode[bus[i]] \in Running)
<1>1. \A i \in 1..Len(bus) :
        [stick |-> bus[i], run |-> mode[bus[i]] \in Running] \in Entry
  BY DEF Entry
<1> QED
  BY <1>1 DEF Listing

\* What usb_find_device finds is on the bus, and of the kind it looks for.
LEMMA FindAddrFinds ==
    ASSUME Listed, NEW a, NEW running \in BOOLEAN, NEW s \in Stick,
           s = FindAddr(a, running)
    PROVE  mode[s] \in IF running THEN Running ELSE Rom
<1> DEFINE I == {i \in DOMAIN Listing :
                   Listing[i].run = running /\ AddrOf(Listing[i]) = a}
<1>1. bus \in Seq(Stick) /\ DOMAIN Listing = 1..Len(bus)
  BY ListingType DEF Listed, ListsOK
<1>2. I # {} /\ s = Listing[Min(I)].stick
  BY NoneAssumption DEF FindAddr
<1>3. Min(I) \in I
  <2>1. I \subseteq Nat /\ I # {}
    BY <1>1, <1>2
  <2>2. \E i \in I : \A j \in I : i <= j
    <3> HIDE DEF I
    <3>1. PICK i \in I : \A j \in I : <<j, i>> \notin OpToRel(<, Nat)
      BY <2>1, NatLessThanWellFounded, WFMin, Zenon
    <3>2. \A j \in I : ~(j < i)
      BY <2>1, <3>1 DEF OpToRel
    <3> QED
      BY <2>1, <3>2
  <2> QED
    BY <2>2 DEF Min
<1>4. PICK i \in 1..Len(bus) : s = Listing[i].stick /\ Listing[i].run = running
  BY <1>1, <1>2, <1>3
<1>5. s = bus[i] /\ (mode[s] \in Running) = running
  BY <1>1, <1>4, ListingType
<1>6. s \in Connected /\ mode[s] \in Modes
  BY <1>1, <1>5 DEF Listed, ListsOK, StateOK, Modes
<1> QED
  BY <1>5, <1>6 DEF Connected, Modes

\* Removing the entry k of a list, and putting e there.
LEMMA RemoveFacts ==
    ASSUME NEW S, NEW q \in Seq(S), NEW k \in 1..Len(q)
    PROVE  /\ RemoveAt(q, k) \in Seq(S) /\ Len(RemoveAt(q, k)) = Len(q) - 1
           /\ \A i \in 1..(Len(q) - 1) :
                RemoveAt(q, k)[i] = IF i < k THEN q[i] ELSE q[i + 1]
<1> DEFINE front == SubSeq(q, 1, k - 1)
           back == SubSeq(q, k + 1, Len(q))
<1>1. /\ front \in Seq(S) /\ Len(front) = k - 1
      /\ \A i \in 1..(k - 1) : front[i] = q[i]
  OBVIOUS
<1>2. /\ back \in Seq(S) /\ Len(back) = Len(q) - k
      /\ \A i \in 1..(Len(q) - k) : back[i] = q[k + i]
  OBVIOUS
<1>3. RemoveAt(q, k) = front \o back
  BY DEF RemoveAt
<1> HIDE DEF front, back
<1>4. /\ front \o back \in Seq(S) /\ Len(front \o back) = Len(q) - 1
      /\ \A i \in 1..(Len(q) - 1) :
           (front \o back)[i] = IF i <= k - 1 THEN front[i] ELSE back[i - (k - 1)]
  <2>1. Len(front) + Len(back) = Len(q) - 1
    BY <1>1, <1>2
  <2>2. front \in Seq(S) /\ back \in Seq(S)
    BY <1>1, <1>2
  <2>3. /\ front \o back \in Seq(S) /\ Len(front \o back) = Len(front) + Len(back)
        /\ \A i \in 1..(Len(front) + Len(back)) :
             (front \o back)[i] = IF i <= Len(front) THEN front[i]
                                  ELSE back[i - Len(front)]
    BY <2>2, ConcatProperties
  <2>4. /\ Len(front \o back) = Len(q) - 1
        /\ \A i \in 1..(Len(q) - 1) :
             (front \o back)[i] = IF i <= Len(front) THEN front[i]
                                  ELSE back[i - Len(front)]
    BY <2>1, <2>3
  <2> QED
    BY <1>1, <2>3, <2>4
<1>5. ASSUME NEW i \in 1..(Len(q) - 1)
      PROVE  (front \o back)[i] = IF i < k THEN q[i] ELSE q[i + 1]
  <2>1. i \in Int /\ k \in Int /\ Len(q) \in Nat
    OBVIOUS
  <2>2. CASE i < k
    <3>1. i <= k - 1 /\ i \in 1..(k - 1)
      BY <2>1, <2>2
    <3> QED
      BY <1>1, <1>4, <2>2, <3>1
  <2>3. CASE ~(i < k)
    <3>1. ~(i <= k - 1) /\ i - (k - 1) \in 1..(Len(q) - k) /\ k + (i - (k - 1)) = i + 1
      BY <2>1, <2>3
    <3> DEFINE m == i - (k - 1)
    <3>2. (front \o back)[i] = back[m]
      BY <1>4, <3>1
    <3> HIDE DEF m
    <3>3. m \in 1..(Len(q) - k) /\ k + m = i + 1
      BY <3>1 DEF m
    <3>4. back[m] = q[i + 1]
      BY <1>2, <3>3
    <3> QED
      BY <2>3, <3>2, <3>4
  <2> QED
    BY <2>2, <2>3
<1> QED
  BY <1>3, <1>4, <1>5

\* new is q with e put before entry k.
Inserted(new, q, k, e) ==
    /\ Len(new) = Len(q) + 1
    /\ \A i \in 1..(Len(q) + 1) :
         new[i] = IF i < k THEN q[i] ELSE IF i = k THEN e ELSE q[i - 1]

LEMMA InsertFacts ==
    ASSUME NEW S, NEW q \in Seq(S), NEW k \in 1..(Len(q) + 1), NEW e \in S
    PROVE  InsertAt(q, k, e) \in Seq(S) /\ Inserted(InsertAt(q, k, e), q, k, e)
<1> DEFINE front == SubSeq(q, 1, k - 1)
           back == SubSeq(q, k, Len(q))
           begun == front \o <<e>>
<1>1. /\ front \in Seq(S) /\ Len(front) = k - 1
      /\ \A i \in 1..(k - 1) : front[i] = q[i]
  OBVIOUS
<1>2. /\ back \in Seq(S) /\ Len(back) = Len(q) - k + 1
      /\ \A i \in 1..(Len(q) - k + 1) : back[i] = q[k + i - 1]
  OBVIOUS
<1>3. InsertAt(q, k, e) = begun \o back
  BY DEF InsertAt
<1>4. /\ begun \in Seq(S) /\ Len(begun) = k
      /\ \A i \in 1..k : begun[i] = IF i < k THEN q[i] ELSE e
  <2> HIDE DEF front
  <2> DEFINE one == <<e>>
  <2>1. one \in Seq(S) /\ Len(one) = 1 /\ one[1] = e
    OBVIOUS
  <2> HIDE DEF one
  <2>2. /\ front \o one \in Seq(S) /\ Len(front \o one) = Len(front) + Len(one)
        /\ \A i \in 1..(Len(front) + Len(one)) :
             (front \o one)[i] = IF i <= Len(front) THEN front[i]
                                 ELSE one[i - Len(front)]
    BY <1>1, <2>1, ConcatProperties
  <2>3. Len(front) + Len(one) = k
    BY <1>1, <2>1
  <2>4. ASSUME NEW i \in 1..k
        PROVE  (front \o one)[i] = IF i < k THEN q[i] ELSE e
    <3>1. CASE i < k
      <4>1. i <= Len(front) /\ i \in 1..(k - 1)
        BY <1>1, <3>1
      <4> QED
        BY <1>1, <2>2, <2>3, <3>1, <4>1
    <3>2. CASE ~(i < k)
      <4>1. ~(i <= Len(front)) /\ i - Len(front) = 1
        BY <1>1, <3>2
      <4> QED
        BY <2>1, <2>2, <2>3, <3>2, <4>1
    <3> QED
      BY <3>1, <3>2
  <2> QED
    BY <2>2, <2>3, <2>4 DEF one
<1> HIDE DEF begun, back
<1>5. /\ begun \o back \in Seq(S) /\ Len(begun \o back) = Len(q) + 1
      /\ \A i \in 1..(Len(q) + 1) :
           (begun \o back)[i] = IF i <= k THEN begun[i] ELSE back[i - k]
  <2>1. /\ begun \o back \in Seq(S) /\ Len(begun \o back) = Len(begun) + Len(back)
        /\ \A i \in 1..(Len(begun) + Len(back)) :
             (begun \o back)[i] = IF i <= Len(begun) THEN begun[i]
                                  ELSE back[i - Len(begun)]
    BY <1>2, <1>4, ConcatProperties
  <2>2. Len(begun) = k /\ Len(begun) + Len(back) = Len(q) + 1
    BY <1>2, <1>4
  <2> QED
    BY <2>1, <2>2
<1>6. ASSUME NEW i \in 1..(Len(q) + 1)
      PROVE  (begun \o back)[i] = IF i < k THEN q[i] ELSE IF i = k THEN e ELSE q[i - 1]
  <2>1. CASE i \in 1..k
    <3>1. (begun \o back)[i] = begun[i]
      BY <1>5, <2>1
    <3>2. begun[i] = IF i < k THEN q[i] ELSE e
      BY <1>4, <2>1
    <3>3. ~(i < k) => i = k
      BY <2>1
    <3> QED
      BY <3>1, <3>2, <3>3
  <2>2. CASE i \in (k + 1)..(Len(q) + 1)
    <3> DEFINE m == i - k
    <3>1. m \in 1..(Len(q) - k + 1) /\ k + m - 1 = i - 1 /\ ~(i <= k)
      BY <2>2
    <3>2. (begun \o back)[i] = back[m]
      BY <1>5, <3>1
    <3> HIDE DEF m
    <3>3. back[m] = q[i - 1]
      BY <1>2, <3>1
    <3>4. ~(i < k) /\ i # k
      BY <2>2
    <3> QED
      BY <3>2, <3>3, <3>4
  <2>3. i \in 1..k \/ i \in (k + 1)..(Len(q) + 1)
    OBVIOUS
  <2> QED
    BY <2>1, <2>2, <2>3
<1> QED
  BY <1>3, <1>5, <1>6 DEF Inserted
-----------------------------------------------------------------------------
(***************************************************************************)
(* Steps that leave the bus alone.                                         *)
(***************************************************************************)
BusOK ==
    /\ bus \in Seq(Stick)
    /\ \A i, j \in DOMAIN bus : bus[i] = bus[j] => i = j
    /\ \A s \in Stick : (\E i \in DOMAIN bus : bus[i] = s) <=> s \in Connected

KeptOK ==
    /\ stale \in [Process -> Seq(Stick \cup {None})]
    /\ devs \in [Process -> Seq(Entry)]
    /\ enum \in [Process -> LoopState]

LEMMA ListsParts == ListsOK <=> BusOK /\ KeptOK
BY DEF ListsOK, BusOK, KeptOK

LEMMA StillBus ==
    ASSUME Listed, StateOK', bus' = bus, Same
    PROVE  BusOK' /\ Listing' = Listing /\ Len(bus) \in Nat
<1>1. BusOK /\ mode \in [Stick -> Modes] /\ mode' \in [Stick -> Modes]
  BY ListsParts DEF Listed, StateOK, Modes
<1>2. Connected' = Connected
  BY <1>1, ModesApart DEF Connected, Same, Modes
<1>3. Listing' = Listing
  BY <1>1 DEF Listing, Same, BusOK
<1> QED
  BY <1>1, <1>2, <1>3 DEF BusOK

\* A call of p: nothing of the other processes changes.
LEMMA StepListed ==
    ASSUME Listed, StateOK', bus' = bus, Same, NEW p \in Process, KeptOK',
           Kinds(p)', InLoop(p)',
           \A q \in Process : q # p =>
             /\ stale'[q] = stale[q] /\ devs'[q] = devs[q] /\ enum'[q] = enum[q]
             /\ opened'[q] = opened[q] /\ pc'[q] = pc[q] /\ call'[q] = call[q]
    PROVE  Listed'
<1>1. BusOK' /\ Listing' = Listing
  BY StillBus
<1>2. ASSUME NEW q \in Process, q # p
      PROVE  Kinds(q)' /\ InLoop(q)'
  <2>1. /\ stale'[q] = stale[q] /\ devs'[q] = devs[q] /\ enum'[q] = enum[q]
        /\ opened'[q] = opened[q] /\ pc'[q] = pc[q] /\ call'[q] = call[q]
        /\ Kinds(q) /\ InLoop(q)
    BY <1>2 DEF Listed
  <2>2. /\ stale[q] \in Seq(Stick \cup {None})
        /\ opened[q] \subseteq [stick: Stick \cup {None}, addr: Addr]
        /\ call[q].handle \in Stick \cup {None}
    BY DEF Listed, ListsOK, StateOK, CallState
  <2>3. StaleRuns(q)'
    BY <2>1, <2>2 DEF Kinds, StaleRuns, Same
  <2>4. DevicesRun(q)'
    BY <2>1, <2>2 DEF Kinds, DevicesRun, Same
  <2>5. RomIsSent(q)'
    BY <2>1, <2>2 DEF Kinds, RomIsSent, Same
  <2>6. InLoop(q)'
    BY <1>1, <2>1 DEF InLoop
  <2> QED
    BY <2>3, <2>4, <2>5, <2>6 DEF Kinds
<1> QED
  BY <1>1, <1>2 DEF Listed, ListsOK, BusOK, KeptOK

\* What p refers to is of the same kind as before.
LEMMA SameKinds ==
    ASSUME Listed, Same, NEW p \in Process, pc'[p] # "send",
           stale'[p] = stale[p], opened'[p] \subseteq opened[p]
    PROVE  Kinds(p)'
<1>1. /\ stale[p] \in Seq(Stick \cup {None})
      /\ opened[p] \subseteq [stick: Stick \cup {None}, addr: Addr]
      /\ Kinds(p)
  BY DEF Listed, ListsOK, StateOK
<1>2. StaleRuns(p)'
  BY <1>1 DEF Kinds, StaleRuns, Same
<1>3. DevicesRun(p)'
  BY <1>1 DEF Kinds, DevicesRun, Same
<1> QED
  BY <1>2, <1>3 DEF Kinds, RomIsSent

\* A list that is kept is the old one, a new one or none.
LEMMA SameLoop ==
    ASSUME Listed, StateOK', bus' = bus, Same, NEW p \in Process,
           enum'[p] = enum[p], devs'[p] \in {devs[p], <<>>, Listing}
    PROVE  InLoop(p)'
<1>1. Listing' = Listing /\ InLoop(p)
  BY StillBus DEF Listed
<1> QED
  BY <1>1 DEF InLoop

LEMMA SameModes == ASSUME mode' = mode PROVE Same
BY DEF Same

LEMMA KeptParts ==
    ASSUME Listed, NEW p \in Process
    PROVE  /\ stale[p] \in Seq(Stick \cup {None}) /\ devs[p] \in Seq(Entry)
           /\ enum[p] \in LoopState
           /\ opened[p] \subseteq [stick: Stick \cup {None}, addr: Addr]
           /\ pc[p] \in PC /\ call[p] \in CallState /\ KeptOK /\ Kinds(p) /\ InLoop(p)
BY DEF Listed, ListsOK, KeptOK, StateOK

\* A step of p that moves it, and at most throws away or renews its list.
LEMMA MoveListed ==
    ASSUME Listed, StateOK', NEW p \in Process,
           UNCHANGED <<bus, mode, stale, opened, enum>>,
           NEW l, Goto(p, l) \/ UNCHANGED pc, l # "send" /\ pc[p] # "send",
           NEW x, SetCall(p, x) \/ UNCHANGED call,
           NEW L \in {devs[p], <<>>, Listing},
           devs' = [devs EXCEPT ![p] = L]
    PROVE  Listed'
<1>1. Same
  BY SameModes
<1>2. L \in Seq(Entry)
  <2>1. devs[p] \in Seq(Entry)
    BY KeptParts
  <2>2. bus \in Seq(Stick)
    BY DEF Listed, ListsOK
  <2>3. Listing \in Seq(Entry)
    BY <2>2, ListingType
  <2>4. <<>> \in Seq(Entry)
    OBVIOUS
  <2> QED
    BY <2>1, <2>3, <2>4
<1>3. KeptOK' /\ devs'[p] = L
  BY <1>2, KeptParts DEF KeptOK
<1>4. pc'[p] # "send"
  BY KeptParts DEF Goto, Listed, StateOK
<1>5. Kinds(p)' /\ InLoop(p)'
  BY <1>1, <1>3, <1>4, SameKinds, SameLoop
<1>6. \A q \in Process : q # p =>
        devs'[q] = devs[q] /\ pc'[q] = pc[q] /\ call'[q] = call[q]
  BY DEF Goto, SetCall, Listed, ListsOK, StateOK
<1> QED
  BY <1>1, <1>3, <1>5, <1>6, StepListed
-----------------------------------------------------------------------------
(***************************************************************************)
(* The actions.                                                            *)
(***************************************************************************)
\* Assigning fields of the record of a loop.
LEMMA NoLoopType == NoLoop \in LoopState /\ NoLoop.next = 0 /\ NoLoop.names = <<>>
BY DEF NoLoop, LoopState

LEMMA SpoiltLoop ==
    ASSUME NEW l \in LoopState
    PROVE  [on |-> l.on, names |-> <<>>, next |-> l.next, clean |-> FALSE] \in LoopState
BY DEF LoopState

LEMMA InitListed == Init => Listed
<1> SUFFICES ASSUME Init PROVE Listed
  OBVIOUS
<1>1. StateOK
  BY InitState
<1>2. BusOK
  <2>1. mode \in [Stick -> {"rom", "waiting"}]
    BY DEF Init
  <2>2. Connected = Stick
    BY <2>1 DEF Connected, Away
  <2> DEFINE n == Cardinality(Stick)
  <2>3. n \in Nat /\ IsFiniteSet(1..n) /\ Cardinality(1..n) = n
    BY StickAssumption, FS_CardinalityType, FS_Interval
  <2>4. /\ bus \in [1..n -> Stick]
        /\ \A i, j \in 1..n : i # j => bus[i] # bus[j]
    BY DEF Init, SetToSeqs
  <2> HIDE DEF n
  <2>5. bus \in Injection(1..n, Stick)
    BY <2>4 DEF Injection, IsInjective
  <2>6. bus \in Surjection(1..n, Stick)
    BY <2>3, <2>5, StickAssumption, FS_Injection DEF n
  <2>7. \A s \in Stick : \E i \in 1..n : bus[i] = s
    BY <2>6 DEF Surjection
  <2>8. bus \in Seq(Stick) /\ DOMAIN bus = 1..n
    BY <2>3, <2>4
  <2> QED
    BY <2>2, <2>4, <2>7, <2>8 DEF BusOK
<1>3. KeptOK
  BY NoLoopType DEF Init, KeptOK
<1>4. ASSUME NEW p \in Process PROVE Kinds(p) /\ InLoop(p)
  BY DEF Init, Kinds, StaleRuns, DevicesRun, RomIsSent, InLoop, NoLoop
<1> QED
  BY <1>1, <1>2, <1>3, <1>4, ListsParts DEF Listed

LEMMA StartLoopListed ==
    ASSUME Listed, StateOK', NEW p \in Process, StartLoop(p) PROVE Listed'
<1> DEFINE e == NewLoop
<1>1. /\ e \in LoopState /\ e.next = 0 /\ e.names = <<>>
  BY DEF NewLoop, LoopState
<1>2. enum' = [enum EXCEPT ![p] = e]
      /\ UNCHANGED <<bus, mode, claim, initialized, stale, devs, opened, pc, call>>
      /\ pc[p] = "idle"
  BY DEF StartLoop
<1> HIDE DEF e
<1>3. KeptOK' /\ enum'[p] = e /\ \A q \in Process : q # p => enum'[q] = enum[q]
  BY <1>1, <1>2, KeptParts DEF KeptOK
<1>4. Same /\ Kinds(p)'
  BY <1>2, SameModes, SameKinds
<1>5. InLoop(p)'
  <2>1. Len(bus)' \in Nat
    BY <1>2 DEF Listed, ListsOK
  <2>2. [i \in 1..0 |-> AddrOf(Listing[i])'] = <<>>
    OBVIOUS
  <2> QED
    BY <1>1, <1>3, <2>1, <2>2 DEF InLoop
<1> QED
  BY <1>2, <1>3, <1>4, <1>5, StepListed

LEMMA BeginListed ==
    ASSUME Listed, StateOK', NEW p \in Process, NEW c \in CallState, c.handle = None,
           Begin(p, c), pc[p] = "idle", UNCHANGED <<bus, mode, claim, devs, opened, enum>>
    PROVE  Listed'
<1> DEFINE found == [i \in DOMAIN bus |-> IF Listing[i].run THEN bus[i] ELSE None]
<1>1. PICK x \in CallState, l \in {"name", "boot", "reset"} :
        call' = [call EXCEPT ![p] = x] /\ pc' = [pc EXCEPT ![p] = l]
  BY BeginCall
<1>2. stale' = stale \/ stale' = [stale EXCEPT ![p] = found]
  BY DEF Begin
<1>3. /\ found \in Seq(Stick \cup {None}) /\ DOMAIN found = DOMAIN bus
      /\ \A i \in DOMAIN found : found[i] # None => mode[found[i]] \in Running
  <2>1. bus \in Seq(Stick)
    BY DEF Listed, ListsOK
  <2>2. \A i \in 1..Len(bus) : /\ Listing[i].run = (mode[bus[i]] \in Running)
                               /\ bus[i] \in Stick
    BY <2>1, ListingType
  <2>3. DOMAIN bus = 1..Len(bus) /\ Len(bus) \in Nat
    BY <2>1
  <2>4. /\ DOMAIN found = 1..Len(bus)
        /\ \A i \in 1..Len(bus) : found[i] = IF Listing[i].run THEN bus[i] ELSE None
    BY <2>3
  <2> HIDE DEF found
  <2>5. \A i \in 1..Len(bus) : /\ found[i] \in Stick \cup {None}
                               /\ found[i] # None => mode[found[i]] \in Running
    BY <2>2, <2>4
  <2>6. found \in Seq(Stick \cup {None})
    <3>1. found = [i \in 1..Len(bus) |-> found[i]]
      BY <2>3, <2>4 DEF found
    <3> QED
      BY <2>3, <2>5, <3>1, IsASeq
  <2> QED
    BY <2>3, <2>4, <2>5, <2>6
<1> HIDE DEF found
<1>4. KeptOK' /\ StaleRuns(p)'
  BY <1>2, <1>3, KeptParts DEF KeptOK, StaleRuns, Kinds
<1>5. pc'[p] # "send" /\ Same
  BY <1>1, SameModes DEF Listed, StateOK
<1>6. Kinds(p)' /\ InLoop(p)'
  <2>1. DevicesRun(p)'
    BY KeptParts DEF DevicesRun, Kinds
  <2>2. InLoop(p)'
    BY <1>5, SameLoop
  <2> QED
    BY <1>4, <1>5, <2>1, <2>2 DEF Kinds, RomIsSent
<1>7. \A q \in Process : q # p =>
        stale'[q] = stale[q] /\ pc'[q] = pc[q] /\ call'[q] = call[q]
  BY <1>1, <1>2 DEF Listed, ListsOK, StateOK
<1> QED
  BY <1>4, <1>5, <1>6, <1>7, StepListed

LEMMA ResetOneListed ==
    ASSUME Listed, StateOK', NEW p \in Process, ResetOne(p) PROVE Listed'
<1> DEFINE s == Head(stale[p])
<1>1. /\ UNCHANGED <<bus, claim, initialized, devs, opened, call, enum>>
      /\ pc[p] = "reset" /\ stale[p] \in Seq(Stick \cup {None}) /\ StaleRuns(p)
  BY KeptParts DEF ResetOne, Kinds
<1>2. CASE stale[p] = <<>>
  <2>1. Goto(p, "settle") /\ UNCHANGED <<mode, stale>>
    BY <1>2 DEF ResetOne
  <2>2. devs' = [devs EXCEPT ![p] = devs[p]]
    BY <1>1, KeptParts DEF KeptOK
  <2> QED
    BY <1>1, <2>1, <2>2, MoveListed
<1>3. CASE stale[p] # <<>>
  <2>1. /\ stale' = [stale EXCEPT ![p] = Tail(stale[p])] /\ pc' = pc
        /\ mode' = mode \/ (s # None /\ mode' = [mode EXCEPT ![s] = "resetting"])
    BY <1>3 DEF ResetOne
  <2>2. s \in Stick \cup {None} /\ (s # None => mode[s] \in Running)
    BY <1>1, <1>3 DEF StaleRuns
  <2> HIDE DEF s
  <2>3. Same
    BY <2>1, <2>2, ModesApart DEF Same, Listed, StateOK, Running, Rom
  <2>4. /\ Tail(stale[p]) \in Seq(Stick \cup {None})
        /\ \A i \in DOMAIN Tail(stale[p]) : /\ i + 1 \in DOMAIN stale[p]
                                            /\ Tail(stale[p])[i] = stale[p][i + 1]
    BY <1>1, <1>3
  <2>5. KeptOK' /\ stale'[p] = Tail(stale[p])
    BY <1>1, <2>1, <2>4, KeptParts DEF KeptOK
  <2>6. StaleRuns(p)'
    <3> SUFFICES ASSUME NEW i \in DOMAIN stale'[p], stale'[p][i] # None
                 PROVE  mode'[stale'[p][i]] \in Running
      BY DEF StaleRuns
    <3>1. /\ i + 1 \in DOMAIN stale[p] /\ stale'[p][i] = stale[p][i + 1]
          /\ stale'[p][i] \in Stick
      BY <2>4, <2>5
    <3> QED
      BY <1>1, <2>3, <3>1 DEF StaleRuns, Same
  <2>7. DevicesRun(p)'
    BY <1>1, <2>3, KeptParts DEF DevicesRun, Kinds, Same
  <2>8. InLoop(p)'
    BY <1>1, <2>3, SameLoop
  <2>9. \A q \in Process : q # p => stale'[q] = stale[q]
    BY <2>1, KeptParts DEF KeptOK
  <2> QED
    BY <1>1, <2>1, <2>3, <2>5, <2>6, <2>7, <2>8, <2>9, StepListed DEF Kinds, RomIsSent
<1> QED
  BY <1>2, <1>3

\* The list of p is kept.
LEMMA KeepList ==
    ASSUME Listed, NEW p \in Process
    PROVE  devs = [devs EXCEPT ![p] = devs[p]]
BY KeptParts DEF KeptOK

\* The steps that touch neither the bus nor what p refers to.
LEMMA QuietListed ==
    ASSUME Listed, StateOK', NEW p \in Process,
           Settle(p) \/ NoFirmware(p) \/ Wait(p)
    PROVE  Listed'
<1> DEFINE c == call[p]
<1>1. CASE Settle(p)
  <2>1. /\ UNCHANGED <<bus, mode, stale, opened, enum, devs>> /\ pc[p] = "settle"
        /\ \/ SetCall(p, [c EXCEPT !.tries = @ + 1]) /\ UNCHANGED pc
           \/ /\ SetCall(p, [c EXCEPT !.tries = 0, !.expected = 0])
              /\ Goto(p, Body(c))
    BY <1>1 DEF Settle
  <2>2. Body(c) # "send"
    BY DEF Body
  <2> QED
    BY <2>1, <2>2, KeepList, MoveListed
<1>2. CASE NoFirmware(p)
  <2>1. /\ UNCHANGED <<bus, mode, stale, opened, enum, devs>> /\ pc[p] = "boot"
        /\ SetCall(p, NoCall) /\ Goto(p, "idle")
    BY <1>2 DEF NoFirmware, Return
  <2> QED
    BY <2>1, KeepList, MoveListed
<1>3. CASE Wait(p)
  <2>1. /\ UNCHANGED <<bus, mode, stale, opened, enum, devs>> /\ pc[p] = "wait"
        /\ \/ SetCall(p, [c EXCEPT !.tries = @ + 1]) /\ Goto(p, "open")
           \/ SetCall(p, NoCall) /\ Goto(p, "idle")
    BY <1>3 DEF Wait, Return
  <2> QED
    BY <2>1, KeepList, MoveListed
<1> QED
  BY <1>1, <1>2, <1>3

LEMMA NameAtListed ==
    ASSUME Listed, StateOK', NEW p \in Process, NameAt(p) PROVE Listed'
<1> DEFINE e == enum[p]
           L == ListFor(p, e.next)
           q == IF e.clean THEN Append(e.names, AddrOf(L[e.next + 1])) ELSE e.names
<1>1. /\ UNCHANGED <<bus, mode, claim, initialized, stale, opened>>
      /\ pc[p] = "name" /\ Return(p) /\ e \in LoopState /\ InLoop(p)
  BY KeptParts DEF NameAt
<1>2. /\ pc'[p] = "idle"
      /\ \A r \in Process : r # p => pc'[r] = pc[r] /\ call'[r] = call[r]
  BY <1>1 DEF Return, Goto, SetCall, Listed, StateOK
<1>3. Same /\ Kinds(p)'
  BY <1>1, <1>2, SameModes, SameKinds
<1>4. Listing' = Listing /\ bus \in Seq(Stick)
  BY <1>1, <1>3, StillBus DEF Listed, ListsOK
<1>5. L \in Seq(Entry) /\ L \in {devs[p], Listing}
  BY <1>4, KeptParts, ListingType DEF ListFor
<1>6. CASE e.next < Len(L)
  <2>1. /\ devs' = [devs EXCEPT ![p] = L]
        /\ enum' = [enum EXCEPT ![p].next = @ + 1, ![p].names = q]
    BY <1>6 DEF NameAt
  <2>2. e.next \in Nat /\ e.names \in Seq(Addr)
    BY <1>1 DEF LoopState
  <2>3. AddrOf(L[e.next + 1]) \in Addr
    <3>1. L[e.next + 1] \in Entry
      BY <1>5, <1>6, <2>2
    <3> QED
      BY <3>1, AddrAssumption DEF AddrOf, Entry
  <2>4. q \in Seq(Addr) /\ (e.clean => q = Append(e.names, AddrOf(L[e.next + 1])))
    BY <2>2, <2>3
  <2> HIDE DEF q
  <2>5. enum' = [enum EXCEPT ![p] = [e EXCEPT !.next = e.next + 1, !.names = q]]
    BY <2>1, KeptParts DEF KeptOK
  <2> DEFINE f == [e EXCEPT !.next = e.next + 1, !.names = q]
  <2>6. /\ f \in LoopState /\ f.next = e.next + 1 /\ f.names = q
        /\ f.on = e.on /\ f.clean = e.clean
    <3>1. e.next + 1 \in Nat
      BY <2>2
    <3>2. f = [e EXCEPT !.next = e.next + 1, !.names = q]
      OBVIOUS
    <3>3. e \in LoopState /\ q \in Seq(Addr)
      BY <1>1, <2>4
    <3> HIDE DEF f, e
    <3>4. f \in LoopState
      BY <3>1, <3>2, <3>3 DEF LoopState
    <3>5. f.next = e.next + 1 /\ f.names = q
      BY <3>2, <3>3 DEF LoopState
    <3>6. f.on = e.on
      BY <3>2, <3>3 DEF LoopState
    <3>7. f.clean = e.clean
      BY <3>2, <3>3 DEF LoopState
    <3> QED
      BY <3>4, <3>5, <3>6, <3>7
  <2> HIDE DEF f
  <2>7. KeptOK' /\ enum'[p] = f /\ devs'[p] = L
    BY <1>1, <1>5, <2>1, <2>5, <2>6, KeptParts DEF KeptOK, f
  <2>8. InLoop(p)'
    <3> SUFFICES ASSUME e.on, e.clean
                 PROVE  /\ e.next + 1 <= Len(bus)
                        /\ q = [i \in 1..(e.next + 1) |-> AddrOf(Listing[i])]
                        /\ L # <<>> => L = Listing
      BY <1>1, <1>4, <2>6, <2>7 DEF InLoop, AddrOf
    <3>1. /\ e.next <= Len(bus)
          /\ e.names = [i \in 1..e.next |-> AddrOf(Listing[i])]
          /\ e.next > 0 /\ devs[p] # <<>> => devs[p] = Listing
      BY <1>1 DEF InLoop
    <3>2. L = Listing
      BY <2>2, <3>1 DEF ListFor
    <3>3. e.next + 1 <= Len(bus)
      BY <1>4, <1>6, <2>2, <3>2, ListingType
    <3>4. q = [i \in 1..(e.next + 1) |-> AddrOf(Listing[i])]
      <4>1. q = Append(e.names, AddrOf(Listing[e.next + 1]))
        BY <2>4, <3>2
      <4>2. Len(e.names) = e.next
        BY <2>2, <3>1
      <4>3. /\ DOMAIN q = 1..(e.next + 1)
            /\ \A i \in 1..(e.next + 1) : q[i] = AddrOf(Listing[i])
        BY <2>2, <2>4, <3>1, <4>1, <4>2, AppendProperties
      <4>4. q = [i \in DOMAIN q |-> q[i]]
        BY <2>4
      <4> QED
        BY <4>3, <4>4
    <3> QED
      BY <3>2, <3>3, <3>4
  <2>9. \A r \in Process : r # p => devs'[r] = devs[r] /\ enum'[r] = enum[r]
    BY <2>1, <2>5, KeptParts DEF KeptOK
  <2> QED
    BY <1>1, <1>2, <1>3, <2>7, <2>8, <2>9, StepListed
<1>7. CASE ~(e.next < Len(L))
  <2>1. devs' = [devs EXCEPT ![p] = <<>>] /\ enum' = [enum EXCEPT ![p] = NoLoop]
    BY <1>7 DEF NameAt, ForgetList
  <2>2. <<>> \in Seq(Entry)
    OBVIOUS
  <2>3. KeptOK' /\ enum'[p] = NoLoop
    BY <1>1, <2>1, <2>2, NoLoopType, KeptParts DEF KeptOK
  <2>4. InLoop(p)'
    BY <2>3 DEF InLoop, NoLoop
  <2>5. \A r \in Process : r # p => devs'[r] = devs[r] /\ enum'[r] = enum[r]
    BY <2>1, KeptParts DEF KeptOK
  <2> QED
    BY <1>1, <1>2, <1>3, <2>3, <2>4, <2>5, StepListed
<1> QED
  BY <1>6, <1>7

LEMMA BootListed ==
    ASSUME Listed, StateOK', NEW p \in Process, Boot(p) PROVE Listed'
<1> DEFINE c == call[p]
           found == FindAddr(c.name, FALSE)
<1>1. /\ UNCHANGED <<bus, mode, initialized, stale, opened, enum>>
      /\ pc[p] = "boot" /\ devs' = [devs EXCEPT ![p] = <<>>]
  BY DEF Boot, ForgetList
<1>2. ASSUME NEW s \in Stick, s = found,
             SetCall(p, [c EXCEPT !.handle = s, !.tries = 0]), Goto(p, "send")
      PROVE  Listed'
  <2>1. Same
    BY <1>1, SameModes
  <2>2. mode[s] \in Rom
    BY <1>2, FindAddrFinds
  <2>3. call'[p].handle = s
    <3>1. [c EXCEPT !.handle = s, !.tries = 0].handle = s
      BY KeptParts DEF CallState
    <3> QED
      BY <1>2, <3>1 DEF SetCall, Listed, StateOK
  <2>4. Kinds(p)'
    <3>1. StaleRuns(p)' /\ DevicesRun(p)'
      BY <1>1, KeptParts DEF Kinds, StaleRuns, DevicesRun
    <3> QED
      BY <1>1, <2>2, <2>3, <3>1 DEF Kinds, RomIsSent
  <2>5. InLoop(p)'
    <3>1. devs'[p] = <<>>
      BY <1>1, KeptParts DEF KeptOK
    <3> QED
      BY <1>1, <2>1, <3>1, SameLoop
  <2>6. <<>> \in Seq(Entry)
    OBVIOUS
  <2>7. KeptOK'
    BY <1>1, <2>6, KeptParts DEF KeptOK
  <2>8. \A q \in Process : q # p =>
          devs'[q] = devs[q] /\ pc'[q] = pc[q] /\ call'[q] = call[q]
    BY <1>1, <1>2 DEF SetCall, Goto, Listed, ListsOK, StateOK
  <2> QED
    BY <1>1, <2>1, <2>4, <2>5, <2>7, <2>8, StepListed
<1>3. CASE Return(p)
  BY <1>1, <1>3, MoveListed DEF Return
<1>4. CASE SetCall(p, [c EXCEPT !.tries = c.tries + 1]) /\ UNCHANGED pc
  BY <1>1, <1>4, MoveListed
<1> QED
  BY <1>2, <1>3, <1>4 DEF Boot

LEMMA SendFileListed ==
    ASSUME Listed, StateOK', NEW p \in Process, SendFile(p) PROVE Listed'
<1> DEFINE s == call[p].handle
<1>1. /\ UNCHANGED <<bus, initialized, stale, devs, opened, enum>> /\ pc[p] = "send"
      /\ s \in Stick \cup {None} /\ (s # None => mode[s] \in Rom)
  BY KeptParts DEF SendFile, CallState, Kinds, RomIsSent
<1>2. mode' = mode \/ (s # None /\ mode' = [mode EXCEPT ![s] = "booting"])
  BY DEF SendFile
<1>3. Same
  <2> HIDE DEF s
  <2> QED
    BY <1>1, <1>2, ModesApart DEF Same, Listed, StateOK, Running, Rom
<1>4. /\ pc'[p] # "send"
      /\ \A q \in Process : q # p => pc'[q] = pc[q] /\ call'[q] = call[q]
  BY DEF SendFile, Booted, Return, Goto, SetCall, Listed, StateOK
<1>5. Kinds(p)' /\ InLoop(p)' /\ KeptOK'
  BY <1>1, <1>3, <1>4, SameKinds, SameLoop, KeptParts DEF KeptOK
<1> QED
  BY <1>1, <1>3, <1>4, <1>5, StepListed

LEMMA OpenByNameListed ==
    ASSUME Listed, StateOK', NEW p \in Process, OpenByName(p) PROVE Listed'
<1> DEFINE c == call[p]
<1>1. /\ UNCHANGED <<bus, mode, stale, opened, enum>>
      /\ pc[p] = "open" /\ devs' = [devs EXCEPT ![p] = <<>>]
  BY DEF OpenByName, ForgetList
<1>2. \E l \in {"status", "scan", "wait"} : Goto(p, l)
  BY DEF OpenByName
<1>3. \E x : SetCall(p, x)
  BY DEF OpenByName
<1> QED
  BY <1>1, <1>2, <1>3, MoveListed

LEMMA ScanListed ==
    ASSUME Listed, StateOK', NEW p \in Process, Scan(p) PROVE Listed'
<1> DEFINE c == call[p]
           L == ListFor(p, c.count)
<1>1. UNCHANGED <<bus, mode, stale, opened, enum>> /\ pc[p] = "scan"
  BY DEF Scan
<1>2. L \in {devs[p], <<>>, Listing}
  BY DEF ListFor
<1>3. \E l \in {"status", "scan", "wait"} : Goto(p, l) \/ UNCHANGED pc
  BY DEF Scan
<1>4. \E x : SetCall(p, x)
  BY DEF Scan
<1>5. devs' = [devs EXCEPT ![p] = <<>>] \/ devs' = [devs EXCEPT ![p] = L]
  BY DEF Scan, ForgetList
<1> HIDE DEF L
<1> QED
  BY <1>1, <1>2, <1>3, <1>4, <1>5, MoveListed

LEMMA CheckStatusListed ==
    ASSUME Listed, StateOK', NEW p \in Process, CheckStatus(p) PROVE Listed'
<1> DEFINE c == call[p]
           d == [stick |-> c.handle, addr |-> IF c.name2 # None THEN c.name2 ELSE c.name]
<1>1. UNCHANGED <<bus, mode, initialized, stale, devs, enum>>
  BY DEF CheckStatus
<1>2. /\ pc'[p] # "send"
      /\ \A q \in Process : q # p =>
           pc'[q] = pc[q] /\ call'[q] = call[q] /\ opened'[q] = opened[q]
  BY DEF CheckStatus, Return, Goto, SetCall, Listed, StateOK
<1>3. \/ opened' = opened
      \/ opened' = [opened EXCEPT ![p] = @ \cup {d}] /\ mode[c.handle] = "waiting"
  BY DEF CheckStatus
<1>4. Same /\ InLoop(p)' /\ KeptOK'
  BY <1>1, SameModes, SameLoop, KeptParts DEF KeptOK
<1>5. DevicesRun(p)'
  <2>1. d.stick = c.handle
    OBVIOUS
  <2> HIDE DEF d
  <2>2. \A e \in opened'[p] : e \in opened[p] \/ mode[e.stick] = "waiting"
    BY <1>3, <2>1 DEF Listed, StateOK
  <2> QED
    BY <1>1, <2>2, KeptParts DEF Kinds, DevicesRun, Running
<1>6. Kinds(p)'
  BY <1>1, <1>2, <1>5, KeptParts DEF Kinds, StaleRuns, RomIsSent
<1> QED
  BY <1>1, <1>2, <1>4, <1>6, StepListed

LEMMA CloseDeviceListed ==
    ASSUME Listed, StateOK', NEW p \in Process, NEW d \in opened[p], CloseDevice(p, d)
    PROVE  Listed'
<1>1. /\ UNCHANGED <<bus, initialized, stale, devs, pc, call, enum>> /\ pc[p] = "idle"
      /\ opened' = [opened EXCEPT ![p] = @ \ {d}]
      /\ mode' = IF d.stick = None THEN mode ELSE [mode EXCEPT ![d.stick] = "resetting"]
  BY DEF CloseDevice
<1>2. d.stick \in Stick \cup {None} /\ (d.stick # None => mode[d.stick] \in Running)
  BY KeptParts DEF Kinds, DevicesRun
<1>3. Same
  BY <1>1, <1>2, ModesApart DEF Same, Listed, StateOK, Running, Rom
<1>4. /\ opened'[p] \subseteq opened[p]
      /\ \A q \in Process : q # p => opened'[q] = opened[q]
  BY <1>1 DEF Listed, StateOK
<1>5. Kinds(p)' /\ InLoop(p)' /\ KeptOK'
  BY <1>1, <1>3, <1>4, SameKinds, SameLoop, KeptParts DEF KeptOK
<1> QED
  BY <1>1, <1>3, <1>4, <1>5, StepListed

LEMMA ExitListed ==
    ASSUME Listed, StateOK', NEW p \in Process, Exit(p) PROVE Listed'
<1>1. /\ UNCHANGED <<bus, mode>>
      /\ stale' = [stale EXCEPT ![p] = <<>>] /\ devs' = [devs EXCEPT ![p] = <<>>]
      /\ opened' = [opened EXCEPT ![p] = {}] /\ enum' = [enum EXCEPT ![p] = NoLoop]
      /\ pc' = [pc EXCEPT ![p] = "idle"] /\ call' = [call EXCEPT ![p] = NoCall]
  BY DEF Exit, ForgetList, Goto, SetCall
<1>2. <<>> \in Seq(Entry) /\ <<>> \in Seq(Stick \cup {None})
  OBVIOUS
<1>3. KeptOK' /\ stale'[p] = <<>> /\ enum'[p] = NoLoop
  BY <1>1, <1>2, NoLoopType, KeptParts DEF KeptOK
<1>4. opened'[p] = {} /\ pc'[p] = "idle"
  BY <1>1 DEF Listed, StateOK
<1>5. Kinds(p)' /\ InLoop(p)'
  BY <1>3, <1>4 DEF Kinds, StaleRuns, DevicesRun, RomIsSent, InLoop, NoLoop
<1>6. \A q \in Process : q # p =>
        /\ stale'[q] = stale[q] /\ devs'[q] = devs[q] /\ enum'[q] = enum[q]
        /\ opened'[q] = opened[q] /\ pc'[q] = pc[q] /\ call'[q] = call[q]
  BY <1>1 DEF Listed, ListsOK, StateOK
<1> QED
  BY <1>1, <1>3, <1>5, <1>6, SameModes, StepListed

LEMMA ReadyListed ==
    ASSUME Listed, StateOK', NEW s \in Stick, Ready(s) PROVE Listed'
<1>1. /\ mode[s] = "starting" /\ mode' = [mode EXCEPT ![s] = "waiting"]
      /\ UNCHANGED <<bus, claim, initialized, stale, devs, opened, pc, call, enum>>
  BY DEF Ready
<1>2. Same
  BY <1>1 DEF Same, Listed, StateOK, Running, Rom
<1>3. BusOK' /\ Listing' = Listing
  BY <1>1, <1>2, StillBus
<1>4. ASSUME NEW p \in Process PROVE Kinds(p)' /\ InLoop(p)'
  <2>1. /\ stale[p] \in Seq(Stick \cup {None})
        /\ opened[p] \subseteq [stick: Stick \cup {None}, addr: Addr]
        /\ call[p].handle \in Stick \cup {None} /\ Kinds(p)
    BY KeptParts DEF CallState
  <2>2. Kinds(p)'
    BY <1>1, <1>2, <2>1 DEF Kinds, StaleRuns, DevicesRun, RomIsSent, Same
  <2> QED
    BY <1>1, <1>2, <2>2, SameLoop
<1> QED
  BY <1>1, <1>3, <1>4 DEF Listed, ListsOK, BusOK
-----------------------------------------------------------------------------
(***************************************************************************)
(* Sticks that come and go.  Nothing that is kept refers to a stick that   *)
(* is away.                                                                *)
(***************************************************************************)
LEMMA SpoiltLoops ==
    ASSUME Listed, Disturb
    PROVE  /\ enum' \in [Process -> LoopState]
           /\ \A p \in Process : InLoop(p)'
<1> DEFINE spoilt(l) == [on |-> l.on, names |-> <<>>, next |-> l.next, clean |-> FALSE]
<1>1. enum' = [p \in Process |-> spoilt(enum[p])]
  BY DEF Disturb
<1>2. \A l : spoilt(l).clean = FALSE
  OBVIOUS
<1>3. \A p \in Process : spoilt(enum[p]) \in LoopState
  BY KeptParts, SpoiltLoop
<1> HIDE DEF spoilt
<1>4. enum' \in [Process -> LoopState]
  BY <1>1, <1>3
<1>5. \A p \in Process : enum'[p].clean = FALSE
  BY <1>1, <1>2
<1> QED
  BY <1>4, <1>5 DEF InLoop

LEMMA ArriveListed ==
    ASSUME Listed, StateOK', NEW s \in Stick, Arrive(s) PROVE Listed'
<1>1. /\ mode[s] \in Away /\ Disturb
      /\ UNCHANGED <<claim, initialized, stale, devs, opened, pc, call>>
      /\ mode' = [mode EXCEPT ![s] = IF mode[s] = "loaded" THEN "starting" ELSE "rom"]
  BY DEF Arrive
<1>2. PICK k \in 1..(Len(bus) + 1) : bus' = InsertAt(bus, k, s)
  BY DEF Arrive
<1>3. /\ BusOK /\ bus \in Seq(Stick) /\ Len(bus) \in Nat
      /\ mode \in [Stick -> Modes] /\ mode' \in [Stick -> Modes]
  BY ListsParts DEF Listed, BusOK, StateOK, Modes
<1>4. /\ mode'[s] \in Rom \cup Running
      /\ \A x \in Stick : x # s => mode'[x] = mode[x]
  BY <1>1, <1>3 DEF Rom, Running
<1>5. Connected' = Connected \cup {s} /\ s \notin Connected
  BY <1>1, <1>3, <1>4, ModesApart DEF Connected
<1>6. BusOK'
  <2>1. /\ bus' \in Seq(Stick) /\ Len(bus') = Len(bus) + 1
        /\ \A i \in 1..(Len(bus) + 1) :
             bus'[i] = IF i < k THEN bus[i] ELSE IF i = k THEN s ELSE bus[i - 1]
    <3>1. bus \in Seq(Stick)
      BY <1>3
    <3>2. bus' \in Seq(Stick) /\ Inserted(bus', bus, k, s)
      BY <1>2, <3>1, InsertFacts
    <3> QED
      BY <3>2 DEF Inserted
  <2>2. \A i \in 1..Len(bus) : bus[i] # s /\ bus[i] \in Connected
    BY <1>3, <1>5 DEF BusOK
  <2>3. \A i, j \in 1..(Len(bus) + 1) : bus'[i] = bus'[j] => i = j
    <3> SUFFICES ASSUME NEW i \in 1..(Len(bus) + 1), NEW j \in 1..(Len(bus) + 1),
                        i # j
                 PROVE  bus'[i] # bus'[j]
      OBVIOUS
    <3>1. \A m, n \in 1..Len(bus) : bus[m] = bus[n] => m = n
      BY <1>3 DEF BusOK
    <3> DEFINE old(n) == IF n < k THEN n ELSE n - 1
    <3>2. \A n \in 1..(Len(bus) + 1) : n # k =>
            old(n) \in 1..Len(bus) /\ bus'[n] = bus[old(n)]
      BY <1>3, <2>1
    <3>3. i # k /\ j # k => old(i) # old(j)
      BY <1>3
    <3>4. bus'[k] = s
      BY <2>1
    <3> HIDE DEF old
    <3> QED
      BY <2>2, <3>1, <3>2, <3>3, <3>4
  <2>4. ASSUME NEW x \in Stick
        PROVE  (\E i \in 1..(Len(bus) + 1) : bus'[i] = x) <=> x \in Connected \cup {s}
    <3>1. ASSUME NEW i \in 1..(Len(bus) + 1), bus'[i] = x
          PROVE  x \in Connected \cup {s}
      <4>1. i < k => i \in 1..Len(bus)
        BY <1>3
      <4>2. i > k => i - 1 \in 1..Len(bus)
        BY <1>3
      <4> QED
        BY <1>3, <2>1, <2>2, <3>1, <4>1, <4>2
    <3>2. ASSUME x \in Connected
          PROVE  \E i \in 1..(Len(bus) + 1) : bus'[i] = x
      <4>1. PICK j \in 1..Len(bus) : bus[j] = x
        BY <1>3, <3>2 DEF BusOK
      <4>2. CASE j < k
        <5>1. j \in 1..(Len(bus) + 1)
          BY <1>3
        <5> QED
          BY <2>1, <4>1, <4>2, <5>1
      <4>3. CASE ~(j < k)
        <5>1. j + 1 \in 1..(Len(bus) + 1) /\ ~(j + 1 < k) /\ j + 1 # k /\ j + 1 - 1 = j
          BY <1>3, <4>3
        <5>2. bus'[j + 1] = bus[j + 1 - 1]
          BY <2>1, <5>1
        <5>3. bus'[j + 1] = x
          BY <4>1, <5>1, <5>2
        <5> QED
          BY <5>1, <5>3
      <4> QED
        BY <4>2, <4>3
    <3>3. ASSUME x = s
          PROVE  \E i \in 1..(Len(bus) + 1) : bus'[i] = x
      BY <2>1, <3>3
    <3> QED
      BY <3>1, <3>2, <3>3
  <2> QED
    BY <1>3, <1>5, <2>1, <2>3, <2>4 DEF BusOK
<1>7. KeptOK' /\ \A p \in Process : InLoop(p)'
  BY <1>1, SpoiltLoops, KeptParts DEF KeptOK, Listed, ListsOK
<1>8. ASSUME NEW p \in Process PROVE Kinds(p)'
  <2>1. /\ stale[p] \in Seq(Stick \cup {None})
        /\ opened[p] \subseteq [stick: Stick \cup {None}, addr: Addr]
        /\ call[p].handle \in Stick \cup {None} /\ Kinds(p)
    BY KeptParts DEF CallState
  <2>2. \A x \in Stick : /\ mode[x] \in Rom => mode'[x] \in Rom
                         /\ mode[x] \in Running => mode'[x] \in Running
    BY <1>1, <1>3, <1>4, ModesApart
  <2> QED
    BY <1>1, <2>1, <2>2 DEF Kinds, StaleRuns, DevicesRun, RomIsSent
<1> QED
  BY <1>6, <1>7, <1>8 DEF Listed, ListsOK, BusOK, KeptOK

LEMMA LeaveListed ==
    ASSUME Listed, StateOK', NEW s \in Stick, NEW m \in Away, Leave(s, m),
           UNCHANGED <<initialized, devs, pc>>
    PROVE  Listed'
<1>1. /\ Disturb /\ mode' = [mode EXCEPT ![s] = m]
      /\ stale' = [p \in Process |-> ReplaceAll(stale[p], s, None)]
      /\ opened' = [p \in Process |-> {IF d.stick = s THEN [d EXCEPT !.stick = None]
                                       ELSE d : d \in opened[p]}]
      /\ call' = [p \in Process |-> IF call[p].handle = s
                                    THEN [call[p] EXCEPT !.handle = None] ELSE call[p]]
  BY DEF Leave
<1>2. /\ BusOK /\ bus \in Seq(Stick) /\ Len(bus) \in Nat /\ DOMAIN bus = 1..Len(bus)
      /\ mode \in [Stick -> Modes] /\ mode' \in [Stick -> Modes] /\ s # None
  BY ListsParts, NoneAssumption DEF Listed, BusOK, StateOK, Modes
<1>3. PICK k \in 1..Len(bus) : bus[k] = s /\ bus' = RemoveAt(bus, k)
  BY <1>2 DEF Leave
<1>4. mode'[s] \in Away /\ \A x \in Stick : x # s => mode'[x] = mode[x]
  BY <1>1, <1>2
<1>5. Connected' = Connected \ {s}
  BY <1>2, <1>4 DEF Connected
<1>6. BusOK'
  <2>1. /\ bus' \in Seq(Stick) /\ Len(bus') = Len(bus) - 1
        /\ \A i \in 1..(Len(bus) - 1) : bus'[i] = IF i < k THEN bus[i] ELSE bus[i + 1]
    BY <1>2, <1>3, RemoveFacts
  <2> DEFINE old(n) == IF n < k THEN n ELSE n + 1
  <2>2. \A n \in 1..(Len(bus) - 1) :
          old(n) \in 1..Len(bus) /\ old(n) # k /\ bus'[n] = bus[old(n)]
    <3>1. \A n \in 1..(Len(bus) - 1) : old(n) \in 1..Len(bus) /\ old(n) # k
      BY <1>2
    <3>2. \A n \in 1..(Len(bus) - 1) : bus'[n] = bus[old(n)]
      BY <2>1
    <3> QED
      BY <3>1, <3>2
  <2>3. \A i, j \in 1..(Len(bus) - 1) : old(i) = old(j) => i = j
    BY <1>2
  <2>4. \A n \in 1..Len(bus) : n # k => \E i \in 1..(Len(bus) - 1) : old(i) = n
    <3> SUFFICES ASSUME NEW n \in 1..Len(bus), n # k
                 PROVE  \E i \in 1..(Len(bus) - 1) : old(i) = n
      OBVIOUS
    <3>1. CASE n < k
      <4>1. n \in 1..(Len(bus) - 1) /\ old(n) = n
        BY <1>2, <3>1
      <4> QED
        BY <4>1
    <3>2. CASE n > k
      <4>1. n - 1 \in 1..(Len(bus) - 1) /\ old(n - 1) = n
        BY <1>2, <3>2
      <4> QED
        BY <4>1
    <3> QED
      BY <1>2, <3>1, <3>2
  <2> HIDE DEF old
  <2>5. \A i, j \in 1..Len(bus) : bus[i] = bus[j] => i = j
    BY <1>2 DEF BusOK
  <2>6. \A i, j \in 1..(Len(bus) - 1) : bus'[i] = bus'[j] => i = j
    BY <2>2, <2>3, <2>5
  <2>7. ASSUME NEW x \in Stick
        PROVE  (\E i \in 1..(Len(bus) - 1) : bus'[i] = x) <=> x \in Connected \ {s}
    <3>1. (\E i \in 1..Len(bus) : bus[i] = x) <=> x \in Connected
      BY <1>2 DEF BusOK
    <3>2. (\E i \in 1..Len(bus) : bus[i] = x /\ i # k)
            <=> (\E i \in 1..(Len(bus) - 1) : bus'[i] = x)
      BY <2>2, <2>4
    <3>3. \A i \in 1..Len(bus) : i # k <=> bus[i] # s
      BY <1>3, <2>5
    <3> QED
      BY <3>1, <3>2, <3>3
  <2>8. DOMAIN bus' = 1..(Len(bus) - 1)
    BY <1>2, <2>1
  <2>9. \A x \in Stick : (\E i \in DOMAIN bus' : bus'[i] = x) <=> x \in Connected'
    BY <1>5, <2>7, <2>8
  <2> QED
    BY <2>1, <2>6, <2>8, <2>9 DEF BusOK
<1>7. ASSUME NEW p \in Process
      PROVE  /\ stale'[p] \in Seq(Stick \cup {None})
             /\ \A i \in DOMAIN stale'[p] : stale'[p][i] # None =>
                  i \in DOMAIN stale[p] /\ stale'[p][i] = stale[p][i] /\ stale[p][i] # s
  <2>1. stale[p] \in Seq(Stick \cup {None})
    BY KeptParts
  <2>2. stale'[p] = [i \in 1..Len(stale[p]) |-> IF stale[p][i] = s THEN None ELSE stale[p][i]]
    BY <1>1 DEF ReplaceAll
  <2> QED
    BY <2>1, <2>2
<1>8. KeptOK' /\ \A p \in Process : InLoop(p)'
  <2>1. stale' = [p \in Process |-> stale'[p]]
    BY <1>1
  <2>2. stale' \in [Process -> Seq(Stick \cup {None})]
    BY <1>7, <2>1
  <2> QED
    BY <1>1, <2>2, SpoiltLoops DEF KeptOK, Listed, ListsOK
<1>9. ASSUME NEW p \in Process PROVE Kinds(p)'
  <2>1. /\ stale[p] \in Seq(Stick \cup {None})
        /\ opened[p] \subseteq [stick: Stick \cup {None}, addr: Addr]
        /\ call[p] \in CallState /\ Kinds(p)
    BY KeptParts
  <2>2. StaleRuns(p)'
    <3>1. \A i \in DOMAIN stale[p] : stale[p][i] \in Stick \cup {None}
      BY <2>1
    <3> QED
      BY <1>4, <1>7, <2>1, <3>1 DEF Kinds, StaleRuns
  <2>3. DevicesRun(p)'
    <3>1. \A d \in opened[p] : [d EXCEPT !.stick = None].stick = None
      BY <2>1
    <3>2. opened'[p] = {IF d.stick = s THEN [d EXCEPT !.stick = None] ELSE d : d \in opened[p]}
      BY <1>1
    <3>3. \A d \in opened'[p] : d.stick # None => d \in opened[p] /\ d.stick # s
      BY <3>1, <3>2
    <3> QED
      BY <1>4, <2>1, <3>3 DEF Kinds, DevicesRun
  <2>4. RomIsSent(p)'
    <3>1. [call[p] EXCEPT !.handle = None].handle = None
      BY <2>1, CallFields
    <3>2. call'[p].handle # None => call'[p].handle = call[p].handle /\ call[p].handle # s
      BY <1>1, <3>1
    <3>3. call[p].handle \in Stick \cup {None}
      BY <2>1, CallFields
    <3> QED
      BY <1>4, <2>1, <3>2, <3>3 DEF Kinds, RomIsSent
  <2> QED
    BY <2>2, <2>3, <2>4 DEF Kinds
<1> QED
  BY <1>6, <1>8, <1>9 DEF Listed, ListsOK, BusOK, KeptOK
-----------------------------------------------------------------------------
LEMMA NextListed == Listed /\ [Next]_vars => Listed'
<1> SUFFICES ASSUME Listed, [Next]_vars PROVE Listed'
  OBVIOUS
<1>1. StateOK'
  BY NextState DEF Listed
<1>2. ASSUME NEW p \in Process, Call(p) PROVE Listed'
  <2>1. CASE StartLoop(p)
    BY <1>1, <2>1, StartLoopListed
  <2>2. CASE GetDeviceName(p)
    BY <1>1, <2>2, NoCallType, BeginListed DEF GetDeviceName
  <2>3. ASSUME NEW n \in Name, OpenDevice(p, n) PROVE Listed'
    <3> DEFINE c == [NoCall EXCEPT !.name = n.first, !.second = n.second]
    <3>1. n.first \in Addr /\ n.second \in Addr \cup {None}
      BY NameAssumption
    <3>2. c \in CallState /\ c.handle = None
      BY <3>1, NoCallType DEF CallState
    <3>3. Begin(p, c) /\ pc[p] = "idle" /\ UNCHANGED <<bus, mode, claim, devs, opened, enum>>
      BY <2>3 DEF OpenDevice
    <3> HIDE DEF c
    <3> QED
      BY <1>1, <3>2, <3>3, BeginListed
  <2>4. ASSUME NEW d \in opened[p], CloseDevice(p, d) PROVE Listed'
    BY <1>1, <2>4, CloseDeviceListed
  <2> QED
    BY <1>2, <2>1, <2>2, <2>3, <2>4 DEF Call
<1>3. ASSUME NEW p \in Process, Continue(p) PROVE Listed'
  BY <1>1, <1>3, ResetOneListed, QuietListed, NameAtListed, BootListed,
     SendFileListed, OpenByNameListed, ScanListed, CheckStatusListed DEF Continue
<1>4. ASSUME NEW p \in Process, Exit(p) PROVE Listed'
  BY <1>1, <1>4, ExitListed
<1>5. ASSUME NEW s \in Stick, Arrive(s) \/ Ready(s) PROVE Listed'
  BY <1>1, <1>5, ArriveListed, ReadyListed
<1>6. ASSUME NEW s \in Stick, Depart(s) \/ Unplug(s) PROVE Listed'
  <2>1. \E m \in Away : Leave(s, m) /\ UNCHANGED <<initialized, devs, pc>>
    BY <1>6 DEF Depart, Unplug, Away
  <2> QED
    BY <1>1, <2>1, LeaveListed
<1>7. CASE UNCHANGED vars
  <2>1. ASSUME NEW p \in Process PROVE Kinds(p)' /\ InLoop(p)'
    <3>1. Same /\ bus' = bus /\ enum'[p] = enum[p] /\ devs'[p] = devs[p]
      BY <1>7, SameModes DEF vars
    <3>2. Kinds(p)'
      BY <1>7, KeptParts DEF vars, Kinds, StaleRuns, DevicesRun, RomIsSent
    <3> QED
      BY <1>1, <3>1, <3>2, SameLoop
  <2>2. ListsOK'
    BY <1>7 DEF vars, ListsOK, Connected, Listed
  <2> QED
    BY <1>1, <2>1, <2>2 DEF Listed
<1> QED
  BY <1>2, <1>3, <1>4, <1>5, <1>6, <1>7 DEF Next

LEMMA ListedAlways == Spec => []Listed
BY InitListed, NextListed, PTL DEF Spec

\* usb_find_device and usblink_resetall look at lists in which each stick of
\* the bus is once, and no call or loop leaves the values the code uses.
THEOREM TypeCorrect == Spec => []TypeOK
<1>1. Listed => TypeOK
  BY DEF Listed, TypeOK
<1> QED
  BY <1>1, ListedAlways, PTL

\* The list that usb_find_device keeps between two calls of mvncGetDeviceName
\* may be thrown away by any other call of the process, and sticks and other
\* processes go about their business: a loop that no stick disturbed has named
\* each of them once.
THEOREM LoopsAreComplete == Spec => EnumerationIsComplete
<1> DEFINE Done(p) ==
             pc[p] = "name" /\ enum[p].on /\ enum[p].clean /\ enum'[p] = NoLoop
               /\ p \in initialized'
               => enum[p].names = [i \in DOMAIN Listing |-> AddrOf(Listing[i])]
<1>1. Listed /\ [Next]_vars => [\A p \in Process : Done(p)]_vars
  <2> SUFFICES ASSUME Listed, Next, NEW p \in Process, pc[p] = "name", enum[p].on,
                      enum[p].clean, enum'[p] = NoLoop, p \in initialized'
               PROVE  enum[p].names = [i \in DOMAIN Listing |-> AddrOf(Listing[i])]
    OBVIOUS
  <2>1. ~enum'[p].on
    BY DEF NoLoop
  <2>2. enum \in [Process -> LoopState] /\ enum[p] \in LoopState
    BY DEF Listed, ListsOK
  <2>3. NameAt(p)
    <3>1. enum' # enum
      BY <2>1
    <3>2. ASSUME NEW q \in Process, Call(q) PROVE FALSE
      <4>1. StartLoop(q)
        BY <3>1, <3>2 DEF Call, GetDeviceName, OpenDevice, CloseDevice
      <4>2. q # p
        BY <4>1 DEF StartLoop
      <4>3. enum'[p] = enum[p]
        BY <2>2, <4>1, <4>2 DEF StartLoop
      <4> QED
        BY <2>1, <4>3
    <3>3. ASSUME NEW q \in Process, Continue(q) PROVE NameAt(p)
      <4>1. NameAt(q)
        BY <3>1, <3>3 DEF Continue, ResetOne, Settle, NoFirmware, Boot, SendFile,
           OpenByName, Scan, CheckStatus, Wait
      <4>2. q # p => enum'[p] = enum[p]
        BY <2>2, <4>1 DEF NameAt
      <4> QED
        BY <2>1, <4>1, <4>2
    <3>4. ASSUME NEW q \in Process, Exit(q) PROVE FALSE
      <4>1. q # p
        BY <3>4 DEF Exit
      <4>2. enum'[p] = enum[p]
        BY <2>2, <3>4, <4>1 DEF Exit
      <4> QED
        BY <2>1, <4>2
    <3>5. ASSUME NEW s \in Stick, Arrive(s) \/ Ready(s) \/ Depart(s) \/ Unplug(s)
          PROVE  FALSE
      <4>1. Disturb
        BY <3>1, <3>5 DEF Arrive, Ready, Depart, Unplug, Leave
      <4>2. enum'[p].on = enum[p].on
        BY <4>1 DEF Disturb
      <4> QED
        BY <2>1, <4>2
    <3> QED
      BY <3>2, <3>3, <3>4, <3>5 DEF Next
  <2> DEFINE e == enum[p]
  <2>4. ~(e.next < Len(ListFor(p, e.next)))
    <3> SUFFICES ASSUME e.next < Len(ListFor(p, e.next)) PROVE FALSE
      OBVIOUS
    <3>1. PICK n, q : enum' = [enum EXCEPT ![p].next = n, ![p].names = q]
      BY <2>3 DEF NameAt
    <3>2. enum'[p].on = enum[p].on
      BY <2>2, <3>1 DEF LoopState
    <3> QED
      BY <2>1, <3>2
  <2>5. /\ e.next \in Nat /\ e.next <= Len(bus)
        /\ e.names = [i \in 1..e.next |-> AddrOf(Listing[i])]
        /\ e.next > 0 /\ devs[p] # <<>> => devs[p] = Listing
    BY <2>2 DEF Listed, InLoop, LoopState
  <2>6. ListFor(p, e.next) = Listing
    BY <2>5 DEF ListFor
  <2>7. bus \in Seq(Stick) /\ Len(Listing) = Len(bus) /\ DOMAIN Listing = 1..Len(bus)
    BY ListingType DEF Listed, ListsOK
  <2>8. e.next = Len(bus)
    BY <2>4, <2>5, <2>6, <2>7
  <2> QED
    BY <2>5, <2>7, <2>8
<1> QED
  BY <1>1, ListedAlways, PTL DEF Spec, EnumerationIsComplete
=============================================================================
