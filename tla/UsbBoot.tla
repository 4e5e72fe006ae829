------------------------------ MODULE UsbBoot ------------------------------
(***************************************************************************)
(* Sticks on the USB bus of a host, and the processes that list, boot,     *)
(* open and close them: api/src/usb_boot.c, the device half of             *)
(* api/src/usb_link_vsc.c, and mvncGetDeviceName and mvncOpenDevice of     *)
(* api/src/mvnc_api.c.                                                     *)
(*                                                                         *)
(* A stick that is plugged in offers its boot ROM.  Firmware sent to it    *)
(* makes it leave the bus and come back with another product id and, on    *)
(* some ports, another address; a reset takes it back to the ROM.          *)
(*                                                                         *)
(* A process is the library in one application: all these calls hold its   *)
(* mutex mm from start to end, so it runs one of them at a time, and an    *)
(* enumeration is a series of calls.  A step looks at the bus once;        *)
(* listing, opening and claiming a stick is one step, because claiming is  *)
(* what the kernel arbitrates.                                             *)
(***************************************************************************)
EXTENDS Naturals, FiniteSets, Sequences, SequencesExt

CONSTANTS
    Process,        \* applications that use the library
    Stick,          \* Neural Compute Sticks
    Addr,           \* USB addresses: paths of port numbers
    RomAddr,        \* RomAddr[s]: address of s while it offers its ROM
    RunAddr,        \* RunAddr[s]: address of s while it runs the firmware
    None,           \* no process, no stick, no address
    ConnectTries,   \* tries of wait_findopen (20)
    OpenTries,      \* tries of mvncOpenDevice (15 s of 10 ms and more)
    ResetTries,     \* tries of usblink_resetall (50)
    Name,           \* what applications open: [first, second], see OpenDevice
    Faults          \* what may go wrong: see FaultKind

FaultKind == {"mvcmd", "send", "unplug", "exit"}

ASSUME StickAssumption == IsFiniteSet(Stick)

ASSUME AddrAssumption ==
    /\ RomAddr \in [Stick -> Addr]
    /\ RunAddr \in [Stick -> Addr]

ASSUME NameAssumption == Name \subseteq [first: Addr, second: Addr \cup {None}]

ASSUME TriesAssumption == {ConnectTries, OpenTries, ResetTries} \subseteq Nat \ {0}

ASSUME NoneAssumption == None \notin Process /\ None \notin Stick /\ None \notin Addr

ASSUME FaultAssumption == Faults \subseteq FaultKind

VARIABLES
    bus,            \* the sticks that are enumerated, in the order libusb lists them
    mode,           \* mode[s]: what s is doing
    claim,          \* claim[s]: process that has claimed interface 0 of s
    initialized,    \* processes that have called usblink_resetall
    stale,          \* stale[p]: what usblink_resetall of p has still to look at:
                    \* sticks that run, None for one that does not
    devs,           \* devs[p]: the list usb_find_device keeps, <<>> if none
    opened,         \* opened[p]: the open devices of p
    pc,             \* pc[p]: where p is in a call
    call,           \* call[p]: arguments, locals and result of the call
    enum            \* enum[p]: an application loop over mvncGetDeviceName

vars == <<bus, mode, claim, initialized, stale, devs, opened, pc, call, enum>>

\* A stick shows its ROM, or the firmware.  The stick that has got the firmware
\* or a reset stays on the bus for a moment and then leaves it ("loaded",
\* "reset") to come back as the other.
Rom == {"rom", "booting"}
Running == {"starting", "waiting", "resetting"}
Away == {"loaded", "reset", "gone"}
PC == {"idle", "reset", "settle", "name", "boot", "send", "open", "scan",
       "status", "wait"}

NoCall ==
    [name |-> None, second |-> None, name2 |-> None, handle |-> None,
     expected |-> 0, tries |-> 0, count |-> 0]

\* clean: no stick has come or gone since the loop began.
NoLoop == [on |-> FALSE, names |-> <<>>, next |-> 0, clean |-> FALSE]
NewLoop == [on |-> TRUE, names |-> <<>>, next |-> 0, clean |-> TRUE]

Init ==
    /\ mode \in [Stick -> {"rom", "waiting"}]
    /\ bus \in SetToSeqs(Stick)
    /\ claim = [s \in Stick |-> None]
    /\ initialized = {}
    /\ stale = [p \in Process |-> <<>>]
    /\ devs = [p \in Process |-> <<>>]
    /\ opened = [p \in Process |-> {}]
    /\ pc = [p \in Process |-> "idle"]
    /\ call = [p \in Process |-> NoCall]
    /\ enum = [p \in Process |-> NoLoop]
-----------------------------------------------------------------------------
(***************************************************************************)
(* The bus.                                                                *)
(***************************************************************************)
\* libusb_get_device_list, with what the descriptors say.
Listing == [i \in 1..Len(bus) |-> [stick |-> bus[i], run |-> mode[bus[i]] \in Running]]

Connected == {s \in Stick : mode[s] \notin Away}

AddrOf(e) == IF e.run THEN RunAddr[e.stick] ELSE RomAddr[e.stick]

IsRunning(e) == e.run
IsRom(e) == ~e.run

\* The bus changes in the middle of every loop over the names.
Disturb == enum' = [p \in Process |->
    [on |-> enum[p].on, names |-> <<>>, next |-> enum[p].next, clean |-> FALSE]]

Goto(p, label) == pc' = [pc EXCEPT ![p] = label]
SetCall(p, c) == call' = [call EXCEPT ![p] = c]
Return(p) == Goto(p, "idle") /\ SetCall(p, NoCall)

\* usb_find_device by address: the first stick of that kind with the address,
\* None if there is none.  Either way it frees the list.
FindAddr(a, running) ==
    LET I == {i \in DOMAIN Listing :
                Listing[i].run = running /\ AddrOf(Listing[i]) = a}
    IN IF I = {} THEN None ELSE Listing[Min(I)].stick
-----------------------------------------------------------------------------
(***************************************************************************)
(* Mistakes.  No action uses the operators of this section: each of them   *)
(* is a definition below with one plausible bug, and substituting it shows *)
(* that the property named with it notices.                                *)
(***************************************************************************)
\* CheckStatus that files the stick under the name of the search, which may be
\* empty (TypeOK).
NamelessCheckStatus(p) ==
    LET c == call[p]
        s == c.handle
    IN
    /\ pc[p] = "status"
    /\ \/ /\ s # None /\ mode[s] = "waiting"
          /\ opened' = [opened EXCEPT ![p] = @ \cup {[stick |-> s, addr |-> c.name2]}]
          /\ Return(p)
          /\ UNCHANGED claim
       \/ /\ s # None => mode[s] # "waiting"
          /\ claim' = IF s = None THEN claim ELSE [claim EXCEPT ![s] = None]
          /\ SetCall(p, [c EXCEPT !.handle = None])
          /\ Goto(p, "wait")
          /\ UNCHANGED opened
    /\ UNCHANGED <<bus, mode, initialized, stale, devs, enum>>

\* usb_find_device that reads the list once and for all
\* (EnumerationIsComplete).
StaleListFor(p, i) == IF devs[p] = <<>> THEN Listing ELSE devs[p]

\* usblink_open that does not claim the interface (OneHandle).
SharingCanOpen(a, s) == s # None /\ s = FindAddr(a, TRUE)

\* usblink_resetall that resets what it cannot claim (InUseIsNotReset).
RudeCanReset(s) == TRUE

\* CheckStatus that forgets usblink_close (NothingIsLeaked).
KeepingCheckStatus(p) ==
    LET c == call[p]
        s == c.handle
    IN
    /\ pc[p] = "status"
    /\ \/ /\ s # None /\ mode[s] = "waiting"
          /\ opened' = [opened EXCEPT ![p] = @ \cup
               {[stick |-> s, addr |-> IF c.name2 # None THEN c.name2 ELSE c.name]}]
          /\ Return(p)
       \/ /\ s # None => mode[s] # "waiting"
          /\ SetCall(p, [c EXCEPT !.handle = None])
          /\ Goto(p, "wait")
          /\ UNCHANGED opened
    /\ UNCHANGED <<bus, mode, claim, initialized, stale, devs, enum>>

\* Wait that does not look at the clock (OpenReturns).
PatientWait(p) ==
    /\ pc[p] = "wait"
    /\ Goto(p, "open")
    /\ UNCHANGED <<bus, mode, claim, initialized, stale, devs, opened, call, enum>>
-----------------------------------------------------------------------------
(***************************************************************************)
(* The list of a process, and what it claims.                              *)
(***************************************************************************)
\* s disappears from the bus: its handles are dead, and a list that has it
\* cannot open what comes back.
Leave(s, m) ==
    /\ \E i \in DOMAIN bus : bus[i] = s /\ bus' = RemoveAt(bus, i)
    /\ mode' = [mode EXCEPT ![s] = m]
    /\ claim' = [claim EXCEPT ![s] = None]
    /\ stale' = [p \in Process |-> ReplaceAll(stale[p], s, None)]
    /\ opened' = [p \in Process |-> {IF d.stick = s THEN [d EXCEPT !.stick = None]
                                      ELSE d : d \in opened[p]}]
    /\ call' = [p \in Process |-> IF call[p].handle = s
                                   THEN [call[p] EXCEPT !.handle = None] ELSE call[p]]
    /\ Disturb

\* What usb_find_device looks at for index i: the list is read again for index
\* 0 and when there is none.
ListFor(p, i) == IF i = 0 \/ devs[p] = <<>> THEN Listing ELSE devs[p]

ForgetList(p) == devs' = [devs EXCEPT ![p] = <<>>]

\* usblink_open succeeds with stick s.
CanOpen(a, s) == s # None /\ s = FindAddr(a, TRUE) /\ claim[s] = None

Claim(p, s) == claim' = [claim EXCEPT ![s] = p]
Release(s) == claim' = IF s = None THEN claim ELSE [claim EXCEPT ![s] = None]

\* How a call goes on when the library is initialized: an OpenDevice has a
\* name, a GetDeviceName has none.
Body(c) == IF c.name = None THEN "name" ELSE "boot"
-----------------------------------------------------------------------------
(***************************************************************************)
(* initialize and usblink_resetall, in the first call of a process.        *)
(***************************************************************************)
Begin(p, c) ==
    LET found == [i \in DOMAIN bus |-> IF Listing[i].run THEN bus[i] ELSE None] IN
    /\ initialized' = initialized \cup {p}
    /\ IF p \in initialized \/ \A i \in DOMAIN bus : found[i] = None
         THEN /\ Goto(p, Body(c))
              /\ SetCall(p, c)
              /\ UNCHANGED stale
         ELSE /\ Goto(p, "reset")
              /\ SetCall(p, [c EXCEPT !.expected = Cardinality(Connected)])
              /\ stale' = [stale EXCEPT ![p] = found]

CanReset(s) == claim[s] = None

\* One entry of the list: a stick that runs is reset unless it cannot be opened
\* or claimed.  Open, claim, reset and close are one step, and the reset, the
\* result of which the code ignores, succeeds.
ResetOne(p) ==
    LET s == Head(stale[p]) IN
    /\ pc[p] = "reset"
    /\ IF stale[p] = <<>>
         THEN Goto(p, "settle") /\ UNCHANGED <<mode, stale>>
         ELSE /\ mode' = IF s # None /\ CanReset(s)
                          THEN [mode EXCEPT ![s] = "resetting"] ELSE mode
              /\ stale' = [stale EXCEPT ![p] = Tail(@)]
              /\ UNCHANGED pc
    /\ UNCHANGED <<bus, claim, initialized, devs, opened, call, enum>>

\* Wait until as many sticks offer their ROM as there were sticks.
Settle(p) ==
    LET c == call[p]
        after == Len(SelectSeq(Listing, IsRom))
    IN
    /\ pc[p] = "settle"
    /\ IF after < c.expected /\ c.tries + 1 < ResetTries
         THEN /\ SetCall(p, [c EXCEPT !.tries = @ + 1])
              /\ UNCHANGED pc
         ELSE /\ SetCall(p, [c EXCEPT !.tries = 0, !.expected = 0])
              /\ Goto(p, Body(c))
    /\ UNCHANGED <<bus, mode, claim, initialized, stale, devs, opened, enum>>
-----------------------------------------------------------------------------
(***************************************************************************)
(* Enumeration: an application calls mvncGetDeviceName with 0, 1, 2 ...    *)
(* until it fails, and may start again at any time.                        *)
(***************************************************************************)
StartLoop(p) ==
    /\ pc[p] = "idle"
    /\ enum' = [enum EXCEPT ![p] = NewLoop]
    /\ UNCHANGED <<bus, mode, claim, initialized, stale, devs, opened, pc, call>>

GetDeviceName(p) ==
    /\ pc[p] = "idle"
    /\ enum[p].on
    /\ Begin(p, NoCall)
    /\ UNCHANGED <<bus, mode, claim, devs, opened, enum>>

\* usb_find_device(index, name, ...) for sticks of either kind.
NameAt(p) ==
    LET e == enum[p]
        L == ListFor(p, e.next)
    IN
    /\ pc[p] = "name"
    /\ IF e.next < Len(L)
         THEN /\ devs' = [devs EXCEPT ![p] = L]
              /\ enum' = [enum EXCEPT ![p].next = @ + 1,
                                      ![p].names = IF e.clean
                                        THEN Append(@, AddrOf(L[e.next + 1])) ELSE @]
              /\ Return(p)
         ELSE /\ ForgetList(p)
              /\ enum' = [enum EXCEPT ![p] = NoLoop]
              /\ Return(p)               \* MVNC_ERROR
    /\ UNCHANGED <<bus, mode, claim, initialized, stale, opened>>
-----------------------------------------------------------------------------
(***************************************************************************)
(* mvncOpenDevice.                                                         *)
(***************************************************************************)
\* n stands for "first" or for "first:second", where second is the address the
\* stick will have when it has booted.
OpenDevice(p, n) ==
    /\ pc[p] = "idle"
    /\ Begin(p, [NoCall EXCEPT !.name = n.first, !.second = n.second])
    /\ UNCHANGED <<bus, mode, claim, devs, opened, enum>>

\* load_fw_file does not find the firmware.
NoFirmware(p) ==
    /\ pc[p] = "boot"
    /\ call[p].tries = 0
    /\ "mvcmd" \in Faults
    /\ Return(p)               \* MVNC_MVCMD_NOT_FOUND
    /\ UNCHANGED <<bus, mode, claim, initialized, stale, devs, opened, enum>>

\* wait_findopen: a stick that is not there is an error at once, one that
\* cannot be claimed is tried again.
Boot(p) ==
    LET c == call[p]
        found == FindAddr(c.name, FALSE)
    IN
    /\ pc[p] = "boot"
    /\ \/ /\ found = None
          /\ Return(p)                    \* MVNC_ERROR
          /\ UNCHANGED claim
       \/ \E s \in Stick :
            /\ s = found /\ claim[s] = None
            /\ Claim(p, s)
            /\ Goto(p, "send")
            /\ SetCall(p, [c EXCEPT !.handle = s, !.tries = 0])
       \/ /\ found # None /\ claim[found] # None /\ c.tries < ConnectTries
          /\ SetCall(p, [c EXCEPT !.tries = @ + 1])
          /\ UNCHANGED <<pc, claim>>
       \/ /\ found # None /\ claim[found] # None /\ c.tries = ConnectTries
          /\ Return(p)                    \* MVNC_TIMEOUT
          /\ UNCHANGED claim
    /\ ForgetList(p)
    /\ UNCHANGED <<bus, mode, initialized, stale, opened, enum>>

\* From here on the call goes by the second name, if there is one.
Booted(p) ==
    LET c == call[p] IN
    /\ Goto(p, "open")
    /\ SetCall(p, [c EXCEPT !.handle = None, !.name = IF c.second = None
                                                       THEN @ ELSE c.second])

\* send_file; a stick that is gone is taken for one that has booted.
SendFile(p) ==
    LET s == call[p].handle IN
    /\ pc[p] = "send"
    /\ \/ /\ mode' = IF s = None THEN mode ELSE [mode EXCEPT ![s] = "booting"]
          /\ Booted(p)
       \/ /\ s # None
          /\ "send" \in Faults
          /\ Return(p)
          /\ UNCHANGED mode
    /\ Release(s)
    /\ UNCHANGED <<bus, initialized, stale, devs, opened, enum>>

\* usblink_open(device_name)
OpenByName(p) ==
    LET c == call[p] IN
    /\ pc[p] = "open"
    /\ \/ \E s \in Stick :
            /\ CanOpen(c.name, s)
            /\ Claim(p, s)
            /\ SetCall(p, [c EXCEPT !.handle = s])
            /\ Goto(p, "status")
       \/ /\ \A s \in Stick : ~CanOpen(c.name, s)
          /\ SetCall(p, [c EXCEPT !.count = 0])
          /\ Goto(p, IF c.second = None THEN "scan" ELSE "wait")
          /\ UNCHANGED claim
    /\ ForgetList(p)
    /\ UNCHANGED <<bus, mode, initialized, stale, opened, enum>>

IsOpened(p, a) == \E d \in opened[p] : d.addr = a

\* The name may have changed: try the count-th stick that runs, unless this
\* process has a device of that name.
Scan(p) ==
    LET c == call[p]
        L == ListFor(p, c.count)
        R == SelectSeq(L, IsRunning)
    IN
    /\ pc[p] = "scan"
    /\ \/ /\ c.count >= Len(R)
          /\ SetCall(p, [c EXCEPT !.name2 = None, !.count = 0])
          /\ Goto(p, "wait")
          /\ ForgetList(p)
          /\ UNCHANGED claim
       \/ \E a \in Addr :
            /\ c.count < Len(R) /\ a = AddrOf(R[c.count + 1])
            /\ \/ /\ IsOpened(p, a)
                  /\ SetCall(p, [c EXCEPT !.name2 = a, !.count = @ + 1])
                  /\ devs' = [devs EXCEPT ![p] = L]
                  /\ UNCHANGED <<pc, claim>>
               \/ /\ ~IsOpened(p, a)
                  /\ \A s \in Stick : ~CanOpen(a, s)
                  /\ SetCall(p, [c EXCEPT !.name2 = a, !.count = @ + 1])
                  /\ ForgetList(p)
                  /\ UNCHANGED <<pc, claim>>
               \/ \E s \in Stick :
                    /\ ~IsOpened(p, a) /\ CanOpen(a, s)
                    /\ Claim(p, s)
                    /\ SetCall(p, [c EXCEPT !.name2 = a, !.handle = s, !.count = 0])
                    /\ Goto(p, "status")
                    /\ ForgetList(p)
    /\ UNCHANGED <<bus, mode, initialized, stale, opened, enum>>

\* Only a stick that waits for commands is kept.
CheckStatus(p) ==
    LET c == call[p]
        s == c.handle
    IN
    /\ pc[p] = "status"
    /\ \/ /\ s # None /\ mode[s] = "waiting"
          /\ opened' = [opened EXCEPT ![p] = @ \cup
               {[stick |-> s, addr |-> IF c.name2 # None THEN c.name2 ELSE c.name]}]
          /\ Return(p)
          /\ UNCHANGED claim
       \/ /\ s # None => mode[s] # "waiting"
          /\ Release(s)
          /\ SetCall(p, [c EXCEPT !.handle = None])
          /\ Goto(p, "wait")
          /\ UNCHANGED opened
    /\ UNCHANGED <<bus, mode, initialized, stale, devs, enum>>

Wait(p) ==
    LET c == call[p] IN
    /\ pc[p] = "wait"
    /\ \/ /\ c.tries + 1 < OpenTries
          /\ SetCall(p, [c EXCEPT !.tries = @ + 1])
          /\ Goto(p, "open")
       \/ /\ c.tries + 1 = OpenTries
          /\ Return(p)               \* MVNC_ERROR
    /\ UNCHANGED <<bus, mode, claim, initialized, stale, devs, opened, enum>>
-----------------------------------------------------------------------------
(***************************************************************************)
(* Closing, and the end of a process.                                      *)
(***************************************************************************)
CloseDevice(p, d) ==
    /\ pc[p] = "idle"
    /\ d \in opened[p]
    /\ opened' = [opened EXCEPT ![p] = @ \ {d}]
    /\ mode' = IF d.stick = None THEN mode ELSE [mode EXCEPT ![d.stick] = "resetting"]
    /\ Release(d.stick)
    /\ UNCHANGED <<bus, initialized, stale, devs, pc, call, enum>>

\* The kernel releases what a process that ends has claimed; its sticks go on
\* running, and the next process finds them.
Exit(p) ==
    /\ "exit" \in Faults
    /\ p \in initialized
    /\ claim' = [s \in Stick |-> IF claim[s] = p THEN None ELSE claim[s]]
    /\ initialized' = initialized \ {p}
    /\ stale' = [stale EXCEPT ![p] = <<>>]
    /\ ForgetList(p)
    /\ opened' = [opened EXCEPT ![p] = {}]
    /\ enum' = [enum EXCEPT ![p] = NoLoop]
    /\ Goto(p, "idle")
    /\ SetCall(p, NoCall)
    /\ UNCHANGED <<bus, mode>>
-----------------------------------------------------------------------------
(***************************************************************************)
(* The sticks and the cable (external).                                    *)
(***************************************************************************)
\* s appears on the bus, anywhere in the order of libusb.
Arrive(s) ==
    /\ mode[s] \in Away
    /\ mode' = [mode EXCEPT ![s] = IF @ = "loaded" THEN "starting" ELSE "rom"]
    /\ \E i \in 1..(Len(bus) + 1) : bus' = InsertAt(bus, i, s)
    /\ Disturb
    /\ UNCHANGED <<claim, initialized, stale, devs, opened, pc, call>>

Ready(s) ==
    /\ mode[s] = "starting"
    /\ mode' = [mode EXCEPT ![s] = "waiting"]
    /\ UNCHANGED <<bus, claim, initialized, stale, devs, opened, pc, call, enum>>

Depart(s) ==
    /\ \/ mode[s] = "booting" /\ Leave(s, "loaded")
       \/ mode[s] = "resetting" /\ Leave(s, "reset")
    /\ UNCHANGED <<initialized, devs, pc>>

Unplug(s) ==
    /\ "unplug" \in Faults
    /\ mode[s] \notin Away
    /\ Leave(s, "gone")
    /\ UNCHANGED <<initialized, devs, pc>>
-----------------------------------------------------------------------------
Call(p) ==
    \/ StartLoop(p)
    \/ GetDeviceName(p)
    \/ \E n \in Name : OpenDevice(p, n)
    \/ \E d \in opened[p] : CloseDevice(p, d)

\* The rest of a call that has begun.
Continue(p) ==
    \/ ResetOne(p)
    \/ Settle(p)
    \/ NameAt(p)
    \/ NoFirmware(p)
    \/ Boot(p)
    \/ SendFile(p)
    \/ OpenByName(p)
    \/ Scan(p)
    \/ CheckStatus(p)
    \/ Wait(p)

Next ==
    \/ \E p \in Process : Call(p) \/ Continue(p) \/ Exit(p)
    \/ \E s \in Stick : Arrive(s) \/ Ready(s) \/ Depart(s) \/ Unplug(s)

Spec == Init /\ [][Next]_vars

Fairness == \A p \in Process : WF_vars(Continue(p))

FairSpec == Spec /\ Fairness
-----------------------------------------------------------------------------
(***************************************************************************)
(* Properties.                                                             *)
(***************************************************************************)
Entry == [stick: Stick, run: BOOLEAN]

CallState ==
    [name: Addr \cup {None}, second: Addr \cup {None}, name2: Addr \cup {None},
     handle: Stick \cup {None}, expected: Nat, tries: Nat, count: Nat]

LoopState == [on: BOOLEAN, names: Seq(Addr), next: Nat, clean: BOOLEAN]

\* The lists are lists of sticks, and the bus has each stick that is connected,
\* and not on its way between ROM and firmware, once.
ListsOK ==
    /\ bus \in Seq(Stick)
    /\ \A i, j \in DOMAIN bus : bus[i] = bus[j] => i = j
    /\ \A s \in Stick : (\E i \in DOMAIN bus : bus[i] = s) <=> s \in Connected
    /\ stale \in [Process -> Seq(Stick \cup {None})]
    /\ devs \in [Process -> Seq(Entry)]
    /\ enum \in [Process -> LoopState]

\* Everything else is in its range, a search has a name to search for, and only
\* a call that uses a stick has one.
StateOK ==
    /\ mode \in [Stick -> Rom \cup Running \cup Away]
    /\ claim \in [Stick -> Process \cup {None}]
    /\ initialized \subseteq Process
    /\ opened \in [Process -> SUBSET [stick: Stick \cup {None}, addr: Addr]]
    /\ pc \in [Process -> PC]
    /\ call \in [Process -> CallState]
    /\ \A p \in Process :
         /\ pc[p] \notin {"idle", "reset", "settle", "name"} => call[p].name \in Addr
         /\ call[p].handle # None => pc[p] \in {"send", "status"}

\* Every variable keeps the values the code uses it for: no device without an
\* address, no call that returns with a stick in its hands.
TypeOK == ListsOK /\ StateOK

\* A process has claimed exactly the sticks of its open devices and the one
\* its call is working on: every path of mvncOpenDevice that gives up has
\* closed what it opened, or nobody could open that stick again.
NothingIsLeaked ==
    \A p \in Process, s \in Stick :
        claim[s] = p <=> \/ s = call[p].handle
                         \/ \E d \in opened[p] : d.stick = s

\* No stick is behind two open devices, of one process or of two.
OneHandle ==
    \A p, q \in Process : \A d \in opened[p], e \in opened[q] :
        d.stick = e.stick /\ d.stick # None => p = q /\ d = e

\* A step that resets a stick in use closes the device of its owner.
ResetByOwner ==
    \A p \in Process, s \in Stick :
        claim[s] = p /\ mode[s] = "waiting" /\ mode'[s] = "resetting"
          => \E d \in opened[p] : d.stick = s /\ d \notin opened'[p]

\* A stick that somebody uses is reset only by the process that closes it,
\* never by another one that starts and clears the bus of stale sticks.
InUseIsNotReset == [][ResetByOwner]_vars

\* A loop over mvncGetDeviceName during which no stick came or went ends with
\* the address of every stick, once, whatever calls of other threads used the
\* cached list in between.
EnumerationIsComplete ==
    [][\A p \in Process :
         pc[p] = "name" /\ enum[p].on /\ enum[p].clean /\ enum'[p] = NoLoop
           /\ p \in initialized'
           => enum[p].names = [i \in DOMAIN Listing |-> AddrOf(Listing[i])]]_vars

\* Every call comes to an end, although it lists a bus that keeps changing.
OpenReturns == \A p \in Process : pc[p] # "idle" ~> pc[p] = "idle"
=============================================================================
