------------------------------- MODULE UsbLink -------------------------------
(***************************************************************************)
(* The link protocol of api/src/usb_link_vsc.c: one process and one stick  *)
(* joined by a bulk pipe in each direction.  A set or a get is a header,   *)
(* an answer that grants or refuses it, and the data; a status query is a  *)
(* header and the status; a reset is a header alone.  Transfers may be     *)
(* short, and one that does not move for USB_TIMEOUT fails.                *)
(*                                                                         *)
(* A pipe is a sequence of items: a header, a unit of data, an answer or a *)
(* transfer of no bytes.  The firmware is not part of the repository: the  *)
(* actions Fw... are what the host code relies on.                         *)
(***************************************************************************)
EXTENDS Integers, Sequences

CONSTANTS
    Name,       \* names of the buffers on the stick
    Payload,    \* what the application stores
    None,       \* no value
    Units,      \* Units[n]: units of data in buffer n
    Chunk,      \* units a transfer may move (USB_MAX_PACKET_SIZE)
    OutRoom,    \* items the stick accepts before it has read them
    InRoom,     \* items the stick may have ready for the host
    TimeOuts,   \* may a transfer time out?
    Retries     \* bound: calls after a time-out before the caller only resets

ASSUME UnitsAssumption ==
    /\ Units \in [Name -> Nat \ {0}]
    /\ Chunk \in Nat \ {0} /\ OutRoom \in Nat \ {0}
    /\ InRoom \in Nat /\ \A n \in Name : InRoom >= Units[n] + 3
    /\ TimeOuts \in BOOLEAN /\ Retries \in Nat

ASSUME PayloadAssumption == None \notin Payload \cup Name

VARIABLES
    host,       \* the call in progress
    answer,     \* what the last call returned
    out,        \* items on their way to the stick
    in,         \* items on their way to the host
    fw,         \* what the firmware is doing
    mem,        \* mem[n]: contents of buffer n on the stick
    late,       \* has a transfer timed out since the stick last booted?
    tries       \* calls made since then, up to Retries

vars == <<host, answer, out, in, fw, mem, late, tries>>

Command == {"set", "get", "status", "reset"}
Stage == {"closed", "idle", "header", "permit", "write", "read", "status"}
Ended == {"closed", "idle"}

Least(a, b) == IF a < b THEN a ELSE b

Header(c, n) == [kind |-> c, name |-> n, data |-> None, i |-> 0]
Unit(p, i) == [kind |-> "data", name |-> None, data |-> p, i |-> i]
Item(k) == [kind |-> k, name |-> None, data |-> None, i |-> 0]
\* operation_permit 0xABCD, any other value, and a transfer of no bytes
Permit == Item("permit")
Refusal == Item("refusal")
NoBytes == Item("empty")
Answers == {Permit, Refusal, NoBytes, Item("state")}

Contents(n, p) == [i \in 1..Units[n] |-> Unit(p, i)]
Blank == [n \in Name |-> Contents(n, None)]

NoCall == [stage |-> "idle", cmd |-> "reset", name |-> None, data |-> None,
           done |-> 0, got |-> <<>>]
Resting == [stage |-> "header", name |-> None, buf |-> <<>>]

Init ==
    /\ host = NoCall
    /\ answer = [rc |-> "OK", data |-> <<>>]
    /\ out = <<>>
    /\ in = <<>>
    /\ fw = Resting
    /\ mem = Blank
    /\ late = FALSE
    /\ tries = 0

Goto(s) == host' = [host EXCEPT !.stage = s]

Return(s, status, x) ==
    /\ host' = [NoCall EXCEPT !.stage = s]
    /\ answer' = [rc |-> status, data |-> x]

-----------------------------------------------------------------------------
(***************************************************************************)
(* Mutated forms of definitions below, one for each property: each breaks  *)
(* the property that its comment names.                                    *)
(***************************************************************************)
\* A header that is sent before the stick has room for it (TypeOK).
HastyWriteHeader ==
    /\ host.stage = "header"
    /\ out' = Append(out, Header(host.cmd, host.name))
    /\ Goto("permit")
    /\ UNCHANGED <<answer, in, fw, mem, late, tries>>

\* An answer that is read but not compared with operation_permit (InStep).
TrustingReadPermit ==
    /\ host.stage = "permit"
    /\ in # <<>>
    /\ in' = Tail(in)
    /\ Goto(IF host.cmd = "set" THEN "write" ELSE "read")
    /\ UNCHANGED <<answer, out, fw, mem, late, tries>>

\* usb_write that does not advance its pointer (ImplementsMailbox).
RepeatingWrite(k) ==
    LET n == host.name IN
    /\ host.stage = "write"
    /\ k \in 1..Least(Least(Units[n] - host.done, Chunk), OutRoom - Len(out))
    /\ out' = out \o SubSeq(Contents(n, host.data), 1, k)
    /\ IF host.done + k = Units[n]
       THEN Return("idle", "OK", <<>>)
       ELSE /\ host' = [host EXCEPT !.done = @ + k]
            /\ UNCHANGED answer
    /\ UNCHANGED <<in, fw, mem, late, tries>>

\* A transfer that is tried again when it times out (CallsReturn).
RetryingTimeOut ==
    /\ host.stage \in {"permit", "read", "status"} /\ in = <<>>
    /\ late' = TRUE
    /\ UNCHANGED <<host, answer, out, in, fw, mem, tries>>
-----------------------------------------------------------------------------
(***************************************************************************)
(* The host.                                                               *)
(***************************************************************************)
\* usblink_setdata, usblink_getdata, usblink_getmyriadstatus and
\* usblink_resetmyriad fill in the header.
Call(c, n, p) ==
    /\ host.stage = "idle"
    /\ host' = [NoCall EXCEPT !.stage = "header", !.cmd = c, !.name = n,
                              !.data = p]
    /\ c # "reset" => tries < Retries
    /\ tries' = IF late THEN Least(tries + 1, Retries) ELSE tries
    /\ UNCHANGED <<answer, out, in, fw, mem, late>>

SetData == \E n \in Name, p \in Payload : Call("set", n, p)
GetData == \E n \in Name : Call("get", n, None)
GetMyriadStatus == Call("status", None, None)
ResetMyriad == Call("reset", None, None)

\* The header goes out.  After a reset the caller closes the link.
WriteHeader ==
    /\ host.stage = "header"
    /\ Len(out) < OutRoom
    /\ out' = Append(out, Header(host.cmd, host.name))
    /\ CASE host.cmd = "reset" -> Return("closed", "OK", <<>>)
         [] host.cmd = "status" -> Goto("status") /\ UNCHANGED answer
         [] OTHER -> Goto("permit") /\ UNCHANGED answer
    /\ UNCHANGED <<in, fw, mem, late, tries>>

\* Four bytes of answer; a transfer of no bytes is gone round again.
ReadPermit ==
    /\ host.stage = "permit"
    /\ in # <<>>
    /\ in' = Tail(in)
    /\ CASE Head(in) = NoBytes -> UNCHANGED <<host, answer>>
         [] Head(in) = Permit ->
              /\ Goto(IF host.cmd = "set" THEN "write" ELSE "read")
              /\ UNCHANGED answer
         [] OTHER -> Return("idle", "ERROR", <<>>)
    /\ UNCHANGED <<out, fw, mem, late, tries>>

\* usb_write: a transfer moves k units, perhaps fewer than it was asked to.
Write(k) ==
    LET n == host.name IN
    /\ host.stage = "write"
    /\ k \in 1..Least(Least(Units[n] - host.done, Chunk), OutRoom - Len(out))
    /\ out' = out \o SubSeq(Contents(n, host.data), host.done + 1, host.done + k)
    /\ IF host.done + k = Units[n]
       THEN Return("idle", "OK", <<>>)
       ELSE /\ host' = [host EXCEPT !.done = @ + k]
            /\ UNCHANGED answer
    /\ UNCHANGED <<in, fw, mem, late, tries>>

\* usb_read: whatever arrives is data; a transfer of no bytes adds nothing.
Read(k) ==
    LET n == host.name
        all == host.got \o SubSeq(in, 1, k)
    IN
    /\ host.stage = "read"
    /\ k \in 1..Least(Least(Units[n] - Len(host.got), Chunk), Len(in))
    /\ \A i \in 1..k : in[i] # NoBytes
    /\ in' = SubSeq(in, k + 1, Len(in))
    /\ IF Len(all) = Units[n]
       THEN Return("idle", "OK", all)
       ELSE host' = [host EXCEPT !.got = all] /\ UNCHANGED answer
    /\ UNCHANGED <<out, fw, mem, late, tries>>

ReadNothing ==
    /\ host.stage \in {"read", "status"}
    /\ in # <<>>
    /\ Head(in) = NoBytes
    /\ in' = Tail(in)
    /\ UNCHANGED <<host, answer, out, fw, mem, late, tries>>

ReadStatus ==
    /\ host.stage = "status"
    /\ in # <<>>
    /\ Head(in) # NoBytes
    /\ in' = Tail(in)
    /\ Return("idle", "OK", <<>>)
    /\ UNCHANGED <<out, fw, mem, late, tries>>

\* Nothing moved for USB_TIMEOUT: the call fails where it stands.
TimeOut ==
    /\ TimeOuts
    /\ \/ host.stage \in {"header", "write"} /\ Len(out) >= OutRoom
       \/ host.stage \in {"permit", "read", "status"} /\ in = <<>>
    /\ late' = TRUE
    /\ Return("idle", "ERROR", <<>>)
    /\ UNCHANGED <<out, in, fw, mem, tries>>

\* The link is opened again.  mvncCloseDevice waits half a second after the
\* reset; the stick has then read it, unless it was stuck.
Open ==
    /\ host.stage = "closed"
    /\ out = <<>> \/ late
    /\ host' = NoCall
    /\ UNCHANGED <<answer, out, in, fw, mem, late, tries>>
-----------------------------------------------------------------------------
(***************************************************************************)
(* The firmware.                                                           *)
(***************************************************************************)
\* Messages may end with a transfer of no bytes.
Send(msg) ==
    \/ Len(in) + Len(msg) <= InRoom /\ in' = in \o msg
    \/ Len(in) + Len(msg) < InRoom /\ in' = in \o Append(msg, NoBytes)

Take == out # <<>> /\ out' = Tail(out)

FwSet ==
    /\ fw.stage = "header"
    /\ Take
    /\ Head(out).kind = "set"
    /\ \/ /\ Send(<<Permit>>)
          /\ fw' = [Resting EXCEPT !.stage = "data", !.name = Head(out).name]
       \/ Send(<<Refusal>>) /\ UNCHANGED fw
    /\ UNCHANGED <<host, answer, mem, late, tries>>

FwGet ==
    /\ fw.stage = "header"
    /\ Take
    /\ Head(out).kind = "get"
    /\ Send(<<Permit>> \o mem[Head(out).name]) \/ Send(<<Refusal>>)
    /\ UNCHANGED <<host, answer, fw, mem, late, tries>>

FwStatus ==
    /\ fw.stage = "header"
    /\ Take
    /\ Head(out).kind = "status"
    /\ Send(<<Item("state")>>)
    /\ UNCHANGED <<host, answer, fw, mem, late, tries>>

\* The stick boots: its buffers and both pipes are empty afterwards, and a
\* handle opened before is good for nothing.
FwReset ==
    /\ fw.stage = "header"
    /\ out # <<>>
    /\ Head(out).kind = "reset"
    /\ out' = <<>>
    /\ in' = <<>>
    /\ fw' = Resting
    /\ mem' = Blank
    /\ late' = FALSE
    /\ tries' = 0
    /\ host' = [NoCall EXCEPT !.stage = "closed"]
    /\ answer' = IF host.stage \in Ended THEN answer
                 ELSE [rc |-> "ERROR", data |-> <<>>]

\* Not a header: ignored.
FwSkip ==
    /\ fw.stage = "header"
    /\ Take
    /\ Head(out).kind \notin Command
    /\ UNCHANGED <<host, answer, in, fw, mem, late, tries>>

\* Whatever comes after a granted set is its data.
FwData ==
    /\ fw.stage = "data"
    /\ Take
    /\ LET buf == Append(fw.buf, Head(out)) IN
       IF Len(buf) = Units[fw.name]
       THEN mem' = [mem EXCEPT ![fw.name] = buf] /\ fw' = Resting
       ELSE fw' = [fw EXCEPT !.buf = buf] /\ UNCHANGED mem
    /\ UNCHANGED <<host, answer, in, late, tries>>
-----------------------------------------------------------------------------
Transfer ==
    \/ WriteHeader \/ ReadPermit \/ ReadNothing \/ ReadStatus
    \/ \E k \in 1..Chunk : Write(k) \/ Read(k)

HostStep == SetData \/ GetData \/ GetMyriadStatus \/ ResetMyriad \/ Open

Firmware == FwSet \/ FwGet \/ FwStatus \/ FwReset \/ FwSkip \/ FwData

Next == HostStep \/ Transfer \/ TimeOut \/ Firmware

Spec == Init /\ [][Next]_vars

\* A transfer that can move does, and one that cannot times out.  Nothing is
\* assumed of the firmware.
FairSpec == Spec /\ WF_vars(Transfer) /\ WF_vars(TimeOut)
-----------------------------------------------------------------------------
(***************************************************************************)
(* Properties.                                                             *)
(***************************************************************************)
Items == [kind : Command \cup {"data", "permit", "refusal", "empty", "state"},
          name : Name \cup {None}, data : Payload \cup {None}, i : Nat]

TypeOK ==
    /\ host \in [stage : Stage, cmd : Command, name : Name \cup {None},
                 data : Payload \cup {None}, done : Nat, got : Seq(Items)]
    /\ answer \in [rc : {"OK", "ERROR"}, data : Seq(Items)]
    /\ out \in Seq(Items) /\ Len(out) <= OutRoom
    /\ in \in Seq(Items) /\ Len(in) <= InRoom
    /\ fw \in [stage : {"header", "data"}, name : Name \cup {None},
               buf : Seq(Items)]
    /\ mem \in [Name -> Seq(Items)]
    /\ late \in BOOLEAN /\ tries \in 0..Retries

\* The data on its way in s: in step, only one header can be behind it.
Headed(s) == s # <<>> /\ s[Len(s)].kind # "data"
DataIn(s) == IF Headed(s) THEN SubSeq(s, 1, Len(s) - 1) ELSE s
\* The data of the set the stick is in, received and on the way.
Granted == fw.buf \o DataIn(out)

(***************************************************************************)
(* Framing.  While no transfer has timed out, a call that returned has     *)
(* left nothing for the next one to read but transfers of no bytes, a      *)
(* refused one included, and the stick is owed exactly the data it has     *)
(* granted: what is on its way to it completes the set it is in, and no    *)
(* data is ever taken for a header.                                        *)
(***************************************************************************)
InStep ==
    ~late =>
      /\ host.stage \in Ended => \A i \in DOMAIN in : in[i] = NoBytes
      /\ fw.stage = "header" => \A i \in DOMAIN out : out[i].kind \in Command
      /\ fw.stage = "data" =>
           /\ \E p \in Payload :
                Granted = SubSeq(Contents(fw.name, p), 1, Len(Granted))
           /\ host.stage \notin {"permit", "write"} =>
                Len(Granted) = Units[fw.name]

(***************************************************************************)
(* The link as the code above it sees it.  A set has happened once the     *)
(* last unit is on its way, a reset once its header is.                    *)
(***************************************************************************)
Stored ==
    IF host.stage = "closed" THEN Blank
    ELSE IF fw.stage = "data" /\ Len(Granted) = Units[fw.name]
    THEN [mem EXCEPT ![fw.name] = Granted]
    ELSE mem

Link == INSTANCE Mailbox WITH
    Content <- {Contents(n, p) : n \in Name, p \in Payload \cup {None}},
    Empty <- Blank, stored <- Stored, answer <- answer, trusted <- ~late

\* usblink_setdata and usblink_getdata are one step each on named buffers: a
\* get that returns 0 has read what the last set stored, whole, and a refused
\* call changes nothing, up to the first time-out and again after a reset.
ImplementsMailbox == Link!Spec

\* Every call of the link comes to an end, whatever the stick does: usb_write
\* and usb_read leave their loops.
CallsReturn == host.stage \notin Ended ~> host.stage \in Ended
=============================================================================
