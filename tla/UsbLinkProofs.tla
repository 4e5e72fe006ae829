---------------------------- MODULE UsbLinkProofs ----------------------------
(***************************************************************************)
(* Proofs about UsbLink: the values of its state, the framing of the two   *)
(* pipes, and that the link implements Mailbox.                            *)
(***************************************************************************)
EXTENDS UsbLink, TLAPS

\* What a call in progress has filled in.
Calls ==
    /\ host.stage \in {"permit", "write", "read"} => host.cmd \in {"set", "get"}
    /\ host.stage = "write" => host.cmd = "set" /\ host.done < Units[host.name]
    /\ host.stage = "read" => host.cmd = "get" /\ Len(host.got) < Units[host.name]
    /\ host.stage = "status" => host.cmd = "status"
    /\ host.stage = "closed" => host.cmd = "reset"
    /\ host.stage \in {"header", "permit"} => host.done = 0 /\ host.got = <<>>
    /\ host.cmd \in {"set", "get"} => host.name \in Name
    /\ host.cmd \in {"reset", "status"} => host.name = None
    /\ host.cmd = "set" => host.data \in Payload

\* Headers name a buffer, and so does the set the stick is in.
Named ==
    /\ \A i \in DOMAIN out : out[i].kind \in {"set", "get"} => out[i].name \in Name
    /\ fw.stage = "data" => fw.name \in Name /\ Len(fw.buf) < Units[fw.name]
    /\ fw.stage = "header" => fw = Resting
    /\ \A n \in Name : Len(mem[n]) = Units[n]

HostType == [stage : Stage, cmd : Command, name : Name \cup {None},
             data : Payload \cup {None}, done : Nat, got : Seq(Items)]

AnswerType == [rc : {"OK", "ERROR"}, data : Seq(Items)]

FwType == [stage : {"header", "data"}, name : Name \cup {None}, buf : Seq(Items)]

Values ==
    /\ host \in HostType /\ answer \in AnswerType
    /\ out \in Seq(Items) /\ Len(out) <= OutRoom
    /\ in \in Seq(Items) /\ Len(in) <= InRoom
    /\ fw \in FwType /\ mem \in [Name -> Seq(Items)]
    /\ late \in BOOLEAN /\ tries \in 0..Retries

Typed == Values /\ Calls /\ Named
-----------------------------------------------------------------------------
(***************************************************************************)
(* Items and pipes.                                                        *)
(***************************************************************************)
LEMMA ItemTypes ==
    /\ Permit \in Items /\ Refusal \in Items /\ NoBytes \in Items
    /\ Item("state") \in Items
    /\ \A c \in Command : \A n \in Name \cup {None} :
         Header(c, n) \in Items /\ Header(c, n).kind = c /\ Header(c, n).name = n
    /\ \A p \in Payload \cup {None} : \A i \in Nat :
         Unit(p, i) \in Items /\ Unit(p, i).kind = "data"
BY DEF Items, Item, Permit, Refusal, NoBytes, Header, Unit, Command

LEMMA ContentTypes ==
    ASSUME NEW n \in Name, NEW p \in Payload \cup {None}
    PROVE  /\ Contents(n, p) \in Seq(Items)
           /\ Len(Contents(n, p)) = Units[n]
           /\ \A i \in 1..Units[n] : Contents(n, p)[i] = Unit(p, i)
<1>1. Units[n] \in Nat
  BY UnitsAssumption
<1>2. \A i \in 1..Units[n] : Unit(p, i) \in Items
  BY <1>1, ItemTypes
<1> QED
  BY <1>1, <1>2 DEF Contents

LEMMA BlankTypes ==
    Blank \in [Name -> Seq(Items)] /\ \A n \in Name : Len(Blank[n]) = Units[n]
BY ContentTypes DEF Blank

LEMMA AppendPipe ==
    ASSUME NEW S, NEW s \in Seq(S), NEW x \in S
    PROVE  /\ Append(s, x) \in Seq(S) /\ Len(Append(s, x)) = Len(s) + 1
           /\ \A i \in 1..Len(s) : Append(s, x)[i] = s[i]
           /\ Append(s, x)[Len(s) + 1] = x
OBVIOUS

LEMMA TailPipe ==
    ASSUME NEW S, NEW s \in Seq(S), s # <<>>
    PROVE  /\ Tail(s) \in Seq(S) /\ Len(Tail(s)) = Len(s) - 1 /\ Len(s) >= 1
           /\ Head(s) = s[1] /\ Head(s) \in S
           /\ \A i \in 1..Len(s) - 1 : Tail(s)[i] = s[i + 1]
OBVIOUS

LEMMA ConcatPipe ==
    ASSUME NEW S, NEW s \in Seq(S), NEW t \in Seq(S)
    PROVE  /\ s \o t \in Seq(S) /\ Len(s \o t) = Len(s) + Len(t)
           /\ \A i \in 1..Len(s) : (s \o t)[i] = s[i]
           /\ \A i \in 1..Len(t) : (s \o t)[Len(s) + i] = t[i]
OBVIOUS

LEMMA SubPipe ==
    ASSUME NEW S, NEW s \in Seq(S), NEW a \in 1..Len(s) + 1, NEW b \in a - 1..Len(s)
    PROVE  /\ SubSeq(s, a, b) \in Seq(S) /\ Len(SubSeq(s, a, b)) = b - a + 1
           /\ \A i \in 1..b - a + 1 : SubSeq(s, a, b)[i] = s[a + i - 1]
OBVIOUS

LEMMA EqualPipes ==
    ASSUME NEW S, NEW s \in Seq(S), NEW t \in Seq(S), Len(s) = Len(t),
           \A i \in 1..Len(s) : s[i] = t[i]
    PROVE  s = t
OBVIOUS
-----------------------------------------------------------------------------
(***************************************************************************)
(* The values of the state.                                                *)
(***************************************************************************)
LEMMA NoCallType ==
    /\ NoCall \in HostType /\ NoCall.cmd = "reset" /\ NoCall.name = None
    /\ NoCall.data = None /\ NoCall.done = 0 /\ NoCall.got = <<>>
    /\ NoCall.stage = "idle"
BY DEF NoCall, HostType, Stage, Command

\* A call returns: the state of the pipes is none of its business.
LEMMA ReturnTyped ==
    ASSUME NEW s \in Ended, NEW status \in {"OK", "ERROR"}, NEW x \in Seq(Items),
           Return(s, status, x)
    PROVE  host' \in HostType /\ answer' \in AnswerType /\ Calls' /\ host'.stage = s
<1>1. /\ host' \in HostType /\ host'.stage = s /\ host'.cmd = "reset"
      /\ host'.name = None /\ host'.done = 0 /\ host'.got = <<>>
  <2>1. host' = [NoCall EXCEPT !.stage = s]
    BY DEF Return
  <2> QED
    BY <2>1, NoCallType DEF HostType, Ended, Stage
<1>2. answer' \in AnswerType
  BY DEF Return, AnswerType
<1> QED
  BY <1>1, <1>2 DEF Calls, Ended

LEMMA ReturnNothing ==
    ASSUME NEW s \in Ended, NEW status \in {"OK", "ERROR"}, Return(s, status, <<>>)
    PROVE  host' \in HostType /\ answer' \in AnswerType /\ Calls' /\ host'.stage = s
<1>1. <<>> \in Seq(Items)
  OBVIOUS
<1> QED
  BY <1>1, ReturnTyped

LEMMA InitTyped == Init => Typed
<1> SUFFICES ASSUME Init
             PROVE  Typed
    OBVIOUS
<1> USE UnitsAssumption DEF Init
<1>1. host \in HostType /\ Calls
  BY DEF NoCall, HostType, Stage, Command, Calls
<1>2. answer \in AnswerType
  BY DEF AnswerType
<1>3. fw \in FwType /\ fw.stage = "header" /\ fw = Resting
  BY DEF Resting, FwType
<1>4. mem \in [Name -> Seq(Items)] /\ \A n \in Name : Len(mem[n]) = Units[n]
  BY BlankTypes
<1>5. Named
  BY <1>3, <1>4 DEF Named
<1>6. /\ out \in Seq(Items) /\ Len(out) <= OutRoom
      /\ in \in Seq(Items) /\ Len(in) <= InRoom
  OBVIOUS
<1>7. late \in BOOLEAN
  BY Zenon
<1>8. Values
  BY <1>1, <1>2, <1>3, <1>4, <1>6, <1>7 DEF Values
<1> QED
  BY <1>1, <1>5, <1>8 DEF Typed

\* A new call, and what it leaves alone.
LEMMA CallTyped ==
    ASSUME Typed, NEW c \in Command, NEW n \in Name \cup {None},
           NEW p \in Payload \cup {None}, Call(c, n, p),
           c \in {"set", "get"} => n \in Name,
           c \in {"reset", "status"} => n = None,
           c = "set" => p \in Payload
    PROVE  Typed'
<1> USE UnitsAssumption DEF Typed
<1> DEFINE h == [NoCall EXCEPT !.stage = "header", !.cmd = c, !.name = n, !.data = p]
<1>1. /\ host' = h /\ UNCHANGED <<answer, out, in, fw, mem, late>>
      /\ tries' = IF late THEN Least(tries + 1, Retries) ELSE tries
  BY DEF Call
<1>2. /\ h \in HostType /\ h.stage = "header" /\ h.cmd = c /\ h.name = n
      /\ h.data = p /\ h.done = 0 /\ h.got = <<>>
  BY NoCallType DEF HostType, Stage
<1> HIDE DEF h
<1>3. tries' \in 0..Retries
  BY <1>1 DEF Least, Values
<1>4. Calls'
  BY <1>1, <1>2 DEF Calls
<1>5. Named'
  BY <1>1 DEF Named
<1>6. Values'
  BY <1>1, <1>2, <1>3 DEF Values
<1> QED
  BY <1>4, <1>5, <1>6

LEMMA HostStepTyped ==
    ASSUME Typed, HostStep
    PROVE  Typed'
<1>1. CASE SetData
  BY <1>1, CallTyped DEF SetData, Command
<1>2. CASE GetData
  BY <1>2, CallTyped DEF GetData, Command
<1>3. CASE GetMyriadStatus
  BY <1>3, CallTyped DEF GetMyriadStatus, Command
<1>4. CASE ResetMyriad
  BY <1>4, CallTyped DEF ResetMyriad, Command
<1>5. CASE Open
  <2>1. host' = NoCall /\ UNCHANGED <<answer, out, in, fw, mem, late, tries>>
    BY <1>5 DEF Open
  <2>2. NoCall \in HostType /\ Calls'
    BY <2>1 DEF NoCall, HostType, Stage, Command, Calls
  <2>3. Named'
    BY <2>1 DEF Named, Typed
  <2>4. Values'
    BY <2>1, <2>2 DEF Typed, Values
  <2> QED
    BY <2>2, <2>3, <2>4 DEF Typed
<1> QED
  BY <1>1, <1>2, <1>3, <1>4, <1>5 DEF HostStep

LEMMA WriteHeaderTyped ==
    ASSUME Typed, WriteHeader
    PROVE  Typed'
<1> USE UnitsAssumption DEF Typed
<1> DEFINE x == Header(host.cmd, host.name)
<1>1. /\ host.stage = "header" /\ Len(out) < OutRoom /\ out' = Append(out, x)
      /\ UNCHANGED <<in, fw, mem, late, tries>>
  BY DEF WriteHeader
<1>2. host \in HostType /\ host.cmd \in Command /\ host.name \in Name \cup {None}
  BY DEF HostType, Values
<1>3. x \in Items /\ x.kind = host.cmd /\ x.name = host.name
  BY <1>2, ItemTypes
<1> HIDE DEF x
<1>4. /\ out' \in Seq(Items) /\ Len(out') <= OutRoom
      /\ \A i \in DOMAIN out' : out'[i].kind \in {"set", "get"} => out'[i].name \in Name
  <2>1. out \in Seq(Items) /\ Len(out) \in Nat /\ DOMAIN out = 1..Len(out)
    BY DEF Values
  <2>2. /\ out' \in Seq(Items) /\ Len(out') = Len(out) + 1
        /\ \A i \in 1..Len(out) : out'[i] = out[i]
        /\ out'[Len(out) + 1] = x
    BY <1>1, <1>3, <2>1, AppendPipe
  <2>3. \A i \in DOMAIN out' : i \in 1..Len(out) \/ i = Len(out) + 1
    BY <2>1, <2>2
  <2>4. x.kind \in {"set", "get"} => x.name \in Name
    BY <1>3 DEF Calls
  <2> QED
    BY <1>1, <2>1, <2>2, <2>3, <2>4 DEF Named
<1>5. Named'
  BY <1>1, <1>4 DEF Named
<1>6. host' \in HostType /\ answer' \in AnswerType /\ Calls'
  <2>1. CASE host.cmd = "reset"
    BY <2>1, ReturnNothing DEF WriteHeader, Ended
  <2>2. ASSUME NEW s \in {"status", "permit"}, Goto(s), UNCHANGED answer,
               s = "status" <=> host.cmd = "status", host.cmd # "reset"
        PROVE  host' \in HostType /\ answer' \in AnswerType /\ Calls'
    <3>1. /\ host' \in HostType /\ host'.stage = s /\ host'.cmd = host.cmd
          /\ host'.name = host.name /\ host'.data = host.data
          /\ host'.done = host.done /\ host'.got = host.got
      BY <1>2, <2>2 DEF Goto, HostType, Stage
    <3>2. Calls'
      BY <1>1, <1>2, <2>2, <3>1 DEF Calls, Command
    <3> QED
      BY <2>2, <3>1, <3>2 DEF Values
  <2>3. \/ host.cmd = "reset"
        \/ host.cmd = "status" /\ Goto("status") /\ UNCHANGED answer
        \/ host.cmd \notin {"reset", "status"} /\ Goto("permit") /\ UNCHANGED answer
    BY DEF WriteHeader
  <2> QED
    BY <2>1, <2>2, <2>3
<1> QED
  BY <1>1, <1>4, <1>5, <1>6 DEF Values

\* The host takes items off its pipe, and the rest of the state is its own.
LEMMA ReceiveTyped ==
    ASSUME Typed, in' \in Seq(Items), Len(in') <= Len(in),
           host' \in HostType, answer' \in AnswerType, Calls',
           UNCHANGED <<out, fw, mem, late, tries>>
    PROVE  Typed'
<1> USE DEF Typed
<1>1. Named'
  BY DEF Named
<1>2. Len(in') <= InRoom
  <2>1. Len(in') \in Nat /\ Len(in) \in Nat
    BY DEF Values
  <2>2. InRoom \in Nat
    BY UnitsAssumption
  <2> QED
    BY <2>1, <2>2 DEF Values
<1> QED
  BY <1>1, <1>2 DEF Values

LEMMA TailTyped ==
    ASSUME Typed, in # <<>>, in' = Tail(in)
    PROVE  in' \in Seq(Items) /\ Len(in') <= Len(in)
<1>1. in \in Seq(Items) /\ Len(in) \in Nat
  BY DEF Typed, Values
<1> QED
  BY <1>1, TailPipe

LEMMA ReadPermitTyped ==
    ASSUME Typed, ReadPermit
    PROVE  Typed'
<1> USE DEF Typed
<1>1. /\ host.stage = "permit" /\ in # <<>> /\ in' = Tail(in)
      /\ UNCHANGED <<out, fw, mem, late, tries>>
  BY DEF ReadPermit
<1>2. host \in HostType /\ answer \in AnswerType
  BY DEF Values
<1>3. host' \in HostType /\ answer' \in AnswerType /\ Calls'
  <2>1. CASE UNCHANGED <<host, answer>>
    BY <1>2, <2>1 DEF Calls
  <2>2. CASE /\ Goto(IF host.cmd = "set" THEN "write" ELSE "read")
             /\ UNCHANGED answer
    <3>1. /\ host' \in HostType /\ host'.cmd = host.cmd
          /\ host'.stage = IF host.cmd = "set" THEN "write" ELSE "read"
          /\ host'.name = host.name /\ host'.data = host.data
          /\ host'.done = host.done /\ host'.got = host.got
      BY <1>2, <2>2 DEF Goto, HostType, Stage
    <3>2. Calls'
      <4>1. /\ host.cmd \in {"set", "get"} /\ host.name \in Name
            /\ host.done = 0 /\ host.got = <<>> /\ Len(host.got) = 0
        BY <1>1 DEF Calls
      <4>2. Units[host.name] \in Nat \ {0}
        BY <4>1, UnitsAssumption
      <4> QED
        BY <3>1, <4>1, <4>2 DEF Calls
    <3> QED
      BY <1>2, <2>2, <3>1, <3>2
  <2>3. CASE Return("idle", "ERROR", <<>>)
    BY <2>3, ReturnNothing DEF Ended
  <2> QED
    BY <2>1, <2>2, <2>3 DEF ReadPermit
<1> QED
  BY <1>1, <1>3, TailTyped, ReceiveTyped

LEMMA ReadNothingTyped ==
    ASSUME Typed, ReadNothing
    PROVE  Typed'
<1>1. /\ in # <<>> /\ in' = Tail(in)
      /\ UNCHANGED <<host, answer, out, fw, mem, late, tries>>
  BY DEF ReadNothing
<1>2. host' \in HostType /\ answer' \in AnswerType /\ Calls'
  BY <1>1 DEF Typed, Calls, Values
<1> QED
  BY <1>1, <1>2, TailTyped, ReceiveTyped

LEMMA ReadStatusTyped ==
    ASSUME Typed, ReadStatus
    PROVE  Typed'
<1>1. /\ in # <<>> /\ in' = Tail(in) /\ Return("idle", "OK", <<>>)
      /\ UNCHANGED <<out, fw, mem, late, tries>>
  BY DEF ReadStatus
<1>2. host' \in HostType /\ answer' \in AnswerType /\ Calls'
  BY <1>1, ReturnNothing DEF Ended
<1> QED
  BY <1>1, <1>2, TailTyped, ReceiveTyped

\* A transfer of usb_write: k units follow those that were sent before.
LEMMA WriteFacts ==
    ASSUME Typed, NEW k \in 1..Chunk, Write(k)
    PROVE  /\ host.stage = "write" /\ host.cmd = "set" /\ host.name \in Name
           /\ host.data \in Payload /\ host.done \in Nat
           /\ Units[host.name] \in Nat \ {0}
           /\ k \in Nat /\ k >= 1 /\ host.done + k <= Units[host.name]
           /\ out \in Seq(Items) /\ out' \in Seq(Items)
           /\ Len(out') = Len(out) + k /\ Len(out') <= OutRoom
           /\ \A i \in 1..Len(out) : out'[i] = out[i]
           /\ \A i \in 1..k : out'[Len(out) + i] = Unit(host.data, host.done + i)
           /\ UNCHANGED <<in, fw, mem, late, tries>>
           /\ \/ /\ host.done + k = Units[host.name]
                 /\ Return("idle", "OK", <<>>)
              \/ /\ host.done + k # Units[host.name] /\ UNCHANGED answer
                 /\ host' = [host EXCEPT !.done = host.done + k]
<1> USE DEF Typed
<1> DEFINE n == host.name
           s == Contents(n, host.data)
           t == SubSeq(s, host.done + 1, host.done + k)
<1>1. /\ host.stage = "write" /\ host.cmd = "set" /\ n \in Name
      /\ host.data \in Payload /\ host.done \in Nat
  BY DEF Write, Calls, Values, HostType
<1>2. Units[n] \in Nat \ {0} /\ k \in Nat /\ k >= 1
  BY <1>1, UnitsAssumption
<1>3. out \in Seq(Items) /\ Len(out) \in Nat
  BY DEF Values
<1>4. host.done + k <= Units[n] /\ k <= OutRoom - Len(out)
  <2>1. k <= Least(Least(Units[n] - host.done, Chunk), OutRoom - Len(out))
    BY DEF Write
  <2>2. Chunk \in Int /\ OutRoom \in Int
    BY UnitsAssumption
  <2> DEFINE a == Units[n] - host.done
             b == OutRoom - Len(out)
  <2>3. a \in Int /\ b \in Int
    BY <1>1, <1>2, <1>3, <2>2
  <2> HIDE DEF a, b
  <2>4. Least(Least(a, Chunk), b) <= b /\ Least(Least(a, Chunk), b) <= a
        /\ Least(Least(a, Chunk), b) \in Int
    BY <2>2, <2>3 DEF Least
  <2>5. k <= Least(Least(a, Chunk), b)
    BY <1>2, <2>1, <2>4 DEF a, b
  <2>6. k <= a /\ k <= b
    BY <1>2, <2>3, <2>4, <2>5
  <2> QED
    BY <1>1, <1>2, <1>3, <2>6 DEF a, b
<1>5. /\ s \in Seq(Items) /\ Len(s) = Units[n]
      /\ \A i \in 1..Units[n] : s[i] = Unit(host.data, i)
  BY <1>1, ContentTypes
<1>6. /\ t \in Seq(Items) /\ Len(t) = k
      /\ \A i \in 1..k : t[i] = Unit(host.data, host.done + i)
  <2> HIDE DEF s
  <2> DEFINE a == host.done + 1
             b == host.done + k
  <2>1. /\ a \in 1..Len(s) + 1 /\ b \in a - 1..Len(s) /\ b - a + 1 = k
    <3>1. /\ Len(s) \in Nat /\ host.done \in Nat /\ k \in Nat /\ k >= 1
          /\ host.done + k <= Len(s)
      BY <1>1, <1>2, <1>4, <1>5
    <3> HIDE DEF n
    <3> QED
      BY <3>1
  <2>2. /\ t \in Seq(Items) /\ Len(t) = k
        /\ \A i \in 1..k : t[i] = s[a + i - 1]
    <3>1. s \in Seq(Items)
      BY <1>5
    <3> HIDE DEF a, b
    <3> QED
      BY SMTT(20), <2>1, <3>1, SubPipe DEF t, a, b
  <2>4. \A i \in 1..k : (host.done + 1) + i - 1 = host.done + i
                        /\ host.done + i \in 1..Units[n]
    BY <1>1, <1>2, <1>4
  <2> HIDE DEF t, n
  <2> QED
    BY <1>2, <1>5, <2>2, <2>4
<1> HIDE DEF t, s, n
<1>7. /\ out' \in Seq(Items) /\ Len(out') = Len(out) + k
      /\ \A i \in 1..Len(out) : out'[i] = out[i]
      /\ \A i \in 1..k : out'[Len(out) + i] = t[i]
  <2>1. out' = out \o t
    BY DEF Write, t, s, n
  <2>2. /\ out \o t \in Seq(Items) /\ Len(out \o t) = Len(out) + k
        /\ \A i \in 1..Len(out) : (out \o t)[i] = out[i]
        /\ \A i \in 1..k : (out \o t)[Len(out) + i] = t[i]
    <3>1. out \in Seq(Items) /\ t \in Seq(Items)
      BY <1>3, <1>6
    <3>2. /\ out \o t \in Seq(Items) /\ Len(out \o t) = Len(out) + Len(t)
          /\ \A i \in 1..Len(out) : (out \o t)[i] = out[i]
          /\ \A i \in 1..Len(t) : (out \o t)[Len(out) + i] = t[i]
      BY <3>1, ConcatPipe
    <3>3. Len(t) = k
      BY <1>6
    <3> QED
      BY <3>2, <3>3
  <2> QED
    BY <2>1, <2>2
<1>8. Len(out') <= OutRoom
  <2>1. OutRoom \in Nat /\ Len(out') = Len(out) + k
    BY <1>7, UnitsAssumption
  <2> QED
    BY <1>2, <1>3, <1>4, <2>1
<1>9. /\ UNCHANGED <<in, fw, mem, late, tries>>
      /\ \/ host.done + k = Units[n] /\ Return("idle", "OK", <<>>)
         \/ /\ host.done + k # Units[n] /\ UNCHANGED answer
            /\ host' = [host EXCEPT !.done = host.done + k]
  BY DEF Write, n
<1> QED
  BY <1>1, <1>2, <1>3, <1>4, <1>6, <1>7, <1>8, <1>9 DEF n

LEMMA WriteTyped ==
    ASSUME Typed, NEW k \in 1..Chunk, Write(k)
    PROVE  Typed'
<1> USE DEF Typed
<1>1. /\ host.stage = "write" /\ host.cmd = "set" /\ host.name \in Name
      /\ host.data \in Payload /\ host.done \in Nat
      /\ Units[host.name] \in Nat \ {0}
      /\ k \in Nat /\ k >= 1 /\ host.done + k <= Units[host.name]
      /\ out \in Seq(Items) /\ out' \in Seq(Items)
      /\ Len(out') = Len(out) + k /\ Len(out') <= OutRoom
      /\ \A i \in 1..Len(out) : out'[i] = out[i]
      /\ \A i \in 1..k : out'[Len(out) + i] = Unit(host.data, host.done + i)
      /\ UNCHANGED <<in, fw, mem, late, tries>>
      /\ \/ Return("idle", "OK", <<>>)
         \/ /\ host.done + k # Units[host.name] /\ UNCHANGED answer
            /\ host' = [host EXCEPT !.done = host.done + k]
  BY WriteFacts
<1>2. host' \in HostType /\ answer' \in AnswerType /\ Calls'
  <2>1. CASE Return("idle", "OK", <<>>)
    BY <2>1, ReturnNothing DEF Ended
  <2>2. CASE /\ host.done + k # Units[host.name] /\ UNCHANGED answer
             /\ host' = [host EXCEPT !.done = host.done + k]
    <3>0. host.done + k \in Nat
      BY <1>1
    <3>1. /\ host' \in HostType /\ host'.stage = "write" /\ host'.cmd = "set"
          /\ host'.name = host.name /\ host'.data = host.data
          /\ host'.done = host.done + k
      <4>1. host \in HostType
        BY DEF Values
      <4> QED
        BY <1>1, <2>2, <3>0, <4>1 DEF HostType
    <3>2. host'.done < Units[host.name]
      <4>1. host.done + k < Units[host.name]
        <5>1. /\ Units[host.name] \in Nat /\ host.done \in Nat /\ k \in Nat
              /\ host.done + k <= Units[host.name]
          BY <1>1
        <5> QED
          BY <2>2, <5>1
      <4> QED
        BY <3>1, <4>1
    <3>3. Calls'
      BY <1>1, <3>1, <3>2 DEF Calls
    <3> QED
      BY <2>2, <3>1, <3>3 DEF Values
  <2> QED
    BY <1>1, <2>1, <2>2
<1>3. Named'
  <2>1. ASSUME NEW i \in DOMAIN out', out'[i].kind \in {"set", "get"}
        PROVE  out'[i].name \in Name
    <3>1. CASE i \in 1..Len(out)
      <4>1. i \in DOMAIN out /\ out'[i] = out[i]
        BY <1>1, <3>1
      <4> QED
        BY <2>1, <4>1 DEF Named
    <3>2. CASE i \notin 1..Len(out)
      <4>1. i - Len(out) \in 1..k /\ Len(out) + (i - Len(out)) = i
        BY <1>1, <3>2
      <4>2. out'[i] = Unit(host.data, host.done + (i - Len(out)))
            /\ host.done + (i - Len(out)) \in Nat
        BY <1>1, <4>1
      <4>3. out'[i].kind = "data"
        BY <1>1, <4>2, ItemTypes
      <4> QED
        BY <2>1, <4>3
    <3> QED
      BY <3>1, <3>2
  <2> QED
    BY <1>1, <2>1 DEF Named
<1> QED
  BY <1>1, <1>2, <1>3 DEF Values

\* A transfer of usb_read: k items follow those that were read before.
LEMMA ReadFacts ==
    ASSUME Typed, NEW k \in 1..Chunk, Read(k)
    PROVE  LET got == host.got \o SubSeq(in, 1, k) IN
           /\ host.stage = "read" /\ host.cmd = "get" /\ host.name \in Name
           /\ Units[host.name] \in Nat \ {0}
           /\ k \in Nat /\ k >= 1 /\ k <= Len(in)
           /\ Len(host.got) + k <= Units[host.name]
           /\ \A i \in 1..k : in[i] # NoBytes
           /\ in' \in Seq(Items) /\ Len(in') = Len(in) - k
           /\ \A i \in 1..Len(in) - k : in'[i] = in[k + i]
           /\ host.got \in Seq(Items) /\ got \in Seq(Items)
           /\ Len(got) = Len(host.got) + k
           /\ \A i \in 1..Len(host.got) : got[i] = host.got[i]
           /\ \A i \in 1..k : got[Len(host.got) + i] = in[i]
           /\ UNCHANGED <<out, fw, mem, late, tries>>
           /\ \/ Len(got) = Units[host.name] /\ Return("idle", "OK", got)
              \/ /\ Len(got) # Units[host.name] /\ UNCHANGED answer
                 /\ host' = [host EXCEPT !.got = got]
<1> USE UnitsAssumption DEF Typed
<1> DEFINE n == host.name
           t == SubSeq(in, 1, k)
           got == host.got \o t
<1>1. host.stage = "read" /\ host.cmd = "get" /\ n \in Name /\ host.got \in Seq(Items)
  BY DEF Read, Calls, Values, HostType
<1>2. /\ Units[n] \in Nat \ {0} /\ k \in Nat /\ k >= 1
      /\ in \in Seq(Items) /\ Len(in) \in Nat /\ Len(host.got) \in Nat
  BY <1>1 DEF Values
<1>3. k <= Len(in) /\ Len(host.got) + k <= Units[n]
  <2>1. k <= Least(Least(Units[n] - Len(host.got), Chunk), Len(in))
    BY DEF Read
  <2>2. Chunk \in Int
    BY UnitsAssumption
  <2> DEFINE a == Units[n] - Len(host.got)
             b == Len(in)
  <2>3. a \in Int /\ b \in Int
    BY <1>1, <1>2
  <2> HIDE DEF a, b
  <2>4. Least(Least(a, Chunk), b) <= b /\ Least(Least(a, Chunk), b) <= a
        /\ Least(Least(a, Chunk), b) \in Int
    BY <2>2, <2>3 DEF Least
  <2>5. k <= Least(Least(a, Chunk), b)
    BY <1>2, <2>1, <2>4 DEF a, b
  <2>6. k <= a /\ k <= b
    BY <1>2, <2>3, <2>4, <2>5
  <2> QED
    BY <1>1, <1>2, <2>6 DEF a, b
<1>4. t \in Seq(Items) /\ Len(t) = k /\ \A i \in 1..k : t[i] = in[i]
  <2>1. 1 \in 1..Len(in) + 1 /\ k \in 0..Len(in)
    BY <1>2, <1>3
  <2>2. /\ t \in Seq(Items) /\ Len(t) = k - 1 + 1
        /\ \A i \in 1..k - 1 + 1 : t[i] = in[1 + i - 1]
    BY <1>2, <2>1, SubPipe
  <2> HIDE DEF t
  <2>3. k - 1 + 1 = k /\ \A i \in 1..k : 1 + i - 1 = i
    BY <1>2
  <2> QED
    BY <2>2, <2>3
<1> HIDE DEF t
<1>5. /\ got \in Seq(Items) /\ Len(got) = Len(host.got) + k
      /\ \A i \in 1..Len(host.got) : got[i] = host.got[i]
      /\ \A i \in 1..k : got[Len(host.got) + i] = t[i]
  BY <1>1, <1>4, ConcatPipe
<1>6. /\ in' \in Seq(Items) /\ Len(in') = Len(in) - k
      /\ \A i \in 1..Len(in) - k : in'[i] = in[k + i]
  <2>1. in' = SubSeq(in, k + 1, Len(in))
    BY DEF Read
  <2>2. k + 1 \in 1..Len(in) + 1 /\ Len(in) \in k + 1 - 1..Len(in)
    BY <1>2, <1>3
  <2>3. /\ in' \in Seq(Items) /\ Len(in') = Len(in) - (k + 1) + 1
        /\ \A i \in 1..Len(in) - (k + 1) + 1 : in'[i] = in[(k + 1) + i - 1]
    BY <1>2, <2>1, <2>2, SubPipe
  <2>4. Len(in) - (k + 1) + 1 = Len(in) - k
    BY <1>2
  <2>5. \A i \in 1..Len(in) - k : (k + 1) + i - 1 = k + i
    BY <1>2
  <2> QED
    BY <2>3, <2>4, <2>5
<1>7. /\ UNCHANGED <<out, fw, mem, late, tries>>
      /\ \A i \in 1..k : in[i] # NoBytes
      /\ \/ Len(got) = Units[n] /\ Return("idle", "OK", got)
         \/ /\ Len(got) # Units[n] /\ UNCHANGED answer
            /\ host' = [host EXCEPT !.got = got]
  BY DEF Read, t
<1>8. got = host.got \o SubSeq(in, 1, k)
  BY DEF t
<1> HIDE DEF got
<1> QED
  BY <1>1, <1>2, <1>3, <1>4, <1>5, <1>6, <1>7, <1>8

LEMMA ReadTyped ==
    ASSUME Typed, NEW k \in 1..Chunk, Read(k)
    PROVE  Typed'
<1> USE DEF Typed
<1> DEFINE got == host.got \o SubSeq(in, 1, k)
<1>1. /\ host.stage = "read" /\ host.cmd = "get" /\ host.name \in Name
      /\ Units[host.name] \in Nat \ {0}
      /\ k \in Nat /\ Len(host.got) + k <= Units[host.name]
      /\ in' \in Seq(Items) /\ Len(in') = Len(in) - k
      /\ host.got \in Seq(Items) /\ got \in Seq(Items)
      /\ Len(got) = Len(host.got) + k
      /\ UNCHANGED <<out, fw, mem, late, tries>>
      /\ \/ Len(got) = Units[host.name] /\ Return("idle", "OK", got)
         \/ /\ Len(got) # Units[host.name] /\ UNCHANGED answer
            /\ host' = [host EXCEPT !.got = got]
  BY ReadFacts
<1> HIDE DEF got
<1>2. host' \in HostType /\ answer' \in AnswerType /\ Calls'
  <2>1. CASE Return("idle", "OK", got)
    BY <1>1, <2>1, ReturnTyped DEF Ended
  <2>2. CASE /\ Len(got) # Units[host.name] /\ UNCHANGED answer
             /\ host' = [host EXCEPT !.got = got]
    <3>1. /\ host' \in HostType /\ host'.stage = "read" /\ host'.cmd = "get"
          /\ host'.name = host.name /\ host'.data = host.data
          /\ host'.got = got
      BY <1>1, <2>2 DEF Values, HostType
    <3>2. Len(got) < Units[host.name]
      <4>1. Len(host.got) \in Nat
        BY <1>1
      <4> QED
        BY <1>1, <2>2, <4>1
    <3>3. Calls'
      BY <1>1, <3>1, <3>2 DEF Calls
    <3> QED
      BY <2>2, <3>1, <3>3 DEF Values
  <2> QED
    BY <1>1, <2>1, <2>2
<1>3. Len(in') <= Len(in)
  <2>1. Len(in) \in Nat
    BY DEF Values
  <2> QED
    BY <1>1, <2>1
<1> QED
  BY <1>1, <1>2, <1>3, ReceiveTyped

LEMMA TimeOutTyped ==
    ASSUME Typed, TimeOut
    PROVE  Typed'
<1>1. /\ late' = TRUE /\ Return("idle", "ERROR", <<>>)
      /\ UNCHANGED <<out, in, fw, mem, tries>>
  BY DEF TimeOut
<1>2. host' \in HostType /\ answer' \in AnswerType /\ Calls'
  BY <1>1, ReturnNothing DEF Ended
<1>3. Named'
  BY <1>1 DEF Named, Typed
<1>4. late' \in BOOLEAN
  BY <1>1
<1> QED
  BY <1>1, <1>2, <1>3, <1>4 DEF Typed, Values

LEMMA SendTyped ==
    ASSUME Typed, NEW m \in Seq(Items), Send(m)
    PROVE  in' \in Seq(Items) /\ Len(in') <= InRoom
<1>1. in \in Seq(Items) /\ Len(in) \in Nat /\ Len(m) \in Nat
  BY DEF Typed, Values
<1>2. InRoom \in Nat
  BY UnitsAssumption
<1>3. CASE Len(in) + Len(m) <= InRoom /\ in' = in \o m
  <2>1. in \o m \in Seq(Items) /\ Len(in \o m) = Len(in) + Len(m)
    BY <1>1, ConcatPipe
  <2> QED
    BY <1>3, <2>1
<1>4. CASE Len(in) + Len(m) < InRoom /\ in' = in \o Append(m, NoBytes)
  <2>1. Append(m, NoBytes) \in Seq(Items) /\ Len(Append(m, NoBytes)) = Len(m) + 1
    BY ItemTypes, AppendPipe
  <2>2. /\ in \o Append(m, NoBytes) \in Seq(Items)
        /\ Len(in \o Append(m, NoBytes)) = Len(in) + Len(Append(m, NoBytes))
    BY <1>1, <2>1, ConcatPipe
  <2> QED
    BY <1>1, <1>2, <1>4, <2>1, <2>2
<1> QED
  BY <1>3, <1>4 DEF Send

LEMMA TakeTyped ==
    ASSUME Typed, Take
    PROVE  /\ out' \in Seq(Items) /\ Len(out') <= OutRoom /\ Head(out) \in Items
           /\ Head(out).kind \in {"set", "get"} => Head(out).name \in Name
           /\ \A i \in DOMAIN out' :
                out'[i].kind \in {"set", "get"} => out'[i].name \in Name
<1> USE DEF Typed
<1>1. out \in Seq(Items) /\ out # <<>> /\ out' = Tail(out) /\ Len(out) \in Nat
  BY DEF Take, Values
<1>2. /\ Tail(out) \in Seq(Items) /\ Len(Tail(out)) = Len(out) - 1 /\ Len(out) >= 1
      /\ Head(out) = out[1] /\ Head(out) \in Items
      /\ \A i \in 1..Len(out) - 1 : Tail(out)[i] = out[i + 1]
  BY <1>1, TailPipe
<1>3. Len(out') <= OutRoom
  <2>1. OutRoom \in Nat /\ Len(out) <= OutRoom
    BY UnitsAssumption DEF Values
  <2> QED
    BY <1>1, <1>2, <2>1
<1>4. 1 \in DOMAIN out /\ \A i \in DOMAIN out' : i + 1 \in DOMAIN out /\ out'[i] = out[i + 1]
  BY <1>1, <1>2
<1> QED
  BY <1>1, <1>2, <1>3, <1>4 DEF Named

\* The stick is between messages or in a set, with a buffer it has room for.
LEMMA FwAnswerTyped ==
    ASSUME Typed, Take, NEW m \in Seq(Items), Send(m) \/ UNCHANGED in,
           fw' \in FwType,
           fw'.stage = "data" => fw'.name \in Name /\ Len(fw'.buf) < Units[fw'.name],
           fw'.stage = "header" => fw' = Resting,
           UNCHANGED <<host, answer, mem, late, tries>>
    PROVE  Typed'
<1> USE DEF Typed
<1>1. /\ out' \in Seq(Items) /\ Len(out') <= OutRoom
      /\ \A i \in DOMAIN out' :
           out'[i].kind \in {"set", "get"} => out'[i].name \in Name
  BY TakeTyped
<1>2. in' \in Seq(Items) /\ Len(in') <= InRoom
  <2>1. CASE Send(m)
    BY <2>1, SendTyped
  <2>2. CASE UNCHANGED in
    BY <2>2 DEF Values
  <2> QED
    BY <2>1, <2>2
<1>3. Named'
  BY <1>1 DEF Named
<1>4. Calls'
  BY DEF Calls
<1>5. Values'
  BY <1>1, <1>2 DEF Values
<1> QED
  BY <1>3, <1>4, <1>5

LEMMA MessageTypes ==
    /\ <<Permit>> \in Seq(Items) /\ <<Refusal>> \in Seq(Items)
    /\ <<Item("state")>> \in Seq(Items)
    /\ Len(<<Permit>>) = 1 /\ <<Permit>>[1] = Permit
BY ItemTypes

LEMMA RestingTyped ==
    /\ Resting \in FwType /\ Resting.stage = "header"
    /\ \A n \in Name : LET f == [Resting EXCEPT !.stage = "data", !.name = n] IN
         f \in FwType /\ f.stage = "data" /\ f.name = n /\ f.buf = <<>>
<1>1. Resting \in FwType /\ Resting.stage = "header" /\ Resting.buf = <<>>
  BY DEF Resting, FwType
<1> HIDE DEF Resting
<1> QED
  BY <1>1 DEF FwType

LEMMA FwSetTyped ==
    ASSUME Typed, FwSet
    PROVE  Typed'
<1> USE DEF Typed
<1> DEFINE n == Head(out).name
           f == [Resting EXCEPT !.stage = "data", !.name = n]
<1>1. /\ fw.stage = "header" /\ Take /\ Head(out).kind = "set"
      /\ UNCHANGED <<host, answer, mem, late, tries>>
  BY DEF FwSet
<1>2. n \in Name
  BY <1>1, TakeTyped
<1>3. f \in FwType /\ f.stage = "data" /\ f.name = n /\ f.buf = <<>>
  BY <1>2, RestingTyped
<1>4. CASE Send(<<Permit>>) /\ fw' = f
  <2>1. fw' \in FwType /\ fw'.stage = "data" /\ fw'.name \in Name
    BY <1>2, <1>3, <1>4
  <2>2. Len(fw'.buf) < Units[fw'.name]
    <3>1. fw'.name = n /\ Len(fw'.buf) = 0
      BY <1>3, <1>4
    <3>2. Units[n] \in Nat \ {0}
      BY <1>2, UnitsAssumption
    <3> QED
      BY <3>1, <3>2
  <2> QED
    BY <1>1, <1>4, <2>1, <2>2, MessageTypes, FwAnswerTyped
<1>5. CASE Send(<<Refusal>>) /\ UNCHANGED fw
  BY <1>1, <1>5, MessageTypes, FwAnswerTyped DEF Values, Named
<1> QED
  BY <1>4, <1>5 DEF FwSet

LEMMA FwGetTyped ==
    ASSUME Typed, FwGet
    PROVE  Typed'
<1> USE DEF Typed
<1> DEFINE m == <<Permit>> \o mem[Head(out).name]
<1>1. /\ Take /\ Head(out).kind = "get" /\ UNCHANGED <<host, answer, fw, mem, late, tries>>
      /\ Send(m) \/ Send(<<Refusal>>)
  BY DEF FwGet
<1>2. mem[Head(out).name] \in Seq(Items)
  BY <1>1, TakeTyped DEF Values
<1>3. m \in Seq(Items)
  BY <1>2, MessageTypes, ConcatPipe
<1> HIDE DEF m
<1> QED
  BY <1>1, <1>3, MessageTypes, FwAnswerTyped DEF Values, Named

LEMMA FwStatusTyped ==
    ASSUME Typed, FwStatus
    PROVE  Typed'
BY MessageTypes, FwAnswerTyped DEF FwStatus, Typed, Values, Named

LEMMA FwSkipTyped ==
    ASSUME Typed, FwSkip
    PROVE  Typed'
BY MessageTypes, FwAnswerTyped DEF FwSkip, Typed, Values, Named

LEMMA FwResetTyped ==
    ASSUME Typed, FwReset
    PROVE  Typed'
<1> USE DEF Typed
<1>1. /\ out' = <<>> /\ in' = <<>> /\ fw' = Resting /\ mem' = Blank
      /\ late' = FALSE /\ tries' = 0
      /\ host' = [NoCall EXCEPT !.stage = "closed"]
      /\ answer' = IF host.stage \in Ended THEN answer
                   ELSE [rc |-> "ERROR", data |-> <<>>]
  BY DEF FwReset
<1>2. /\ host' \in HostType /\ host'.stage = "closed" /\ host'.cmd = "reset"
      /\ host'.name = None
  BY <1>1, NoCallType DEF HostType, Stage
<1>3. Calls'
  BY <1>2 DEF Calls
<1>4. answer' \in AnswerType
  BY <1>1 DEF Values, AnswerType
<1>5. /\ fw' \in FwType /\ fw'.stage = "header" /\ mem' \in [Name -> Seq(Items)]
      /\ \A n \in Name : Len(mem'[n]) = Units[n]
  BY <1>1, RestingTyped, BlankTypes
<1>6. Named'
  BY <1>1, <1>5 DEF Named
<1>7. /\ out' \in Seq(Items) /\ Len(out') <= OutRoom
      /\ in' \in Seq(Items) /\ Len(in') <= InRoom /\ tries' \in 0..Retries
  <2>1. OutRoom \in Nat /\ InRoom \in Nat /\ Retries \in Nat
    BY UnitsAssumption
  <2> QED
    BY <1>1, <2>1
<1>8. late' \in BOOLEAN
  BY <1>1
<1> QED
  BY <1>2, <1>3, <1>4, <1>5, <1>6, <1>7, <1>8 DEF Values

LEMMA FwDataTyped ==
    ASSUME Typed, FwData
    PROVE  Typed'
<1> USE DEF Typed
<1> DEFINE n == fw.name
           b == Append(fw.buf, Head(out))
<1>1. /\ fw.stage = "data" /\ Take /\ UNCHANGED <<host, answer, in, late, tries>>
      /\ IF Len(b) = Units[n]
         THEN mem' = [mem EXCEPT ![n] = b] /\ fw' = Resting
         ELSE fw' = [fw EXCEPT !.buf = b] /\ UNCHANGED mem
  BY DEF FwData
<1>2. /\ n \in Name /\ fw.buf \in Seq(Items) /\ Len(fw.buf) < Units[n]
      /\ Units[n] \in Nat /\ fw \in FwType
  BY <1>1, UnitsAssumption DEF Named, Values, FwType
<1>3. b \in Seq(Items) /\ Len(b) = Len(fw.buf) + 1
  BY <1>1, <1>2, TakeTyped, AppendPipe
<1> HIDE DEF b
<1>4. CASE Len(b) # Units[n]
  <2>1. fw' = [fw EXCEPT !.buf = b] /\ UNCHANGED mem
    BY <1>1, <1>4
  <2>2. /\ fw' \in FwType /\ fw'.stage = "data" /\ fw'.name = n /\ fw'.buf = b
    BY <1>1, <1>2, <1>3, <2>1 DEF FwType
  <2>3. Len(b) < Units[n]
    <3>1. Len(fw.buf) \in Nat
      BY <1>2
    <3> QED
      BY <1>2, <1>3, <1>4, <3>1
  <2> QED
    BY <1>1, <1>2, <2>1, <2>2, <2>3, MessageTypes, FwAnswerTyped
<1>5. CASE Len(b) = Units[n]
  <2>1. mem' = [mem EXCEPT ![n] = b] /\ fw' = Resting
    BY <1>1, <1>5
  <2>2. /\ mem' \in [Name -> Seq(Items)] /\ \A x \in Name : Len(mem'[x]) = Units[x]
    BY <1>2, <1>3, <1>5, <2>1 DEF Values, Named
  <2>3. fw' \in FwType /\ fw'.stage = "header"
    BY <2>1, RestingTyped
  <2>4. /\ out' \in Seq(Items) /\ Len(out') <= OutRoom
        /\ \A i \in DOMAIN out' :
             out'[i].kind \in {"set", "get"} => out'[i].name \in Name
    BY <1>1, TakeTyped
  <2>5. Named' /\ Calls'
    BY <1>1, <2>1, <2>2, <2>3, <2>4 DEF Named, Calls
  <2> QED
    BY <1>1, <2>2, <2>3, <2>4, <2>5 DEF Values
<1> QED
  BY <1>4, <1>5

LEMMA NextTyped == Typed /\ [Next]_vars => Typed'
<1> SUFFICES ASSUME Typed, [Next]_vars
             PROVE  Typed'
    OBVIOUS
<1>1. CASE HostStep
  BY <1>1, HostStepTyped
<1>2. CASE Transfer
  BY <1>2, WriteHeaderTyped, ReadPermitTyped, ReadNothingTyped, ReadStatusTyped,
     WriteTyped, ReadTyped DEF Transfer
<1>3. CASE TimeOut
  BY <1>3, TimeOutTyped
<1>4. CASE Firmware
  BY <1>4, FwSetTyped, FwGetTyped, FwStatusTyped, FwResetTyped, FwSkipTyped,
     FwDataTyped DEF Firmware
<1>5. CASE UNCHANGED vars
  BY <1>5 DEF vars, Typed, Values, Calls, Named
<1> QED
  BY <1>1, <1>2, <1>3, <1>4, <1>5 DEF Next

\* A call past its header names a buffer and has not moved more units than
\* that buffer has, and so has the stick: every transfer stays within the
\* buffer and the pipe, time-outs and stray items included.
THEOREM TypeCorrect == Spec => []TypeOK
<1>1. Typed => TypeOK
  BY DEF Typed, Values, TypeOK, HostType, AnswerType, FwType
<1> QED
  BY <1>1, InitTyped, NextTyped, PTL DEF Spec
-----------------------------------------------------------------------------
(***************************************************************************)
(* Framing.  Transfers of no bytes may stand before and after a message.   *)
(***************************************************************************)
\* s is the message m with transfers of no bytes around it.
Carries(s, m) ==
    \E c \in 0..Len(s) - Len(m) :
      /\ \A i \in 1..c : s[i] = NoBytes
      /\ \A i \in 1..Len(m) : s[c + i] = m[i]
      /\ \A i \in c + Len(m) + 1..Len(s) : s[i] = NoBytes

Full(m) == \A i \in 1..Len(m) : m[i] # NoBytes

LEMMA CarriesNothing ==
    ASSUME NEW s \in Seq(Items)
    PROVE  Carries(s, <<>>) <=> \A i \in 1..Len(s) : s[i] = NoBytes
<1> DEFINE m == <<>>
<1>1. Len(m) = 0 /\ Len(s) \in Nat
  OBVIOUS
<1> HIDE DEF m
<1>2. ASSUME Carries(s, m)
      PROVE  \A i \in 1..Len(s) : s[i] = NoBytes
  <2> PICK c \in 0..Len(s) : /\ \A i \in 1..c : s[i] = NoBytes
                             /\ \A i \in c + 1..Len(s) : s[i] = NoBytes
    BY <1>1, <1>2 DEF Carries
  <2>1. \A i \in 1..Len(s) : i \in 1..c \/ i \in c + 1..Len(s)
    BY <1>1
  <2> QED
    BY <2>1
<1>3. ASSUME \A i \in 1..Len(s) : s[i] = NoBytes
      PROVE  Carries(s, m)
  <2>1. /\ 0 \in 0..Len(s) - Len(m)
        /\ \A i \in 1..0 : s[i] = NoBytes
        /\ \A i \in 1..Len(m) : s[0 + i] = m[i]
        /\ \A i \in 0 + Len(m) + 1..Len(s) : s[i] = NoBytes
    BY <1>1, <1>3
  <2> QED
    BY <2>1 DEF Carries
<1> QED
  BY <1>2, <1>3 DEF m

LEMMA NothingCarries == Carries(<<>>, <<>>)
<1>1. <<>> \in Seq(Items) /\ \A i \in 1..Len(<<>>) : FALSE
  OBVIOUS
<1>2. \A i \in 1..Len(<<>>) : <<>>[i] = NoBytes
  BY <1>1
<1> HIDE DEF Carries
<1> QED
  BY ONLY <1>1, <1>2, CarriesNothing

\* Behind transfers of no bytes a message stays a message.
LEMMA SendCarries ==
    ASSUME in \in Seq(Items), NEW m \in Seq(Items), Carries(in, <<>>), Send(m)
    PROVE  Carries(in', m)
<1>1. /\ Len(in) \in Nat /\ Len(m) \in Nat
      /\ \A i \in 1..Len(in) : in[i] = NoBytes
  BY CarriesNothing
<1>2. ASSUME NEW r \in Seq(Items), Len(r) \in {Len(m), Len(m) + 1},
             \A i \in 1..Len(m) : r[i] = m[i],
             Len(r) = Len(m) + 1 => r[Len(m) + 1] = NoBytes,
             in' = in \o r
      PROVE  Carries(in', m)
  <2>1. /\ Len(in \o r) = Len(in) + Len(r)
        /\ \A i \in 1..Len(in) : (in \o r)[i] = in[i]
        /\ \A i \in 1..Len(r) : (in \o r)[Len(in) + i] = r[i]
    BY <1>2, ConcatPipe
  <2>2. Len(in) \in 0..Len(in \o r) - Len(m)
    BY <1>1, <1>2, <2>1
  <2>3. \A i \in 1..Len(m) : (in \o r)[Len(in) + i] = m[i]
    BY <1>1, <1>2, <2>1
  <2>4. ASSUME NEW i \in Len(in) + Len(m) + 1..Len(in \o r)
        PROVE  (in \o r)[i] = NoBytes
    <3>1. /\ Len(r) = Len(m) + 1 /\ i = Len(in) + (Len(m) + 1)
          /\ Len(m) + 1 \in 1..Len(r)
      <4>1. Len(r) = Len(m) \/ Len(r) = Len(m) + 1
        BY <1>2
      <4>2. i \in Len(in) + Len(m) + 1..Len(in) + Len(r)
        BY <2>1, <2>4
      <4> QED
        BY SMTT(20), <1>1, <4>1, <4>2
    <3> QED
      BY <1>2, <2>1, <3>1
  <2>5. Carries(in \o r, m)
    <3> DEFINE c == Len(in)
    <3>1. c \in 0..Len(in \o r) - Len(m)
      BY <2>2
    <3>2. \A i \in 1..c : (in \o r)[i] = NoBytes
      BY <1>1, <2>1
    <3>3. \A i \in c + Len(m) + 1..Len(in \o r) : (in \o r)[i] = NoBytes
      BY <2>4
    <3> QED
      BY <2>3, <3>1, <3>2, <3>3 DEF Carries
  <2> QED
    BY <1>2, <2>5
<1>3. CASE in' = in \o m
  BY SMTT(20), <1>2, <1>3
<1>4. CASE in' = in \o Append(m, NoBytes)
  BY <1>1, <1>2, <1>4, ItemTypes, AppendPipe
<1> QED
  BY <1>3, <1>4 DEF Send

\* Reading a transfer of no bytes leaves the message, or nothing.
LEMMA TailCarries ==
    ASSUME NEW s \in Seq(Items), NEW m \in Seq(Items), Full(m), Carries(s, m),
           s # <<>>, Head(s) = NoBytes
    PROVE  Carries(Tail(s), m)
<1>1. /\ Tail(s) \in Seq(Items) /\ Len(Tail(s)) = Len(s) - 1 /\ Len(s) >= 1
      /\ s[1] = NoBytes /\ Len(s) \in Nat /\ Len(m) \in Nat
      /\ \A i \in 1..Len(s) - 1 : Tail(s)[i] = s[i + 1]
  BY TailPipe
<1> DEFINE t == Tail(s)
<1> HIDE DEF t
<1>2. PICK c \in 0..Len(s) - Len(m) :
        /\ \A i \in 1..c : s[i] = NoBytes
        /\ \A i \in 1..Len(m) : s[c + i] = m[i]
        /\ \A i \in c + Len(m) + 1..Len(s) : s[i] = NoBytes
  BY DEF Carries
<1>3. CASE c = 0
  <2>1. Len(m) = 0
    <3> SUFFICES ASSUME Len(m) # 0
                 PROVE  FALSE
        BY <1>1
    <3>1. 1 \in 1..Len(m) /\ 0 + 1 = 1
      BY <1>1
    <3>2. s[1] = m[1]
      BY <1>2, <1>3, <3>1
    <3> QED
      BY <1>1, <3>1, <3>2 DEF Full
  <2>2. m = <<>>
    BY <2>1
  <2>3. \A i \in 1..Len(t) : t[i] = NoBytes
    <3>1. ASSUME NEW i \in 1..Len(t)
          PROVE  t[i] = s[i + 1] /\ i + 1 \in c + Len(m) + 1..Len(s)
      BY <1>1, <1>3, <2>1 DEF t
    <3> QED
      BY <1>2, <3>1
  <2> QED
    BY <1>1, <2>2, <2>3, CarriesNothing DEF t
<1>4. CASE c # 0
  <2>1. c - 1 \in 0..Len(t) - Len(m)
    BY <1>1, <1>2, <1>4 DEF t
  <2>2. ASSUME NEW i \in 1..c - 1
        PROVE  t[i] = NoBytes
    <3>1. t[i] = s[i + 1] /\ i + 1 \in 1..c
      BY <1>1, <1>2, <2>2 DEF t
    <3> QED
      BY <1>2, <3>1
  <2>3. ASSUME NEW i \in 1..Len(m)
        PROVE  t[(c - 1) + i] = m[i]
    <3>1. (c - 1) + i \in 1..Len(s) - 1 /\ (c - 1) + i + 1 = c + i
      BY <1>1, <1>2, <1>4
    <3>2. t[(c - 1) + i] = s[c + i]
      BY <1>1, <3>1 DEF t
    <3> QED
      BY <1>2, <3>2
  <2>4. ASSUME NEW i \in (c - 1) + Len(m) + 1..Len(t)
        PROVE  t[i] = NoBytes
    <3>1. i \in 1..Len(s) - 1 /\ i + 1 \in c + Len(m) + 1..Len(s)
      BY <1>1, <1>2, <1>4, <2>4 DEF t
    <3>2. t[i] = s[i + 1]
      BY <1>1, <3>1 DEF t
    <3> QED
      BY <1>2, <3>1, <3>2
  <2>5. Carries(t, m)
    BY <2>1, <2>2, <2>3, <2>4 DEF Carries
  <2> QED
    BY <2>5 DEF t
<1> QED
  BY <1>3, <1>4

\* Items that are not transfers of no bytes are the first of the message; what
\* is left in the pipe carries what is left of it.
LEMMA TakeCarries ==
    ASSUME NEW s \in Seq(Items), NEW m \in Seq(Items), Carries(s, m),
           NEW k \in Nat, k >= 1, k <= Len(s), k <= Len(m),
           \A i \in 1..k : s[i] # NoBytes,
           NEW t \in Seq(Items), Len(t) = Len(s) - k,
           \A i \in 1..Len(s) - k : t[i] = s[k + i],
           NEW r \in Seq(Items), Len(r) = Len(m) - k,
           \A i \in 1..Len(m) - k : r[i] = m[k + i]
    PROVE  (\A i \in 1..k : s[i] = m[i]) /\ Carries(t, r)
<1>1. Len(s) \in Nat /\ Len(m) \in Nat
  OBVIOUS
<1>2. PICK c \in 0..Len(s) - Len(m) :
        /\ \A i \in 1..c : s[i] = NoBytes
        /\ \A i \in 1..Len(m) : s[c + i] = m[i]
        /\ \A i \in c + Len(m) + 1..Len(s) : s[i] = NoBytes
  BY DEF Carries
<1>3. c = 0
  <2> SUFFICES ASSUME c # 0
               PROVE  FALSE
      OBVIOUS
  <2>1. 1 \in 1..c /\ 1 \in 1..k
    BY <1>1, <1>2
  <2> QED
    BY <1>2, <2>1
<1>4. \A i \in 1..Len(m) : s[i] = m[i]
  <2>1. \A i \in 1..Len(m) : c + i = i
    BY <1>1, <1>3
  <2> QED
    BY <1>2, <2>1
<1>5. \A i \in 1..k : s[i] = m[i]
  BY <1>1, <1>4
<1>6. 0 \in 0..Len(t) - Len(r)
  BY <1>1, <1>2
<1>7. ASSUME NEW i \in 1..Len(r)
      PROVE  t[0 + i] = r[i]
  <2>1. /\ 0 + i = i /\ i \in 1..Len(s) - k /\ i \in 1..Len(m) - k
        /\ k + i \in 1..Len(m)
    BY <1>1, <1>2
  <2> QED
    BY <1>4, <2>1
<1>8. ASSUME NEW i \in 0 + Len(r) + 1..Len(t)
      PROVE  t[i] = NoBytes
  <2>1. i \in 1..Len(s) - k /\ k + i \in c + Len(m) + 1..Len(s)
    BY <1>1, <1>2, <1>3
  <2> QED
    BY <1>2, <2>1
<1>9. \A i \in 1..0 : t[i] = NoBytes
  OBVIOUS
<1>10. Carries(t, r)
  BY <1>6, <1>7, <1>8, <1>9 DEF Carries
<1> QED
  BY <1>5, <1>10

\* The first item of a pipe that is not a transfer of no bytes.
LEMMA HeadCarries ==
    ASSUME NEW s \in Seq(Items), NEW m \in Seq(Items), Carries(s, m),
           s # <<>>, Head(s) # NoBytes
    PROVE  m # <<>> /\ Head(s) = m[1] /\ Carries(Tail(s), Tail(m))
<1>1. /\ Tail(s) \in Seq(Items) /\ Len(Tail(s)) = Len(s) - 1 /\ Len(s) >= 1
      /\ Head(s) = s[1] /\ Len(s) \in Nat
      /\ \A i \in 1..Len(s) - 1 : Tail(s)[i] = s[i + 1]
  BY TailPipe
<1>2. m # <<>>
  <2>1. 1 \in 1..Len(s)
    BY <1>1
  <2> QED
    BY <1>1, <2>1, CarriesNothing
<1>3. /\ Tail(m) \in Seq(Items) /\ Len(Tail(m)) = Len(m) - 1 /\ Len(m) >= 1
      /\ \A i \in 1..Len(m) - 1 : Tail(m)[i] = m[i + 1]
  BY <1>2, TailPipe
<1>4. Len(m) \in Nat
  OBVIOUS
<1> DEFINE t == Tail(s)
           r == Tail(m)
<1>5. /\ \A i \in 1..1 : s[i] # NoBytes
      /\ \A i \in 1..Len(s) - 1 : t[i] = s[1 + i]
      /\ \A i \in 1..Len(m) - 1 : r[i] = m[1 + i]
  BY <1>1, <1>3, <1>4
<1>6. t \in Seq(Items) /\ r \in Seq(Items) /\ Len(t) = Len(s) - 1 /\ Len(r) = Len(m) - 1
  BY <1>1, <1>3
<1> HIDE DEF t, r
<1>7. (\A i \in 1..1 : s[i] = m[i]) /\ Carries(t, r)
  <2>1. 1 \in Nat /\ 1 >= 1 /\ 1 <= Len(s) /\ 1 <= Len(m)
    BY <1>1, <1>3, <1>4
  <2> QED
    BY ONLY <2>1, <1>5, <1>6, s \in Seq(Items), m \in Seq(Items), Carries(s, m),
            TakeCarries
<1> QED
  BY <1>1, <1>2, <1>7 DEF t, r
-----------------------------------------------------------------------------
(***************************************************************************)
(* The pipe to the stick: data, and at most one header behind it.          *)
(***************************************************************************)
LEMMA DataInPipe ==
    ASSUME NEW s \in Seq(Items)
    PROVE  /\ DataIn(s) \in Seq(Items)
           /\ ~Headed(s) => DataIn(s) = s
           /\ Headed(s) => Len(DataIn(s)) = Len(s) - 1 /\ Len(s) >= 1
           /\ \A i \in 1..Len(DataIn(s)) : DataIn(s)[i] = s[i]
<1>1. CASE ~Headed(s)
  BY <1>1 DEF DataIn
<1>2. CASE Headed(s)
  <2>1. Len(s) \in Nat /\ Len(s) >= 1
    BY <1>2 DEF Headed
  <2> DEFINE b == Len(s) - 1
  <2>2. 1 \in 1..Len(s) + 1 /\ b \in 1 - 1..Len(s) /\ b - 1 + 1 = b
    BY <2>1
  <2>3. DataIn(s) = SubSeq(s, 1, b)
    BY <1>2 DEF DataIn
  <2> HIDE DEF b
  <2>4. /\ SubSeq(s, 1, b) \in Seq(Items) /\ Len(SubSeq(s, 1, b)) = b
        /\ \A i \in 1..b : SubSeq(s, 1, b)[i] = s[1 + i - 1]
    BY <2>2, SubPipe
  <2>5. \A i \in 1..b : 1 + i - 1 = i
    BY <2>1 DEF b
  <2>6. Len(DataIn(s)) = Len(s) - 1
    BY <2>3, <2>4 DEF b
  <2> QED
    BY <1>2, <2>1, <2>3, <2>4, <2>5, <2>6
<1> QED
  BY <1>1, <1>2

LEMMA EmptyPipe == ~Headed(<<>>) /\ DataIn(<<>>) = <<>>
BY DEF Headed, DataIn

LEMMA HeaderGoesOut ==
    ASSUME NEW s \in Seq(Items), ~Headed(s), NEW x \in Items, x.kind # "data"
    PROVE  LET t == Append(s, x) IN
           Headed(t) /\ t[Len(t)] = x /\ DataIn(t) = DataIn(s)
<1> DEFINE t == Append(s, x)
<1>1. /\ t \in Seq(Items) /\ Len(t) = Len(s) + 1
      /\ \A i \in 1..Len(s) : t[i] = s[i]
      /\ t[Len(s) + 1] = x
  BY AppendPipe
<1>2. Len(s) \in Nat
  OBVIOUS
<1> HIDE DEF t
<1>3. Headed(t) /\ t[Len(t)] = x
  <2>1. t # <<>>
    BY <1>1, <1>2
  <2> QED
    BY <1>1, <2>1 DEF Headed
<1>4. DataIn(t) = s
  <2>1. /\ DataIn(t) \in Seq(Items) /\ Len(DataIn(t)) = Len(s)
        /\ \A i \in 1..Len(DataIn(t)) : DataIn(t)[i] = t[i]
    BY <1>1, <1>2, <1>3, DataInPipe
  <2>2. \A i \in 1..Len(DataIn(t)) : DataIn(t)[i] = s[i]
    BY <1>1, <2>1
  <2> QED
    BY <2>1, <2>2, EqualPipes
<1>5. DataIn(s) = s
  BY DataInPipe
<1> QED
  BY <1>3, <1>4, <1>5 DEF t

\* With no data on its way the stick finds one header.
LEMMA OneHeader ==
    ASSUME NEW s \in Seq(Items), s # <<>>, DataIn(s) = <<>>
    PROVE  Headed(s) /\ Head(s) = s[Len(s)] /\ Tail(s) = <<>>
<1>1. Headed(s)
  BY DataInPipe
<1>2. Len(DataIn(s)) = 0 /\ Len(s) \in Nat /\ Len(DataIn(s)) = Len(s) - 1
  BY <1>1, DataInPipe
<1>3. Len(s) = 1
  BY <1>2
<1> DEFINE t == Tail(s)
<1>4. Len(t) = 0 /\ t \in Seq(Items) /\ Head(s) = s[1]
  BY <1>3, TailPipe
<1> HIDE DEF t
<1>5. t = <<>>
  BY <1>4
<1> QED
  BY <1>1, <1>3, <1>4, <1>5 DEF t

\* With data on its way it finds the oldest of it.
LEMMA OldestData ==
    ASSUME NEW s \in Seq(Items), DataIn(s) # <<>>
    PROVE  /\ s # <<>> /\ Head(s) = Head(DataIn(s))
           /\ DataIn(Tail(s)) = Tail(DataIn(s))
           /\ Headed(Tail(s)) <=> Headed(s)
           /\ Headed(s) => Tail(s)[Len(Tail(s))] = s[Len(s)]
<1> DEFINE d == DataIn(s)
           t == Tail(s)
<1>1. s # <<>>
  BY EmptyPipe
<1>2. /\ t \in Seq(Items) /\ Len(t) = Len(s) - 1 /\ Len(s) >= 1 /\ Len(s) \in Nat
      /\ Head(s) = s[1] /\ \A i \in 1..Len(s) - 1 : t[i] = s[i + 1]
  BY <1>1, TailPipe
<1>3. /\ d \in Seq(Items)
      /\ ~Headed(s) => Len(d) = Len(s)
      /\ Headed(s) => Len(d) = Len(s) - 1
      /\ \A i \in 1..Len(d) : d[i] = s[i]
  BY DataInPipe
<1> HIDE DEF d, t
<1>4. /\ Tail(d) \in Seq(Items) /\ Len(Tail(d)) = Len(d) - 1 /\ Len(d) >= 1
      /\ Len(d) \in Nat /\ Head(d) = d[1]
      /\ \A i \in 1..Len(d) - 1 : Tail(d)[i] = d[i + 1]
  BY <1>3, TailPipe DEF d
<1>5. Head(s) = Head(d)
  <2>1. 1 \in 1..Len(d)
    BY <1>4
  <2> QED
    BY <1>2, <1>3, <1>4, <2>1
<1>6. Headed(s) => Len(s) >= 2
  BY <1>2, <1>3, <1>4
<1>7. Len(t) # 0 => t[Len(t)] = s[Len(s)]
  <2> SUFFICES ASSUME Len(t) # 0
               PROVE  t[Len(t)] = s[Len(s)]
      OBVIOUS
  <2>1. Len(s) - 1 \in 1..Len(s) - 1 /\ (Len(s) - 1) + 1 = Len(s)
    BY <1>2
  <2> QED
    BY <1>2, <2>1
<1>8. Headed(t) <=> Headed(s)
  <2>1. CASE Headed(s)
    <3>1. Len(t) # 0 /\ t # <<>>
      BY <1>2, <1>6, <2>1
    <3> QED
      BY <1>7, <2>1, <3>1 DEF Headed
  <2>2. CASE ~Headed(s)
    <3>1. t = <<>> \/ Len(t) # 0
      BY <1>2
    <3> QED
      BY <1>1, <1>7, <2>2, <3>1 DEF Headed
  <2> QED
    BY <2>1, <2>2
<1>9. DataIn(t) = Tail(d)
  <2>1. /\ DataIn(t) \in Seq(Items)
        /\ ~Headed(t) => Len(DataIn(t)) = Len(t)
        /\ Headed(t) => Len(DataIn(t)) = Len(t) - 1
        /\ \A i \in 1..Len(DataIn(t)) : DataIn(t)[i] = t[i]
    BY <1>2, DataInPipe
  <2>2. Len(DataIn(t)) = Len(d) - 1
    BY <1>2, <1>3, <1>8, <2>1
  <2>3. ASSUME NEW i \in 1..Len(DataIn(t))
        PROVE  DataIn(t)[i] = Tail(d)[i]
    <3>1. /\ i \in 1..Len(d) - 1 /\ i \in 1..Len(s) - 1 /\ i + 1 \in 1..Len(d)
      <4>1. Len(d) <= Len(s) /\ Len(d) \in Nat /\ Len(s) \in Nat
        <5>1. Len(d) \in Nat /\ Len(s) \in Nat
          BY <1>2, <1>4
        <5>2. Len(d) = Len(s) \/ Len(d) = Len(s) - 1
          BY <1>3
        <5> QED
          BY <5>1, <5>2
      <4> QED
        BY <2>2, <4>1
    <3> QED
      BY <1>2, <1>3, <1>4, <2>1, <3>1
  <2> QED
    BY <1>4, <2>1, <2>2, <2>3, EqualPipes
<1>10. Headed(s) => t[Len(t)] = s[Len(s)]
  BY <1>2, <1>6, <1>7
<1> QED
  BY <1>1, <1>5, <1>8, <1>9, <1>10 DEF d, t

\* The stick moves an item from the pipe to its buffer.
LEMMA MoveItem ==
    ASSUME NEW b \in Seq(Items), NEW d \in Seq(Items), d # <<>>
    PROVE  Append(b, Head(d)) \o Tail(d) = b \o d
<1>1. /\ Tail(d) \in Seq(Items) /\ Len(Tail(d)) = Len(d) - 1 /\ Len(d) >= 1
      /\ Head(d) = d[1] /\ Head(d) \in Items /\ Len(d) \in Nat /\ Len(b) \in Nat
      /\ \A i \in 1..Len(d) - 1 : Tail(d)[i] = d[i + 1]
  BY TailPipe
<1> DEFINE a == Append(b, Head(d))
           t == Tail(d)
<1>2. /\ a \in Seq(Items) /\ Len(a) = Len(b) + 1
      /\ \A i \in 1..Len(b) : a[i] = b[i]
      /\ a[Len(b) + 1] = d[1]
  BY <1>1, AppendPipe
<1>3. t \in Seq(Items) /\ Len(t) = Len(d) - 1 /\ \A i \in 1..Len(d) - 1 : t[i] = d[i + 1]
  BY <1>1
<1> HIDE DEF a, t
<1>4. /\ a \o t \in Seq(Items) /\ Len(a \o t) = Len(a) + Len(t)
      /\ \A i \in 1..Len(a) : (a \o t)[i] = a[i]
      /\ \A i \in 1..Len(t) : (a \o t)[Len(a) + i] = t[i]
  <2>1. a \in Seq(Items) /\ t \in Seq(Items)
    BY <1>2, <1>3
  <2> QED
    BY <2>1, ConcatPipe
<1>5. /\ b \o d \in Seq(Items) /\ Len(b \o d) = Len(b) + Len(d)
      /\ \A i \in 1..Len(b) : (b \o d)[i] = b[i]
      /\ \A i \in 1..Len(d) : (b \o d)[Len(b) + i] = d[i]
  BY ConcatPipe
<1>6. Len(a \o t) = Len(b \o d)
  BY <1>1, <1>2, <1>3, <1>4, <1>5
<1>7. ASSUME NEW i \in 1..Len(a \o t)
      PROVE  (a \o t)[i] = (b \o d)[i]
  <2>1. CASE i \in 1..Len(b)
    <3>1. i \in 1..Len(a)
      BY <1>1, <1>2, <2>1
    <3> QED
      BY <1>2, <1>4, <1>5, <2>1, <3>1
  <2>2. CASE i = Len(b) + 1
    <3>1. i \in 1..Len(a) /\ 1 \in 1..Len(d)
      BY <1>1, <1>2, <2>2
    <3> QED
      BY <1>2, <1>4, <1>5, <2>2, <3>1
  <2>3. CASE i > Len(b) + 1
    <3> DEFINE j == i - Len(a)
    <3>1. /\ j \in 1..Len(t) /\ j \in 1..Len(d) - 1 /\ i = Len(a) + j
          /\ j + 1 \in 1..Len(d) /\ i = Len(b) + (j + 1)
      BY <1>1, <1>2, <1>3, <1>4, <2>3
    <3> HIDE DEF j
    <3>2. (a \o t)[i] = t[j] /\ (b \o d)[i] = d[j + 1]
      BY <1>4, <1>5, <3>1
    <3> QED
      BY <1>3, <3>1, <3>2
  <2>4. i \in Nat /\ i >= 1
    BY <1>4
  <2>5. i \in 1..Len(b) \/ i = Len(b) + 1 \/ i > Len(b) + 1
    <3>1. Len(b) \in Nat
      OBVIOUS
    <3> QED
      BY <2>4, <3>1
  <2> QED
    BY <2>1, <2>2, <2>3, <2>5
<1>8. a \o t = b \o d
  BY <1>4, <1>5, <1>6, <1>7, EqualPipes
<1> QED
  BY <1>8 DEF a, t
-----------------------------------------------------------------------------
(***************************************************************************)
(* The invariant of a link that no transfer has timed out on.              *)
(***************************************************************************)
\* The host has sent a header that the stick has not read.
Unread == Headed(out)

IsData(g, p) == \A i \in 1..Len(g) : g[i] = Unit(p, i)

\* Only a call that waits has a header on its way, and a link that was closed
\* in step has a stick that has booted, or will.
OutFramed ==
    /\ Unread => /\ host.stage \in {"permit", "status", "closed"}
                 /\ out[Len(out)] = Header(host.cmd, host.name)
    /\ fw.stage = "header" => DataIn(out) = <<>>
    /\ host.stage = "closed" /\ ~Unread => fw.stage = "header" /\ mem = Blank

\* The stick is in the set of one payload, and gets it whole before anything
\* else.
SetFramed ==
    fw.stage = "data" =>
      /\ Len(Granted) <= Units[fw.name]
      /\ \E p \in Payload : IsData(Granted, p)
      /\ Unread \/ host.stage \notin {"permit", "write"} =>
           Len(Granted) = Units[fw.name]

\* What there is to read is the answer to the header that the stick has read.
InFramed ==
    /\ Unread \/ host.stage \in {"idle", "header", "closed", "write"} =>
         Carries(in, <<>>)
    /\ host.stage = "permit" /\ ~Unread =>
         \/ fw.stage = "header" /\ Carries(in, <<Refusal>>)
         \/ /\ fw.stage = "data" /\ fw.name = host.name /\ Granted = <<>>
            /\ host.cmd = "set" /\ Carries(in, <<Permit>>)
         \/ /\ fw.stage = "header" /\ host.cmd = "get"
            /\ Carries(in, <<Permit>> \o mem[host.name])
    /\ host.stage = "status" /\ ~Unread =>
         fw.stage = "header" /\ Carries(in, <<Item("state")>>)

\* A transfer that is under way, on both sides.
DataFramed ==
    /\ host.stage = "write" =>
         /\ fw.stage = "data" /\ fw.name = host.name
         /\ Len(Granted) = host.done /\ IsData(Granted, host.data)
    /\ host.stage = "read" =>
         /\ fw.stage = "header"
         /\ \A i \in 1..Len(host.got) : host.got[i] = mem[host.name][i]
         /\ \E r \in Seq(Items) :
              /\ Len(r) = Units[host.name] - Len(host.got)
              /\ \A i \in 1..Len(r) : r[i] = mem[host.name][Len(host.got) + i]
              /\ Carries(in, r)

MemFramed == \A n \in Name : \A i \in 1..Units[n] : mem[n][i].kind = "data"

Framed == OutFramed /\ SetFramed /\ InFramed /\ DataFramed /\ MemFramed

LEMMA ItemKinds ==
    /\ Permit # NoBytes /\ Refusal # NoBytes /\ Item("state") # NoBytes
    /\ Permit # Refusal /\ Permit # Item("state")
    /\ NoBytes.kind # "data"
BY DEF Permit, Refusal, NoBytes, Item

LEMMA FullMessages ==
    /\ Full(<<>>) /\ Full(<<Permit>>) /\ Full(<<Refusal>>) /\ Full(<<Item("state")>>)
BY ItemKinds DEF Full

LEMMA InitFramed == Init => Framed
<1> SUFFICES ASSUME Init
             PROVE  Framed
    OBVIOUS
<1>1. /\ host.stage = "idle" /\ out = <<>> /\ in = <<>> /\ mem = Blank
      /\ fw.stage = "header"
  BY NoCallType, RestingTyped DEF Init
<1>2. MemFramed
  <2>1. ASSUME NEW n \in Name, NEW i \in 1..Units[n]
        PROVE  Blank[n][i].kind = "data"
    <3>1. Blank[n][i] = Unit(None, i)
      BY ContentTypes DEF Blank
    <3>2. i \in Nat
      BY UnitsAssumption
    <3> QED
      BY <3>1, <3>2, ItemTypes
  <2> QED
    BY <1>1, <2>1 DEF MemFramed
<1>3. OutFramed
  BY <1>1, EmptyPipe DEF OutFramed, Unread
<1>4. Carries(in, <<>>)
  BY <1>1, NothingCarries
<1>5. InFramed
  BY <1>1, <1>4, EmptyPipe DEF InFramed, Unread
<1> QED
  BY <1>1, <1>2, <1>3, <1>5 DEF Framed, SetFramed, DataFramed

\* A step that changes neither pipe nor the stick.
LEMMA CallFramed ==
    ASSUME Typed, Framed, HostStep, late = FALSE
    PROVE  Framed'
<1>1. CASE Open
  <2>1. /\ host.stage = "closed" /\ host'.stage = "idle" /\ out = <<>>
        /\ UNCHANGED <<out, in, fw, mem>>
    BY <1>1, NoCallType DEF Open
  <2>2. ~Unread /\ ~Unread' /\ fw.stage = "header"
    BY <2>1, EmptyPipe DEF Unread, Framed, OutFramed
  <2>3. OutFramed'
    BY <2>1, <2>2, EmptyPipe DEF OutFramed
  <2>4. InFramed' /\ SetFramed' /\ DataFramed'
    BY <2>1, <2>2 DEF Framed, InFramed, SetFramed, DataFramed
  <2> QED
    BY <2>1, <2>3, <2>4 DEF Framed, MemFramed
<1>2. CASE SetData \/ GetData \/ GetMyriadStatus \/ ResetMyriad
  <2>1. host.stage = "idle" /\ UNCHANGED <<out, in, fw, mem>>
    BY <1>2 DEF SetData, GetData, GetMyriadStatus, ResetMyriad, Call
  <2>2. host'.stage = "header"
    <3>1. ASSUME NEW c, NEW n, NEW p, Call(c, n, p)
          PROVE  host'.stage = "header"
      BY <3>1, NoCallType DEF Call, HostType
    <3> QED
      BY <1>2, <3>1 DEF SetData, GetData, GetMyriadStatus, ResetMyriad
  <2>3. ~Unread /\ ~Unread'
    BY <2>1 DEF Framed, OutFramed, Unread
  <2>4. OutFramed'
    BY <2>1, <2>2, <2>3 DEF Framed, OutFramed
  <2>5. Granted' = Granted
    BY <2>1 DEF Granted
  <2>6. SetFramed'
    BY <2>1, <2>2, <2>3, <2>5 DEF Framed, SetFramed
  <2>7. InFramed' /\ DataFramed'
    BY <2>1, <2>2, <2>3 DEF Framed, InFramed, DataFramed
  <2> QED
    BY <2>1, <2>4, <2>6, <2>7 DEF Framed, MemFramed
<1> QED
  BY <1>1, <1>2 DEF HostStep

\* The header goes out behind the data of the set before, if any.
LEMMA WriteHeaderFramed ==
    ASSUME Typed, Framed, WriteHeader
    PROVE  Framed'
<1> DEFINE x == Header(host.cmd, host.name)
<1>1. /\ host.stage = "header" /\ out' = Append(out, x) /\ UNCHANGED <<in, fw, mem>>
      /\ host.cmd \in Command /\ host.name \in Name \cup {None} /\ out \in Seq(Items)
      /\ host \in HostType
  BY DEF WriteHeader, Typed, Values, HostType
<1>2. ~Unread
  BY <1>1 DEF Framed, OutFramed
<1>3. x \in Items /\ x.kind # "data"
  BY <1>1, ItemTypes DEF Command
<1>4. Unread' /\ out'[Len(out')] = x /\ DataIn(out') = DataIn(out)
  <2> HIDE DEF x
  <2> QED
    BY <1>1, <1>2, <1>3, HeaderGoesOut DEF Unread
<1>5. /\ host'.stage \in {"permit", "status", "closed"}
      /\ host'.cmd = host.cmd /\ host'.name = host.name
  <2>1. CASE host.cmd = "reset"
    <3>1. host' = [NoCall EXCEPT !.stage = "closed"] /\ host.name = None
      BY <1>1, <2>1 DEF WriteHeader, Return, Typed, Calls
    <3> QED
      BY <2>1, <3>1, NoCallType DEF HostType
  <2>2. CASE Goto("status") \/ Goto("permit")
    BY <1>1, <2>2 DEF Goto, HostType
  <2> QED
    BY <2>1, <2>2 DEF WriteHeader
<1>6. OutFramed'
  BY <1>1, <1>4, <1>5 DEF Framed, OutFramed
<1>7. Granted' = Granted
  BY <1>1, <1>4 DEF Granted
<1>8. SetFramed'
  BY <1>1, <1>2, <1>7 DEF Framed, SetFramed
<1>9. InFramed' /\ DataFramed'
  BY <1>1, <1>4, <1>5 DEF Framed, InFramed, DataFramed
<1> QED
  BY <1>1, <1>6, <1>8, <1>9 DEF Framed, MemFramed

\* A transfer of no bytes is read: the call goes round again.
LEMMA NoBytesFramed ==
    ASSUME Typed, Framed, in # <<>>, Head(in) = NoBytes, in' = Tail(in),
           UNCHANGED <<host, out, fw, mem>>
    PROVE  Framed'
<1>1. in \in Seq(Items)
  BY DEF Typed, Values
<1>2. ASSUME NEW m \in Seq(Items), Full(m), Carries(in, m)
      PROVE  Carries(in', m)
  BY <1>1, <1>2, TailCarries
<1>3. <<>> \in Seq(Items)
  OBVIOUS
<1>4. Unread' = Unread /\ Granted' = Granted
  BY DEF Unread, Granted
<1>5. OutFramed' /\ SetFramed' /\ MemFramed'
  BY <1>4 DEF Framed, OutFramed, SetFramed, MemFramed
<1>6. ASSUME host.stage = "permit", host.cmd = "get",
             Carries(in, <<Permit>> \o mem[host.name])
      PROVE  Carries(in', <<Permit>> \o mem[host.name])
  <2> DEFINE m == <<Permit>> \o mem[host.name]
  <2>1. /\ host.name \in Name /\ mem[host.name] \in Seq(Items)
        /\ Len(mem[host.name]) = Units[host.name]
    BY <1>6 DEF Typed, Values, Calls, Named
  <2>2. /\ m \in Seq(Items) /\ Len(m) = 1 + Units[host.name] /\ m[1] = Permit
        /\ \A i \in 1..Units[host.name] : m[1 + i] = mem[host.name][i]
    BY <2>1, MessageTypes, ConcatPipe
  <2>3. Units[host.name] \in Nat
    BY <2>1, UnitsAssumption
  <2> HIDE DEF m
  <2>4. ASSUME NEW i \in 1..Len(m)
        PROVE  m[i] # NoBytes
    <3>1. CASE i = 1
      BY <2>2, <3>1, ItemKinds
    <3>2. CASE i # 1
      <4>1. i - 1 \in 1..Units[host.name] /\ 1 + (i - 1) = i
        BY <2>2, <2>3, <3>2
      <4>2. m[i] = mem[host.name][i - 1] /\ mem[host.name][i - 1].kind = "data"
        BY <2>1, <2>2, <4>1 DEF Framed, MemFramed
      <4> QED
        BY <4>2, ItemKinds
    <3> QED
      BY <3>1, <3>2
  <2>5. Full(m)
    BY <2>4 DEF Full
  <2> QED
    BY <1>2, <1>6, <2>2, <2>5 DEF m
<1>7. InFramed'
  BY <1>2, <1>3, <1>4, <1>6, FullMessages, MessageTypes DEF Framed, InFramed
<1>8. DataFramed'
  <2>1. CASE host.stage = "read"
    <3> PICK r \in Seq(Items) :
          /\ Len(r) = Units[host.name] - Len(host.got)
          /\ \A i \in 1..Len(r) : r[i] = mem[host.name][Len(host.got) + i]
          /\ Carries(in, r)
      BY <2>1 DEF Framed, DataFramed
    <3>1. /\ host.name \in Name /\ Units[host.name] \in Nat /\ Len(host.got) \in Nat
          /\ Len(host.got) < Units[host.name]
      <4>1. host.name \in Name /\ host.got \in Seq(Items)
            /\ Len(host.got) < Units[host.name]
        BY <2>1 DEF Typed, Values, Calls, HostType
      <4> QED
        BY <4>1, UnitsAssumption
    <3>2. \A i \in 1..Len(r) : Len(host.got) + i \in 1..Units[host.name]
      BY <3>1
    <3>3. Full(r)
      BY <3>1, <3>2, ItemKinds DEF Full, Framed, MemFramed
    <3>4. Carries(in', r)
      BY <1>2, <3>3
    <3> QED
      BY <2>1, <3>4 DEF Framed, DataFramed
  <2>2. CASE host.stage # "read"
    BY <1>4, <2>2 DEF Framed, DataFramed
  <2> QED
    BY <2>1, <2>2
<1> QED
  BY <1>5, <1>7, <1>8 DEF Framed

\* The answer to a header, and the first item of what follows it.
LEMMA AnswerFacts ==
    ASSUME Typed, Framed, host.stage \in {"permit", "status"}, in # <<>>,
           Head(in) # NoBytes
    PROVE  /\ ~Unread
           /\ host.stage = "status" => fw.stage = "header" /\ Carries(Tail(in), <<>>)
           /\ host.stage = "permit" =>
                \/ /\ Head(in) = Refusal /\ fw.stage = "header"
                   /\ Carries(Tail(in), <<>>)
                \/ /\ Head(in) = Permit /\ host.cmd = "set" /\ fw.stage = "data"
                   /\ fw.name = host.name /\ Granted = <<>>
                   /\ Carries(Tail(in), <<>>)
                \/ /\ Head(in) = Permit /\ host.cmd = "get" /\ fw.stage = "header"
                   /\ Carries(Tail(in), mem[host.name])
<1>1. in \in Seq(Items)
  BY DEF Typed, Values
<1>2. ASSUME NEW m \in Seq(Items), Carries(in, m)
      PROVE  m # <<>> /\ Head(in) = m[1] /\ Carries(Tail(in), Tail(m))
  BY <1>1, <1>2, HeadCarries
<1>3. ~Unread
  <2>1. <<>> \in Seq(Items)
    OBVIOUS
  <2> QED
    BY <1>2, <2>1 DEF Framed, InFramed
<1>4. ASSUME NEW x \in Items, Carries(in, <<x>>)
      PROVE  Head(in) = x /\ Carries(Tail(in), <<>>)
  <2>1. <<x>> \in Seq(Items) /\ <<x>>[1] = x /\ Tail(<<x>>) = <<>>
    OBVIOUS
  <2> QED
    BY <1>2, <1>4, <2>1
<1>5. ASSUME host.stage = "permit", host.cmd = "get",
             Carries(in, <<Permit>> \o mem[host.name])
      PROVE  Head(in) = Permit /\ Carries(Tail(in), mem[host.name])
  <2> DEFINE s == mem[host.name]
             m == <<Permit>> \o s
  <2>1. s \in Seq(Items) /\ Len(s) \in Nat
    BY <1>5 DEF Typed, Values, Calls
  <2>2. /\ m \in Seq(Items) /\ Len(m) = 1 + Len(s) /\ m[1] = Permit
        /\ \A i \in 1..Len(s) : m[1 + i] = s[i]
    BY <2>1, MessageTypes, ConcatPipe
  <2> HIDE DEF s, m
  <2>3. m # <<>>
    BY <2>1, <2>2
  <2>4. /\ Tail(m) \in Seq(Items) /\ Len(Tail(m)) = Len(m) - 1
        /\ \A i \in 1..Len(m) - 1 : Tail(m)[i] = m[i + 1]
    BY <2>2, <2>3, TailPipe
  <2> DEFINE t == Tail(m)
  <2>5. t \in Seq(Items) /\ Len(t) = Len(s) /\ \A i \in 1..Len(s) : t[i] = m[i + 1]
    BY <2>1, <2>2, <2>4
  <2> HIDE DEF t
  <2>6. \A i \in 1..Len(s) : t[i] = s[i]
    <3>1. \A i \in 1..Len(s) : i + 1 = 1 + i
      BY <2>1
    <3> QED
      BY <2>2, <2>5, <3>1
  <2>7. t = s
    BY <2>1, <2>5, <2>6, EqualPipes
  <2> QED
    BY <1>2, <1>5, <2>2, <2>7 DEF t, m, s
<1>6. host.stage = "permit" =>
        \/ fw.stage = "header" /\ Carries(in, <<Refusal>>)
        \/ /\ fw.stage = "data" /\ fw.name = host.name /\ Granted = <<>>
           /\ host.cmd = "set" /\ Carries(in, <<Permit>>)
        \/ /\ fw.stage = "header" /\ host.cmd = "get"
           /\ Carries(in, <<Permit>> \o mem[host.name])
  BY <1>3 DEF Framed, InFramed
<1>7. host.stage = "status" => fw.stage = "header" /\ Carries(in, <<Item("state")>>)
  BY <1>3 DEF Framed, InFramed
<1> QED
  BY <1>3, <1>4, <1>5, <1>6, <1>7, ItemTypes

\* The call that was waiting ends, and the stick expects a header.
LEMMA ReturnFramed ==
    ASSUME Typed, Framed, ~Unread, fw.stage = "header", host'.stage = "idle",
           Carries(in', <<>>), UNCHANGED <<out, fw, mem>>
    PROVE  Framed'
<1>1. Unread' = Unread /\ Granted' = Granted
  BY DEF Unread, Granted
<1> QED
  BY <1>1 DEF Framed, OutFramed, SetFramed, InFramed, DataFramed, MemFramed

LEMMA ReadPermitFramed ==
    ASSUME Typed, Framed, ReadPermit
    PROVE  Framed'
<1>1. /\ host.stage = "permit" /\ in # <<>> /\ in' = Tail(in)
      /\ UNCHANGED <<out, fw, mem>> /\ host \in HostType
      /\ host.done = 0 /\ host.got = <<>> /\ host.cmd \in {"set", "get"}
      /\ host.name \in Name
  BY DEF ReadPermit, Typed, Values, Calls
<1>2. CASE Head(in) = NoBytes
  <2>1. UNCHANGED host
    BY <1>2, ItemKinds DEF ReadPermit
  <2> QED
    BY <1>1, <1>2, <2>1, NoBytesFramed
<1>3. CASE Head(in) # NoBytes
  <2>1. ~Unread /\ ~Unread' /\ Granted' = Granted
    BY <1>1, <1>3, AnswerFacts DEF Unread, Granted
  <2>2. CASE Head(in) = Refusal /\ fw.stage = "header" /\ Carries(Tail(in), <<>>)
    <3>1. Return("idle", "ERROR", <<>>)
      BY <2>2, ItemKinds DEF ReadPermit
    <3>2. host'.stage = "idle"
      BY <3>1, ReturnNothing DEF Ended
    <3> QED
      BY <1>1, <2>1, <2>2, <3>2, ReturnFramed
  <2>3. CASE /\ Head(in) = Permit /\ host.cmd = "set" /\ fw.stage = "data"
             /\ fw.name = host.name /\ Granted = <<>> /\ Carries(Tail(in), <<>>)
    <3>1. Goto("write")
      BY <2>3, ItemKinds DEF ReadPermit
    <3>2. /\ host'.stage = "write" /\ host'.name = host.name /\ host'.done = 0
          /\ host'.data = host.data
      BY <1>1, <3>1 DEF Goto, HostType
    <3>3. Len(Granted) = 0
      BY <2>3
    <3>4. DataFramed'
      BY <1>1, <2>1, <2>3, <3>2, <3>3 DEF DataFramed, IsData
    <3>5. InFramed' /\ OutFramed'
      BY <1>1, <2>1, <2>3, <3>2 DEF InFramed, OutFramed
    <3>6. SetFramed'
      BY <1>1, <2>1, <3>2 DEF Framed, SetFramed
    <3> QED
      BY <1>1, <3>4, <3>5, <3>6 DEF Framed, MemFramed
  <2>4. CASE /\ Head(in) = Permit /\ host.cmd = "get" /\ fw.stage = "header"
             /\ Carries(Tail(in), mem[host.name])
    <3>1. Goto("read")
      BY <2>4, ItemKinds DEF ReadPermit
    <3>2. /\ host'.stage = "read" /\ host'.name = host.name /\ host'.got = <<>>
      BY <1>1, <3>1 DEF Goto, HostType
    <3>3. /\ mem[host.name] \in Seq(Items) /\ Units[host.name] \in Nat
          /\ Len(mem[host.name]) = Units[host.name]
      BY <1>1, UnitsAssumption DEF Typed, Values, Named
    <3>4. DataFramed'
      <4> DEFINE r == mem[host.name]
      <4>1. /\ r \in Seq(Items) /\ Carries(in', r) /\ Len(host'.got) = 0
            /\ Len(r) = Units[host'.name] - Len(host'.got)
            /\ \A i \in 1..Len(r) : r[i] = mem'[host'.name][Len(host'.got) + i]
            /\ \A i \in 1..Len(host'.got) : host'.got[i] = mem'[host'.name][i]
        BY <1>1, <2>4, <3>2, <3>3
      <4>2. fw'.stage = "header" /\ host'.stage # "write"
        BY <1>1, <2>4, <3>2
      <4> HIDE DEF r
      <4> QED
        BY <4>1, <4>2 DEF DataFramed
    <3>5. InFramed' /\ OutFramed' /\ SetFramed'
      BY <1>1, <2>1, <2>4, <3>2 DEF Framed, InFramed, OutFramed, SetFramed
    <3> QED
      BY <1>1, <3>4, <3>5 DEF Framed, MemFramed
  <2> QED
    BY <1>1, <1>3, <2>2, <2>3, <2>4, AnswerFacts
<1> QED
  BY <1>2, <1>3

LEMMA ReadStatusFramed ==
    ASSUME Typed, Framed, ReadStatus \/ ReadNothing
    PROVE  Framed'
<1>1. CASE ReadStatus
  <2>1. /\ host.stage = "status" /\ in # <<>> /\ Head(in) # NoBytes /\ in' = Tail(in)
        /\ Return("idle", "OK", <<>>) /\ UNCHANGED <<out, fw, mem>>
    BY <1>1 DEF ReadStatus
  <2>2. ~Unread /\ fw.stage = "header" /\ Carries(in', <<>>)
    BY <2>1, AnswerFacts
  <2>3. host'.stage = "idle"
    BY <2>1, ReturnNothing DEF Ended
  <2> QED
    BY <2>1, <2>2, <2>3, ReturnFramed
<1>2. CASE ReadNothing
  <2>1. /\ in # <<>> /\ Head(in) = NoBytes /\ in' = Tail(in)
        /\ UNCHANGED <<host, out, fw, mem>>
    BY <1>2 DEF ReadNothing
  <2> QED
    BY <2>1, NoBytesFramed
<1> QED
  BY <1>1, <1>2

\* The data of the set after a transfer of usb_write.
LEMMA WriteGranted ==
    ASSUME Typed, Framed, NEW k \in 1..Chunk, Write(k)
    PROVE  /\ ~Unread /\ ~Unread' /\ fw.stage = "data" /\ fw.name = host.name
           /\ Len(Granted') = host.done + k /\ IsData(Granted', host.data)
           /\ Len(Granted) = host.done /\ Granted' \in Seq(Items)
<1>1. /\ host.stage = "write" /\ host.data \in Payload /\ host.done \in Nat
      /\ k \in Nat /\ k >= 1
      /\ out \in Seq(Items) /\ out' \in Seq(Items) /\ Len(out') = Len(out) + k
      /\ UNCHANGED fw
  BY WriteFacts
<1>2. /\ \A i \in 1..Len(out) : out'[i] = out[i]
      /\ \A i \in 1..k : out'[Len(out) + i] = Unit(host.data, host.done + i)
  BY WriteFacts
<1>3. /\ ~Unread /\ fw.stage = "data" /\ fw.name = host.name
      /\ Len(Granted) = host.done /\ IsData(Granted, host.data)
  BY <1>1 DEF Framed, OutFramed, DataFramed
<1>4. Len(out) \in Nat
  BY <1>1
<1>5. ~Unread'
  <2>1. out'[Len(out) + k] = Unit(host.data, host.done + k)
    <3>1. k \in 1..k
      BY <1>1
    <3> QED
      BY <1>2, <3>1
  <2>2. host.done + k \in Nat
    BY <1>1
  <2>3. out'[Len(out')].kind = "data"
    BY <1>1, <2>1, <2>2, ItemTypes
  <2> QED
    BY <2>3 DEF Unread, Headed
<1>6. DataIn(out) = out /\ DataIn(out') = out'
  BY <1>1, <1>3, <1>5, DataInPipe DEF Unread
<1>7. fw.buf \in Seq(Items) /\ Granted = fw.buf \o out /\ Granted' = fw.buf \o out'
  BY <1>1, <1>6 DEF Granted, Typed, Values, FwType
<1> DEFINE b == fw.buf
           o == out'
           g == b \o out
           h == b \o o
<1>8. /\ g \in Seq(Items) /\ Len(g) = Len(b) + Len(out)
      /\ \A i \in 1..Len(b) : g[i] = b[i]
      /\ \A i \in 1..Len(out) : g[Len(b) + i] = out[i]
  BY <1>1, <1>7, ConcatPipe
<1>9. /\ h \in Seq(Items) /\ Len(h) = Len(b) + Len(o)
      /\ \A i \in 1..Len(b) : h[i] = b[i]
      /\ \A i \in 1..Len(o) : h[Len(b) + i] = o[i]
  <2>1. b \in Seq(Items) /\ o \in Seq(Items)
    BY <1>1, <1>7
  <2> HIDE DEF b, o
  <2> QED
    BY <2>1, ConcatPipe
<1>10. Len(b) \in Nat /\ Len(b) + Len(out) = host.done /\ Len(o) = Len(out) + k
  BY <1>1, <1>3, <1>7, <1>8
<1>11. o = out' /\ g = Granted /\ h = Granted'
  BY <1>7
<1> HIDE DEF b, o, g, h
<1>12. Len(h) = host.done + k
  BY <1>1, <1>4, <1>9, <1>10
<1>13. ASSUME NEW i \in 1..Len(h)
       PROVE  h[i] = Unit(host.data, i)
  <2>0. i \in Nat /\ i >= 1 /\ i <= host.done + k
    BY <1>1, <1>12
  <2>1. CASE i \in 1..Len(b)
    <3>1. i \in 1..Len(g)
      BY <1>4, <1>8, <1>10, <2>1
    <3>2. h[i] = g[i]
      BY <1>8, <1>9, <2>1
    <3> QED
      BY <1>3, <1>11, <3>1, <3>2 DEF IsData
  <2>2. CASE i > Len(b) /\ i <= host.done
    <3> DEFINE j == i - Len(b)
    <3>1. /\ j \in 1..Len(out) /\ j \in 1..Len(o) /\ i = Len(b) + j
          /\ i \in 1..Len(g)
      BY <1>1, <1>4, <1>8, <1>10, <2>0, <2>2
    <3> HIDE DEF j
    <3>2. h[i] = o[j] /\ g[i] = out[j]
      BY <1>8, <1>9, <3>1
    <3>3. h[i] = g[i]
      BY <1>2, <1>11, <3>1, <3>2
    <3> QED
      BY <1>3, <1>11, <3>1, <3>3 DEF IsData
  <2>3. CASE i > host.done
    <3> DEFINE j == i - host.done
    <3>1. /\ j \in 1..k /\ Len(out) + j \in 1..Len(o)
          /\ i = Len(b) + (Len(out) + j) /\ i = host.done + j
      <4>1. host.done \in Nat /\ k \in Nat
        BY <1>1
      <4>2. j \in 1..k /\ i = host.done + j
        BY <4>1, <2>0, <2>3
      <4>3. Len(b) \in Nat /\ Len(b) + Len(out) = host.done /\ Len(o) = Len(out) + k
        BY <1>10
      <4> HIDE DEF j
      <4>4. Len(out) + j \in 1..Len(o)
        BY <4>1, <4>2, <4>3, <1>4
      <4>5. i = Len(b) + (Len(out) + j)
        BY <4>1, <4>2, <4>3, <1>4
      <4> QED
        BY <4>2, <4>4, <4>5
    <3> HIDE DEF j
    <3>2. h[i] = o[Len(out) + j]
      BY <1>9, <3>1
    <3> QED
      BY <1>2, <1>11, <3>1, <3>2
  <2> QED
    BY <1>1, <1>10, <2>0, <2>1, <2>2, <2>3
<1> QED
  BY <1>3, <1>5, <1>9, <1>11, <1>12, <1>13 DEF IsData

LEMMA WriteFramed ==
    ASSUME Typed, Framed, NEW k \in 1..Chunk, Write(k)
    PROVE  Framed'
<1>1. /\ host.stage = "write" /\ host.data \in Payload /\ host.done \in Nat
      /\ k \in Nat /\ host.done + k <= Units[host.name]
      /\ UNCHANGED <<in, fw, mem>> /\ host \in HostType
  BY WriteFacts DEF Typed, Values
<1>2. /\ ~Unread /\ ~Unread' /\ fw.stage = "data" /\ fw.name = host.name
      /\ Len(Granted') = host.done + k /\ IsData(Granted', host.data)
  BY WriteGranted
<1>3. Carries(in, <<>>)
  BY <1>1 DEF Framed, InFramed
<1>4. CASE host.done + k = Units[host.name] /\ Return("idle", "OK", <<>>)
  <2>1. host'.stage = "idle"
    BY <1>4, ReturnNothing DEF Ended
  <2>2. InFramed' /\ OutFramed' /\ DataFramed'
    BY <1>1, <1>2, <1>3, <2>1 DEF InFramed, OutFramed, DataFramed
  <2>3. Len(Granted') <= Units[host.name]
    BY <1>1, <1>2
  <2>4. SetFramed'
    BY <1>1, <1>2, <1>4, <2>3 DEF SetFramed
  <2> QED
    BY <1>1, <2>2, <2>4 DEF Framed, MemFramed
<1>5. CASE host' = [host EXCEPT !.done = host.done + k]
  <2>1. /\ host'.stage = "write" /\ host'.name = host.name
        /\ host'.data = host.data /\ host'.done = host.done + k
    BY <1>1, <1>5 DEF HostType
  <2>2. InFramed' /\ OutFramed'
    BY <1>1, <1>2, <1>3, <2>1 DEF InFramed, OutFramed
  <2>3. DataFramed'
    BY <1>1, <1>2, <2>1 DEF DataFramed
  <2>4. Len(Granted') <= Units[host.name]
    BY <1>1, <1>2
  <2>5. SetFramed'
    BY <1>1, <1>2, <2>1, <2>4 DEF SetFramed
  <2> QED
    BY <1>1, <2>2, <2>3, <2>5 DEF Framed, MemFramed
<1> QED
  BY <1>4, <1>5, WriteFacts

\* What a transfer of usb_read has read is the next part of the buffer.
LEMMA ReadGot ==
    ASSUME Typed, Framed, NEW k \in 1..Chunk, Read(k)
    PROVE  LET got == host.got \o SubSeq(in, 1, k) IN
           /\ fw.stage = "header" /\ ~Unread
           /\ \A i \in 1..Len(got) : got[i] = mem[host.name][i]
           /\ \E r \in Seq(Items) :
                /\ Len(r) = Units[host.name] - Len(got)
                /\ \A i \in 1..Len(r) : r[i] = mem[host.name][Len(got) + i]
                /\ Carries(in', r)
<1> DEFINE got == host.got \o SubSeq(in, 1, k)
           n == host.name
           j == Len(host.got)
<1>1. /\ host.stage = "read" /\ n \in Name /\ Units[n] \in Nat
      /\ k \in Nat /\ k >= 1 /\ k <= Len(in) /\ j + k <= Units[n]
      /\ in' \in Seq(Items) /\ Len(in') = Len(in) - k
      /\ host.got \in Seq(Items) /\ Len(got) = j + k
  BY ReadFacts
<1>2. /\ \A i \in 1..k : in[i] # NoBytes
      /\ \A i \in 1..Len(in) - k : in'[i] = in[k + i]
      /\ \A i \in 1..j : got[i] = host.got[i]
      /\ \A i \in 1..k : got[j + i] = in[i]
  BY ReadFacts
<1>3. in \in Seq(Items) /\ j \in Nat /\ mem[n] \in Seq(Items) /\ Len(mem[n]) = Units[n]
  BY <1>1 DEF Typed, Values, Named
<1>4. fw.stage = "header" /\ ~Unread /\ \A i \in 1..j : host.got[i] = mem[n][i]
  BY <1>1 DEF Framed, OutFramed, DataFramed
<1>5. PICK m \in Seq(Items) : /\ Len(m) = Units[n] - j
                              /\ \A i \in 1..Len(m) : m[i] = mem[n][j + i]
                              /\ Carries(in, m)
  BY <1>1 DEF Framed, DataFramed
<1> DEFINE r == SubSeq(m, k + 1, Len(m))
<1>6. Len(m) \in Nat /\ k <= Len(m)
  BY <1>1, <1>3, <1>5
<1>7. r \in Seq(Items) /\ Len(r) = Len(m) - k /\ \A i \in 1..Len(m) - k : r[i] = m[k + i]
  <2>1. k + 1 \in 1..Len(m) + 1 /\ Len(m) \in k + 1 - 1..Len(m)
    BY <1>1, <1>6
  <2>2. /\ r \in Seq(Items) /\ Len(r) = Len(m) - (k + 1) + 1
        /\ \A i \in 1..Len(m) - (k + 1) + 1 : r[i] = m[k + 1 + i - 1]
    BY <2>1, SubPipe
  <2>3. Len(m) - (k + 1) + 1 = Len(m) - k
    BY <1>1, <1>6
  <2>4. \A i \in 1..Len(m) - k : k + 1 + i - 1 = k + i
    BY <1>1
  <2> HIDE DEF r
  <2> QED
    BY <2>2, <2>3, <2>4
<1> DEFINE t == in'
<1>8. t \in Seq(Items) /\ Len(t) = Len(in) - k /\ \A i \in 1..Len(in) - k : t[i] = in[k + i]
  BY <1>1, <1>2
<1> HIDE DEF r, t, got, n, j
<1>9. (\A i \in 1..k : in[i] = m[i]) /\ Carries(t, r)
  <2>1. /\ k \in Nat /\ k >= 1 /\ k <= Len(in) /\ k <= Len(m)
        /\ \A i \in 1..k : in[i] # NoBytes
    BY <1>1, <1>2, <1>6
  <2>2. in \in Seq(Items) /\ m \in Seq(Items) /\ Carries(in, m)
    BY <1>3, <1>5
  <2> QED
    BY ONLY <2>1, <2>2, <1>7, <1>8, TakeCarries
<1>10. ASSUME NEW i \in 1..Len(got)
       PROVE  got[i] = mem[n][i]
  <2>1. CASE i \in 1..j
    BY <1>2, <1>4, <2>1 DEF got, n, j
  <2>2. CASE i \notin 1..j
    <3>1. i - j \in 1..k /\ i - j \in 1..Len(m) /\ j + (i - j) = i
      BY <1>1, <1>3, <1>6, <2>2
    <3>2. got[i] = in[i - j] /\ m[i - j] = mem[n][i]
      BY <1>2, <1>5, <3>1
    <3> QED
      BY <1>9, <3>1, <3>2
  <2> QED
    BY <2>1, <2>2
<1>11. Len(r) = Units[n] - Len(got)
  BY <1>1, <1>3, <1>5, <1>6, <1>7
<1>12. ASSUME NEW i \in 1..Len(r)
       PROVE  r[i] = mem[n][Len(got) + i]
  <2>1. i \in 1..Len(m) - k /\ k + i \in 1..Len(m) /\ j + (k + i) = Len(got) + i
    BY <1>1, <1>3, <1>6, <1>7
  <2> QED
    BY <1>5, <1>7, <2>1
<1> QED
  BY <1>4, <1>7, <1>9, <1>10, <1>11, <1>12 DEF got, n, t

LEMMA ReadFramed ==
    ASSUME Typed, Framed, NEW k \in 1..Chunk, Read(k)
    PROVE  Framed'
<1> DEFINE got == host.got \o SubSeq(in, 1, k)
<1>1. /\ host.stage = "read" /\ UNCHANGED <<out, fw, mem>> /\ host \in HostType
      /\ got \in Seq(Items)
      /\ \/ Len(got) = Units[host.name] /\ Return("idle", "OK", got)
         \/ host' = [host EXCEPT !.got = got]
  BY ReadFacts DEF Typed, Values
<1>2. fw.stage = "header" /\ ~Unread /\ ~Unread' /\ Granted' = Granted
  BY <1>1, ReadGot DEF Unread, Granted
<1>3. /\ \A i \in 1..Len(got) : got[i] = mem[host.name][i]
      /\ \E r \in Seq(Items) :
           /\ Len(r) = Units[host.name] - Len(got)
           /\ \A i \in 1..Len(r) : r[i] = mem[host.name][Len(got) + i]
           /\ Carries(in', r)
  BY ReadGot
<1>4. host.name \in Name /\ Units[host.name] \in Nat
  BY ReadFacts
<1> HIDE DEF got
<1>5. CASE Len(got) = Units[host.name] /\ Return("idle", "OK", got)
  <2>1. host'.stage = "idle"
    BY <1>1, <1>5, ReturnTyped DEF Ended
  <2>2. Carries(in', <<>>)
    <3> PICK r \in Seq(Items) : Len(r) = Units[host.name] - Len(got) /\ Carries(in', r)
      BY <1>3
    <3>1. Len(r) = 0
      BY <1>4, <1>5
    <3>2. r = <<>>
      BY <3>1
    <3> QED
      BY <3>2
  <2> QED
    BY <1>1, <1>2, <2>1, <2>2, ReturnFramed
<1>6. CASE host' = [host EXCEPT !.got = got]
  <2>1. host'.stage = "read" /\ host'.name = host.name /\ host'.got = got
    BY <1>1, <1>6 DEF HostType
  <2>2. DataFramed'
    BY <1>1, <1>2, <1>3, <2>1 DEF DataFramed
  <2>3. InFramed' /\ OutFramed' /\ SetFramed'
    BY <1>1, <1>2, <2>1 DEF Framed, InFramed, OutFramed, SetFramed
  <2> QED
    BY <1>1, <2>2, <2>3 DEF Framed, MemFramed
<1> QED
  BY <1>1, <1>5, <1>6

\* The stick reads a header: it is that of the call that waits.
LEMMA HeaderFacts ==
    ASSUME Typed, Framed, fw.stage = "header", out # <<>>
    PROVE  /\ Unread /\ Tail(out) = <<>>
           /\ host.stage \in {"permit", "status", "closed"}
           /\ Head(out).kind = host.cmd /\ Head(out).name = host.name
           /\ host.cmd \in Command /\ Carries(in, <<>>) /\ in \in Seq(Items)
<1>1. out \in Seq(Items) /\ DataIn(out) = <<>> /\ in \in Seq(Items)
  BY DEF Typed, Values, Framed, OutFramed
<1>2. Unread /\ Head(out) = out[Len(out)] /\ Tail(out) = <<>>
  BY <1>1, OneHeader DEF Unread
<1>3. /\ host.stage \in {"permit", "status", "closed"}
      /\ out[Len(out)] = Header(host.cmd, host.name) /\ Carries(in, <<>>)
  BY <1>2 DEF Framed, OutFramed, InFramed
<1>4. host.cmd \in Command /\ host.name \in Name \cup {None}
  BY DEF Typed, Values, HostType
<1> QED
  BY <1>1, <1>2, <1>3, <1>4, ItemTypes

LEMMA FwSetFramed ==
    ASSUME Typed, Framed, FwSet
    PROVE  Framed'
<1>1. /\ fw.stage = "header" /\ out # <<>> /\ out' = Tail(out)
      /\ Head(out).kind = "set" /\ UNCHANGED <<host, mem>>
  BY DEF FwSet, Take
<1>2. /\ out' = <<>> /\ host.cmd = "set" /\ Head(out).name = host.name
      /\ Carries(in, <<>>) /\ in \in Seq(Items) /\ host.stage = "permit"
      /\ host.data \in Payload /\ host.name \in Name
  BY <1>1, HeaderFacts DEF Typed, Calls
<1>3. ~Unread' /\ DataIn(out') = <<>>
  BY <1>2, EmptyPipe DEF Unread
<1>4. CASE /\ Send(<<Permit>>)
           /\ fw' = [Resting EXCEPT !.stage = "data", !.name = Head(out).name]
  <2>1. fw'.stage = "data" /\ fw'.name = host.name /\ fw'.buf = <<>>
    BY <1>2, <1>4, RestingTyped
  <2>2. Granted' = <<>>
    BY <1>3, <2>1 DEF Granted
  <2>3. Carries(in', <<Permit>>)
    BY <1>2, <1>4, MessageTypes, SendCarries
  <2>4. InFramed' /\ OutFramed' /\ DataFramed'
    BY <1>1, <1>2, <1>3, <2>1, <2>2, <2>3 DEF InFramed, OutFramed, DataFramed
  <2>5. SetFramed'
    <3>1. Len(Granted') = 0 /\ Units[host.name] \in Nat
      BY <1>2, <2>2, UnitsAssumption
    <3>2. IsData(Granted', host.data)
      BY <3>1 DEF IsData
    <3> QED
      BY <1>1, <1>2, <1>3, <2>1, <3>1, <3>2 DEF SetFramed
  <2> QED
    BY <1>1, <2>4, <2>5 DEF Framed, MemFramed
<1>5. CASE Send(<<Refusal>>) /\ UNCHANGED fw
  <2>1. Carries(in', <<Refusal>>)
    BY <1>2, <1>5, MessageTypes, SendCarries
  <2>2. InFramed' /\ OutFramed' /\ DataFramed' /\ SetFramed'
    BY <1>1, <1>2, <1>3, <1>5, <2>1
    DEF InFramed, OutFramed, DataFramed, SetFramed
  <2> QED
    BY <1>1, <2>2 DEF Framed, MemFramed
<1> QED
  BY <1>4, <1>5 DEF FwSet

\* The stick answers a header without a change of its own.
LEMMA FwAnswerFramed ==
    ASSUME Typed, Framed, fw.stage = "header", Take, NEW m \in Seq(Items), Send(m),
           UNCHANGED <<host, fw, mem>>, host.stage \in {"permit", "status"},
           host.stage = "permit" =>
             \/ m = <<Refusal>>
             \/ host.cmd = "get" /\ m = <<Permit>> \o mem[host.name],
           host.stage = "status" => m = <<Item("state")>>
    PROVE  Framed'
<1>1. out # <<>> /\ out' = Tail(out)
  BY DEF Take
<1>2. out' = <<>> /\ Carries(in, <<>>) /\ in \in Seq(Items)
  BY <1>1, HeaderFacts
<1>3. ~Unread' /\ DataIn(out') = <<>>
  BY <1>2, EmptyPipe DEF Unread
<1>4. Carries(in', m)
  BY <1>2, SendCarries
<1>5. InFramed'
  BY <1>3, <1>4 DEF InFramed
<1>6. OutFramed' /\ DataFramed' /\ SetFramed'
  BY <1>3 DEF OutFramed, DataFramed, SetFramed
<1> QED
  BY <1>5, <1>6 DEF Framed, MemFramed

LEMMA FwGetFramed ==
    ASSUME Typed, Framed, FwGet
    PROVE  Framed'
<1>1. /\ fw.stage = "header" /\ Take /\ out # <<>> /\ Head(out).kind = "get"
      /\ UNCHANGED <<host, fw, mem>>
      /\ Send(<<Permit>> \o mem[Head(out).name]) \/ Send(<<Refusal>>)
  BY DEF FwGet, Take
<1>2. /\ host.cmd = "get" /\ Head(out).name = host.name /\ host.stage = "permit"
      /\ host.name \in Name
  BY <1>1, HeaderFacts DEF Typed, Calls
<1> DEFINE m == <<Permit>> \o mem[host.name]
<1>3. m \in Seq(Items)
  <2>1. mem[host.name] \in Seq(Items)
    BY <1>2 DEF Typed, Values
  <2> QED
    BY <2>1, MessageTypes, ConcatPipe
<1>4. m = <<Permit>> \o mem[host.name]
  OBVIOUS
<1>5. Send(m) \/ Send(<<Refusal>>)
  BY <1>1, <1>2
<1> HIDE DEF m
<1> QED
  BY <1>1, <1>2, <1>3, <1>4, <1>5, MessageTypes, FwAnswerFramed

LEMMA FwStatusFramed ==
    ASSUME Typed, Framed, FwStatus
    PROVE  Framed'
<1>1. /\ fw.stage = "header" /\ Take /\ out # <<>> /\ Head(out).kind = "status"
      /\ UNCHANGED <<host, fw, mem>> /\ Send(<<Item("state")>>)
  BY DEF FwStatus, Take
<1>2. host.stage = "status"
  BY <1>1, HeaderFacts DEF Typed, Calls
<1> QED
  BY <1>1, <1>2, MessageTypes, FwAnswerFramed

\* The stick boots: whatever was in step or not, nothing is left of it.
LEMMA FwResetFramed ==
    ASSUME FwReset
    PROVE  Framed'
<1>1. /\ out' = <<>> /\ in' = <<>> /\ fw' = Resting /\ mem' = Blank
      /\ host' = [NoCall EXCEPT !.stage = "closed"]
  BY DEF FwReset
<1>2. host'.stage = "closed" /\ fw'.stage = "header"
  BY <1>1, NoCallType, RestingTyped DEF HostType
<1>3. MemFramed'
  <2>1. ASSUME NEW n \in Name, NEW i \in 1..Units[n]
        PROVE  Blank[n][i].kind = "data"
    <3>1. Blank[n][i] = Unit(None, i)
      BY ContentTypes DEF Blank
    <3>2. i \in Nat
      BY UnitsAssumption
    <3> QED
      BY <3>1, <3>2, ItemTypes
  <2> QED
    BY <1>1, <2>1 DEF MemFramed
<1>4. ~Unread' /\ DataIn(out') = <<>> /\ Carries(in', <<>>)
  BY <1>1, EmptyPipe, NothingCarries DEF Unread
<1>5. OutFramed' /\ InFramed' /\ SetFramed' /\ DataFramed'
  BY <1>1, <1>2, <1>4 DEF OutFramed, InFramed, SetFramed, DataFramed
<1> QED
  BY <1>3, <1>5 DEF Framed

LEMMA NothingToSkip ==
    ASSUME Typed, Framed, FwSkip
    PROVE  FALSE
BY HeaderFacts DEF FwSkip, Take

\* The stick takes data: it is that of its set.
LEMMA DataFacts ==
    ASSUME Typed, Framed, fw.stage = "data", Take
    PROVE  /\ Unread' <=> Unread
           /\ Unread => out'[Len(out')] = out[Len(out)]
           /\ Append(fw.buf, Head(out)) \o DataIn(out') = Granted
           /\ Append(fw.buf, Head(out)) \in Seq(Items) /\ DataIn(out') \in Seq(Items)
           /\ Granted # <<>>
<1>1. /\ out \in Seq(Items) /\ out # <<>> /\ out' = Tail(out)
      /\ fw.buf \in Seq(Items) /\ fw.name \in Name /\ Len(fw.buf) < Units[fw.name]
  BY DEF Take, Typed, Values, FwType, Named
<1>2. /\ DataIn(out) \in Seq(Items) /\ ~Headed(out) => DataIn(out) = out
  BY <1>1, DataInPipe
<1>3. DataIn(out) # <<>>
  <2> SUFFICES ASSUME DataIn(out) = <<>>
               PROVE  FALSE
      OBVIOUS
  <2>1. Unread
    BY <1>1, OneHeader DEF Unread
  <2>2. Granted = fw.buf
    BY <1>1 DEF Granted
  <2>3. Len(Granted) = Units[fw.name]
    BY <2>1 DEF Framed, SetFramed
  <2>4. Len(fw.buf) \in Nat /\ Units[fw.name] \in Nat
    BY <1>1, UnitsAssumption
  <2> QED
    BY <1>1, <2>2, <2>3, <2>4
<1>4. /\ Head(out) = Head(DataIn(out)) /\ DataIn(out') = Tail(DataIn(out))
      /\ Headed(out') <=> Headed(out)
      /\ Headed(out) => out'[Len(out')] = out[Len(out)]
  BY <1>1, <1>3, OldestData
<1> DEFINE d == DataIn(out)
<1>5. d \in Seq(Items) /\ d # <<>>
  BY <1>1, <1>3, DataInPipe
<1> HIDE DEF d
<1>6. /\ Append(fw.buf, Head(d)) \o Tail(d) = fw.buf \o d
      /\ Tail(d) \in Seq(Items) /\ Head(d) \in Items
      /\ Append(fw.buf, Head(d)) \in Seq(Items)
  BY <1>1, <1>5, MoveItem, TailPipe, AppendPipe
<1>7. fw.buf \o d # <<>>
  <2>1. Len(fw.buf \o d) = Len(fw.buf) + Len(d)
    BY <1>1, <1>5, ConcatPipe
  <2>2. Len(d) \in Nat /\ Len(d) # 0 /\ Len(fw.buf) \in Nat
    BY <1>1, <1>5
  <2> QED
    BY <2>1, <2>2
<1> QED
  BY <1>4, <1>6, <1>7 DEF Granted, Unread, d

\* When the stick has its last unit there is no other on its way.
LEMMA LastUnit ==
    ASSUME Typed, Framed, FwData, Len(Append(fw.buf, Head(out))) = Units[fw.name]
    PROVE  /\ DataIn(out') = <<>> /\ Append(fw.buf, Head(out)) = Granted
           /\ Len(Granted) = Units[fw.name]
<1> DEFINE b == Append(fw.buf, Head(out))
           d == DataIn(out')
<1>1. fw.stage = "data" /\ Take /\ fw.name \in Name
  BY DEF FwData, Typed, Named
<1>2. b \o d = Granted /\ b \in Seq(Items) /\ d \in Seq(Items) /\ Len(b) = Units[fw.name]
  BY <1>1, DataFacts
<1>3. Len(Granted) <= Units[fw.name] /\ Units[fw.name] \in Nat
  BY <1>1, UnitsAssumption DEF Framed, SetFramed
<1> HIDE DEF b, d
<1>4. Len(b \o d) = Len(b) + Len(d) /\ Len(d) \in Nat
  BY <1>2, ConcatPipe
<1>5. Len(d) = 0
  BY <1>2, <1>3, <1>4
<1>6. d = <<>>
  BY <1>2, <1>5
<1>7. b \o d = b
  BY <1>2, <1>6
<1> QED
  BY <1>2, <1>6, <1>7 DEF b, d

LEMMA FwDataFramed ==
    ASSUME Typed, Framed, FwData
    PROVE  Framed'
<1> DEFINE n == fw.name
           b == Append(fw.buf, Head(out))
<1>1. /\ fw.stage = "data" /\ Take /\ UNCHANGED <<host, in>> /\ fw \in FwType
      /\ n \in Name /\ Units[n] \in Nat
  BY UnitsAssumption DEF FwData, Typed, Values, Named
<1>2. /\ Unread' <=> Unread
      /\ Unread => out'[Len(out')] = out[Len(out)]
      /\ b \o DataIn(out') = Granted /\ b \in Seq(Items) /\ Granted # <<>>
  BY <1>1, DataFacts
<1>3. host.stage # "read" /\ (host.stage \in {"permit", "status"} => Unread)
  BY <1>1, <1>2 DEF Framed, DataFramed, InFramed
<1>4. host.stage = "closed" => Unread
  BY <1>1 DEF Framed, OutFramed
<1>5. CASE Len(b) = Units[n]
  <2>1. mem' = [mem EXCEPT ![n] = b] /\ fw' = Resting
    BY <1>5 DEF FwData
  <2>2. DataIn(out') = <<>> /\ b = Granted /\ Len(Granted) = Units[n]
    BY <1>5, LastUnit
  <2>3. fw'.stage = "header"
    BY <2>1, RestingTyped
  <2>4. host.stage # "write"
    <3> SUFFICES ASSUME host.stage = "write"
                 PROVE  FALSE
        OBVIOUS
    <3>1. host.name = n /\ Len(Granted) = host.done /\ host.done < Units[n]
      BY DEF Framed, DataFramed, Typed, Calls
    <3> QED
      BY <1>1, <2>2, <3>1
  <2>5. MemFramed'
    <3> PICK p \in Payload : IsData(Granted, p)
      BY <1>1 DEF Framed, SetFramed
    <3>1. \A i \in 1..Units[n] : b[i].kind = "data"
      <4>1. \A i \in 1..Units[n] : i \in Nat /\ b[i] = Unit(p, i)
        BY <1>1, <2>2 DEF IsData
      <4> HIDE DEF b, n
      <4>2. \A i \in Nat : Unit(p, i).kind = "data"
        BY ItemTypes
      <4> QED
        BY <4>1, <4>2
    <3>2. \A x \in Name : mem'[x] = IF x = n THEN b ELSE mem[x]
      BY <2>1 DEF Typed, Values
    <3> HIDE DEF b, n
    <3> QED
      BY <3>1, <3>2 DEF Framed, MemFramed
  <2>6. OutFramed'
    BY <1>1, <1>2, <1>4, <2>2, <2>3 DEF Framed, OutFramed
  <2>7. InFramed' /\ DataFramed' /\ SetFramed'
    BY <1>1, <1>2, <1>3, <2>3, <2>4 DEF Framed, InFramed, DataFramed, SetFramed
  <2> QED
    BY <2>5, <2>6, <2>7 DEF Framed
<1>6. CASE Len(b) # Units[n]
  <2>1. fw' = [fw EXCEPT !.buf = b] /\ UNCHANGED mem
    BY <1>6 DEF FwData
  <2>2. fw'.stage = "data" /\ fw'.name = n /\ fw'.buf = b
    BY <1>1, <2>1 DEF FwType
  <2>3. Granted' = Granted
    BY <1>2, <2>2 DEF Granted
  <2>4. OutFramed'
    BY <1>1, <1>2, <1>4, <2>2 DEF Framed, OutFramed
  <2>5. SetFramed'
    BY <1>1, <1>2, <2>2, <2>3 DEF Framed, SetFramed
  <2>6. InFramed' /\ DataFramed'
    BY <1>1, <1>2, <1>3, <2>1, <2>2, <2>3 DEF Framed, InFramed, DataFramed
  <2> QED
    BY <2>1, <2>4, <2>5, <2>6 DEF Framed, MemFramed
<1> QED
  BY <1>5, <1>6

\* Framing is kept until a transfer times out, and restored by a reset.
LEMMA NextFramed ==
    Typed /\ (~late => Framed) /\ [Next]_vars => (~late => Framed)'
<1> SUFFICES ASSUME Typed, ~late => Framed, [Next]_vars, ~late'
             PROVE  Framed'
    OBVIOUS
<1>1. CASE FwReset
  BY <1>1, FwResetFramed
<1>2. ASSUME UNCHANGED late
      PROVE  late = FALSE /\ Framed
  BY <1>2 DEF Typed, Values
<1>3. CASE HostStep
  <2>1. UNCHANGED late
    BY <1>3 DEF HostStep, SetData, GetData, GetMyriadStatus, ResetMyriad, Call, Open
  <2> QED
    BY <1>2, <1>3, <2>1, CallFramed
<1>4. CASE Transfer
  <2>1. ASSUME NEW k \in 1..Chunk, Write(k) \/ Read(k)
        PROVE  Framed'
    <3>1. UNCHANGED late
      BY <2>1 DEF Write, Read
    <3> QED
      BY <1>2, <2>1, <3>1, WriteFramed, ReadFramed
  <2>2. CASE WriteHeader \/ ReadPermit \/ ReadNothing \/ ReadStatus
    <3>1. UNCHANGED late
      BY <2>2 DEF WriteHeader, ReadPermit, ReadNothing, ReadStatus
    <3> QED
      BY <1>2, <2>2, <3>1, WriteHeaderFramed, ReadPermitFramed, ReadStatusFramed
  <2> QED
    BY <1>4, <2>1, <2>2 DEF Transfer
<1>5. CASE TimeOut
  BY <1>5 DEF TimeOut
<1>6. CASE FwSet \/ FwGet \/ FwStatus \/ FwSkip \/ FwData
  <2>1. UNCHANGED late
    BY <1>6 DEF FwSet, FwGet, FwStatus, FwSkip, FwData
  <2> QED
    BY <1>2, <1>6, <2>1, FwSetFramed, FwGetFramed, FwStatusFramed, NothingToSkip,
       FwDataFramed
<1>7. CASE UNCHANGED vars
  <2>1. Framed /\ UNCHANGED <<host, out, in, fw, mem>>
    BY <1>2, <1>7 DEF vars
  <2>2. Unread' = Unread /\ Granted' = Granted
    BY <2>1 DEF Unread, Granted
  <2>3. OutFramed' /\ SetFramed' /\ InFramed' /\ DataFramed' /\ MemFramed'
    BY <2>1, <2>2 DEF Framed, OutFramed, SetFramed, InFramed, DataFramed, MemFramed
  <2> QED
    BY <2>3 DEF Framed
<1> QED
  BY <1>1, <1>3, <1>4, <1>5, <1>6, <1>7 DEF Next, Firmware

LEMMA LinkInv == Spec => [](Typed /\ (~late => Framed))
<1>1. Init => Typed /\ (~late => Framed)
  BY InitTyped, InitFramed
<1>2. Typed /\ (~late => Framed) /\ [Next]_vars => (Typed /\ (~late => Framed))'
  BY NextTyped, NextFramed
<1> QED
  BY <1>1, <1>2, PTL DEF Spec

\* Until a transfer times out, and again after a reset, no answer is taken for
\* that of another call, no data for a header and no header for data, whatever
\* the sizes of buffers, transfers and pipes (usb_link_vsc.c:47-74, 166-228).
THEOREM LinkInStep == Spec => []InStep
<1>1. Typed /\ (~late => Framed) => InStep
  <2> SUFFICES ASSUME Typed, Framed, ~late
               PROVE  InStep
      BY DEF InStep
  <2>1. ASSUME host.stage \in Ended, NEW i \in DOMAIN in
        PROVE  in[i] = NoBytes
    <3>1. in \in Seq(Items) /\ i \in 1..Len(in)
      BY DEF Typed, Values
    <3>2. Carries(in, <<>>)
      BY <2>1 DEF Framed, InFramed, Ended
    <3> QED
      BY <3>1, <3>2, CarriesNothing
  <2>2. ASSUME fw.stage = "header", NEW i \in DOMAIN out
        PROVE  out[i].kind \in Command
    <3>1. out \in Seq(Items) /\ out # <<>> /\ i \in 1..Len(out) /\ Len(out) \in Nat
      BY DEF Typed, Values
    <3>2. /\ Tail(out) = <<>> /\ Head(out).kind \in Command
      BY <2>2, <3>1, HeaderFacts
    <3>3. Len(Tail(out)) = Len(out) - 1 /\ Head(out) = out[1]
      BY <3>1, TailPipe
    <3>4. i = 1
      <4> DEFINE t == Tail(out)
                 l == Len(out)
      <4>1. t = <<>> /\ Len(t) = l - 1 /\ l \in Nat /\ i \in 1..l
        BY <3>1, <3>2, <3>3
      <4> HIDE DEF t, l
      <4>2. Len(t) = 0
        BY <4>1
      <4>3. l = 1
        BY <4>1, <4>2
      <4> QED
        BY <4>1, <4>3
    <3> QED
      BY <3>2, <3>3, <3>4
  <2>3. ASSUME fw.stage = "data"
        PROVE  /\ \E p \in Payload :
                    Granted = SubSeq(Contents(fw.name, p), 1, Len(Granted))
               /\ host.stage \notin {"permit", "write"} =>
                    Len(Granted) = Units[fw.name]
    <3> DEFINE g == Granted
               l == Len(Granted)
    <3>1. /\ fw.name \in Name /\ fw.buf \in Seq(Items) /\ out \in Seq(Items)
          /\ Units[fw.name] \in Nat
      BY <2>3, UnitsAssumption DEF Typed, Values, Named, FwType
    <3>2. DataIn(out) \in Seq(Items)
      BY <3>1, DataInPipe
    <3>3. g \in Seq(Items) /\ l \in Nat /\ l <= Units[fw.name]
      <4>1. fw.buf \o DataIn(out) \in Seq(Items)
        BY <3>1, <3>2, ConcatPipe
      <4>2. Granted \in Seq(Items)
        BY <4>1 DEF Granted
      <4> QED
        BY <2>3, <4>2 DEF Framed, SetFramed
    <3> PICK p \in Payload : IsData(g, p)
      BY <2>3 DEF Framed, SetFramed
    <3> DEFINE s == Contents(fw.name, p)
               t == SubSeq(s, 1, l)
    <3>4. /\ s \in Seq(Items) /\ Len(s) = Units[fw.name]
          /\ \A i \in 1..Units[fw.name] : s[i] = Unit(p, i)
      BY <3>1, ContentTypes
    <3>5. t \in Seq(Items) /\ Len(t) = l /\ \A i \in 1..l : t[i] = s[i]
      <4> HIDE DEF s, l
      <4>1. 1 \in 1..Len(s) + 1 /\ l \in 1 - 1..Len(s)
        BY <3>1, <3>3, <3>4
      <4>2. /\ t \in Seq(Items) /\ Len(t) = l - 1 + 1
            /\ \A i \in 1..l - 1 + 1 : t[i] = s[1 + i - 1]
        BY <3>4, <4>1, SubPipe
      <4>3. l - 1 + 1 = l /\ \A i \in 1..l : 1 + i - 1 = i
        BY <3>3
      <4> HIDE DEF t
      <4> QED
        BY <4>2, <4>3
    <3>6. Len(g) = l /\ \A i \in 1..l : g[i] = Unit(p, i)
      BY DEF IsData
    <3>7. g = t
      <4> HIDE DEF g, t, s, l
      <4>1. \A i \in 1..l : i \in 1..Units[fw.name]
        BY <3>1, <3>3
      <4>2. \A i \in 1..l : g[i] = t[i]
        BY <3>4, <3>5, <3>6, <4>1
      <4>3. g \in Seq(Items) /\ t \in Seq(Items) /\ Len(g) = Len(t)
        BY <3>3, <3>5, <3>6
      <4> QED
        BY <3>6, <4>2, <4>3, EqualPipes
    <3>8. Granted = SubSeq(Contents(fw.name, p), 1, Len(Granted))
      BY <3>7
    <3> QED
      BY <2>3, <3>8 DEF Framed, SetFramed
  <2> QED
    BY <2>1, <2>2, <2>3 DEF InStep
<1> QED
  BY <1>1, LinkInv, PTL
-----------------------------------------------------------------------------
(***************************************************************************)
(* The link implements Mailbox: what is stored is what the stick has, with *)
(* the set whose last unit is on its way.                                  *)
(***************************************************************************)
LEMMA StoredBetweenSets ==
    ASSUME host.stage # "closed", fw.stage = "header"
    PROVE  Stored = mem
BY DEF Stored

\* A step of the host that sends no data and does not close.
LEMMA StoredIsKept ==
    ASSUME host.stage # "closed", host'.stage # "closed", Granted' = Granted,
           UNCHANGED <<fw, mem>>
    PROVE  Stored' = Stored
BY DEF Stored

LEMMA LinkInit == Init => Link!Init
<1> SUFFICES ASSUME Init
             PROVE  Link!Init
    OBVIOUS
<1>1. Stored = Blank
  BY NoCallType, RestingTyped DEF Init, Stored
<1>2. (~late) = TRUE
  BY DEF Init
<1> QED
  BY <1>1, <1>2 DEF Init, Link!Init, Link!Done

\* The promise is void while a transfer has timed out.
LEMMA LateStep ==
    ASSUME Typed, late = TRUE, late' = TRUE
    PROVE  Link!Next
<1>1. ~(~late)
  OBVIOUS
<1>2. (~late)' = ~late
  OBVIOUS
<1>3. ~(~late) /\ (~late)' = ~late
  BY <1>1, <1>2
<1> QED
  BY <1>3 DEF Link!Next

LEMMA TimeOutStep ==
    ASSUME TimeOut
    PROVE  Link!Next
<1>1. (~late)' = FALSE
  BY DEF TimeOut
<1> QED
  BY <1>1 DEF Link!Next, Link!TimeOut

LEMMA ResetStep ==
    ASSUME Typed, ~late => Framed, FwReset
    PROVE  [Link!Next]_<<Stored, answer, ~late>>
<1>1. /\ host' = [NoCall EXCEPT !.stage = "closed"] /\ late' = FALSE
      /\ answer' = IF host.stage \in Ended THEN answer
                   ELSE [rc |-> "ERROR", data |-> <<>>]
      /\ fw.stage = "header" /\ out # <<>> /\ Head(out).kind = "reset"
  BY DEF FwReset
<1>2. Stored' = Blank
  <2>1. host'.stage = "closed"
    BY <1>1, NoCallType DEF HostType
  <2> QED
    BY <2>1 DEF Stored
<1>3. CASE late = TRUE
  <2>1. answer' \in {answer, Link!Failed}
    BY <1>1 DEF Link!Failed
  <2>2. ~(~late) /\ (~late)' = TRUE
    BY <1>1, <1>3
  <2>3. Link!Reset
    BY <1>2, <2>1, <2>2 DEF Link!Reset
  <2> QED
    BY <2>2, <2>3 DEF Link!Next
<1>4. CASE late = FALSE
  <2>1. Framed
    BY <1>4
  <2>2. host.stage = "closed"
    BY <1>1, <2>1, HeaderFacts DEF Typed, Calls
  <2>3. Stored = Blank /\ answer' = answer
    BY <1>1, <2>2 DEF Stored, Ended
  <2>4. (~late)' = ~late
    BY <1>1, <1>4
  <2> QED
    BY <1>2, <2>3, <2>4
<1> QED
  BY <1>3, <1>4 DEF Typed, Values

\* A call that is made, and a link that is opened, change nothing.
LEMMA HostStepStutters ==
    ASSUME Typed, Framed, HostStep, late = FALSE
    PROVE  UNCHANGED <<Stored, answer, ~late>>
<1>1. UNCHANGED <<answer, late, out, fw, mem>>
  BY DEF HostStep, SetData, GetData, GetMyriadStatus, ResetMyriad, Call, Open
<1>2. Granted' = Granted
  BY <1>1 DEF Granted
<1>3. CASE Open
  <2>1. host.stage = "closed" /\ host'.stage = "idle" /\ out = <<>>
    BY <1>3, NoCallType DEF Open
  <2>2. fw.stage = "header" /\ mem = Blank
    BY <2>1, EmptyPipe DEF Framed, OutFramed, Unread
  <2>3. Stored = Blank /\ Stored' = Blank
    BY <1>1, <2>1, <2>2 DEF Stored
  <2> QED
    BY <1>1, <2>3
<1>4. CASE SetData \/ GetData \/ GetMyriadStatus \/ ResetMyriad
  <2>1. ASSUME NEW c, NEW n, NEW p, Call(c, n, p)
        PROVE  host.stage = "idle" /\ host'.stage = "header"
    BY <2>1, NoCallType DEF Call, HostType
  <2>2. host.stage = "idle" /\ host'.stage = "header"
    BY <1>4, <2>1 DEF SetData, GetData, GetMyriadStatus, ResetMyriad
  <2> QED
    BY <1>1, <1>2, <2>2, StoredIsKept
<1> QED
  BY <1>3, <1>4 DEF HostStep

\* A header: a reset has happened once it is on its way.
LEMMA WriteHeaderStep ==
    ASSUME Typed, Framed, WriteHeader, late = FALSE
    PROVE  [Link!Next]_<<Stored, answer, ~late>>
<1> DEFINE x == Header(host.cmd, host.name)
<1>1. /\ host.stage = "header" /\ out' = Append(out, x) /\ UNCHANGED <<fw, mem, late>>
      /\ host \in HostType /\ out \in Seq(Items)
      /\ host.cmd \in Command /\ host.name \in Name \cup {None}
  BY DEF WriteHeader, Typed, Values, HostType
<1>2. CASE host.cmd = "reset"
  <2>1. host' = [NoCall EXCEPT !.stage = "closed"] /\ answer' = Link!Done(<<>>)
    BY <1>2 DEF WriteHeader, Return, Link!Done
  <2>2. Stored' = Blank
    <3>1. host'.stage = "closed"
      BY <2>1, NoCallType DEF HostType
    <3> QED
      BY <3>1 DEF Stored
  <2>3. ~late /\ (~late)' = ~late
    BY <1>1
  <2>4. Link!Other
    BY <2>1, <2>2, <2>3 DEF Link!Other
  <2> QED
    BY <2>3, <2>4 DEF Link!Next
<1>3. CASE host.cmd # "reset"
  <2>1. UNCHANGED answer /\ host'.stage # "closed"
    BY <1>1, <1>3 DEF WriteHeader, Goto, HostType
  <2>2. Granted' = Granted
    <3>1. ~Headed(out)
      BY <1>1 DEF Framed, OutFramed, Unread
    <3>2. x \in Items /\ x.kind # "data"
      BY <1>1, ItemTypes DEF Command
    <3> HIDE DEF x
    <3>3. DataIn(out') = DataIn(out)
      BY <1>1, <3>1, <3>2, HeaderGoesOut
    <3> QED
      BY <1>1, <3>3 DEF Granted
  <2> QED
    BY <1>1, <2>1, <2>2, StoredIsKept
<1> QED
  BY <1>2, <1>3

\* An answer: a refused call has changed nothing.
LEMMA ReadPermitStep ==
    ASSUME Typed, Framed, ReadPermit, late = FALSE
    PROVE  [Link!Next]_<<Stored, answer, ~late>>
<1>1. /\ host.stage = "permit" /\ UNCHANGED <<out, fw, mem, late>> /\ host \in HostType
  BY DEF ReadPermit, Typed, Values
<1>2. Granted' = Granted
  BY <1>1 DEF Granted
<1>3. CASE Return("idle", "ERROR", <<>>)
  <2>1. host'.stage = "idle" /\ answer' = Link!Failed
    BY <1>3, ReturnNothing DEF Ended, Return, Link!Failed
  <2>2. Stored' = Stored
    BY <1>1, <1>2, <2>1, StoredIsKept
  <2>3. ~late /\ (~late)' = ~late
    BY <1>1
  <2>4. Link!Refuse
    BY <2>1, <2>2, <2>3 DEF Link!Refuse
  <2> QED
    BY <2>3, <2>4 DEF Link!Next
<1>4. CASE UNCHANGED answer /\ host'.stage # "closed"
  BY <1>1, <1>2, <1>4, StoredIsKept
<1>5. \/ Return("idle", "ERROR", <<>>)
      \/ UNCHANGED answer /\ host'.stage # "closed"
  <2>1. ASSUME Goto(IF host.cmd = "set" THEN "write" ELSE "read")
        PROVE  host'.stage # "closed"
    BY <1>1, <2>1 DEF Goto, HostType
  <2> QED
    BY <1>1, <2>1 DEF ReadPermit
<1> QED
  BY <1>3, <1>4, <1>5

LEMMA ReadStatusStep ==
    ASSUME Typed, Framed, ReadStatus \/ ReadNothing, late = FALSE
    PROVE  [Link!Next]_<<Stored, answer, ~late>>
<1>1. /\ host.stage \in {"read", "status"} /\ UNCHANGED <<out, fw, mem, late>>
  BY DEF ReadStatus, ReadNothing
<1>2. Granted' = Granted
  BY <1>1 DEF Granted
<1>3. CASE ReadStatus
  <2>1. host'.stage = "idle" /\ answer' = Link!Done(<<>>)
    BY <1>3, ReturnNothing DEF ReadStatus, Ended, Return, Link!Done
  <2>2. Stored' = Stored
    BY <1>1, <1>2, <2>1, StoredIsKept
  <2>3. ~late /\ (~late)' = ~late
    BY <1>1
  <2>4. Link!Other
    BY <2>1, <2>2, <2>3 DEF Link!Other
  <2> QED
    BY <2>3, <2>4 DEF Link!Next
<1>4. CASE ReadNothing
  <2>1. UNCHANGED <<host, answer>>
    BY <1>4 DEF ReadNothing
  <2> QED
    BY <1>1, <1>2, <2>1, StoredIsKept
<1> QED
  BY <1>3, <1>4

\* A set has happened once its last unit is on its way.
LEMMA WriteStep ==
    ASSUME Typed, Framed, NEW k \in 1..Chunk, Write(k), late = FALSE
    PROVE  [Link!Next]_<<Stored, answer, ~late>>
<1> DEFINE n == host.name
<1>1. /\ host.stage = "write" /\ n \in Name /\ host.data \in Payload
      /\ host.done \in Nat /\ Units[n] \in Nat \ {0}
      /\ k \in Nat /\ k >= 1 /\ host.done + k <= Units[n]
      /\ UNCHANGED <<fw, mem, late>> /\ host \in HostType
  BY WriteFacts DEF Typed, Values
<1>2. /\ fw.stage = "data" /\ fw.name = n /\ Len(Granted) = host.done
      /\ Len(Granted') = host.done + k /\ IsData(Granted', host.data)
      /\ Granted' \in Seq(Items)
  BY WriteGranted
<1>3. Stored = mem
  BY <1>1, <1>2 DEF Stored
<1>4. CASE host.done + k = Units[n] /\ Return("idle", "OK", <<>>)
  <2>1. host'.stage = "idle" /\ answer' = Link!Done(<<>>)
    BY <1>4, ReturnNothing DEF Ended, Return, Link!Done
  <2> DEFINE x == Contents(n, host.data)
  <2>2. Granted' = x
    <3>1. /\ x \in Seq(Items) /\ Len(x) = Units[n]
          /\ \A i \in 1..Units[n] : x[i] = Unit(host.data, i)
      BY <1>1, ContentTypes
    <3> HIDE DEF x
    <3> DEFINE g == Granted'
    <3>2. /\ g \in Seq(Items) /\ Len(g) = Units[n]
          /\ \A i \in 1..Len(g) : g[i] = Unit(host.data, i)
      BY <1>2, <1>4 DEF IsData
    <3> HIDE DEF g
    <3>3. g = x
      BY <3>1, <3>2, EqualPipes
    <3> QED
      BY <3>3 DEF g
  <2>3. Stored' = [Stored EXCEPT ![n] = x]
    <3>1. Len(Granted') = Units[n]
      BY <1>2, <1>4
    <3> HIDE DEF x, n
    <3> QED
      BY <1>1, <1>2, <1>3, <2>1, <2>2, <3>1 DEF Stored
  <2>4. ~late /\ (~late)' = ~late
    BY <1>1
  <2>5. Link!Set(n, x)
    BY <2>1, <2>3, <2>4 DEF Link!Set
  <2>6. x \in {Contents(m, p) : m \in Name, p \in Payload \cup {None}}
    BY <1>1
  <2> QED
    BY <1>1, <2>4, <2>5, <2>6 DEF Link!Next
<1>5. CASE /\ host.done + k # Units[n] /\ UNCHANGED answer
           /\ host' = [host EXCEPT !.done = host.done + k]
  <2>1. host'.stage = "write"
    BY <1>1, <1>5 DEF HostType
  <2>2. Len(Granted') # Units[n]
    BY <1>2, <1>5
  <2>3. Stored' = mem
    BY <1>1, <1>2, <2>1, <2>2 DEF Stored
  <2> QED
    BY <1>1, <1>3, <1>5, <2>3
<1> QED
  BY <1>4, <1>5, WriteFacts

\* A get returns what is stored.
LEMMA ReadStep ==
    ASSUME Typed, Framed, NEW k \in 1..Chunk, Read(k), late = FALSE
    PROVE  [Link!Next]_<<Stored, answer, ~late>>
<1> DEFINE got == host.got \o SubSeq(in, 1, k)
           n == host.name
<1>1. /\ host.stage = "read" /\ n \in Name /\ Units[n] \in Nat
      /\ UNCHANGED <<out, fw, mem, late>> /\ host \in HostType /\ got \in Seq(Items)
      /\ \/ Len(got) = Units[n] /\ Return("idle", "OK", got)
         \/ host' = [host EXCEPT !.got = got] /\ UNCHANGED answer
  BY ReadFacts DEF Typed, Values
<1>2. fw.stage = "header" /\ \A i \in 1..Len(got) : got[i] = mem[n][i]
  BY ReadGot
<1>3. mem[n] \in Seq(Items) /\ Len(mem[n]) = Units[n]
  BY <1>1 DEF Typed, Values, Named
<1>4. Stored = mem
  BY <1>1, <1>2, StoredBetweenSets
<1> HIDE DEF got
<1>5. CASE Len(got) = Units[n] /\ Return("idle", "OK", got)
  <2>1. host'.stage = "idle" /\ answer' = Link!Done(got)
    BY <1>1, <1>5, ReturnTyped DEF Ended, Return, Link!Done
  <2>2. got = mem[n]
    BY <1>1, <1>2, <1>3, <1>5, EqualPipes
  <2>3. Stored' = Stored
    BY <1>1, <1>2, <1>4, <2>1 DEF Stored
  <2>4. ~late /\ (~late)' = ~late
    BY <1>1
  <2>5. Link!Get(n)
    BY <1>4, <2>1, <2>2, <2>3, <2>4 DEF Link!Get
  <2> QED
    BY <1>1, <2>4, <2>5 DEF Link!Next
<1>6. CASE host' = [host EXCEPT !.got = got] /\ UNCHANGED answer
  <2>1. host'.stage = "read"
    BY <1>1, <1>6 DEF HostType
  <2>2. Stored' = Stored
    BY <1>1, <1>2, <1>4, <2>1 DEF Stored
  <2> QED
    BY <1>1, <1>6, <2>2
<1> QED
  BY <1>1, <1>5, <1>6

\* What the stick does is not seen: it stores what was already sent.
LEMMA FirmwareStutters ==
    ASSUME Typed, Framed, late = FALSE,
           FwSet \/ FwGet \/ FwStatus \/ FwSkip \/ FwData
    PROVE  UNCHANGED <<Stored, answer, ~late>>
<1>1. UNCHANGED <<host, answer, late>> /\ Take /\ out # <<>>
  BY DEF FwSet, FwGet, FwStatus, FwSkip, FwData, Take
<1>2. CASE host.stage = "closed"
  BY <1>1, <1>2 DEF Stored
<1>3. CASE host.stage # "closed"
  <2>1. CASE FwSkip
    BY <2>1, NothingToSkip
  <2>2. CASE FwGet \/ FwStatus
    <3>1. fw.stage = "header" /\ UNCHANGED <<fw, mem>>
      BY <2>2 DEF FwGet, FwStatus
    <3> QED
      BY <1>1, <1>3, <3>1 DEF Stored
  <2>3. CASE FwSet
    <3>1. fw.stage = "header" /\ UNCHANGED mem
      BY <2>3 DEF FwSet
    <3>2. Stored = mem
      BY <1>3, <3>1, StoredBetweenSets
    <3>3. CASE UNCHANGED fw
      BY <1>1, <1>3, <3>1, <3>2, <3>3 DEF Stored
    <3>4. CASE fw' = [Resting EXCEPT !.stage = "data", !.name = Head(out).name]
      <4>1. out' = <<>> /\ Head(out).name \in Name
        BY <1>1, <2>3, <3>1, HeaderFacts, TakeTyped DEF FwSet, Take
      <4>2. fw'.stage = "data" /\ fw'.name = Head(out).name /\ fw'.buf = <<>>
        BY <3>4, <4>1, RestingTyped
      <4>3. Granted' = <<>>
        BY <4>1, <4>2, EmptyPipe DEF Granted
      <4>4. Len(Granted') = 0 /\ Units[fw'.name] # 0
        BY <4>1, <4>2, <4>3, UnitsAssumption
      <4>5. Stored' = mem'
        BY <1>1, <1>3, <4>4 DEF Stored
      <4> QED
        BY <1>1, <3>1, <3>2, <4>5
    <3> QED
      BY <2>3, <3>3, <3>4 DEF FwSet
  <2>4. CASE FwData
    <3> DEFINE n == fw.name
               b == Append(fw.buf, Head(out))
    <3>1. fw.stage = "data" /\ fw \in FwType
      BY <2>4 DEF FwData, Typed, Values
    <3>2. b \o DataIn(out') = Granted
      BY <1>1, <3>1, DataFacts
    <3>3. CASE Len(b) = Units[n]
      <4>1. mem' = [mem EXCEPT ![n] = b] /\ fw' = Resting
        BY <2>4, <3>3 DEF FwData
      <4>2. b = Granted /\ Len(Granted) = Units[n]
        BY <2>4, <3>3, LastUnit
      <4>3. Stored = [mem EXCEPT ![n] = b]
        BY <1>3, <3>1, <4>2 DEF Stored
      <4>4. Stored' = mem'
        BY <1>1, <1>3, <4>1, RestingTyped DEF Stored
      <4> QED
        BY <1>1, <4>1, <4>3, <4>4
    <3>4. CASE Len(b) # Units[n]
      <4>1. fw' = [fw EXCEPT !.buf = b] /\ UNCHANGED mem
        BY <2>4, <3>4 DEF FwData
      <4>2. fw'.stage = "data" /\ fw'.name = n /\ fw'.buf = b
        BY <3>1, <4>1 DEF FwType
      <4>3. Granted' = Granted
        BY <3>2, <4>2 DEF Granted
      <4> QED
        BY <1>1, <3>1, <4>1, <4>2, <4>3 DEF Stored
    <3> QED
      BY <3>3, <3>4
  <2> QED
    BY <2>1, <2>2, <2>3, <2>4
<1> QED
  BY <1>2, <1>3

LEMMA LinkStep ==
    ASSUME Typed, ~late => Framed, [Next]_vars
    PROVE  [Link!Next]_<<Stored, answer, ~late>>
<1>1. CASE FwReset
  BY <1>1, ResetStep
<1>2. CASE TimeOut
  BY <1>2, TimeOutStep
<1>3. CASE late = TRUE /\ UNCHANGED late
  BY <1>3, LateStep
<1>4. CASE late = FALSE
  <2>1. Framed
    BY <1>4
  <2>2. CASE HostStep
    BY <1>4, <2>1, <2>2, HostStepStutters
  <2>3. CASE Transfer
    BY <1>4, <2>1, <2>3, WriteHeaderStep, ReadPermitStep, ReadStatusStep, WriteStep,
       ReadStep DEF Transfer
  <2>4. CASE FwSet \/ FwGet \/ FwStatus \/ FwSkip \/ FwData
    BY <1>4, <2>1, <2>4, FirmwareStutters
  <2>5. CASE UNCHANGED vars
    <3>1. UNCHANGED <<host, answer, out, fw, mem, late>>
      BY <2>5 DEF vars
    <3>2. Granted' = Granted
      BY <3>1 DEF Granted
    <3> QED
      BY <3>1, <3>2 DEF Stored
  <2> QED
    BY <1>1, <1>2, <2>2, <2>3, <2>4, <2>5 DEF Next, Firmware
<1>5. FwReset \/ TimeOut \/ UNCHANGED late
  BY DEF Next, HostStep, Transfer, Firmware, SetData, GetData, GetMyriadStatus,
         ResetMyriad, Call, Open, WriteHeader, ReadPermit, ReadNothing, ReadStatus,
         Write, Read, FwSet, FwGet, FwStatus, FwSkip, FwData, vars
<1> QED
  BY <1>1, <1>2, <1>3, <1>4, <1>5 DEF Typed, Values

\* usblink_setdata and usblink_getdata behave as one step each on named
\* buffers (usb_link_vsc.c:166-208): a call that returned 0 stored, or read,
\* the whole buffer, one that was refused changed nothing, until a transfer
\* times out and again after a reset.
THEOREM MailboxIsImplemented == Spec => ImplementsMailbox
<1>1. Typed /\ (~late => Framed) /\ [Next]_vars => [Link!Next]_<<Stored, answer, ~late>>
  BY LinkStep
<1>2. Init => Link!Init
  BY LinkInit
<1> QED
  BY <1>1, <1>2, LinkInv, PTL DEF Spec, ImplementsMailbox, Link!Spec, Link!vars
=============================================================================
