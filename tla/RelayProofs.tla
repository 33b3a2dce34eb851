----------------------------- MODULE RelayProofs ----------------------------
(***************************************************************************)
(* A session of the proxy, for an ack of any length and any number of data *)
(* bytes: success is told only when the target has been dialled, what the  *)
(* application and the target exchange is what they sent, and an           *)
(* activation fails for a reason. All of it holds whether the server       *)
(* answers the hello or not, in time, late or half late. Then a UDP        *)
(* association, for any addresses, capacity and timeout: whom the server   *)
(* forgets, and under what name a reply arrives.                           *)
(***************************************************************************)
EXTENDS Proxy, SequenceLemmas

Items == [kind : {"marker", "request", "ack", "status", "data"}, n : Nat]

\* s is the data of one direction, behind its first m bytes.
DataFrom(s, m) == \A i \in 1..Len(s) : s[i].kind = "data" /\ s[i].n = m + i

\* The client has not read the status yet.
Early == {"transport", "ack", "request", "status"}

RelayTypeOK ==
    /\ shaped \in BOOLEAN /\ silent \in BOOLEAN /\ overlong \in BOOLEAN /\ http \in BOOLEAN
    /\ client \in Early \cup {"open", "failed", "gone"}
    /\ server \in {"marker", "request", "dial", "relay", "ended"}
    /\ ask \in {"reading", "asked", "answered", "refused"}
    /\ app \in {"open", "fin", "reset"} /\ target \in {"open", "fin", "reset"}
    /\ dialled \in BOOLEAN /\ refused \in BOOLEAN /\ late \in BOOLEAN
    /\ taken \in 0..AckLen
    /\ lost \in Nat /\ sentUp \in Nat /\ sentDown \in Nat
    /\ up \in Seq(Items) /\ down \in Seq(Items) /\ fromApp \in Seq(Items)
    /\ atTarget \in Seq(Items) /\ atApp \in Seq(Items)

\* Where the two programs may be at the same time.
StepsInv ==
    /\ server = "relay" => dialled
    /\ dialled => server \in {"relay", "ended"} /\ ~refused
    /\ refused => server = "ended"
    /\ client = "open" => dialled
    /\ client \in {"transport", "ack", "request"} => ~dialled /\ ~refused /\ server # "dial"
    /\ ask = "answered" => dialled
    /\ ask = "reading" =>
          /\ client \in {"transport", "gone"} /\ server \in {"marker", "ended"}
          /\ up = <<>> /\ lost = 0 /\ atTarget = <<>>
    /\ client = "transport" => up = <<>> /\ server \in {"marker", "ended"}
    /\ client = "open" => ask # "reading"

\* What is on its way to the server, by what the server waits for: the marker,
\* then the request, then the application's data from its first byte on.
UpInv ==
    /\ server = "marker" =>
          /\ Len(up) <= 2
          /\ Len(up) > 0 => up[1].kind = "marker"
          /\ Len(up) > 1 => up[2].kind = "request"
          /\ client \in {"ack", "request"} => Len(up) = 1
    /\ server = "request" =>
          /\ Len(up) <= 1
          /\ Len(up) > 0 => up[1].kind = "request"
          /\ client \in {"ack", "request"} => up = <<>>
    /\ server = "dial" => up = <<>>
    /\ server \notin {"relay", "ended"} => atTarget = <<>>
    /\ DataFrom(atTarget, lost)
    /\ server = "relay" => DataFrom(up, lost + Len(atTarget))
    /\ Len(fromApp) <= sentUp /\ DataFrom(fromApp, sentUp - Len(fromApp))
    /\ app = "reset" => fromApp = <<>>
    /\ lost > 0 => http
    /\ app # "reset" =>
          /\ server \notin {"relay", "ended"} => lost + Len(fromApp) = sentUp
          /\ server = "relay" => lost + Len(atTarget) + Len(up) + Len(fromApp) = sentUp

\* What is on its way to the client: an ack, if the hello was answered and as
\* far as it has not been taken, then the status, then the target's data.
DownInv ==
    /\ server = "marker" => down = <<>> /\ taken = 0
    /\ client = "transport" => down = <<>> /\ taken = 0
    /\ ~dialled => sentDown = 0
    /\ client = "ack" =>
          /\ \A i \in 1..Len(down) : down[i].kind = "ack"
          /\ down # <<>> => Len(down) + taken = AckLen
          /\ taken < AckLen
    /\ client \in {"request", "status"} =>
          /\ ~dialled =>
                \A i \in 1..Len(down) : down[i].kind \in {"ack", "status"} /\ Value(down[i]) # StatusOk
          /\ dialled =>
                LET k == Len(down) - sentDown IN
                /\ k > 0
                /\ \A i \in 1..Len(down) :
                      /\ i < k => down[i].kind = "ack"
                      /\ i = k => down[i].kind = "status" /\ down[i].n = StatusOk
                      /\ i > k => down[i].kind = "data" /\ down[i].n = i - k
    /\ client = "open" =>
          /\ Len(atApp) + Len(down) = sentDown
          /\ DataFrom(down, Len(atApp))
    /\ client \in Early => atApp = <<>>
    /\ DataFrom(atApp, 0)

\* Why a byte that is no success may be taken for the status.
ReasonInv ==
    /\ FailsForAReason
    /\ \A i \in 1..Len(down) :
          /\ down[i].kind = "ack" => ~silent
          /\ down[i].kind = "status" /\ down[i].n # StatusOk => refused
    /\ client \in {"request", "status"} =>
          /\ (\E i \in 1..Len(down) : down[i].kind = "ack") => late
          /\ server = "marker" /\ Len(up) > 0 /\ up[1].n = 1 => late

RelayInv == RelayTypeOK /\ StepsInv /\ UpInv /\ DownInv /\ ReasonInv

-----------------------------------------------------------------------------
(* Sequences of items                                                      *)

LEMMA LenOfItems ==
    ASSUME NEW s \in Seq(Items)
    PROVE  /\ Len(s) \in Nat
           /\ s = <<>> <=> Len(s) = 0
           /\ \A i \in 1..Len(s) : s[i] \in Items
OBVIOUS

\* What is left of s, and what s is with e behind it.
Drops(s, k, t) ==
    /\ t \in Seq(Items) /\ k \in Nat /\ Len(t) = Len(s) - k
    /\ \A i \in 1..Len(t) : t[i] = s[i + k]

Extends(s, e, t) ==
    /\ t \in Seq(Items) /\ Len(t) = Len(s) + 1
    /\ \A i \in 1..Len(s) : t[i] = s[i]
    /\ t[Len(s) + 1] = e

LEMMA TailOfItems ==
    ASSUME NEW s \in Seq(Items), s # <<>>
    PROVE  Drops(s, 1, Tail(s)) /\ Head(s) = s[1] /\ s[1] \in Items
BY DEF Drops

LEMMA AppendOfItems ==
    ASSUME NEW s \in Seq(Items), NEW e \in Items
    PROVE  Extends(s, e, Append(s, e))
BY DEF Extends

LEMMA DropOfItems ==
    ASSUME NEW s \in Seq(Items), NEW k \in 0..Len(s)
    PROVE  Drops(s, k, SubSeq(s, k + 1, Len(s)))
BY DEF Drops

LEMMA AckItems ==
    /\ Ack \in Seq(Items) /\ Len(Ack) = AckLen /\ <<>> \o Ack = Ack
    /\ \A i \in 1..AckLen : Ack[i] = Item("ack", i)
<1>1. \A i \in 1..AckLen : Item("ack", i) \in Items
  BY DEF Item, Items
<1>2. Ack \in Seq(Items) /\ Len(Ack) = AckLen
  BY <1>1, SessionAssumption DEF Ack
<1> QED
  BY <1>2, SessionAssumption DEF Ack

LEMMA ItemFacts ==
    ASSUME NEW kind \in {"marker", "request", "ack", "status", "data"}, NEW n \in Nat
    PROVE  /\ Item(kind, n) \in Items
           /\ Item(kind, n).kind = kind /\ Item(kind, n).n = n
BY DEF Item, Items

\* No byte of an ack says success, and only a status of 0 or data does.
LEMMA ValueFacts ==
    ASSUME NEW b \in Items
    PROVE  /\ b.kind = "ack" => Value(b) # StatusOk
           /\ b.kind = "status" => Value(b) = b.n
BY DEF Value, AckValue, StatusOk

LEMMA EmptyData == ASSUME NEW m PROVE <<>> \in Seq(Items) /\ DataFrom(<<>>, m)
BY DEF DataFrom

LEMMA DropData ==
    ASSUME NEW s \in Seq(Items), NEW k, NEW t, Drops(s, k, t), NEW m \in Int, DataFrom(s, m)
    PROVE  DataFrom(t, m + k)
<1> SUFFICES ASSUME NEW i \in 1..Len(t)
             PROVE  t[i].kind = "data" /\ t[i].n = (m + k) + i
  BY DEF DataFrom
<1>1. t[i] = s[i + k] /\ i + k \in 1..Len(s) /\ i \in Nat /\ k \in Nat
  BY DEF Drops
<1>2. t[i].kind = "data" /\ t[i].n = m + (i + k)
  BY <1>1 DEF DataFrom
<1> QED
  BY <1>1, <1>2

LEMMA ExtendData ==
    ASSUME NEW s \in Seq(Items), NEW e, NEW t, Extends(s, e, t), NEW m \in Int, DataFrom(s, m),
           e.kind = "data", e.n = (m + Len(s)) + 1
    PROVE  DataFrom(t, m)
<1> SUFFICES ASSUME NEW i \in 1..Len(t)
             PROVE  t[i].kind = "data" /\ t[i].n = m + i
  BY DEF DataFrom
<1>1. Len(s) \in Nat /\ (i \in 1..Len(s) \/ i = Len(s) + 1)
  BY DEF Extends
<1>2. CASE i \in 1..Len(s)
  BY DEF Extends, DataFrom
<1>3. CASE i = Len(s) + 1
  <2>1. t[i] = e /\ m + i = (m + Len(s)) + 1
    BY <1>3 DEF Extends
  <2> QED
    BY <2>1
<1> QED
  BY <1>1, <1>2, <1>3

-----------------------------------------------------------------------------
(* The invariant                                                           *)

LEMMA InitRelay == ProxyInit => RelayInv
<1> SUFFICES ASSUME SessionInit, RelayInit PROVE RelayInv
  BY DEF ProxyInit
<1>1. RelayTypeOK
  <2>1. <<>> \in Seq(Items) /\ 0 \in 0..AckLen
    BY SessionAssumption
  <2> QED
    BY <2>1 DEF RelayTypeOK, SessionInit, RelayInit, Early
<1>2. StepsInv
  BY DEF StepsInv, SessionInit, RelayInit
<1>3. UpInv
  BY DEF UpInv, SessionInit, RelayInit, DataFrom
<1>4. DownInv
  BY DEF DownInv, SessionInit, RelayInit, DataFrom
<1>5. ReasonInv
  BY DEF ReasonInv, FailsForAReason, SessionInit
<1> QED BY <1>1, <1>2, <1>3, <1>4, <1>5 DEF RelayInv

LEMMA SendMarkerStep ==
    ASSUME RelayInv, ask = "asked", SendMarker, UNCHANGED relayVars
    PROVE  RelayInv'
<1>1. Extends(up, Item("marker", IF shaped THEN 1 ELSE 0), up')
  BY AppendOfItems, ItemFacts DEF RelayInv, RelayTypeOK, SendMarker
<1>2. RelayTypeOK'
  BY <1>1 DEF RelayInv, RelayTypeOK, Early, relayVars, setup, Extends, SendMarker
<1>3. StepsInv'
  BY DEF RelayInv, StepsInv, relayVars, SendMarker
<1>4. UpInv'
  BY ItemFacts DEF RelayInv, StepsInv, UpInv, relayVars, SendMarker
<1>5. DownInv'
  BY SessionAssumption DEF RelayInv, DownInv, RelayTypeOK, StepsInv, relayVars, SendMarker
<1>6. ReasonInv'
  BY ItemFacts DEF RelayInv, StepsInv, DownInv, ReasonInv, FailsForAReason, SendMarker
<1> QED BY <1>2, <1>3, <1>4, <1>5, <1>6 DEF RelayInv

LEMMA TakeAckStep ==
    ASSUME RelayInv, ask = "asked", TakeAck, UNCHANGED relayVars
    PROVE  RelayInv'
<1>1. Drops(down, 1, down')
  BY TailOfItems DEF RelayInv, RelayTypeOK, TakeAck
<1>2. RelayTypeOK'
  BY DEF RelayInv, RelayTypeOK, DownInv, Early, relayVars, setup, TakeAck
<1>3. StepsInv'
  BY DEF RelayInv, StepsInv, relayVars, TakeAck
<1>4. UpInv'
  BY DEF RelayInv, UpInv, relayVars, TakeAck
<1>5. DownInv'
  <2>1. \A i \in 1..Len(down') : down'[i].kind = "ack"
    BY DEF RelayInv, DownInv, TakeAck
  <2>2. Len(down') + taken' = AckLen
    BY DEF RelayInv, RelayTypeOK, DownInv, TakeAck
  <2>3. ~dialled /\ sentDown = 0 /\ atApp = <<>> /\ server # "marker" /\ taken' \in Nat
          /\ DataFrom(atApp, 0)
    BY DEF RelayInv, RelayTypeOK, StepsInv, DownInv, TakeAck
  <2> QED
    BY <2>1, <2>2, <2>3 DEF DownInv, TakeAck, relayVars
<1>6. ReasonInv'
  BY <1>1, SessionAssumption DEF RelayInv, ReasonInv, RelayTypeOK, DownInv, FailsForAReason,
     setup, TakeAck
<1> QED BY <1>2, <1>3, <1>4, <1>5, <1>6 DEF RelayInv

LEMMA AckEndsStep ==
    ASSUME RelayInv, ask = "asked", AckEnds, UNCHANGED relayVars
    PROVE  RelayInv'
<1>1. RelayTypeOK'
  BY DEF RelayInv, RelayTypeOK, Early, relayVars, setup, AckEnds
<1>2. StepsInv'
  BY DEF RelayInv, StepsInv, relayVars, AckEnds
<1>3. UpInv'
  BY DEF RelayInv, UpInv, relayVars, AckEnds
<1>4. DownInv'
  BY DEF RelayInv, DownInv, StepsInv, Early, relayVars, AckEnds
<1>5. ReasonInv'
  BY DEF ReasonInv, FailsForAReason, AckEnds
<1> QED BY <1>1, <1>2, <1>3, <1>4, <1>5 DEF RelayInv

LEMMA AckDeadlineStep ==
    ASSUME RelayInv, ask = "asked", AckDeadline, UNCHANGED relayVars
    PROVE  RelayInv'
<1>1. RelayTypeOK'
  BY SessionAssumption DEF RelayInv, RelayTypeOK, Early, relayVars, setup, AckDeadline
<1>2. StepsInv'
  BY DEF RelayInv, StepsInv, relayVars, AckDeadline
<1>3. UpInv'
  BY DEF RelayInv, UpInv, relayVars, AckDeadline
<1>4. DownInv'
  BY ValueFacts DEF RelayInv, RelayTypeOK, StepsInv, DownInv, relayVars, AckDeadline
<1>5. ReasonInv'
  BY DEF RelayInv, ReasonInv, FailsForAReason, setup, AckDeadline
<1> QED BY <1>1, <1>2, <1>3, <1>4, <1>5 DEF RelayInv

LEMMA SendRequestStep ==
    ASSUME RelayInv, ask = "asked", SendRequest, UNCHANGED relayVars
    PROVE  RelayInv'
<1>1. ~overlong => Extends(up, Item("request", 0), up')
  <2>1. Item("request", 0) \in Items /\ up \in Seq(Items)
    BY ItemFacts DEF RelayInv, RelayTypeOK
  <2>2. ~overlong => up' = Append(up, Item("request", 0))
    BY DEF SendRequest
  <2> QED
    BY <2>1, <2>2, AppendOfItems
<1>2. RelayTypeOK'
  BY <1>1 DEF RelayInv, RelayTypeOK, Early, relayVars, setup, Extends, SendRequest
<1>3. StepsInv'
  BY DEF RelayInv, StepsInv, relayVars, SendRequest
<1>4. UpInv'
  BY <1>1, ItemFacts DEF RelayInv, StepsInv, UpInv, ReasonInv, FailsForAReason, relayVars,
     StatusOk, Extends, SendRequest
<1>5. DownInv'
  BY DEF RelayInv, DownInv, Early, relayVars, SendRequest
<1>6. ReasonInv'
  BY <1>1 DEF RelayInv, UpInv, DownInv, ReasonInv, FailsForAReason, setup, Extends,
     SendRequest
<1> QED BY <1>2, <1>3, <1>4, <1>5, <1>6 DEF RelayInv

LEMMA ReadStatusStep ==
    ASSUME RelayInv, ask = "asked", ReadStatus, UNCHANGED relayVars
    PROVE  RelayInv'
<1>1. Drops(down, 1, down') /\ Head(down) = down[1] /\ down[1] \in Items
  BY TailOfItems DEF RelayInv, RelayTypeOK, ReadStatus
<1>2. RelayTypeOK'
  BY DEF RelayInv, RelayTypeOK, relayVars, setup, ReadStatus
<1>3. StepsInv'
  BY DEF RelayInv, StepsInv, DownInv, ReadStatus, relayVars
<1>4. UpInv'
  BY DEF RelayInv, UpInv, ReadStatus, relayVars
<1>5. DownInv'
  <2>1. (client' = "open" /\ dialled /\ Len(down) - sentDown = 1) \/ client' = "failed"
    BY <1>1, ValueFacts DEF RelayInv, RelayTypeOK, DownInv, ReadStatus
  <2>2. Len(down) \in Nat /\ sentDown \in Nat /\ client = "status" /\ Len(down') \in Nat
          /\ Len(down') = Len(down) - 1 /\ \A i \in 1..Len(down') : down'[i] = down[i + 1]
    BY DEF RelayInv, RelayTypeOK, ReadStatus
  <2>3. dialled /\ Len(down) - sentDown = 1 => \A j \in 1..Len(down) :
             j > 1 => down[j].kind = "data" /\ down[j].n = j - 1
    BY <2>2 DEF RelayInv, DownInv
  <2>4. dialled /\ Len(down) - sentDown = 1 => \A i \in 1..Len(down') :
             down'[i].kind = "data" /\ down'[i].n = 0 + i
    BY <2>2, <2>3
  <2>5. dialled /\ Len(down) - sentDown = 1 => DataFrom(down', 0) /\ Len(down') = sentDown
    BY <2>2, <2>4 DEF DataFrom
  <2> QED
    BY <2>1, <2>5 DEF DownInv, RelayInv, ReadStatus, Early, relayVars
<1>6. ReasonInv'
  <2>1. 1 \in 1..Len(down)
    BY DEF ReadStatus
  <2>2. down[1].kind = "status" => (Value(down[1]) = StatusOk \/ refused)
    BY <1>1, <2>1, ValueFacts DEF RelayInv, ReasonInv
  <2>3. down[1].kind \in {"ack", "status"}
    BY DEF RelayInv, RelayTypeOK, StepsInv, DownInv, ReasonInv, ReadStatus
  <2>4. FailsForAReason'
    BY <2>2, <2>3 DEF RelayInv, ReasonInv, FailsForAReason, ReadStatus, setup
  <2> QED
    BY <2>4, LenOfItems DEF RelayInv, ReasonInv, ReadStatus, setup
<1> QED BY <1>2, <1>3, <1>4, <1>5, <1>6 DEF RelayInv

LEMMA ClientLosesStep ==
    ASSUME RelayInv, ask = "asked", ClientLoses, UNCHANGED relayVars
    PROVE  RelayInv'
<1>1. RelayTypeOK'
  BY DEF RelayInv, RelayTypeOK, relayVars, setup, ClientLoses
<1>2. StepsInv'
  BY DEF RelayInv, StepsInv, relayVars, ClientLoses
<1>3. UpInv'
  BY DEF RelayInv, UpInv, relayVars, ClientLoses
<1>4. DownInv'
  BY DEF RelayInv, DownInv, Early, relayVars, ClientLoses
<1>5. ReasonInv'
  BY DEF RelayInv, ReasonInv, FailsForAReason, setup, ClientLoses
<1> QED BY <1>1, <1>2, <1>3, <1>4, <1>5 DEF RelayInv

LEMMA NegotiateStep == ASSUME RelayInv, Negotiate, UNCHANGED relayVars PROVE RelayInv'
<1>1. down' = IF up[1].n = 1 /\ ~silent THEN Ack ELSE <<>>
  BY DEF RelayInv, DownInv, Negotiate
<1>2. RelayTypeOK'
  BY AckItems DEF RelayInv, RelayTypeOK, relayVars, setup, Negotiate
<1>3. StepsInv'
  BY DEF RelayInv, StepsInv, relayVars, Negotiate
<1>4. UpInv'
  BY DEF RelayInv, UpInv, relayVars, Negotiate
<1>5. DownInv'
  <2>1. down = <<>> /\ taken = 0 /\ ~dialled /\ client \notin {"transport", "open"}
    BY DEF RelayInv, StepsInv, DownInv, Negotiate
  <2>2. \A i \in 1..Len(down') : down'[i] \in Items
            /\ down'[i].kind = "ack" /\ Value(down'[i]) # StatusOk
    BY <1>1, AckItems, ItemFacts, ValueFacts
  <2>3. down' = <<>> \/ (Len(down') = AckLen /\ up[1].n = 1 /\ ~silent)
    BY <1>1, AckItems
  <2> QED
    BY <2>1, <2>2, <2>3 DEF RelayInv, DownInv, Negotiate, relayVars
<1>6. ReasonInv'
  <2>1. \A i \in 1..Len(down') : down'[i] \in Items
            /\ down'[i].kind = "ack" /\ Value(down'[i]) # StatusOk
    BY <1>1, AckItems, ItemFacts, ValueFacts
  <2> QED
    BY <2>1 DEF RelayInv, ReasonInv, FailsForAReason, Negotiate, setup
<1> QED BY <1>2, <1>3, <1>4, <1>5, <1>6 DEF RelayInv

LEMMA ReadRequestStep == ASSUME RelayInv, ReadRequest, UNCHANGED relayVars PROVE RelayInv'
<1>1. RelayTypeOK'
  BY DEF RelayInv, RelayTypeOK, relayVars, setup, ReadRequest
<1>2. StepsInv'
  BY DEF RelayInv, StepsInv, UpInv, relayVars, ReadRequest
<1>3. UpInv'
  BY DEF RelayInv, UpInv, relayVars, ReadRequest
<1>4. DownInv'
  BY DEF RelayInv, DownInv, relayVars, ReadRequest
<1>5. ReasonInv'
  BY DEF RelayInv, ReasonInv, FailsForAReason, setup, ReadRequest
<1> QED BY <1>1, <1>2, <1>3, <1>4, <1>5 DEF RelayInv

LEMMA DialledStep == ASSUME RelayInv, Dialled, UNCHANGED relayVars PROVE RelayInv'
<1>1. Extends(down, Item("status", StatusOk), down')
  BY AppendOfItems, ItemFacts DEF StatusOk, Dialled, RelayInv, RelayTypeOK
<1>2. RelayTypeOK'
  BY <1>1 DEF RelayInv, RelayTypeOK, relayVars, setup, Extends, Dialled
<1>3. StepsInv'
  BY DEF RelayInv, StepsInv, relayVars, Dialled
<1>4. UpInv'
  BY DEF RelayInv, UpInv, RelayTypeOK, relayVars, Dialled
<1>5. DownInv'
  <2>1. ~dialled /\ sentDown = 0 /\ client \in {"status", "failed", "gone"} /\ server = "dial"
          /\ Len(down) \in Nat
    BY DEF RelayInv, RelayTypeOK, StepsInv, DownInv, Dialled, Early
  <2>2. Item("status", StatusOk) \in Items /\ Item("status", StatusOk).kind = "status"
          /\ Item("status", StatusOk).n = StatusOk
    BY ItemFacts DEF StatusOk
  <2>3. Len(down') = Len(down) + 1 /\ down'[Len(down) + 1] = Item("status", StatusOk)
          /\ \A i \in 1..Len(down) : down'[i] = down[i]
    BY <1>1 DEF Extends
  <2>4. DataFrom(atApp, 0) /\ (client = "status" => atApp = <<>>)
    BY DEF RelayInv, DownInv, Early
  <2>5. client = "status" => \A i \in 1..Len(down) : down[i] \in Items /\ down[i].kind \in {"ack", "status"}
             /\ (down[i].kind = "status" => down[i].n = StatusOk) /\ Value(down[i]) # StatusOk
    BY <2>1 DEF RelayInv, RelayTypeOK, StepsInv, DownInv, ReasonInv
  <2>6. client = "status" => \A i \in 1..Len(down) : down'[i].kind = "ack"
    BY <2>5, ValueFacts, <2>3
  <2> QED
    BY <2>1, <2>2, <2>4, <2>6 DEF DownInv, Dialled, relayVars, Early
<1>6. ReasonInv'
  BY <1>1, ItemFacts DEF RelayInv, Early, ReasonInv, FailsForAReason, setup, StatusOk,
     Dialled
<1> QED BY <1>2, <1>3, <1>4, <1>5, <1>6 DEF RelayInv

LEMMA DialFailsStep == ASSUME RelayInv, DialFails, UNCHANGED relayVars PROVE RelayInv'
<1>1. Extends(down, Item("status", 1), down')
  BY AppendOfItems, ItemFacts DEF DialFails, RelayInv, RelayTypeOK
<1>2. RelayTypeOK'
  BY <1>1 DEF RelayInv, RelayTypeOK, relayVars, setup, Extends, DialFails
<1>3. StepsInv'
  BY DEF RelayInv, StepsInv, relayVars, DialFails
<1>4. UpInv'
  BY DEF RelayInv, UpInv, relayVars, DialFails
<1>5. DownInv'
  <2>1. ~dialled /\ sentDown = 0 /\ client \in {"status", "failed", "gone"} /\ server = "dial"
          /\ Len(down) \in Nat
    BY DEF RelayInv, RelayTypeOK, StepsInv, DownInv, DialFails, Early
  <2>2. Item("status", 1) \in Items /\ Item("status", 1).kind = "status"
          /\ Item("status", 1).n = 1
    BY ItemFacts
  <2>3. Len(down') = Len(down) + 1 /\ down'[Len(down) + 1] = Item("status", 1)
          /\ \A i \in 1..Len(down) : down'[i] = down[i]
    BY <1>1 DEF Extends
  <2>4. client = "status" => \A i \in 1..Len(down) :
             down'[i] \in Items /\ down'[i].kind \in {"ack", "status"} /\ Value(down'[i]) # StatusOk
    BY <2>1, <2>3 DEF RelayInv, RelayTypeOK, DownInv
  <2>5. DataFrom(atApp, 0) /\ (client = "status" => atApp = <<>>)
    BY DEF RelayInv, DownInv, Early
  <2>6. Value(Item("status", 1)) # StatusOk
    BY <2>2, ValueFacts DEF StatusOk
  <2> QED
    BY <2>1, <2>2, <2>4, <2>5, <2>6 DEF DownInv, DialFails, relayVars, Early
<1>6. ReasonInv'
  BY ItemFacts DEF RelayInv, ReasonInv, FailsForAReason, setup, DialFails
<1> QED BY <1>2, <1>3, <1>4, <1>5, <1>6 DEF RelayInv

LEMMA ClientGoesStep == ASSUME RelayInv, ClientGoes, UNCHANGED relayVars PROVE RelayInv'
<1>1. RelayTypeOK'
  BY DEF RelayInv, RelayTypeOK, relayVars, setup, ClientGoes
<1>2. StepsInv'
  BY DEF RelayInv, StepsInv, relayVars, ClientGoes
<1>3. UpInv'
  BY DEF RelayInv, UpInv, relayVars, ClientGoes
<1>4. DownInv'
  BY DEF RelayInv, DownInv, Early, relayVars, ClientGoes
<1>5. ReasonInv'
  BY DEF RelayInv, ReasonInv, FailsForAReason, setup, ClientGoes
<1> QED BY <1>1, <1>2, <1>3, <1>4, <1>5 DEF RelayInv

LEMMA ServerEndsStep == ASSUME RelayInv, ServerEnds, UNCHANGED relayVars PROVE RelayInv'
<1>1. RelayTypeOK'
  BY DEF RelayInv, RelayTypeOK, relayVars, setup, ServerEnds
<1>2. StepsInv'
  BY DEF RelayInv, StepsInv, relayVars, ServerEnds
<1>3. UpInv'
  BY DEF RelayInv, UpInv, relayVars, ServerEnds
<1>4. DownInv'
  BY DEF RelayInv, DownInv, relayVars, ServerEnds
<1>5. ReasonInv'
  BY DEF RelayInv, ReasonInv, FailsForAReason, setup, ServerEnds
<1> QED BY <1>1, <1>2, <1>3, <1>4, <1>5 DEF RelayInv

LEMMA AppSendsStep == ASSUME RelayInv, AppSends PROVE RelayInv'
<1>1. Extends(fromApp, Item("data", sentUp + 1), fromApp')
  BY AppendOfItems, ItemFacts DEF AppSends, RelayInv, RelayTypeOK
<1>2. RelayTypeOK'
  BY ItemFacts DEF RelayInv, RelayTypeOK, sessionVars, AppSends
<1>3. StepsInv'
  BY DEF RelayInv, StepsInv, sessionVars, AppSends
<1>4. UpInv'
  <2>1. Len(fromApp) \in Nat /\ Len(fromApp') = Len(fromApp) + 1 /\ sentUp \in Nat
    BY <1>1 DEF RelayInv, RelayTypeOK, Extends
  <2>2. Item("data", sentUp + 1).kind = "data"
          /\ Item("data", sentUp + 1).n = ((sentUp - Len(fromApp)) + Len(fromApp)) + 1
          /\ sentUp - Len(fromApp) \in Int
    BY <2>1, ItemFacts
  <2>3. fromApp \in Seq(Items) /\ DataFrom(fromApp, sentUp - Len(fromApp))
    BY DEF RelayInv, RelayTypeOK, UpInv
  <2>4. DataFrom(fromApp', sentUp - Len(fromApp))
    BY <1>1, <2>2, <2>3, ExtendData
  <2>5. sentUp' = sentUp + 1
    BY DEF AppSends
  <2>6. sentUp' - Len(fromApp') = sentUp - Len(fromApp)
    BY <2>1, <2>5
  <2>7. lost \in Nat /\ Len(atTarget) \in Nat /\ Len(up) \in Nat
    BY DEF RelayInv, RelayTypeOK
  <2>8. UNCHANGED <<server, client, up, atTarget, lost, http, app>> /\ app # "reset"
    BY DEF AppSends, sessionVars
  <2>9. /\ server \notin {"relay", "ended"} => lost + Len(fromApp') = sentUp'
        /\ server = "relay" => lost + Len(atTarget) + Len(up) + Len(fromApp') = sentUp'
        /\ Len(fromApp') <= sentUp'
    BY <2>1, <2>5, <2>7, <2>8 DEF RelayInv, UpInv
  <2> QED
    BY <2>4, <2>6, <2>8, <2>9 DEF RelayInv, UpInv
<1>5. DownInv'
  BY DEF RelayInv, DownInv, sessionVars, AppSends
<1>6. ReasonInv'
  BY DEF RelayInv, ReasonInv, FailsForAReason, sessionVars, AppSends
<1> QED BY <1>2, <1>3, <1>4, <1>5, <1>6 DEF RelayInv

LEMMA AppEndsStep ==
    ASSUME RelayInv, NEW how \in {"fin", "reset"}, AppEnds(how)
    PROVE  RelayInv'
<1>1. RelayTypeOK'
  BY DEF RelayInv, RelayTypeOK, sessionVars, AppEnds
<1>2. StepsInv'
  BY DEF RelayInv, StepsInv, sessionVars, AppEnds
<1>3. UpInv'
  <2>1. sentUp - 0 \in Int /\ Len(<<>>) = 0 /\ DataFrom(<<>>, sentUp - 0) /\ 0 <= sentUp
    BY EmptyData DEF RelayInv, RelayTypeOK
  <2> QED
    BY <2>1 DEF RelayInv, UpInv, AppEnds, sessionVars
<1>4. DownInv'
  BY DEF RelayInv, DownInv, sessionVars, AppEnds
<1>5. ReasonInv'
  BY DEF RelayInv, ReasonInv, FailsForAReason, sessionVars, AppEnds
<1> QED BY <1>1, <1>2, <1>3, <1>4, <1>5 DEF RelayInv

LEMMA TargetEndsStep ==
    ASSUME RelayInv, NEW how \in {"fin", "reset"}, TargetEnds(how)
    PROVE  RelayInv'
<1>1. RelayTypeOK'
  BY DEF RelayInv, RelayTypeOK, sessionVars, TargetEnds
<1>2. StepsInv'
  BY DEF RelayInv, StepsInv, sessionVars, TargetEnds
<1>3. UpInv'
  BY DEF RelayInv, UpInv, sessionVars, TargetEnds
<1>4. DownInv'
  BY DEF RelayInv, DownInv, sessionVars, TargetEnds
<1>5. ReasonInv'
  BY DEF RelayInv, ReasonInv, FailsForAReason, sessionVars, TargetEnds
<1> QED BY <1>1, <1>2, <1>3, <1>4, <1>5 DEF RelayInv

LEMMA ReadAskStep == ASSUME RelayInv, NEW k \in 0..MaxData, ReadAsk(k) PROVE RelayInv'
<1>1. Drops(fromApp, k, fromApp')
  BY DropOfItems DEF RelayInv, RelayTypeOK, ReadAsk
<1>2. RelayTypeOK'
  BY DEF RelayInv, RelayTypeOK, sessionVars, ReadAsk
<1>3. StepsInv'
  BY DEF RelayInv, StepsInv, sessionVars, ReadAsk
<1>4. UpInv'
  <2>1. Len(fromApp) \in Nat /\ Len(fromApp') = Len(fromApp) - k /\ sentUp \in Nat
          /\ k \in Nat /\ k <= Len(fromApp)
    BY DEF RelayInv, RelayTypeOK, ReadAsk
  <2>2. DataFrom(fromApp', (sentUp - Len(fromApp)) + k)
    BY <1>1, DropData DEF RelayInv, RelayTypeOK, UpInv
  <2>3. sentUp' = sentUp /\ lost' = k /\ (k > 0 => http')
    BY DEF ReadAsk
  <2>4. sentUp' - Len(fromApp') = (sentUp - Len(fromApp)) + k
    BY <2>1, <2>3
  <2>5. atTarget = <<>> /\ DataFrom(<<>>, k) /\ lost = 0 /\ server \in {"marker", "ended"}
          /\ up = <<>>
    BY EmptyData DEF RelayInv, StepsInv, ReadAsk
  <2>6. server \notin {"relay", "ended"} => lost' + Len(fromApp') = sentUp'
    BY <2>5 DEF RelayInv, UpInv, ReadAsk
  <2>7. Len(fromApp') <= sentUp'
    BY <2>1, <2>3 DEF RelayInv, UpInv
  <2>8. app' = app /\ app # "reset" /\ server' = server /\ client' = client /\ up' = up
          /\ atTarget' = atTarget
    BY DEF ReadAsk, sessionVars
  <2> QED
    BY <2>2, <2>3, <2>4, <2>5, <2>6, <2>7, <2>8 DEF RelayInv, UpInv
<1>5. DownInv'
  BY DEF RelayInv, DownInv, sessionVars, ReadAsk
<1>6. ReasonInv'
  BY DEF RelayInv, ReasonInv, FailsForAReason, sessionVars, ReadAsk
<1> QED BY <1>2, <1>3, <1>4, <1>5, <1>6 DEF RelayInv

LEMMA RefuseAskStep == ASSUME RelayInv, RefuseAsk PROVE RelayInv'
<1>1. RelayTypeOK'
  BY DEF RelayInv, RelayTypeOK, sessionVars, RefuseAsk
<1>2. StepsInv'
  BY DEF RelayInv, StepsInv, sessionVars, RefuseAsk
<1>3. UpInv'
  BY DEF RelayInv, UpInv, sessionVars, RefuseAsk
<1>4. DownInv'
  BY DEF RelayInv, DownInv, sessionVars, RefuseAsk
<1>5. ReasonInv'
  BY DEF RelayInv, ReasonInv, FailsForAReason, sessionVars, RefuseAsk
<1> QED BY <1>1, <1>2, <1>3, <1>4, <1>5 DEF RelayInv

LEMMA AnswerStep == ASSUME RelayInv, Answer PROVE RelayInv'
<1>1. RelayTypeOK'
  BY DEF RelayInv, RelayTypeOK, sessionVars, Answer
<1>2. StepsInv'
  BY DEF RelayInv, StepsInv, sessionVars, Answer
<1>3. UpInv'
  BY DEF RelayInv, UpInv, sessionVars, Answer
<1>4. DownInv'
  BY DEF RelayInv, DownInv, sessionVars, Answer
<1>5. ReasonInv'
  BY DEF RelayInv, ReasonInv, FailsForAReason, sessionVars, Answer
<1> QED BY <1>1, <1>2, <1>3, <1>4, <1>5 DEF RelayInv

LEMMA ClientForwardsStep == ASSUME RelayInv, ClientForwards PROVE RelayInv'
<1>1. Drops(fromApp, 1, fromApp') /\ Head(fromApp) = fromApp[1] /\ fromApp[1] \in Items
  BY TailOfItems DEF RelayInv, RelayTypeOK, ClientForwards
<1>2. Extends(up, fromApp[1], up')
  BY AppendOfItems DEF RelayInv, RelayTypeOK, ClientForwards
<1>3. RelayTypeOK'
  BY DEF RelayInv, RelayTypeOK, setup, ClientForwards
<1>4. StepsInv'
  BY DEF RelayInv, StepsInv, ClientRelays, ClientForwards
<1>5. UpInv'
  <2>1. Len(fromApp) \in Nat /\ Len(fromApp') = Len(fromApp) - 1 /\ sentUp \in Nat
          /\ Len(fromApp) > 0
          /\ Len(up) \in Nat /\ Len(up') = Len(up) + 1 /\ Len(atTarget) \in Nat /\ lost \in Nat
    BY DEF RelayInv, RelayTypeOK, ClientForwards
  <2>2. DataFrom(fromApp', (sentUp - Len(fromApp)) + 1)
    BY <1>1, DropData, SMTT(30) DEF RelayInv, RelayTypeOK, UpInv
  <2>3. sentUp' - Len(fromApp') = (sentUp - Len(fromApp)) + 1
    BY <2>1 DEF ClientForwards
  <2>4. fromApp[1].kind = "data" /\ fromApp[1].n = (sentUp - Len(fromApp)) + 1
    BY <2>1 DEF RelayInv, UpInv, DataFrom
  <2>5. server \in {"relay", "ended"} /\ app # "reset"
    BY DEF RelayInv, StepsInv, UpInv, ClientForwards, ClientRelays
  <2>6. server = "relay" => /\ DataFrom(up, lost + Len(atTarget))
                           /\ lost + Len(atTarget) + Len(up) + Len(fromApp) = sentUp
    BY <2>5 DEF RelayInv, UpInv
  <2>7. up \in Seq(Items) /\ lost + Len(atTarget) \in Int
    BY DEF RelayInv, RelayTypeOK
  <2>8. server = "relay" => DataFrom(up', lost + Len(atTarget))
    BY <1>2, <2>4, <2>6, <2>7, ExtendData
  <2>9. server = "relay" => lost + Len(atTarget) + Len(up') + Len(fromApp') = sentUp
    BY <2>1, <2>6
  <2>10. Len(fromApp') <= sentUp
    BY <2>1 DEF RelayInv, UpInv
  <2>11. UNCHANGED <<sentUp, lost, atTarget, server, app, http>> /\ server # "marker"
           /\ server # "request" /\ server # "dial"
    BY <2>5 DEF ClientForwards
  <2> QED
    BY <2>2, <2>3, <2>5, <2>8, <2>9, <2>10, <2>11 DEF RelayInv, UpInv
<1>6. DownInv'
  BY DEF RelayInv, DownInv, ClientForwards
<1>7. ReasonInv'
  BY DEF RelayInv, ReasonInv, FailsForAReason, setup, ClientRelays, ClientForwards
<1> QED BY <1>3, <1>4, <1>5, <1>6, <1>7 DEF RelayInv

LEMMA AppIsOverStep == ASSUME RelayInv, AppIsOver PROVE RelayInv'
<1>1. RelayTypeOK'
  BY DEF RelayInv, RelayTypeOK, sessionVars, AppIsOver
<1>2. StepsInv'
  BY DEF RelayInv, StepsInv, sessionVars, AppIsOver
<1>3. UpInv'
  BY DEF RelayInv, UpInv, sessionVars, AppIsOver
<1>4. DownInv'
  BY DEF RelayInv, DownInv, sessionVars, AppIsOver
<1>5. ReasonInv'
  BY DEF RelayInv, ReasonInv, FailsForAReason, sessionVars, AppIsOver
<1> QED BY <1>1, <1>2, <1>3, <1>4, <1>5 DEF RelayInv

LEMMA ClientReturnsStep == ASSUME RelayInv, ClientReturns PROVE RelayInv'
<1>1. Drops(down, 1, down') /\ Head(down) = down[1] /\ down[1] \in Items
  BY TailOfItems DEF RelayInv, RelayTypeOK, ClientReturns
<1>2. Extends(atApp, down[1], atApp')
  BY AppendOfItems DEF RelayInv, RelayTypeOK, ClientReturns
<1>3. RelayTypeOK'
  BY DEF RelayInv, RelayTypeOK, setup, ClientReturns
<1>4. StepsInv'
  BY DEF RelayInv, StepsInv, ClientReturns
<1>5. UpInv'
  BY DEF RelayInv, UpInv, ClientReturns
<1>6. DownInv'
  <2>1. Len(down) \in Nat /\ Len(down') = Len(down) - 1 /\ Len(down) > 0 /\ client = "open"
          /\ Len(atApp) \in Nat /\ Len(atApp') = Len(atApp) + 1
    BY DEF ClientReturns, ClientRelays
  <2>2. down[1].kind = "data" /\ down[1].n = Len(atApp) + 1
    BY <2>1 DEF RelayInv, DownInv, DataFrom
  <2>3. DataFrom(atApp', 0)
    BY <1>2, <2>2, ExtendData DEF RelayInv, RelayTypeOK, DownInv
  <2>4. down \in Seq(Items) /\ DataFrom(down, Len(atApp))
    BY <2>1 DEF RelayInv, RelayTypeOK, DownInv
  <2>5. DataFrom(down', Len(atApp) + 1)
    BY <1>1, <2>4, DropData
  <2> QED
    BY <2>1, <2>3, <2>5 DEF RelayInv, DownInv, Early, ClientReturns
<1>7. ReasonInv'
  BY DEF RelayInv, ReasonInv, StepsInv, FailsForAReason, setup, ClientReturns
<1> QED BY <1>3, <1>4, <1>5, <1>6, <1>7 DEF RelayInv

LEMMA ClientDropsStep == ASSUME RelayInv, ClientDrops PROVE RelayInv'
<1>1. RelayTypeOK'
  BY DEF RelayInv, RelayTypeOK, relayVars, setup, ClientDrops
<1>2. StepsInv'
  BY DEF RelayInv, StepsInv, relayVars, ClientDrops
<1>3. UpInv'
  BY DEF RelayInv, UpInv, relayVars, ClientDrops
<1>4. DownInv'
  BY DEF RelayInv, DownInv, Early, relayVars, ClientDrops
<1>5. ReasonInv'
  BY DEF RelayInv, ReasonInv, FailsForAReason, setup, ClientDrops
<1> QED BY <1>1, <1>2, <1>3, <1>4, <1>5 DEF RelayInv

LEMMA ServerForwardsStep == ASSUME RelayInv, ServerForwards PROVE RelayInv'
<1>1. Drops(up, 1, up') /\ Head(up) = up[1] /\ up[1] \in Items
  BY TailOfItems DEF RelayInv, RelayTypeOK, ServerForwards
<1>2. Extends(atTarget, up[1], atTarget')
  BY AppendOfItems DEF RelayInv, RelayTypeOK, ServerForwards
<1>3. RelayTypeOK'
  BY DEF RelayInv, RelayTypeOK, setup, ServerForwards
<1>4. StepsInv'
  BY DEF RelayInv, StepsInv, ServerForwards
<1>5. UpInv'
  <2>1. Len(up) \in Nat /\ Len(up') = Len(up) - 1 /\ Len(up) > 0 /\ lost \in Nat
          /\ server = "relay"
          /\ Len(atTarget) \in Nat /\ Len(atTarget') = Len(atTarget) + 1
    BY DEF RelayInv, RelayTypeOK, ServerForwards
  <2>2. up[1].kind = "data" /\ up[1].n = lost + Len(atTarget) + 1
    BY <2>1 DEF RelayInv, UpInv, DataFrom
  <2>3. DataFrom(atTarget', lost)
    BY <1>2, <2>1, <2>2, ExtendData DEF RelayInv, RelayTypeOK, UpInv
  <2>4. DataFrom(up', (lost + Len(atTarget)) + 1)
    BY <1>1, <2>1, DropData DEF RelayInv, RelayTypeOK, UpInv
  <2>5. lost' + Len(atTarget') = (lost + Len(atTarget)) + 1
    BY <2>1 DEF ServerForwards
  <2> QED
    BY <2>1, <2>3, <2>4, <2>5 DEF RelayInv, UpInv, ServerForwards
<1>6. DownInv'
  BY DEF RelayInv, DownInv, ServerForwards
<1>7. ReasonInv'
  BY DEF RelayInv, ReasonInv, FailsForAReason, setup, ServerForwards
<1> QED BY <1>3, <1>4, <1>5, <1>6, <1>7 DEF RelayInv

LEMMA ServerReturnsStep == ASSUME RelayInv, ServerReturns PROVE RelayInv'
<1>1. Extends(down, Item("data", sentDown + 1), down')
  BY AppendOfItems, ItemFacts DEF ServerReturns, RelayInv, RelayTypeOK
<1>2. RelayTypeOK'
  BY <1>1 DEF RelayInv, RelayTypeOK, setup, Extends, ServerReturns
<1>3. StepsInv'
  BY DEF RelayInv, StepsInv, ServerReturns
<1>4. UpInv'
  BY DEF RelayInv, UpInv, ServerReturns
<1>5. DownInv'
  <2>1. Len(down) \in Nat /\ Len(down') = Len(down) + 1 /\ sentDown \in Nat
          /\ sentDown' = sentDown + 1
          /\ dialled /\ server = "relay" /\ Len(atApp) \in Nat
    BY DEF RelayInv, RelayTypeOK, StepsInv, ServerReturns
  <2>2. Item("data", sentDown + 1).kind = "data" /\ Item("data", sentDown + 1).n = sentDown + 1
    BY <2>1, ItemFacts
  <2>3. client = "open" => DataFrom(down', Len(atApp))
    BY <1>1, <2>1, <2>2, ExtendData DEF RelayInv, RelayTypeOK, DownInv
  <2>4. Len(down') - sentDown' = Len(down) - sentDown
    BY <2>1
  <2>5. client \in {"request", "status"} => \A i \in 1..Len(down) :
             /\ i < Len(down) - sentDown => down[i].kind = "ack"
             /\ i = Len(down) - sentDown => down[i].kind = "status" /\ down[i].n = StatusOk
             /\ i > Len(down) - sentDown => down[i].kind = "data" /\ down[i].n = i - (Len(down) - sentDown)
    BY <2>1 DEF RelayInv, DownInv
  <2>6. \A i \in 1..Len(down') : (i \in 1..Len(down) /\ down'[i] = down[i])
             \/ (i = Len(down) + 1 /\ down'[i] = Item("data", sentDown + 1))
    BY <1>1 DEF Extends
  <2>7. (Len(down) + 1) - (Len(down) - sentDown) = sentDown + 1
          /\ Len(down) + 1 > Len(down) - sentDown
    BY <2>1
  <2>8. client \in {"request", "status"} => \A i \in 1..Len(down') :
             /\ i < Len(down) - sentDown => down'[i].kind = "ack"
             /\ i = Len(down) - sentDown => down'[i].kind = "status" /\ down'[i].n = StatusOk
             /\ i > Len(down) - sentDown => down'[i].kind = "data" /\ down'[i].n = i - (Len(down) - sentDown)
    <3>1. PICK k : k = Len(down) - sentDown
      OBVIOUS
    <3>2. ASSUME client \in {"request", "status"}, NEW i \in 1..Len(down'), i \in 1..Len(down)
          PROVE  /\ i < k => down'[i].kind = "ack"
                 /\ i = k => down'[i].kind = "status" /\ down'[i].n = StatusOk
                 /\ i > k => down'[i].kind = "data" /\ down'[i].n = i - k
      <4>1. down'[i] = down[i]
        BY <2>1, <2>6, <3>2
      <4> QED BY <2>5, <3>1, <3>2, <4>1
    <3>3. ASSUME NEW i \in 1..Len(down'), i \notin 1..Len(down)
          PROVE  down'[i].kind = "data" /\ down'[i].n = i - k /\ i > k
      <4>1. i = Len(down) + 1 /\ down'[i] = Item("data", sentDown + 1)
        BY <2>6, <3>3
      <4> QED BY <2>1, <2>2, <2>7, <3>1, <4>1
    <3>4. ASSUME client \in {"request", "status"}, NEW i \in 1..Len(down')
          PROVE  /\ i < k => down'[i].kind = "ack"
                 /\ i = k => down'[i].kind = "status" /\ down'[i].n = StatusOk
                 /\ i > k => down'[i].kind = "data" /\ down'[i].n = i - k
      <4>1. CASE i \in 1..Len(down)
        BY <3>2, <3>4, <4>1
      <4>2. CASE i \notin 1..Len(down)
        <5>1. down'[i].kind = "data" /\ down'[i].n = i - k /\ i > k
          BY <3>3, <4>2
        <5>2. ~(i < k) /\ i # k
          BY <2>1, <3>1, <5>1
        <5> QED BY <5>1, <5>2
      <4> QED BY <4>1, <4>2
    <3> QED BY <3>1, <3>4, Zenon
  <2> QED
    BY <2>3, <2>4, <2>8 DEF RelayInv, StepsInv, DownInv, ServerReturns
<1>6. ReasonInv'
  <2>1. \A i \in 1..Len(down') : (i \in 1..Len(down) /\ down'[i] = down[i])
             \/ down'[i].kind = "data"
    BY <1>1, ItemFacts, LenOfItems DEF RelayInv, RelayTypeOK, Extends
  <2> QED
    BY <2>1 DEF RelayInv, ReasonInv, FailsForAReason, ServerReturns, setup
<1> QED BY <1>2, <1>3, <1>4, <1>5, <1>6 DEF RelayInv

LEMMA TargetIsOverStep == ASSUME RelayInv, TargetIsOver PROVE RelayInv'
<1>1. RelayTypeOK'
  BY DEF RelayInv, RelayTypeOK, sessionVars, TargetIsOver
<1>2. StepsInv'
  BY DEF RelayInv, StepsInv, sessionVars, TargetIsOver
<1>3. UpInv'
  BY DEF RelayInv, UpInv, sessionVars, TargetIsOver
<1>4. DownInv'
  BY DEF RelayInv, DownInv, sessionVars, TargetIsOver
<1>5. ReasonInv'
  BY DEF RelayInv, ReasonInv, FailsForAReason, sessionVars, TargetIsOver
<1> QED BY <1>1, <1>2, <1>3, <1>4, <1>5 DEF RelayInv

LEMMA ServerDropsStep == ASSUME RelayInv, ServerDrops PROVE RelayInv'
<1>1. RelayTypeOK'
  BY DEF RelayInv, RelayTypeOK, relayVars, setup, ServerDrops
<1>2. StepsInv'
  BY DEF RelayInv, StepsInv, relayVars, ServerDrops
<1>3. UpInv'
  BY DEF RelayInv, UpInv, relayVars, ServerDrops
<1>4. DownInv'
  BY DEF RelayInv, DownInv, relayVars, ServerDrops
<1>5. ReasonInv'
  BY DEF RelayInv, ReasonInv, FailsForAReason, setup, ServerDrops
<1> QED BY <1>1, <1>2, <1>3, <1>4, <1>5 DEF RelayInv

LEMMA RelayStep == ASSUME RelayInv, RelayNext PROVE RelayInv'
<1>1. CASE Activates
  BY <1>1, SendMarkerStep, TakeAckStep, AckEndsStep, AckDeadlineStep, SendRequestStep,
     ReadStatusStep, ClientLosesStep DEF Activates, Activation
<1>2. CASE Serves
  BY <1>2, NegotiateStep, ReadRequestStep, DialledStep, DialFailsStep DEF Serves, Serve
<1>3. CASE Killed
  BY <1>3, ClientGoesStep, ServerEndsStep DEF Killed
<1> QED
  BY <1>1, <1>2, <1>3, AppSendsStep, AppEndsStep, TargetEndsStep, ReadAskStep,
     RefuseAskStep, AnswerStep, ClientForwardsStep, AppIsOverStep, ClientReturnsStep,
     ClientDropsStep, ServerForwardsStep, ServerReturnsStep, TargetIsOverStep,
     ServerDropsStep DEF RelayNext

LEMMA RelayStutters == ASSUME RelayInv, UNCHANGED vars PROVE RelayInv'
<1>1. RelayTypeOK'
  BY DEF RelayInv, RelayTypeOK, vars, relayVars, sessionVars
<1>2. StepsInv'
  BY DEF RelayInv, StepsInv, vars, relayVars, sessionVars
<1>3. UpInv'
  BY DEF RelayInv, UpInv, vars, relayVars, sessionVars
<1>4. DownInv'
  BY DEF RelayInv, DownInv, vars, relayVars, sessionVars
<1>5. ReasonInv'
  BY DEF RelayInv, ReasonInv, vars, sessionVars, FailsForAReason
<1> QED BY <1>1, <1>2, <1>3, <1>4, <1>5 DEF RelayInv

\* An association takes the steps of a session until it is one.
LEMMA ProxyStep == ASSUME RelayInv, [ProxyNext]_proxyVars PROVE RelayInv'
<1>1. CASE RelayNext
  BY <1>1, RelayStep
<1>2. CASE UNCHANGED vars
  BY <1>2, RelayStutters
<1>3. 0 \in 0..MaxData
  BY RelayAssumption
<1>4. AssociateNext => RelayNext
  BY <1>3 DEF AssociateNext, RelayNext
<1> QED
  BY <1>1, <1>2, <1>4 DEF ProxyNext, proxyVars

\* The invariant, of every command and every behaviour of the server.
THEOREM RelayInvariant == ProxySpec => []RelayInv
BY InitRelay, ProxyStep, PTL DEF ProxySpec

\* Success is told only of a target that has been dialled: a byte of an ack
\* that comes after its deadline never passes for a status of success.
THEOREM SuccessIsReal == ProxySpec => []AnswerIsTruthful
<1>1. RelayInv => AnswerIsTruthful
  BY DEF RelayInv, StepsInv, AnswerIsTruthful
<1> QED BY <1>1, RelayInvariant, PTL

\* What arrives at either end is what the other end sent, from its first byte
\* on, and nothing of the activation, however long the ack and late the server.
THEOREM NothingIsMixedIn == ProxySpec => []DataIsVerbatim
<1>1. ASSUME NEW s \in Seq(Items), NEW m \in Nat, DataFrom(s, m)
      PROVE  \A i \in 1..Len(s) : s[i] = Item("data", m + i)
  <2>1. \A b \in Items : b = [kind |-> b.kind, n |-> b.n]
    BY DEF Items
  <2> QED
    BY <1>1, <2>1 DEF DataFrom, Item
<1>2. RelayInv => DataIsVerbatim
  <2> SUFFICES ASSUME RelayInv PROVE DataIsVerbatim
    OBVIOUS
  <2>1. \A i \in 1..Len(atTarget) : atTarget[i] = Item("data", lost + i)
    BY <1>1 DEF RelayInv, RelayTypeOK, UpInv
  <2>2. \A i \in 1..Len(atApp) : atApp[i] = Item("data", 0 + i)
    BY <1>1 DEF RelayInv, RelayTypeOK, DownInv
  <2> QED
    BY <2>1, <2>2 DEF RelayInv, UpInv, DataIsVerbatim
<1> QED BY <1>2, RelayInvariant, PTL

\* An activation fails only for what the target, the server, the request or
\* the deadline did.
THEOREM FailureHasAReason == ProxySpec => []FailsForAReason
<1>1. RelayInv => FailsForAReason
  BY DEF RelayInv, ReasonInv
<1> QED BY <1>1, RelayInvariant, PTL

-----------------------------------------------------------------------------
(* UDP associations: tables                                                *)

Entries == [dest : Dests, target : Targets, age : Nat]

\* A table has one entry for an address.
Single(h) == \A i, j \in 1..Len(h) : h[i].dest = h[j].dest => i = j

\* The entries of m are entries of h, in the order of h.
Follows(m, h) ==
    /\ \A a \in 1..Len(m) : \E i \in 1..Len(h) : h[i] = m[a]
    /\ \A a, b \in 1..Len(m), i, j \in 1..Len(h) :
          a < b /\ h[i].dest = m[a].dest /\ h[j].dest = m[b].dest => i < j

\* What RecentAreKept says of a table and of what it would be without limits.
Recent(m, h) ==
    \A i \in 1..Len(h) : h[i].age < Idle /\ i > Len(h) - MaxDests => Has(m, h[i].dest)

\* v is what is kept of s at the places in I, by a g that lists them in order.
Selects(s, I, c, v, g) ==
    /\ c \in Nat /\ v \in Seq(Entries) /\ g \in [1..c -> I]
    /\ v = Kept(s, I) /\ Len(v) = c /\ c = Cardinality(I)
    /\ \A k \in 1..c : g[k] \in I /\ v[k] = s[g[k]] /\ k <= g[k]
    /\ \A k, l \in 1..c : k < l => g[k] < g[l]
    /\ \A i \in I : \E k \in 1..c : g[k] = i

\* The same of what is kept without d.
Omits(s, d, c, v, g) ==
    /\ c \in Nat /\ v \in Seq(Entries) /\ g \in [1..c -> 1..Len(s)]
    /\ v = Without(s, d) /\ Len(v) = c
    /\ \A k \in 1..c : v[k] = s[g[k]] /\ k <= g[k] /\ s[g[k]].dest # d
    /\ \A k, l \in 1..c : k < l => g[k] < g[l]
    /\ \A i \in 1..Len(s) : s[i].dest # d => \E k \in 1..c : g[k] = i

\* What is kept of a table is in the same order.
LEMMA Selected ==
    ASSUME NEW s \in Seq(Entries), NEW I \in SUBSET (1..Len(s))
    PROVE  \E c, v, g : Selects(s, I, c, v, g)
<1>1. /\ Kept(s, I) \in Seq(Entries) /\ Len(Kept(s, I)) = Cardinality(I)
      /\ \A k \in 1..Cardinality(I) : Kept(s, I)[k] = s[NthOf(I, k)]
  BY KeptElements
<1>2. /\ Cardinality(I) \in Nat
      /\ \A k \in 1..Cardinality(I) : NthOf(I, k) \in I /\ k <= NthOf(I, k)
      /\ \A k, l \in 1..Cardinality(I) : k < l => NthOf(I, k) < NthOf(I, l)
      /\ \A i \in I : \E k \in 1..Cardinality(I) : NthOf(I, k) = i
  <2>1. Len(s) \in Nat
    BY LenProperties
  <2> QED BY <2>1, NthPlaces
<1>3. PICK c \in Nat, v \in Seq(Entries) : c = Cardinality(I) /\ v = Kept(s, I)
  BY <1>1, <1>2
<1>4. PICK g : g = [k \in 1..c |-> NthOf(I, k)]
  OBVIOUS
<1>5. \A k \in 1..c : NthOf(I, k) \in I
  BY <1>2, <1>3
<1>6. g \in [1..c -> I] /\ \A k \in 1..c : g[k] = NthOf(I, k)
  BY <1>4, <1>5
<1>7. /\ Len(v) = c
      /\ \A k \in 1..c : g[k] \in I /\ v[k] = s[g[k]] /\ k <= g[k]
  BY <1>1, <1>2, <1>3, <1>6
<1>8. /\ \A k, l \in 1..c : k < l => g[k] < g[l]
      /\ \A i \in I : \E k \in 1..c : g[k] = i
  BY <1>2, <1>3, <1>6
<1>9. Selects(s, I, c, v, g)
  BY <1>3, <1>6, <1>7, <1>8 DEF Selects
<1> QED BY <1>9

LEMMA SelectedFollows ==
    ASSUME NEW m \in Seq(Entries), NEW h \in Seq(Entries), NEW I \in SUBSET (1..Len(m)), Follows(m, h)
    PROVE  Follows(Kept(m, I), h)
<1>1. PICK c, v, g : Selects(m, I, c, v, g)
  BY Selected
<1>3. ASSUME NEW k \in 1..Len(v)
      PROVE  \E a \in 1..Len(m) : a = g[k] /\ v[k] = m[a]
  <2>1. k \in 1..c /\ g[k] \in I /\ v[k] = m[g[k]]
    BY <1>1 DEF Selects
  <2>2. g[k] \in 1..Len(m)
    BY <2>1
  <2> QED BY <2>1, <2>2
<1>4. ASSUME NEW k \in 1..Len(v)
      PROVE  \E i \in 1..Len(h) : h[i] = v[k]
  <2>1. PICK a \in 1..Len(m) : v[k] = m[a]
    BY <1>3
  <2> QED BY <2>1 DEF Follows
<1>5. ASSUME NEW k \in 1..Len(v), NEW l \in 1..Len(v), NEW i \in 1..Len(h), NEW j \in 1..Len(h),
             k < l, h[i].dest = v[k].dest, h[j].dest = v[l].dest
      PROVE  i < j
  <2>1. PICK a \in 1..Len(m), b \in 1..Len(m) : a = g[k] /\ b = g[l] /\ a < b
    <3>1. PICK a \in 1..Len(m), b \in 1..Len(m) : a = g[k] /\ b = g[l]
      BY <1>3
    <3>2. g[k] < g[l]
      BY <1>1, <1>5 DEF Selects
    <3> QED BY <3>1, <3>2
  <2>2. v[k] = m[a] /\ v[l] = m[b]
    BY <1>3, <2>1
  <2> QED BY <1>5, <2>1, <2>2, ZenonT(30) DEF Follows
<1> QED BY <1>1, <1>4, <1>5 DEF Follows, Selects

\* A table without one address.
LEMMA WithoutOne ==
    ASSUME NEW s \in Seq(Entries), NEW d
    PROVE  \E c, v, g : Omits(s, d, c, v, g)
<1>1. PICK I : I = {i \in 1..Len(s) : s[i].dest # d}
  OBVIOUS
<1>2. I \in SUBSET (1..Len(s)) /\ Without(s, d) = Kept(s, I)
      /\ \A i \in 1..Len(s) : i \in I <=> s[i].dest # d
  BY <1>1 DEF Without
<1>3. PICK c, v, g : Selects(s, I, c, v, g)
  BY <1>2, Selected
<1>4. \A k \in 1..c : g[k] \in 1..Len(s)
  BY <1>2, <1>3 DEF Selects
<1>5. g \in [1..c -> 1..Len(s)]
  BY <1>3, <1>4 DEF Selects
<1>6. /\ \A k \in 1..c : v[k] = s[g[k]] /\ k <= g[k] /\ s[g[k]].dest # d
      /\ \A i \in 1..Len(s) : s[i].dest # d => \E k \in 1..c : g[k] = i
  BY <1>2, <1>3, <1>4 DEF Selects
<1>7. v = Without(s, d) /\ Len(v) = c
  BY <1>2, <1>3 DEF Selects
<1>8. \A k, l \in 1..c : k < l => g[k] < g[l]
  BY <1>3 DEF Selects
<1>9. Omits(s, d, c, v, g)
  BY <1>3, <1>5, <1>6, <1>7, <1>8 DEF Omits, Selects
<1> QED BY <1>9

\* It is shorter by at most one entry.
LEMMA WithoutLen ==
    ASSUME NEW s \in Seq(Entries), NEW d, Single(s)
    PROVE  Len(Without(s, d)) + 1 >= Len(s)
<1>1. PICK I : I = {i \in 1..Len(s) : s[i].dest # d}
  OBVIOUS
<1>2. Without(s, d) = Kept(s, I) /\ I \in SUBSET (1..Len(s))
  BY <1>1 DEF Without
<1>3. PICK n \in Nat, c \in Nat : n = Len(s) /\ c = Cardinality(I) /\ Len(Without(s, d)) = c
  <2>1. \E c \in Nat, v \in Seq(Entries) : v = Kept(s, I) /\ Len(v) = c /\ c = Cardinality(I)
    BY <1>2, Selected DEF Selects
  <2> QED BY <1>2, <2>1, LenProperties
<1>4. IsFiniteSet(1..n) /\ Cardinality(1..n) = n
  BY FS_Interval
<1>5. CASE \E p \in 1..n : s[p].dest = d
  <2>1. PICK p \in 1..n : s[p].dest = d
    BY <1>5
  <2>2. I = (1..n) \ {p}
    BY <1>1, <1>3, <2>1 DEF Single
  <2>3. Cardinality(I) = n - 1
    BY <1>4, <2>2, FS_RemoveElement
  <2> QED BY <1>3, <2>3
<1>6. CASE ~\E p \in 1..n : s[p].dest = d
  <2>1. I = 1..n
    BY <1>1, <1>3, <1>6
  <2> QED BY <1>3, <1>4, <2>1
<1> QED BY <1>5, <1>6

\* Leaving an address out of both tables keeps the order ...
LEMMA BothWithout ==
    ASSUME NEW m \in Seq(Entries), NEW h \in Seq(Entries), NEW d, Follows(m, h),
           \A a \in 1..Len(m) : m[a].dest # d
    PROVE  Follows(m, Without(h, d))
<1>1. PICK c, v, g : Omits(h, d, c, v, g)
  BY WithoutOne
<1>2. ASSUME NEW a \in 1..Len(m)
      PROVE  \E k \in 1..Len(v) : v[k] = m[a]
  <2>1. PICK i \in 1..Len(h) : h[i] = m[a]
    BY DEF Follows
  <2>2. h[i].dest # d
    BY <2>1
  <2>3. PICK k \in 1..c : g[k] = i
    BY <1>1, <2>2 DEF Omits
  <2>4. k \in 1..Len(v) /\ v[k] = h[g[k]]
    BY <1>1 DEF Omits
  <2> QED BY <2>1, <2>3, <2>4
<1>3. ASSUME NEW a \in 1..Len(m), NEW b \in 1..Len(m), NEW k \in 1..Len(v), NEW l \in 1..Len(v),
             a < b, v[k].dest = m[a].dest, v[l].dest = m[b].dest
      PROVE  k < l
  <2>1. PICK i \in 1..Len(h), j \in 1..Len(h) : i = g[k] /\ j = g[l] /\ v[k] = h[i] /\ v[l] = h[j]
    <3>1. k \in 1..c /\ l \in 1..c /\ g \in [1..c -> 1..Len(h)]
      BY <1>1 DEF Omits
    <3>2. g[k] \in 1..Len(h) /\ g[l] \in 1..Len(h)
      BY <3>1
    <3>3. v[k] = h[g[k]] /\ v[l] = h[g[l]]
      BY <1>1, <3>1 DEF Omits
    <3> QED BY <3>2, <3>3
  <2>2. i < j
    BY <1>3, <2>1, ZenonT(30) DEF Follows
  <2>3. l < k => j < i
    BY <1>1, <2>1 DEF Omits
  <2>4. k \in Nat /\ l \in Nat /\ i \in Nat /\ j \in Nat /\ k # l
    <3>1. i \in Nat /\ j \in Nat /\ k \in Nat /\ l \in Nat
      OBVIOUS
    <3>2. ~(i < i)
      BY <3>1
    <3> QED BY <2>1, <2>2, <3>1, <3>2
  <2> QED BY <2>2, <2>3, <2>4
<1> QED BY <1>1, <1>2, <1>3 DEF Omits, Follows

\* ... and so does using it last in both.
LEMMA BothUse ==
    ASSUME NEW m \in Seq(Entries), NEW h \in Seq(Entries), NEW e \in Entries,
           Follows(m, h), Single(h), \A i \in 1..Len(h) : h[i].dest # e.dest
    PROVE  Follows(Append(m, e), Append(h, e)) /\ Single(Append(h, e))
<1>1. PICK n \in Nat, k \in Nat, u \in Seq(Entries), w \in Seq(Entries) :
         /\ n = Len(m) /\ k = Len(h) /\ u = Append(m, e) /\ w = Append(h, e)
         /\ Len(u) = n + 1 /\ Len(w) = k + 1 /\ u[n + 1] = e /\ w[k + 1] = e
         /\ \A a \in 1..n : u[a] = m[a]
         /\ \A i \in 1..k : w[i] = h[i]
  <2>1. PICK n, k, u, w :
           n \in Nat /\ k \in Nat /\ n = Len(m) /\ k = Len(h) /\ u = Append(m, e) /\ w = Append(h, e)
    BY LenProperties
  <2>2. u \in Seq(Entries) /\ Len(u) = n + 1 /\ u[n + 1] = e /\ \A a \in 1..n : u[a] = m[a]
    BY <2>1, AppendProperties
  <2>3. w \in Seq(Entries) /\ Len(w) = k + 1 /\ w[k + 1] = e /\ \A i \in 1..k : w[i] = h[i]
    BY <2>1, AppendProperties
  <2> QED BY <2>1, <2>2, <2>3
<1>2. /\ \A a \in 1..(n + 1) : a \in 1..n \/ a = n + 1
      /\ \A i \in 1..(k + 1) : i \in 1..k \/ i = k + 1
      /\ k + 1 \in 1..(k + 1) /\ \A i \in 1..k : i \in 1..(k + 1)
  OBVIOUS
<1>3. \A a \in 1..n : m[a].dest # e.dest
  BY <1>1 DEF Follows
<1>4. \A a \in 1..(n + 1) : \E i \in 1..(k + 1) : w[i] = u[a]
  <2> TAKE a \in 1..(n + 1)
  <2>1. CASE a \in 1..n
    <3>1. PICK i \in 1..k : h[i] = m[a]
      BY <1>1, <2>1 DEF Follows
    <3> QED BY <1>1, <1>2, <2>1, <3>1
  <2> QED BY <1>1, <1>2, <2>1
<1>5. ASSUME NEW a \in 1..(n + 1), NEW b \in 1..(n + 1), NEW i \in 1..(k + 1), NEW j \in 1..(k + 1),
             a < b, w[i].dest = u[a].dest, w[j].dest = u[b].dest
      PROVE  i < j
  <2>1. a \in 1..n
    BY <1>1, <1>5
  <2>2. i \in 1..k
    BY <1>1, <1>2, <1>3, <1>5, <2>1
  <2>3. CASE b \in 1..n
    <3>1. j \in 1..k
      BY <1>1, <1>2, <1>3, <1>5, <2>3
    <3> QED BY <1>1, <1>5, <2>1, <2>2, <2>3, <3>1 DEF Follows
  <2>4. CASE b = n + 1
    <3>1. j = k + 1
      BY <1>1, <1>2, <1>5, <2>4
    <3> QED BY <1>1, <2>2, <3>1
  <2> QED BY <1>2, <2>3, <2>4
<1>6. ASSUME NEW i \in 1..(k + 1), NEW j \in 1..(k + 1), w[i].dest = w[j].dest
      PROVE  i = j
  BY <1>1, <1>2, <1>6 DEF Single
<1> QED BY <1>1, <1>4, <1>5, <1>6, ZenonT(30) DEF Follows, Single

\* There is room for what follows the first entry.
LEMMA RoomBehind ==
    ASSUME NEW m \in Seq(Entries), NEW h \in Seq(Entries), Follows(m, h), Single(h),
           NEW i \in 1..Len(h), m # <<>>, h[i].dest = m[1].dest
    PROVE  Len(m) <= Len(h) - i + 1
<1>1. PICK n \in Nat, k \in Nat : n = Len(m) /\ k = Len(h) /\ i \in 1..k /\ 1 \in 1..n
  <2>1. Len(m) \in Nat /\ Len(h) \in Nat /\ Len(m) # 0
    BY LenProperties, EmptySeq
  <2> QED BY <2>1
<1>2. PICK f \in [1..n -> 1..k] : \A a \in 1..n : h[f[a]] = m[a]
  <2> DEFINE q(a) == CHOOSE j \in 1..k : h[j] = m[a]
  <2>1. \A a \in 1..n : q(a) \in 1..k /\ h[q(a)] = m[a]
    BY <1>1 DEF Follows
  <2> HIDE DEF q
  <2>2. PICK f : f = [a \in 1..n |-> q(a)]
    OBVIOUS
  <2>3. f \in [1..n -> 1..k] /\ \A a \in 1..n : f[a] = q(a)
    BY <2>1, <2>2
  <2> QED BY <2>1, <2>3
<1>3. \A a \in 1..n : f[a] \in 1..k /\ h[f[a]] = m[a]
  BY <1>2
<1>4. \A a, b \in 1..n : a < b => f[a] < f[b]
  <2> TAKE a, b \in 1..n
  <2>1. f[a] \in 1..Len(h) /\ f[b] \in 1..Len(h) /\ h[f[a]].dest = m[a].dest /\ h[f[b]].dest = m[b].dest
    BY <1>1, <1>3
  <2> QED BY <1>1, <2>1 DEF Follows
<1>5. ASSUME NEW a \in 1..n
      PROVE  f[a] \in i..k
  <2>1. f[a] \in 1..k /\ h[f[a]].dest = m[a].dest /\ i \in Nat
    BY <1>1, <1>3
  <2>2. CASE a = 1
    <3>1. f[a] = i
      BY <1>1, <2>1, <2>2 DEF Single
    <3> QED BY <1>1, <3>1
  <2>3. CASE 1 < a
    <3>1. i < f[a]
      BY <1>1, <2>1, <2>3 DEF Follows
    <3> QED BY <1>1, <2>1, <3>1
  <2> QED BY <2>2, <2>3
<1>6. f \in [1..n -> i..k]
  BY <1>5
<1>7. ASSUME NEW a \in 1..n, NEW b \in 1..n, f[a] = f[b]
      PROVE  a = b
  <2>1. f[a] \in 1..k /\ ~(f[a] < f[b]) /\ ~(f[b] < f[a])
    BY <1>3, <1>7
  <2> QED BY <1>4, <2>1
<1>8. f \in Injection(1..n, i..k)
  BY <1>6, <1>7, Fun_IsInj
<1>9. i \in Int /\ k \in Int /\ n \in Int /\ 1 \in Int /\ ~(i > k) /\ ~(1 > n)
  BY <1>1
<1>10. IsFiniteSet(i..k) /\ Cardinality(i..k) = k - i + 1
  BY <1>9, FS_Interval
<1>11. Cardinality(1..n) = n
  <2>1. Cardinality(1..n) = n - 1 + 1
    BY <1>9, FS_Interval
  <2> QED BY <1>9, <2>1
<1>12. Cardinality(1..n) <= Cardinality(i..k)
  BY <1>8, <1>10, FS_Injection
<1> QED BY <1>1, <1>10, <1>11, <1>12

\* The step that RecentAreKept is about. Of a table, entries that are old may
\* be lost, and the first one, for a new address, of a table that is full.
LEMMA RecentStay ==
    ASSUME NEW m \in Seq(Entries), NEW l \in Seq(Entries), NEW h \in Seq(Entries), NEW e \in Entries,
           Follows(m, h), Follows(l, h), Single(h), Recent(m, h),
           \A a \in 1..Len(m) : m[a].age < Idle =>
               \/ Has(l, m[a].dest)
               \/ a = 1 /\ ~Has(m, e.dest) /\ Len(m) >= MaxDests
    PROVE  LET u == Append(Without(l, e.dest), e)
               w == Append(Without(h, e.dest), e)
           IN  u \in Seq(Entries) /\ w \in Seq(Entries) /\ Follows(u, w) /\ Single(w) /\ Recent(u, w)
<1>0. PICK d : d = e.dest
  OBVIOUS
<1>2. PICK c, y, g : Omits(h, d, c, y, g)
  BY WithoutOne
<1>3. PICK b, x, f : Omits(l, d, b, x, f)
  BY WithoutOne
<1>1. d = e.dest /\ x = Without(l, d) /\ y = Without(h, d)
  BY <1>0, <1>2, <1>3 DEF Omits
<1>4. /\ c \in Nat /\ y \in Seq(Entries) /\ Len(y) = c
      /\ \A k \in 1..c : g[k] \in 1..Len(h) /\ y[k] = h[g[k]] /\ k <= g[k] /\ y[k].dest # d
      /\ \A i, j \in 1..c : i < j => g[i] < g[j]
      /\ \A i \in 1..Len(h) : h[i].dest # d => \E k \in 1..c : g[k] = i
  BY <1>2 DEF Omits
<1>5. /\ b \in Nat /\ x \in Seq(Entries) /\ Len(x) = b
      /\ \A k \in 1..b : f[k] \in 1..Len(l) /\ x[k] = l[f[k]] /\ x[k].dest # d
      /\ \A i, j \in 1..b : i < j => f[i] < f[j]
      /\ \A i \in 1..Len(l) : l[i].dest # d => \E k \in 1..b : f[k] = i
  BY <1>3 DEF Omits
<1>6. Single(y)
  <2>1. ASSUME NEW i \in 1..c, NEW j \in 1..c, y[i].dest = y[j].dest
        PROVE  i = j
    <3>1. PICK p \in 1..Len(h), q \in 1..Len(h) : p = g[i] /\ q = g[j] /\ h[p].dest = h[q].dest
      <4>1. g[i] \in 1..Len(h) /\ g[j] \in 1..Len(h) /\ h[g[i]].dest = h[g[j]].dest
        BY <1>4, <2>1
      <4> QED BY <4>1
    <3>2. p = q /\ ~(p < q) /\ ~(q < p)
      BY <3>1 DEF Single
    <3>3. (i < j => p < q) /\ (j < i => q < p)
      <4>1. (i < j => g[i] < g[j]) /\ (j < i => g[j] < g[i])
        BY <1>4, Zenon
      <4> QED BY <3>1, <4>1, Zenon
    <3> QED BY <3>2, <3>3
  <2> QED BY <1>4, <2>1 DEF Single
<1>7. Follows(x, y)
  <2>1. Follows(x, h)
    <3>1. PICK I : I = {i \in 1..Len(l) : l[i].dest # d} /\ x = Kept(l, I)
      BY <1>1 DEF Without
    <3>2. I \in SUBSET (1..Len(l))
      BY <3>1
    <3> QED BY <3>1, <3>2, SelectedFollows
  <2> QED BY <1>1, <1>5, <2>1, BothWithout
<1>8. PICK u, w : u = Append(x, e) /\ w = Append(y, e)
  OBVIOUS
<1>9. Follows(u, w) /\ Single(w)
  BY <1>1, <1>4, <1>5, <1>6, <1>7, <1>8, BothUse, ZenonT(30)
<1>10. /\ u \in Seq(Entries) /\ Len(u) = b + 1 /\ u[b + 1] = e /\ \A i \in 1..b : u[i] = x[i]
       /\ w \in Seq(Entries) /\ Len(w) = c + 1 /\ w[c + 1] = e /\ \A i \in 1..c : w[i] = y[i]
  <2>1. u \in Seq(Entries) /\ Len(u) = b + 1 /\ u[b + 1] = e /\ \A i \in 1..b : u[i] = x[i]
    BY <1>5, <1>8, AppendProperties
  <2>2. w \in Seq(Entries) /\ Len(w) = c + 1 /\ w[c + 1] = e /\ \A i \in 1..c : w[i] = y[i]
    BY <1>4, <1>8, AppendProperties
  <2> QED BY <2>1, <2>2
<1>11. ASSUME NEW k \in 1..c, y[k].age < Idle, k > (c + 1) - MaxDests
       PROVE  Has(u, y[k].dest)
  <2>1. PICK i \in 1..Len(h) : i = g[k] /\ h[i] = y[k] /\ k <= i /\ h[i].dest # d
    <3>1. g[k] \in 1..Len(h) /\ y[k] = h[g[k]] /\ k <= g[k] /\ y[k].dest # d
      BY <1>4
    <3> QED BY <3>1
  <2>2. i > Len(h) - MaxDests
    <3>1. c + 1 >= Len(h) /\ Len(h) \in Nat
      BY <1>1, <1>4, WithoutLen, LenProperties
    <3> QED BY <1>4, <1>11, <2>1, <3>1, UdpAssumption
  <2>3. PICK a \in 1..Len(m) : m[a].dest = h[i].dest
    BY <1>11, <2>1, <2>2 DEF Recent, Has
  <2>4. m[a].age < Idle
    <3>1. PICK j \in 1..Len(h) : h[j] = m[a]
      BY DEF Follows
    <3> QED BY <1>11, <2>1, <2>3, <3>1 DEF Single
  <2>5. Has(l, y[k].dest)
    <3> SUFFICES ASSUME a = 1, ~Has(m, d), Len(m) >= MaxDests
                 PROVE  FALSE
      BY <1>1, <2>1, <2>3, <2>4
    <3>1. Follows(m, y)
      BY <1>1, BothWithout DEF Has
    <3>2. k \in 1..Len(y) /\ y[k].dest = m[1].dest /\ m # <<>>
      BY <1>4, <2>1, <2>3
    <3>3. Len(m) <= Len(y) - k + 1
      BY <1>4, <1>6, <3>1, <3>2, RoomBehind
    <3> QED BY <1>4, <1>11, <3>3, LenProperties, UdpAssumption
  <2>6. PICK i2 \in 1..Len(l) : l[i2].dest = y[k].dest
    BY <2>5 DEF Has
  <2>7. PICK j \in 1..b : f[j] = i2
    BY <1>5, <2>1, <2>6
  <2>8. j \in 1..(b + 1) /\ u[j] = l[i2]
    <3>1. x[j] = l[i2]
      BY <1>5, <2>7
    <3>2. u[j] = x[j]
      BY <1>10
    <3> QED BY <1>5, <3>1, <3>2
  <2> QED BY <1>10, <2>6, <2>8 DEF Has
<1>12. Recent(u, w)
  <2>1. ASSUME NEW k \in 1..(c + 1), w[k].age < Idle, k > (c + 1) - MaxDests
        PROVE  Has(u, w[k].dest)
    <3>1. CASE k = c + 1
      <4>1. b + 1 \in 1..Len(u) /\ u[b + 1].dest = w[k].dest
        BY <1>5, <1>10, <3>1
      <4> QED BY <4>1 DEF Has
    <3>2. CASE k \in 1..c
      BY <1>10, <1>11, <2>1, <3>2
    <3> QED BY <1>4, <3>1, <3>2
  <2> QED BY <1>10, <2>1 DEF Recent
<1> QED BY <1>1, <1>8, <1>9, <1>10, <1>12

\* Every entry that is left was there.
LEMMA LiveEntries ==
    ASSUME NEW m \in Seq(Entries), NEW h \in Seq(Entries), Follows(m, h)
    PROVE  /\ Live(m) \in Seq(Entries) /\ Follows(Live(m), h)
           /\ \A k \in 1..Len(Live(m)) : \E a \in 1..Len(m) : Live(m)[k] = m[a]
           /\ \A a \in 1..Len(m) : m[a].age < Idle => Has(Live(m), m[a].dest)
<1>1. PICK I : I = {i \in 1..Len(m) : m[i].age < Idle} /\ Live(m) = Kept(m, I)
  BY DEF Live
<1>2. I \in SUBSET (1..Len(m)) /\ \A a \in 1..Len(m) : m[a].age < Idle => a \in I
  BY <1>1
<1>3. PICK c, v, g : Selects(m, I, c, v, g)
  BY <1>2, Selected
<1>4. /\ v = Live(m) /\ v \in Seq(Entries) /\ Len(v) = c
      /\ \A k \in 1..c : g[k] \in I /\ v[k] = m[g[k]]
      /\ \A i \in I : \E k \in 1..c : g[k] = i
  BY <1>1, <1>3 DEF Selects
<1>5. Follows(v, h)
  BY <1>1, <1>2, <1>4, SelectedFollows
<1>6. ASSUME NEW k \in 1..c
      PROVE  \E a \in 1..Len(m) : v[k] = m[a]
  BY <1>2, <1>4
<1>7. ASSUME NEW a \in 1..Len(m), m[a].age < Idle
      PROVE  Has(v, m[a].dest)
  <2>1. PICK k \in 1..c : g[k] = a
    BY <1>2, <1>4, <1>7
  <2>2. k \in 1..Len(v) /\ v[k] = m[a]
    BY <1>4, <2>1
  <2> QED BY <2>2 DEF Has
<1> QED BY <1>4, <1>5, <1>6, <1>7

LEMMA UsedEntries ==
    ASSUME NEW s \in Seq(Entries), NEW e \in Entries
    PROVE  LET u == Append(Without(s, e.dest), e)
           IN  \A k \in 1..Len(u) : u[k] = e \/ \E a \in 1..Len(s) : u[k] = s[a]
<1>1. PICK b, x, f : Omits(s, e.dest, b, x, f)
  BY WithoutOne
<1>2. /\ b \in Nat /\ x = Without(s, e.dest) /\ x \in Seq(Entries) /\ Len(x) = b
      /\ \A k \in 1..b : f[k] \in 1..Len(s) /\ x[k] = s[f[k]]
  BY <1>1 DEF Omits
<1>3. PICK u : u = Append(x, e)
  OBVIOUS
<1>4. Len(u) = b + 1 /\ u[b + 1] = e /\ \A i \in 1..b : u[i] = x[i]
  BY <1>2, <1>3, AppendProperties
<1>5. ASSUME NEW k \in 1..Len(u)
      PROVE  u[k] = e \/ \E a \in 1..Len(s) : u[k] = s[a]
  <2>1. CASE k = b + 1
    BY <1>4, <2>1
  <2>2. CASE k \in 1..b
    BY <1>2, <1>4, <2>2
  <2> QED BY <1>2, <1>4, <2>1, <2>2
<1> QED BY <1>2, <1>3, <1>5

\* A table whose first entry makes room.
LEMMA TailEntries ==
    ASSUME NEW m \in Seq(Entries), NEW h \in Seq(Entries), Follows(m, h), m # <<>>
    PROVE  /\ Tail(m) \in Seq(Entries) /\ Follows(Tail(m), h)
           /\ \A k \in 1..Len(Tail(m)) : \E a \in 1..Len(m) : Tail(m)[k] = m[a]
           /\ \A a \in 1..Len(m) : a # 1 => \E k \in 1..Len(Tail(m)) : Tail(m)[k] = m[a]
<1>1. PICK n, v : /\ n \in Nat /\ n + 1 = Len(m) /\ v = Tail(m) /\ v \in Seq(Entries) /\ Len(v) = n
                  /\ \A k \in 1..n : v[k] = m[k + 1]
  <2>1. Tail(m) \in Seq(Entries) /\ Len(Tail(m)) = Len(m) - 1 /\ Len(m) \in Nat /\ Len(m) # 0
        /\ \A k \in 1..Len(Tail(m)) : Tail(m)[k] = m[k + 1]
    BY HeadTailProperties, LenProperties, EmptySeq
  <2>2. PICK n, v : n = Len(m) - 1 /\ v = Tail(m)
    OBVIOUS
  <2>3. n \in Nat /\ n + 1 = Len(m)
    BY <2>1, <2>2
  <2> QED BY <2>1, <2>2, <2>3
<1>2. \A k \in 1..n : k + 1 \in 1..Len(m) /\ v[k] = m[k + 1]
  BY <1>1
<1>3. \A a \in 1..Len(m) : a # 1 => \E k \in 1..n : k + 1 = a
  <2> TAKE a \in 1..Len(m)
  <2>1. a # 1 => a - 1 \in 1..n /\ (a - 1) + 1 = a
    BY <1>1
  <2> QED BY <2>1
<1>4. \A a \in 1..Len(m) : a # 1 => \E k \in 1..n : v[k] = m[a]
  BY <1>2, <1>3
<1>5. ASSUME NEW k \in 1..n, NEW l \in 1..n, NEW i \in 1..Len(h), NEW j \in 1..Len(h),
             k < l, h[i].dest = v[k].dest, h[j].dest = v[l].dest
      PROVE  i < j
  <2>1. PICK a \in 1..Len(m), b \in 1..Len(m) : a < b /\ v[k] = m[a] /\ v[l] = m[b]
    <3>1. k + 1 < l + 1
      BY <1>5
    <3> QED BY <1>2, <3>1
  <2> QED BY <1>5, <2>1 DEF Follows
<1>6. ASSUME NEW k \in 1..n
      PROVE  (\E a \in 1..Len(m) : v[k] = m[a]) /\ \E i \in 1..Len(h) : h[i] = v[k]
  <2>1. PICK a \in 1..Len(m) : v[k] = m[a]
    BY <1>2
  <2> QED BY <2>1 DEF Follows
<1>7. Follows(v, h)
  BY <1>1, <1>5, <1>6 DEF Follows
<1> QED BY <1>1, <1>4, <1>6, <1>7

-----------------------------------------------------------------------------
(* UDP associations: the invariant                                         *)

Replies == [dest : Dests, target : Targets]

UdpTypeOK ==
    /\ nat \in Seq(Entries) /\ history \in Seq(Entries)
    /\ reply \in Seq(Replies) /\ incoming \in Seq(Replies)
    /\ named \in [Dests -> SUBSET Targets]
    /\ clientAddr \in Sockets \cup {Unseen}

\* The table is what it would be without limits, except for entries that were
\* given up for their age or their place.
TablesInv == Single(history) /\ Follows(nat, history) /\ Recent(nat, history)

\* An address is known by a name of the client's, who was there to use it.
NamesInv ==
    /\ \A a \in 1..Len(nat) : nat[a].target \in named[nat[a].dest] /\ clientAddr # Unseen
    /\ outgoing # <<>> => clientAddr # Unseen

UdpInv == UdpTypeOK /\ TablesInv /\ NamesInv /\ RepliesAreNamed

LEMMA InitUdp == ProxyInit => UdpInv
<1> SUFFICES ASSUME ProxyInit PROVE UdpInv
  OBVIOUS
<1>1. nat = <<>> /\ history = <<>> /\ reply = <<>> /\ incoming = <<>> /\ outgoing = <<>>
      /\ named = [d \in Dests |-> {}] /\ clientAddr = Unseen
  BY DEF ProxyInit, AssociationInit, UdpInit
<1>2. <<>> \in Seq(Entries) /\ <<>> \in Seq(Replies) /\ Len(<<>>) = 0
  OBVIOUS
<1>3. UdpTypeOK
  BY <1>1, <1>2 DEF UdpTypeOK
<1>4. TablesInv
  BY <1>1, <1>2 DEF TablesInv, Single, Follows, Recent
<1>5. NamesInv /\ RepliesAreNamed
  BY <1>1, <1>2 DEF NamesInv, RepliesAreNamed
<1> QED BY <1>3, <1>4, <1>5 DEF UdpInv

\* What the eviction and the timeout leave of the table.
LEMMA Spared ==
    ASSUME UdpInv, NEW d \in Dests
    PROVE  LET l == Live(Evicted(d)) IN
           /\ l \in Seq(Entries) /\ Follows(l, history)
           /\ \A k \in 1..Len(l) : \E a \in 1..Len(nat) : l[k] = nat[a]
           /\ \A a \in 1..Len(nat) : nat[a].age < Idle =>
                 \/ Has(l, nat[a].dest)
                 \/ a = 1 /\ ~Has(nat, d) /\ Len(nat) >= MaxDests
<1>1. nat \in Seq(Entries) /\ history \in Seq(Entries) /\ Follows(nat, history)
  BY DEF UdpInv, UdpTypeOK, TablesInv
<1>2. CASE ~Has(nat, d) /\ Len(nat) >= MaxDests
  <2>1. PICK t : t = Tail(nat) /\ Evicted(d) = t
    BY <1>2 DEF Evicted
  <2>2. nat # <<>>
    BY <1>2, UdpAssumption
  <2>3. /\ t \in Seq(Entries) /\ Follows(t, history)
        /\ \A k \in 1..Len(t) : \E a \in 1..Len(nat) : t[k] = nat[a]
        /\ \A a \in 1..Len(nat) : a # 1 => \E k \in 1..Len(t) : t[k] = nat[a]
    BY <1>1, <2>1, <2>2, TailEntries
  <2>4. PICK l : l = Live(t)
    OBVIOUS
  <2>5. /\ l \in Seq(Entries) /\ Follows(l, history)
        /\ \A k \in 1..Len(l) : \E a \in 1..Len(t) : l[k] = t[a]
        /\ \A a \in 1..Len(t) : t[a].age < Idle => Has(l, t[a].dest)
    BY <1>1, <2>3, <2>4, LiveEntries
  <2>6. \A k \in 1..Len(l) : \E a \in 1..Len(nat) : l[k] = nat[a]
    BY <2>3, <2>5
  <2>7. \A a \in 1..Len(nat) : nat[a].age < Idle => Has(l, nat[a].dest) \/ a = 1
    BY <2>3, <2>5
  <2> QED BY <1>2, <2>1, <2>4, <2>5, <2>6, <2>7, ZenonT(30)
<1>3. CASE ~(~Has(nat, d) /\ Len(nat) >= MaxDests)
  <2>1. Evicted(d) = nat
    BY <1>3 DEF Evicted
  <2> QED BY <1>1, <2>1, LiveEntries
<1> QED BY <1>2, <1>3

\* d is used: as t by the client, or by itself under the name it has.
LEMMA UseKeepsInv ==
    ASSUME UdpInv, NEW d \in Dests, NEW t \in Targets, NEW l \in Seq(Entries),
           Follows(l, history),
           \A k \in 1..Len(l) : \E a \in 1..Len(nat) : l[k] = nat[a],
           \A a \in 1..Len(nat) : nat[a].age < Idle =>
               \/ Has(l, nat[a].dest)
               \/ a = 1 /\ ~Has(nat, d) /\ Len(nat) >= MaxDests,
           nat' = Used(l, d, t), history' = Used(history, d, t),
           named' \in [Dests -> SUBSET Targets], t \in named'[d],
           \A x \in Dests : named[x] \subseteq named'[x],
           clientAddr # Unseen, clientAddr' = clientAddr
    PROVE  /\ nat' \in Seq(Entries) /\ history' \in Seq(Entries) /\ TablesInv'
           /\ \A a \in 1..Len(nat') : nat'[a].target \in named'[nat'[a].dest] /\ clientAddr' # Unseen
<1>1. PICK e : e = Entry(d, t, 0)
  OBVIOUS
<1>2. e \in Entries /\ e.dest = d /\ e.target = t
  BY <1>1 DEF Entry, Entries
<1>3. nat' = Append(Without(l, e.dest), e) /\ history' = Append(Without(history, e.dest), e)
  BY <1>1, <1>2 DEF Used
<1>4. /\ nat \in Seq(Entries) /\ history \in Seq(Entries)
      /\ Single(history) /\ Follows(nat, history) /\ Recent(nat, history)
  BY DEF UdpInv, UdpTypeOK, TablesInv
<1>5. \A a \in 1..Len(nat) : nat[a].age < Idle =>
         \/ Has(l, nat[a].dest)
         \/ a = 1 /\ ~Has(nat, e.dest) /\ Len(nat) >= MaxDests
  BY <1>2
<1>6. /\ nat' \in Seq(Entries) /\ history' \in Seq(Entries)
      /\ Follows(nat', history') /\ Single(history') /\ Recent(nat', history')
  <2>1. PICK u, w : u = Append(Without(l, e.dest), e) /\ w = Append(Without(history, e.dest), e)
    OBVIOUS
  <2>2. /\ u \in Seq(Entries) /\ w \in Seq(Entries)
        /\ Follows(u, w) /\ Single(w) /\ Recent(u, w)
    BY <1>2, <1>4, <1>5, <2>1, RecentStay
  <2>3. nat' = u /\ history' = w
    BY <1>3, <2>1
  <2> QED BY <2>2, <2>3
<1>7. ASSUME NEW a \in 1..Len(nat')
      PROVE  nat'[a].target \in named'[nat'[a].dest]
  <2>1. nat'[a] = e \/ \E k \in 1..Len(l) : nat'[a] = l[k]
    BY <1>2, <1>3, UsedEntries, SMTT(30)
  <2>2. CASE nat'[a] = e
    BY <1>2, <2>2
  <2>3. CASE \E k \in 1..Len(l) : nat'[a] = l[k]
    <3>1. PICK b \in 1..Len(nat) : nat'[a] = nat[b]
      BY <2>3
    <3>2. nat[b] \in Entries /\ nat[b].dest \in Dests /\ nat[b].target \in named[nat[b].dest]
      <4>1. nat[b] \in Entries
        BY <1>4
      <4> QED BY <4>1 DEF Entries, UdpInv, NamesInv
    <3> QED BY <3>1, <3>2
  <2> QED BY <2>1, <2>2, <2>3
<1> QED BY <1>6, <1>7 DEF TablesInv

\* What happens to neither the tables nor the names.
LEMMA TablesStay ==
    ASSUME UdpInv, UNCHANGED <<nat, history, named>>,
           reply' \in Seq(Replies), incoming' \in Seq(Replies),
           clientAddr' \in Sockets \cup {Unseen},
           clientAddr # Unseen => clientAddr' # Unseen,
           outgoing' # <<>> => clientAddr' # Unseen,
           RepliesAreNamed'
    PROVE  UdpInv'
<1>1. UdpTypeOK'
  BY DEF UdpInv, UdpTypeOK
<1>2. TablesInv'
  BY DEF UdpInv, TablesInv, Single, Follows, Recent, Has
<1>3. NamesInv'
  BY DEF UdpInv, NamesInv
<1> QED BY <1>1, <1>2, <1>3 DEF UdpInv

LEMMA ForwardStep ==
    ASSUME UdpInv, NEW d \in Dests, ForwardUp(d)
    PROVE  UdpInv'
<1>1. PICK t : t = Head(outgoing)
  OBVIOUS
<1>2. /\ outgoing # <<>> /\ <<t, d>> \in Resolutions /\ outgoing' = <<>>
      /\ nat' = Used(Live(Evicted(d)), d, t) /\ history' = Used(history, d, t)
      /\ named' = [named EXCEPT ![d] = @ \cup {t}]
      /\ UNCHANGED <<reply, incoming, clientAddr>>
  BY <1>1 DEF ForwardUp, Forward
<1>3. t \in Targets
  BY <1>2, AssociationAssumption
<1>4. /\ named' \in [Dests -> SUBSET Targets] /\ t \in named'[d]
      /\ \A x \in Dests : named[x] \subseteq named'[x]
  BY <1>2, <1>3 DEF UdpInv, UdpTypeOK
<1>5. clientAddr # Unseen /\ clientAddr' = clientAddr
  BY <1>2 DEF UdpInv, NamesInv
<1>6. PICK l : l = Live(Evicted(d))
  OBVIOUS
<1>7. /\ l \in Seq(Entries) /\ Follows(l, history)
      /\ \A k \in 1..Len(l) : \E a \in 1..Len(nat) : l[k] = nat[a]
      /\ \A a \in 1..Len(nat) : nat[a].age < Idle =>
            \/ Has(l, nat[a].dest)
            \/ a = 1 /\ ~Has(nat, d) /\ Len(nat) >= MaxDests
  BY <1>6, Spared
<1>8. nat' = Used(l, d, t) /\ history' = Used(history, d, t)
  BY <1>2, <1>6
<1>9. /\ nat' \in Seq(Entries) /\ history' \in Seq(Entries) /\ TablesInv'
      /\ \A a \in 1..Len(nat') : nat'[a].target \in named'[nat'[a].dest] /\ clientAddr' # Unseen
  BY <1>3, <1>4, <1>5, <1>7, <1>8, UseKeepsInv
<1>10. UdpTypeOK'
  BY <1>2, <1>4, <1>9 DEF UdpInv, UdpTypeOK
<1>11. NamesInv'
  BY <1>2, <1>9 DEF NamesInv
<1>12. RepliesAreNamed'
  <2>1. reply \in Seq(Replies) /\ incoming \in Seq(Replies) /\ RepliesAreNamed
    BY DEF UdpInv, UdpTypeOK
  <2>2. SUFFICES ASSUME NEW r \in {reply[i] : i \in 1..Len(reply)} \cup {incoming[i] : i \in 1..Len(incoming)}
                 PROVE  r.target \in named'[r.dest] /\ clientAddr' # Unseen
    BY <1>2 DEF RepliesAreNamed
  <2>3. r \in Replies
    BY <2>1
  <2>4. r.dest \in Dests /\ r.target \in named[r.dest] /\ clientAddr # Unseen
    BY <2>1, <2>3 DEF Replies, RepliesAreNamed
  <2> QED BY <1>2, <1>4, <2>4
<1> QED BY <1>9, <1>10, <1>11, <1>12 DEF UdpInv

LEMMA ReplyStep ==
    ASSUME UdpInv, NEW d \in Dests, Reply(d), UNCHANGED associationVars
    PROVE  UdpInv'
<1>1. PICK t : t = EntryOf(nat, d).target
  OBVIOUS
<1>2. /\ Has(nat, d) /\ nat' = Used(nat, d, t) /\ history' = Used(history, d, t)
      /\ reply' = <<[dest |-> d, target |-> t]>>
      /\ UNCHANGED <<named, incoming, clientAddr, outgoing>>
  BY <1>1 DEF Reply, associationVars
<1>3. /\ nat \in Seq(Entries) /\ history \in Seq(Entries) /\ Follows(nat, history)
      /\ named \in [Dests -> SUBSET Targets] /\ incoming \in Seq(Replies)
  BY DEF UdpInv, UdpTypeOK, TablesInv
<1>4. PICK a \in 1..Len(nat) : EntryOf(nat, d) = nat[a] /\ nat[a].dest = d
  <2>1. \E e \in {nat[i] : i \in 1..Len(nat)} : e.dest = d
    BY <1>2 DEF Has
  <2>2. EntryOf(nat, d) \in {nat[i] : i \in 1..Len(nat)} /\ EntryOf(nat, d).dest = d
    BY <2>1 DEF EntryOf
  <2> QED BY <2>2
<1>5. nat[a] \in Entries /\ nat[a].target = t /\ t \in Targets /\ t \in named[d] /\ clientAddr # Unseen
  <2>1. nat[a] \in Entries
    BY <1>3
  <2> QED BY <1>1, <1>4, <2>1 DEF Entries, UdpInv, NamesInv
<1>6. /\ \A k \in 1..Len(nat) : \E b \in 1..Len(nat) : nat[k] = nat[b]
      /\ \A b \in 1..Len(nat) : nat[b].age < Idle => Has(nat, nat[b].dest)
  BY DEF Has
<1>7. /\ nat' \in Seq(Entries) /\ history' \in Seq(Entries) /\ TablesInv'
      /\ \A b \in 1..Len(nat') : nat'[b].target \in named'[nat'[b].dest] /\ clientAddr' # Unseen
  <2>1. /\ named' \in [Dests -> SUBSET Targets] /\ t \in named'[d]
        /\ \A x \in Dests : named[x] \subseteq named'[x]
        /\ clientAddr' = clientAddr
    BY <1>2, <1>3, <1>5
  <2> QED BY <1>2, <1>3, <1>5, <1>6, <2>1, UseKeepsInv
<1>8. PICK r : r = [dest |-> d, target |-> t]
  OBVIOUS
<1>9. r \in Replies /\ r.dest = d /\ r.target = t /\ reply' = <<r>>
  BY <1>2, <1>5, <1>8 DEF Replies
<1>10. UdpTypeOK'
  BY <1>2, <1>3, <1>7, <1>9 DEF UdpInv, UdpTypeOK
<1>11. NamesInv'
  BY <1>2, <1>5, <1>7 DEF NamesInv
<1>12. RepliesAreNamed'
  <2>1. \A x \in {incoming[i] : i \in 1..Len(incoming)} : x.target \in named[x.dest]
    BY DEF UdpInv, RepliesAreNamed
  <2>2. \A x \in {reply'[i] : i \in 1..Len(reply')} : x = r
    BY <1>9
  <2> QED BY <1>2, <1>5, <1>9, <2>1, <2>2 DEF RepliesAreNamed
<1> QED BY <1>7, <1>10, <1>11, <1>12 DEF UdpInv

\* A tick makes an entry older; it changes nothing else of it.
LEMMA AgedEntries ==
    ASSUME NEW m \in Seq(Entries)
    PROVE  /\ Aged(m) \in Seq(Entries) /\ Len(Aged(m)) = Len(m)
           /\ \A a \in 1..Len(m) :
                 /\ Aged(m)[a].dest = m[a].dest /\ Aged(m)[a].target = m[a].target
                 /\ Aged(m)[a].age < Idle => m[a].age < Idle
                 /\ Aged(m)[a].age = IF m[a].age < Idle THEN m[a].age + 1 ELSE m[a].age
<1>1. Len(m) \in Nat /\ \A a \in 1..Len(m) : m[a] \in Entries
  BY LenProperties, ElementOfSeq
<1>2. PICK n, v : n = Len(m) /\ v = Aged(m)
  OBVIOUS
<1>3. v = [i \in 1..n |-> [m[i] EXCEPT !.age = IF @ < Idle THEN @ + 1 ELSE @]]
  BY <1>2 DEF Aged
<1>4. ASSUME NEW a \in 1..n
      PROVE  /\ v[a] \in Entries
             /\ v[a].dest = m[a].dest /\ v[a].target = m[a].target
             /\ v[a].age < Idle => m[a].age < Idle
             /\ v[a].age = IF m[a].age < Idle THEN m[a].age + 1 ELSE m[a].age
  <2>1. PICK e \in Entries : e = m[a]
    BY <1>1, <1>2
  <2>2. v[a] = [e EXCEPT !.age = IF e.age < Idle THEN e.age + 1 ELSE e.age]
    BY <1>3, <2>1
  <2>3. e.dest \in Dests /\ e.target \in Targets /\ e.age \in Nat
    BY DEF Entries
  <2>4. /\ v[a].dest = e.dest /\ v[a].target = e.target
        /\ v[a].age = IF e.age < Idle THEN e.age + 1 ELSE e.age
        /\ v[a] \in Entries
    BY <2>2, <2>3 DEF Entries
  <2>5. v[a].age < Idle => e.age < Idle
    BY <2>3, <2>4, UdpAssumption
  <2> QED BY <2>1, <2>4, <2>5
<1>5. v \in Seq(Entries) /\ Len(v) = n
  BY <1>1, <1>2, <1>3, <1>4, SeqDef, LenProperties
<1> QED BY <1>2, <1>4, <1>5

LEMMA TickStep ==
    ASSUME UdpInv, UdpTick, UNCHANGED associationVars
    PROVE  UdpInv'
<1>1. /\ nat' = Aged(nat) /\ history' = Aged(history)
      /\ UNCHANGED <<reply, named, incoming, outgoing, clientAddr>>
  BY DEF UdpTick, associationVars
<1>2. /\ nat \in Seq(Entries) /\ history \in Seq(Entries)
      /\ Single(history) /\ Follows(nat, history) /\ Recent(nat, history)
  BY DEF UdpInv, UdpTypeOK, TablesInv
<1>3. PICK v, w : v = Aged(nat) /\ w = Aged(history)
  OBVIOUS
<1>4. /\ v \in Seq(Entries) /\ Len(v) = Len(nat)
      /\ \A a \in 1..Len(nat) :
            /\ v[a].dest = nat[a].dest /\ v[a].target = nat[a].target
            /\ v[a].age = IF nat[a].age < Idle THEN nat[a].age + 1 ELSE nat[a].age
  BY <1>2, <1>3, AgedEntries
<1>5. /\ w \in Seq(Entries) /\ Len(w) = Len(history)
      /\ \A i \in 1..Len(history) :
            /\ w[i].dest = history[i].dest /\ w[i].target = history[i].target
            /\ w[i].age < Idle => history[i].age < Idle
            /\ w[i].age = IF history[i].age < Idle THEN history[i].age + 1 ELSE history[i].age
  BY <1>2, <1>3, AgedEntries
<1>6. Single(w)
  BY <1>2, <1>5 DEF Single
<1>7. Follows(v, w)
  <2>1. ASSUME NEW a \in 1..Len(v)
        PROVE  \E i \in 1..Len(w) : w[i] = v[a]
    <3>1. PICK i \in 1..Len(history) : history[i] = nat[a]
      BY <1>2, <1>4 DEF Follows
    <3>2. w[i].dest = v[a].dest /\ w[i].target = v[a].target /\ w[i].age = v[a].age
      BY <1>4, <1>5, <3>1
    <3>3. w[i] \in Entries /\ v[a] \in Entries
      BY <1>4, <1>5, ElementOfSeq
    <3>4. w[i] = v[a]
      BY <3>2, <3>3 DEF Entries
    <3> QED BY <1>5, <3>4
  <2>2. ASSUME NEW a \in 1..Len(v), NEW b \in 1..Len(v), NEW i \in 1..Len(w), NEW j \in 1..Len(w),
               a < b, w[i].dest = v[a].dest, w[j].dest = v[b].dest
        PROVE  i < j
    <3>1. history[i].dest = nat[a].dest /\ history[j].dest = nat[b].dest
      BY <1>4, <1>5, <2>2
    <3> QED BY <1>2, <1>4, <1>5, <2>2, <3>1 DEF Follows
  <2> QED BY <2>1, <2>2 DEF Follows
<1>8. Recent(v, w)
  <2>1. ASSUME NEW i \in 1..Len(w), w[i].age < Idle, i > Len(w) - MaxDests
        PROVE  Has(v, w[i].dest)
    <3>1. Has(nat, history[i].dest)
      BY <1>2, <1>5, <2>1 DEF Recent
    <3>2. PICK a \in 1..Len(nat) : nat[a].dest = history[i].dest
      BY <3>1 DEF Has
    <3> QED BY <1>4, <1>5, <3>2 DEF Has
  <2> QED BY <2>1 DEF Recent
<1>9. nat' = v /\ history' = w
  BY <1>1, <1>3
<1>10. UdpTypeOK'
  BY <1>1, <1>4, <1>5, <1>9 DEF UdpInv, UdpTypeOK
<1>11. TablesInv'
  BY <1>6, <1>7, <1>8, <1>9 DEF TablesInv
<1>12. NamesInv' /\ RepliesAreNamed'
  BY <1>1, <1>4, <1>9 DEF UdpInv, NamesInv, RepliesAreNamed
<1> QED BY <1>10, <1>11, <1>12 DEF UdpInv

\* Every step of an association.
LEMMA AssociationStep ==
    ASSUME UdpInv, AssociationNext
    PROVE  UdpInv'
<1>0. /\ reply \in Seq(Replies) /\ incoming \in Seq(Replies) /\ clientAddr \in Sockets \cup {Unseen}
      /\ outgoing # <<>> => clientAddr # Unseen
      /\ RepliesAreNamed
  BY DEF UdpInv, UdpTypeOK, NamesInv
<1>1. ASSUME NEW s \in Sockets, NEW t \in Targets, Outbound(s, t)
      PROVE  UdpInv'
  <2>1. /\ UNCHANGED <<nat, history, named, reply, incoming>>
        /\ clientAddr' = s /\ s # Unseen
    BY <1>1, AssociationAssumption DEF Outbound, natVars
  <2>2. RepliesAreNamed'
    BY <1>0, <2>1 DEF RepliesAreNamed
  <2> QED BY <1>0, <2>1, <2>2, TablesStay
<1>2. ASSUME UNCHANGED <<nat, history, named, clientAddr>>,
             reply' \in Seq(Replies), incoming' \in Seq(Replies),
             outgoing' # <<>> => outgoing # <<>>,
             \A r \in {reply'[i] : i \in 1..Len(reply')} \cup {incoming'[i] : i \in 1..Len(incoming')} :
                 r \in {reply[i] : i \in 1..Len(reply)} \cup {incoming[i] : i \in 1..Len(incoming)}
      PROVE  UdpInv'
  <2>1. RepliesAreNamed'
    BY <1>0, <1>2 DEF RepliesAreNamed
  <2> QED BY <1>0, <1>2, <2>1, TablesStay
<1>3. CASE OutboundFails \/ ControlEnds \/ AssociationEnds
  BY <1>0, <1>2, <1>3 DEF OutboundFails, ControlEnds, AssociationEnds, natVars
<1>4. CASE Inbound
  BY <1>0, <1>2, <1>4 DEF Inbound, natVars
<1>5. CASE Unresolved
  BY <1>0, <1>2, <1>5 DEF Unresolved, natVars
<1>6. CASE WrittenDown
  BY <1>0, <1>2, <1>6 DEF WrittenDown, Written
<1>7. CASE ServerSeesEnd \/ ServerFails
  <2>1. reply' = <<>> /\ UNCHANGED <<nat, history, named, clientAddr, incoming, outgoing>>
    BY <1>7 DEF ServerSeesEnd, ServerFails, ClientEnds, ReplyFails, associationVars
  <2>2. /\ reply' \in Seq(Replies)
        /\ \A r \in {reply'[i] : i \in 1..Len(reply')} : FALSE
    BY <2>1
  <2> QED BY <1>0, <1>2, <2>1, <2>2
<1> QED
  BY <1>1, <1>3, <1>4, <1>5, <1>6, <1>7, ForwardStep, ReplyStep, TickStep DEF AssociationNext

LEMMA UdpStep == UdpInv /\ [ProxyNext]_proxyVars => UdpInv'
<1> SUFFICES ASSUME UdpInv, [ProxyNext]_proxyVars
             PROVE  UdpInv'
  OBVIOUS
<1>1. CASE UNCHANGED udpVars
  <2>1. UNCHANGED <<nat, history, named, reply, incoming, outgoing, clientAddr>>
    BY <1>1 DEF udpVars, natVars, associationVars
  <2>2. RepliesAreNamed'
    BY <2>1 DEF UdpInv, RepliesAreNamed
  <2> QED BY <2>1, <2>2, TablesStay DEF UdpInv, UdpTypeOK, NamesInv
<1>2. CASE AssociationNext
  BY <1>2, AssociationStep
<1> QED BY <1>1, <1>2 DEF ProxyNext, proxyVars

(* RecentAreKept, whatever MaxDests, Idle, the addresses and the order in  *)
(* which serve_udp_associate's two futures use the table: an address is    *)
(* given up for its age or its place, not because two things happened at   *)
(* once.                                                                   *)
THEOREM RecentAddressesAreKept == ProxySpec => []RecentAreKept
<1>1. UdpInv => RecentAreKept
  BY DEF UdpInv, TablesInv, Recent, RecentAreKept
<1> QED BY <1>1, InitUdp, UdpStep, PTL DEF ProxySpec

(* RepliesAreNamed, whatever the targets resolve to: the target of a reply *)
(* is one the application has named its sender by, and the address the     *)
(* client sends it to is known.                                            *)
THEOREM RepliesGoByTheirNames == ProxySpec => []RepliesAreNamed
<1>1. UdpInv => RepliesAreNamed
  BY DEF UdpInv
<1> QED BY <1>1, InitUdp, UdpStep, PTL DEF ProxySpec
=============================================================================
