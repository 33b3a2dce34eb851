---------------------------- MODULE Bip324Proofs ----------------------------
(***************************************************************************)
(* Proofs about the BIP 324 transport's ciphers (Bip324Ciphers) and its    *)
(* handshake (Handshake).                                                  *)
(*                                                                         *)
(* The ciphers. The packets sealed and not yet opened are one stretch of   *)
(* the states that the sender's two ciphers go through: InStep says that   *)
(* there is such a stretch, that the receiver is at its beginning and the  *)
(* sender at its end. NonceBehind and LengthBehind say where the sender is *)
(* in its nonces and in its keystream; the second needs that a rekeying    *)
(* leaves no byte of the old key in the buffer, which CipherAssumption     *)
(* gives.                                                                  *)
(*                                                                         *)
(* The handshake. What an end writes is a sequence fixed by who it is and  *)
(* by its garbage (Sent). ClientInv says, for each step of either end, how *)
(* much of its sequence an end has written and of the other's it has read, *)
(* and that the bytes read, in TCP and not yet written are the next ones;  *)
(* SpliceInv says the same of a v1 node's bytes and bitcoind.              *)
(***************************************************************************)
EXTENDS Bip324Ciphers, Handshake, SequenceLemmas
-----------------------------------------------------------------------------
(* The two ends of a direction stay in step.                               *)

\* The sender's FsChaCha20 before each packet that is not opened, and now.
LengthRun(s) ==
    /\ s[Len(sealed) + 1] = sendL
    /\ \A i \in 1..Len(sealed) : sealed[i].len = Got(s[i], LenBytes) /\ s[i + 1] = Crypted(s[i])
    /\ phase = "length" => recvL = s[1]
    /\ phase = "body" => recvL = s[2]

\* Its FsChaCha20Poly1305.
PacketRun(s) ==
    /\ s[Len(sealed) + 1] = sendP
    /\ \A i \in 1..Len(sealed) : sealed[i].body = NonceOf(s[i]) /\ s[i + 1] = Advanced(s[i])
    /\ recvP = s[1]

InStep ==
    /\ \E S : sealed \in Seq(S)
    /\ phase = "length" \/ (phase = "body" /\ sealed # <<>>)
    /\ ~garbled
    /\ \E s : LengthRun(s)
    /\ \E s : PacketRun(s)

\* What was sealed before is before what is sealed now.
LEMMA Appended ==
    ASSUME NEW S, sealed \in Seq(S), NEW x, sealed' = Append(sealed, x)
    PROVE  /\ sealed' \in Seq(S \cup {x}) /\ Len(sealed') = Len(sealed) + 1 /\ Len(sealed) \in Nat
           /\ \A i \in 1..Len(sealed) : sealed'[i] = sealed[i]
           /\ sealed'[Len(sealed) + 1] = x
<1>1. sealed \in Seq(S \cup {x}) /\ x \in S \cup {x}
  OBVIOUS
<1> QED BY <1>1, AppendProperties, LenProperties

LEMMA SealInStep ==
    ASSUME InStep, Seal
    PROVE  InStep'
<1>1. PICK x : /\ x = [len |-> Got(sendL, LenBytes), body |-> NonceOf(sendP)]
               /\ sealed' = Append(sealed, x)
  BY DEF Seal
<1>2. /\ sendP' = Advanced(sendP) /\ sendL' = Crypted(sendL)
      /\ recvL' = recvL /\ recvP' = recvP /\ phase' = phase /\ garbled' = garbled
  BY DEF Seal
<1>3. PICK S : sealed \in Seq(S)
  BY DEF InStep
<1>4. /\ sealed' \in Seq(S \cup {x}) /\ Len(sealed') = Len(sealed) + 1 /\ Len(sealed) \in Nat
      /\ \A i \in 1..Len(sealed) : sealed'[i] = sealed[i]
      /\ sealed'[Len(sealed) + 1] = x
  BY <1>1, <1>3, Appended
<1> DEFINE n == Len(sealed)
<1>5. \E s : LengthRun(s)'
  <2>1. PICK s : LengthRun(s)
    BY DEF InStep
  <2>0. PICK t : t = [i \in 1..n + 2 |-> IF i <= n + 1 THEN s[i] ELSE Crypted(sendL)]
    OBVIOUS
  <2>2. t[n + 2] = Crypted(sendL) /\ \A i \in 1..n + 1 : t[i] = s[i]
    BY <1>4, <2>0
  <2>3. \A i \in 1..n + 1 : sealed'[i].len = Got(t[i], LenBytes) /\ t[i + 1] = Crypted(t[i])
    <3>1. ASSUME NEW i \in 1..n
          PROVE  sealed'[i].len = Got(t[i], LenBytes) /\ t[i + 1] = Crypted(t[i])
      <4>1. i \in 1..n + 1 /\ i + 1 \in 1..n + 1
        BY <1>4
      <4> QED BY <1>4, <2>1, <2>2, <4>1 DEF LengthRun
    <3>2. sealed'[n + 1].len = Got(t[n + 1], LenBytes) /\ t[n + 1 + 1] = Crypted(t[n + 1])
      <4>1. n + 1 \in 1..n + 1 /\ n + 1 + 1 = n + 2
        BY <1>4
      <4> QED BY <1>1, <1>4, <2>1, <2>2, <4>1 DEF LengthRun
    <3>3. \A i \in 1..n + 1 : i \in 1..n \/ i = n + 1
      BY <1>4
    <3> QED BY <3>1, <3>2, <3>3
  <2>4. t[1] = s[1] /\ (phase = "body" => t[2] = s[2])
    <3>1. 1 \in 1..n + 1 /\ (phase = "body" => 2 \in 1..n + 1)
      BY <1>3, <1>4 DEF InStep
    <3> QED BY <2>2, <3>1
  <2>5. LengthRun(t)'
    <3>1. n + 1 + 1 = n + 2
      BY <1>4
    <3> QED BY <1>2, <1>4, <2>1, <2>2, <2>3, <2>4, <3>1 DEF LengthRun
  <2> QED BY <2>5
<1>6. \E s : PacketRun(s)'
  <2>1. PICK s : PacketRun(s)
    BY DEF InStep
  <2>0. PICK t : t = [i \in 1..n + 2 |-> IF i <= n + 1 THEN s[i] ELSE Advanced(sendP)]
    OBVIOUS
  <2>2. t[n + 2] = Advanced(sendP) /\ \A i \in 1..n + 1 : t[i] = s[i]
    BY <1>4, <2>0
  <2>3. \A i \in 1..n + 1 : sealed'[i].body = NonceOf(t[i]) /\ t[i + 1] = Advanced(t[i])
    <3>1. ASSUME NEW i \in 1..n
          PROVE  sealed'[i].body = NonceOf(t[i]) /\ t[i + 1] = Advanced(t[i])
      <4>1. i \in 1..n + 1 /\ i + 1 \in 1..n + 1
        BY <1>4
      <4> QED BY <1>4, <2>1, <2>2, <4>1 DEF PacketRun
    <3>2. sealed'[n + 1].body = NonceOf(t[n + 1]) /\ t[n + 1 + 1] = Advanced(t[n + 1])
      <4>1. n + 1 \in 1..n + 1 /\ n + 1 + 1 = n + 2
        BY <1>4
      <4> QED BY <1>1, <1>4, <2>1, <2>2, <4>1 DEF PacketRun
    <3>3. \A i \in 1..n + 1 : i \in 1..n \/ i = n + 1
      BY <1>4
    <3> QED BY <3>1, <3>2, <3>3
  <2>4. t[1] = s[1]
    <3>1. 1 \in 1..n + 1
      BY <1>4
    <3> QED BY <2>2, <3>1
  <2>5. PacketRun(t)'
    <3>1. n + 1 + 1 = n + 2
      BY <1>4
    <3> QED BY <1>2, <1>4, <2>1, <2>2, <2>3, <2>4, <3>1 DEF PacketRun
  <2> QED BY <2>5
<1>7. sealed' # <<>>
  BY <1>4
<1> QED BY <1>2, <1>4, <1>5, <1>6, <1>7 DEF InStep

LEMMA ReceiveLengthInStep ==
    ASSUME InStep, ReceiveLength
    PROVE  InStep'
<1>1. /\ sealed # <<>> /\ phase = "length" /\ phase' = "body" /\ recvL' = Crypted(recvL)
      /\ garbled' = (Got(recvL, LenBytes) # Head(sealed).len)
      /\ UNCHANGED <<sendL, sendP, recvP, sealed>>
  BY DEF ReceiveLength
<1>2. PICK S : sealed \in Seq(S)
  BY DEF InStep
<1>3. PICK s : LengthRun(s)
  BY DEF InStep
<1>4. Head(sealed) = sealed[1] /\ 1 \in 1..Len(sealed) /\ 1 + 1 = 2
  BY <1>1, <1>2
<1>5. sealed[1].len = Got(recvL, LenBytes) /\ s[2] = Crypted(recvL)
  BY <1>1, <1>3, <1>4 DEF LengthRun
<1>6. ~garbled'
  BY <1>1, <1>4, <1>5
<1>7. LengthRun(s)'
  BY <1>1, <1>3, <1>5 DEF LengthRun
<1>8. \E t : PacketRun(t)'
  BY <1>1 DEF InStep, PacketRun
<1> QED BY <1>1, <1>2, <1>6, <1>7, <1>8 DEF InStep

LEMMA ReceiveContentsInStep ==
    ASSUME InStep, ReceiveContents
    PROVE  InStep'
<1>1. /\ sealed # <<>> /\ phase = "body"
      /\ UNCHANGED <<sendL, sendP, recvL>>
  BY DEF ReceiveContents
<1>2. PICK S : sealed \in Seq(S)
  BY DEF InStep
<1>3. PICK s : LengthRun(s)
  BY DEF InStep
<1>4. PICK p : PacketRun(p)
  BY DEF InStep
<1>5. /\ Head(sealed) = sealed[1] /\ 1 \in 1..Len(sealed) /\ 1 + 1 = 2 /\ Len(sealed) \in Nat
      /\ Tail(sealed) \in Seq(S) /\ Len(Tail(sealed)) = Len(sealed) - 1
      /\ \A i \in 1..Len(sealed) - 1 : Tail(sealed)[i] = sealed[i + 1]
  BY <1>1, <1>2, HeadTailProperties
<1>6. NonceOf(recvP) = Head(sealed).body /\ p[2] = Advanced(recvP)
  BY <1>4, <1>5 DEF PacketRun
<1>7. recvP' = Advanced(recvP) /\ sealed' = Tail(sealed) /\ phase' = "length" /\ garbled' = garbled
  BY <1>6 DEF ReceiveContents
<1> DEFINE n == Len(sealed) - 1
<1>8. n \in Nat /\ Len(sealed) = n + 1 /\ Len(sealed') = n /\ sealed' \in Seq(S)
      /\ \A i \in 1..n : sealed'[i] = sealed[i + 1] /\ i + 1 \in 1..Len(sealed)
  BY <1>5, <1>7
<1> HIDE DEF n
<1>9. \E t : LengthRun(t)'
  <2>0. PICK t : t = [i \in 1..n + 1 |-> s[i + 1]]
    OBVIOUS
  <2>1. \A i \in 1..n + 1 : t[i] = s[i + 1]
    BY <2>0
  <2>2. /\ n + 1 \in 1..n + 1 /\ 1 \in 1..n + 1
        /\ \A i \in 1..n : i \in 1..n + 1 /\ i + 1 \in 1..n + 1
    BY <1>8
  <2>3. t[n + 1] = sendL /\ t[1] = s[2]
    BY <1>3, <1>5, <1>8, <2>1, <2>2 DEF LengthRun
  <2>4. \A i \in 1..n : sealed'[i].len = Got(t[i], LenBytes) /\ t[i + 1] = Crypted(t[i])
    BY <1>3, <1>8, <2>1, <2>2 DEF LengthRun
  <2>5. LengthRun(t)'
    BY <1>1, <1>3, <1>7, <1>8, <2>3, <2>4 DEF LengthRun
  <2> QED BY <2>5
<1>10. \E t : PacketRun(t)'
  <2>0. PICK t : t = [i \in 1..n + 1 |-> p[i + 1]]
    OBVIOUS
  <2>1. \A i \in 1..n + 1 : t[i] = p[i + 1]
    BY <2>0
  <2>2. /\ n + 1 \in 1..n + 1 /\ 1 \in 1..n + 1
        /\ \A i \in 1..n : i \in 1..n + 1 /\ i + 1 \in 1..n + 1
    BY <1>8
  <2>3. t[n + 1] = sendP /\ t[1] = p[2]
    BY <1>4, <1>5, <1>8, <2>1, <2>2 DEF PacketRun
  <2>4. \A i \in 1..n : sealed'[i].body = NonceOf(t[i]) /\ t[i + 1] = Advanced(t[i])
    BY <1>4, <1>8, <2>1, <2>2 DEF PacketRun
  <2>5. PacketRun(t)'
    BY <1>1, <1>6, <1>7, <1>8, <2>3, <2>4 DEF PacketRun
  <2> QED BY <2>5
<1> QED BY <1>7, <1>8, <1>9, <1>10 DEF InStep

LEMMA StaysInStep == CipherSpec => []InStep
<1>1. CipherInit => InStep
  <2> SUFFICES ASSUME CipherInit PROVE InStep
    OBVIOUS
  <2>1. sealed = <<>> /\ Len(sealed) = 0 /\ sealed \in Seq({})
    BY DEF CipherInit
  <2>2. LengthRun([i \in 1..1 |-> sendL])
    BY <2>1 DEF CipherInit, LengthRun
  <2>3. PacketRun([i \in 1..1 |-> sendP])
    BY <2>1 DEF CipherInit, PacketRun
  <2> QED BY <2>1, <2>2, <2>3 DEF CipherInit, InStep
<1>2. InStep /\ [CipherNext]_cipherVars => InStep'
  <2> SUFFICES ASSUME InStep, [CipherNext]_cipherVars PROVE InStep'
    OBVIOUS
  <2>1. CASE UNCHANGED cipherVars
    BY <2>1 DEF cipherVars, InStep, LengthRun, PacketRun
  <2> QED BY <2>1, SealInStep, ReceiveLengthInStep, ReceiveContentsInStep DEF CipherNext
<1> QED BY <1>1, <1>2, PTL DEF CipherSpec

(* The receiver's two ciphers follow the sender's across every rekeying.   *)
THEOREM CiphersStayInStep == CipherSpec => []NeverGarbled
<1>1. InStep => NeverGarbled
  BY DEF InStep, NeverGarbled
<1> QED BY <1>1, StaysInStep, PTL

-----------------------------------------------------------------------------
(* No packet is sealed under an old nonce.                                 *)

PacketCiphers == [key : Nat, packet_counter : Nat]

\* The last nonce is the one before the sender's next.
NonceBehind ==
    /\ sendP \in PacketCiphers
    /\ lastNonce # <<>> =>
          \E a \in PacketCiphers : lastNonce[1] = NonceOf(a) /\ sendP = Advanced(a)

\* What division by a positive number gives.
LEMMA Division ==
    ASSUME NEW a \in Nat, NEW b \in Nat \ {0}
    PROVE  \E q \in Nat, r \in 0..b - 1 :
              /\ q = a \div b /\ r = a % b /\ a = b * q + r
              /\ (a + 1) % b # 0 => (a + 1) \div b = q /\ (a + 1) % b = r + 1
              /\ (a + 1) % b = 0 => r = b - 1
<1>1. /\ a \div b \in Nat /\ a % b \in 0..b - 1 /\ (a + 1) \div b \in Nat
      /\ (a + 1) % b \in 0..b - 1
      /\ a % b = a - (a \div b) * b
      /\ (a + 1) % b = (a + 1) - ((a + 1) \div b) * b
      /\ (a + 1) % b # 0 => (a + 1) \div b = a \div b
      /\ (a + 1) % b = 0 => (a + 1) \div b = a \div b + 1
  OBVIOUS
<1>2. PICK q \in Nat : q = a \div b
  BY <1>1
<1>3. PICK r \in 0..b - 1 : r = a % b
  BY <1>1
<1>4. PICK p \in Nat : p = b * q
  OBVIOUS
<1>5. r = a - p
  BY <1>1, <1>2, <1>3, <1>4
<1>6. a = b * q + r
  BY <1>4, <1>5
<1>7. ASSUME (a + 1) % b # 0
      PROVE  (a + 1) % b = r + 1
  <2>1. (a + 1) % b = (a + 1) - p
    BY <1>1, <1>2, <1>4, <1>7
  <2> QED BY <1>5, <2>1
<1>8. ASSUME (a + 1) % b = 0
      PROVE  r = b - 1
  <2>1. 0 = (a + 1) - (q + 1) * b
    BY <1>1, <1>2, <1>8
  <2>2. (q + 1) * b = p + b
    BY <1>4
  <2> QED BY <1>5, <2>1, <2>2
<1> QED BY <1>1, <1>2, <1>3, <1>6, <1>7, <1>8

LEMMA AdvancedTyped ==
    ASSUME NEW a \in PacketCiphers
    PROVE  Advanced(a) \in PacketCiphers
BY DEF PacketCiphers, Advanced

\* Only Seal makes the queue longer.
LEMMA OnlySealLengthens ==
    ASSUME InStep, CipherNext, Len(sealed') > Len(sealed)
    PROVE  Seal
<1>1. ASSUME ReceiveLength PROVE FALSE
  <2>1. sealed' = sealed
    BY <1>1 DEF ReceiveLength
  <2>2. Len(sealed) \in Nat
    BY DEF InStep
  <2> QED BY <2>1, <2>2
<1>2. ASSUME ReceiveContents PROVE FALSE
  <2>1. PICK S : sealed \in Seq(S)
    BY DEF InStep
  <2>2. sealed # <<>> /\ (sealed' = sealed \/ sealed' = Tail(sealed))
    BY <1>2 DEF ReceiveContents
  <2>3. Len(Tail(sealed)) = Len(sealed) - 1 /\ Len(sealed) \in Nat
    BY <2>1, <2>2, HeadTailProperties
  <2> QED BY <2>2, <2>3
<1> QED BY <1>1, <1>2 DEF CipherNext

\* A later packet's nonce, unless the key is new, comes after.
LEMMA NonceAdvances ==
    ASSUME NEW a \in PacketCiphers
    PROVE  LET n == NonceOf(Advanced(a))
               o == NonceOf(a)
           IN \/ n.key > o.key
              \/ n.key = o.key /\ n.rekeyings > o.rekeyings
              \/ n.key = o.key /\ n.rekeyings = o.rekeyings /\ n.counter > o.counter
<1>1. a.key \in Nat /\ a.packet_counter \in Nat /\ Interval \in Nat \ {0}
  BY CipherAssumption DEF PacketCiphers
<1> DEFINE c == a.packet_counter
<1>2. CASE (c + 1) % Interval = 0
  BY <1>1, <1>2 DEF Advanced, NonceOf
<1>3. CASE (c + 1) % Interval # 0
  <2>1. PICK q \in Nat, r \in Nat :
              /\ q = c \div Interval /\ r = c % Interval
              /\ (c + 1) \div Interval = q /\ (c + 1) % Interval = r + 1
    <3>1. 0..Interval - 1 \subseteq Nat
      BY <1>1
    <3> QED BY <1>1, <1>3, <3>1, Division, ZenonT(30)
  <2>2. NonceOf(Advanced(a)) = [key |-> a.key, counter |-> r + 1, rekeyings |-> q]
    BY <1>3, <2>1 DEF Advanced, NonceOf
  <2>3. NonceOf(a) = [key |-> a.key, counter |-> r, rekeyings |-> q]
    BY <2>1 DEF NonceOf
  <2> QED BY <2>2, <2>3
<1> QED BY <1>2, <1>3

LEMMA NonceStaysBehind ==
    ASSUME NonceBehind, [CipherNext]_cipherVars
    PROVE  NonceBehind'
<1>1. CASE Seal
  <2>1. lastNonce' = <<NonceOf(sendP)>> /\ sendP' = Advanced(sendP)
    BY <1>1 DEF Seal
  <2>2. lastNonce'[1] = NonceOf(sendP)
    BY <2>1
  <2>3. sendP \in PacketCiphers /\ sendP' \in PacketCiphers
    BY <2>1, AdvancedTyped DEF NonceBehind
  <2> QED BY <2>1, <2>2, <2>3 DEF NonceBehind
<1>2. CASE UNCHANGED <<sendP, lastNonce>>
  BY <1>2 DEF NonceBehind
<1> QED BY <1>1, <1>2 DEF CipherNext, cipherVars, ReceiveLength, ReceiveContents

(* No packet is sealed under the key and nonce of an earlier one.          *)
THEOREM NoncesAreFresh == CipherSpec => NonceUsedOnce
<1> DEFINE Fresh == (Len(sealed') > Len(sealed) /\ lastNonce # <<>>) =>
        LET n == lastNonce'[1]
            o == lastNonce[1]
        IN \/ n.key > o.key
           \/ n.key = o.key /\ n.rekeyings > o.rekeyings
           \/ n.key = o.key /\ n.rekeyings = o.rekeyings /\ n.counter > o.counter
<1>1. CipherInit => NonceBehind
  BY DEF CipherInit, NonceBehind, NewP, PacketCiphers
<1>2. NonceBehind /\ [CipherNext]_cipherVars => NonceBehind'
  BY NonceStaysBehind
<1>3. InStep /\ NonceBehind /\ [CipherNext]_cipherVars => [Fresh]_cipherVars
  <2> SUFFICES ASSUME InStep, NonceBehind, CipherNext, Len(sealed') > Len(sealed),
                      lastNonce # <<>>
               PROVE  Fresh
    OBVIOUS
  <2>1. lastNonce' = <<NonceOf(sendP)>>
    BY OnlySealLengthens DEF Seal
  <2>2. PICK a \in PacketCiphers : lastNonce[1] = NonceOf(a) /\ sendP = Advanced(a)
    BY DEF NonceBehind
  <2>3. lastNonce'[1] = NonceOf(Advanced(a))
    BY <2>1, <2>2
  <2> QED BY <2>2, <2>3, NonceAdvances
<1> QED BY <1>1, <1>2, <1>3, StaysInStep, PTL DEF CipherSpec, NonceUsedOnce

-----------------------------------------------------------------------------
(* No byte of the keystream is used twice.                                 *)

KeystreamBytes == [key : Nat \X Nat, nonce : Nat, pos : Nat]

LengthCiphers ==
    [key : Nat \X Nat, chunk_counter : Nat, block_counter : Nat, keystream : Seq(KeystreamBytes)]

\* The byte at a position of the stream that c is in.
ByteAt(c, p) == [key |-> c.key, nonce |-> c.chunk_counter \div Interval, pos |-> p]

\* c has used u bytes of its stream and holds the ones that follow.
At(c, u) ==
    /\ c \in LengthCiphers
    /\ u \in Nat
    /\ c.block_counter * BlockBytes = u + Len(c.keystream)
    /\ \A i \in 1..Len(c.keystream) : c.keystream[i] = ByteAt(c, u + i - 1)

LEMMA ByteAtTyped ==
    ASSUME NEW c \in LengthCiphers, NEW p \in Nat
    PROVE  ByteAt(c, p) \in KeystreamBytes
<1>1. c.key \in Nat \X Nat /\ c.chunk_counter \in Nat /\ Interval \in Nat \ {0}
  BY CipherAssumption DEF LengthCiphers
<1>2. c.chunk_counter \div Interval \in Nat
  BY <1>1
<1> QED BY <1>1, <1>2 DEF ByteAt, KeystreamBytes

\* The whole blocks that make up for what is missing.
LEMMA BlocksSuffice ==
    ASSUME NEW have \in Nat, NEW n \in Nat, have < BlockBytes
    PROVE  \E k \in Nat :
              /\ k = IF have >= n THEN 0 ELSE (n - have + BlockBytes - 1) \div BlockBytes
              /\ have + k * BlockBytes >= n
              /\ have + k * BlockBytes < n + BlockBytes
<1>1. BlockBytes \in Nat \ {0}
  BY CipherAssumption
<1>2. CASE have >= n
  BY <1>1, <1>2
<1>3. CASE ~(have >= n)
  <2>1. PICK m \in Nat : m = n - have + BlockBytes - 1
    BY <1>1, <1>3
  <2>2. /\ m \div BlockBytes \in Nat
        /\ BlockBytes * (m \div BlockBytes) <= m
        /\ m < (m \div BlockBytes) * BlockBytes + BlockBytes
    BY <1>1
  <2>3. PICK k \in Nat : k = m \div BlockBytes
    BY <2>2
  <2>4. PICK p \in Nat : p = k * BlockBytes
    BY <1>1
  <2>5. p <= m /\ m < p + BlockBytes
    BY <1>1, <2>2, <2>3, <2>4
  <2>6. have + p >= n /\ have + p < n + BlockBytes
    BY <1>1, <2>1, <2>5
  <2> QED BY <1>3, <2>1, <2>3, <2>4, <2>6
<1> QED BY <1>2, <1>3

\* After fill_keystream the bytes wanted are there, and less than a block more.
LEMMA FilledAt ==
    ASSUME NEW c, NEW u, At(c, u), Len(c.keystream) < BlockBytes, NEW n \in Nat
    PROVE  /\ At(Filled(c, n), u)
           /\ Filled(c, n).key = c.key /\ Filled(c, n).chunk_counter = c.chunk_counter
           /\ Len(Filled(c, n).keystream) >= n
           /\ Len(Filled(c, n).keystream) < n + BlockBytes
<1>1. /\ c \in LengthCiphers /\ u \in Nat /\ BlockBytes \in Nat \ {0}
      /\ c.block_counter \in Nat /\ c.keystream \in Seq(KeystreamBytes)
      /\ Len(c.keystream) \in Nat
  BY CipherAssumption DEF At, LengthCiphers
<1>2. PICK have \in Nat : have = Len(c.keystream)
  BY <1>1
<1>3. PICK k \in Nat :
              /\ k = IF have >= n THEN 0 ELSE (n - have + BlockBytes - 1) \div BlockBytes
              /\ have + k * BlockBytes >= n
              /\ have + k * BlockBytes < n + BlockBytes
  BY <1>1, <1>2, BlocksSuffice
<1>4. PICK m \in Nat : m = k * BlockBytes
  BY <1>1
<1>5. PICK b \in Nat : b = c.block_counter * BlockBytes
  BY <1>1
<1>6. b = u + have
  BY <1>2, <1>5 DEF At
<1>7. PICK fresh : fresh = [i \in 1..k * BlockBytes |->
                     [key |-> c.key, nonce |-> c.chunk_counter \div Interval,
                      pos |-> c.block_counter * BlockBytes + i - 1]]
  OBVIOUS
<1>8. fresh = [i \in 1..m |-> ByteAt(c, b + i - 1)]
  BY <1>4, <1>5, <1>7 DEF ByteAt
<1>9. fresh \in Seq(KeystreamBytes) /\ Len(fresh) = m
  <2>1. \A i \in 1..m : b + i - 1 \in Nat
    OBVIOUS
  <2>2. fresh \in [1..m -> KeystreamBytes]
    BY <1>1, <1>8, <2>1, ByteAtTyped
  <2> QED BY <2>2
<1>10. PICK f : f = [c EXCEPT !.block_counter = @ + k, !.keystream = @ \o fresh]
  OBVIOUS
<1>11. Filled(c, n) = f
  BY <1>2, <1>3, <1>7, <1>10 DEF Filled
<1>12. /\ f.key = c.key /\ f.chunk_counter = c.chunk_counter
       /\ f.block_counter = c.block_counter + k /\ f.keystream = c.keystream \o fresh
  BY <1>1, <1>10 DEF LengthCiphers
<1>13. /\ f.keystream \in Seq(KeystreamBytes) /\ Len(f.keystream) = have + m
       /\ \A i \in 1..have + m :
             f.keystream[i] = IF i <= have THEN c.keystream[i] ELSE fresh[i - have]
  <2>1. PICK s \in Seq(KeystreamBytes) : s = c.keystream
    BY <1>1
  <2>2. Len(s) = have /\ f.keystream = s \o fresh
    BY <1>2, <1>12, <2>1
  <2>3. /\ s \o fresh \in Seq(KeystreamBytes) /\ Len(s \o fresh) = have + m
        /\ \A i \in 1..have + m : (s \o fresh)[i] = IF i <= have THEN s[i] ELSE fresh[i - have]
    BY <1>9, <2>2, ConcatProperties
  <2> QED BY <2>1, <2>2, <2>3
<1>14. f \in LengthCiphers
  <2>1. PICK g \in Seq(KeystreamBytes) : g = c.keystream \o fresh
    BY <1>12, <1>13
  <2>2. PICK d \in Nat : d = c.block_counter + k
    BY <1>1
  <2>3. f = [c EXCEPT !.block_counter = d, !.keystream = g]
    BY <1>1, <1>10, <2>1, <2>2 DEF LengthCiphers
  <2> QED BY <1>1, <2>3 DEF LengthCiphers
<1>15. f.block_counter * BlockBytes = u + Len(f.keystream)
  <2>1. (c.block_counter + k) * BlockBytes = b + m
    BY <1>1, <1>4, <1>5
  <2> QED BY <1>1, <1>6, <1>12, <1>13, <2>1
<1>16. ASSUME NEW i \in 1..have + m
       PROVE  f.keystream[i] = ByteAt(f, u + i - 1)
  <2>1. ByteAt(f, u + i - 1) = ByteAt(c, u + i - 1)
    BY <1>12 DEF ByteAt
  <2>2. CASE i <= have
    <3>1. i \in 1..have
      BY <2>2
    <3> QED BY <1>2, <1>13, <2>1, <2>2, <3>1 DEF At
  <2>3. CASE ~(i <= have)
    <3>1. i - have \in 1..m /\ b + (i - have) - 1 = u + i - 1
      BY <1>1, <1>6, <2>3
    <3>2. fresh[i - have] = ByteAt(c, b + (i - have) - 1)
      BY <1>8, <3>1
    <3> QED BY <1>13, <2>1, <2>3, <3>1, <3>2
  <2> QED BY <2>2, <2>3
<1>17. At(f, u)
  BY <1>1, <1>13, <1>14, <1>15, <1>16 DEF At
<1> QED BY <1>3, <1>4, <1>11, <1>12, <1>13, <1>17

\* What draining n bytes gives: the bytes that follow, in order, and the rest.
LEMMA DrainedAt ==
    ASSUME NEW c, NEW u, At(c, u), Len(c.keystream) < BlockBytes, NEW n \in Nat
    PROVE  /\ At(Drained(c, n), u + n)
           /\ Drained(c, n).key = c.key /\ Drained(c, n).chunk_counter = c.chunk_counter
           /\ Len(Drained(c, n).keystream) < BlockBytes
           /\ \A i \in 1..n : Got(c, n)[i] = ByteAt(c, u + i - 1)
<1>1. PICK f : f = Filled(c, n)
  OBVIOUS
<1>2. /\ At(f, u) /\ f.key = c.key /\ f.chunk_counter = c.chunk_counter
      /\ Len(f.keystream) >= n /\ Len(f.keystream) < n + BlockBytes
  BY <1>1, FilledAt
<1>3. PICK s : s = f.keystream
  OBVIOUS
<1>4. /\ s \in Seq(KeystreamBytes) /\ f \in LengthCiphers /\ u \in Nat
      /\ f.block_counter * BlockBytes = u + Len(s) /\ BlockBytes \in Nat
      /\ \A i \in 1..Len(s) : s[i] = ByteAt(f, u + i - 1)
  BY <1>2, <1>3, CipherAssumption DEF At, LengthCiphers
<1>5. PICK l \in Nat : l = Len(s)
  BY <1>4
<1>6. n <= l /\ l < n + BlockBytes
  BY <1>2, <1>3, <1>5
<1>7. PICK rest : rest = SubSeq(s, n + 1, l)
  OBVIOUS
<1>8. /\ rest \in Seq(KeystreamBytes) /\ Len(rest) = l - n
      /\ \A i \in 1..l - n : rest[i] = s[n + i]
  <2>1. \A i \in n + 1..l : s[i] \in KeystreamBytes
    BY <1>4, <1>5, ElementOfSeq
  <2>2. /\ SubSeq(s, n + 1, l) \in Seq(KeystreamBytes)
        /\ Len(SubSeq(s, n + 1, l)) = IF n + 1 <= l THEN l - (n + 1) + 1 ELSE 0
        /\ \A i \in 1..l - (n + 1) + 1 : SubSeq(s, n + 1, l)[i] = s[(n + 1) + i - 1]
    BY <2>1, SubSeqProperties
  <2>3. l - (n + 1) + 1 = l - n /\ (~(n + 1 <= l) => l - n = 0)
    BY <1>6
  <2>4. \A i \in 1..l - n : (n + 1) + i - 1 = n + i
    BY <1>6
  <2> QED BY <1>7, <2>2, <2>3, <2>4
<1>9. PICK d : d = [f EXCEPT !.keystream = rest]
  OBVIOUS
<1>10. Drained(c, n) = d
  BY <1>1, <1>3, <1>4, <1>5, <1>7, <1>9 DEF Drained, LengthCiphers
<1>11. /\ d.key = c.key /\ d.chunk_counter = c.chunk_counter
       /\ d.block_counter = f.block_counter /\ d.keystream = rest /\ d \in LengthCiphers
  BY <1>2, <1>4, <1>8, <1>9 DEF LengthCiphers
<1>12. d.block_counter * BlockBytes = u + n + Len(rest)
  BY <1>4, <1>5, <1>6, <1>8, <1>11
<1>13. ASSUME NEW i \in 1..l - n
       PROVE  rest[i] = ByteAt(d, u + n + i - 1)
  <2>1. n + i \in 1..l /\ u + (n + i) - 1 = u + n + i - 1
    BY <1>4, <1>6
  <2> QED BY <1>2, <1>4, <1>5, <1>8, <1>11, <2>1 DEF ByteAt
<1>14. At(d, u + n)
  <2>1. u + n \in Nat
    BY <1>4
  <2> QED BY <1>8, <1>11, <1>12, <1>13, <2>1 DEF At
<1>15. ASSUME NEW i \in 1..n
       PROVE  Got(c, n)[i] = ByteAt(c, u + i - 1)
  <2>1. \A j \in 1..n : s[j] \in KeystreamBytes
    BY <1>4, <1>5, <1>6, ElementOfSeq
  <2>2. \A j \in 1..n - 1 + 1 : SubSeq(s, 1, n)[j] = s[1 + j - 1]
    BY <2>1, SubSeqProperties
  <2>3. i \in 1..n - 1 + 1 /\ 1 + i - 1 = i /\ i \in 1..l
    BY <1>6
  <2>4. Got(c, n)[i] = s[i]
    BY <1>1, <1>3, <2>2, <2>3 DEF Got
  <2> QED BY <1>2, <1>4, <1>5, <2>3, <2>4 DEF ByteAt
<1>16. Len(rest) < BlockBytes
  BY <1>4, <1>6, <1>8
<1> QED BY <1>10, <1>11, <1>14, <1>15, <1>16

\* Less than a block beyond whole blocks is nothing.
LEMMA WholeBlocks ==
    ASSUME NEW x \in Nat, NEW b \in Nat \ {0}, x % b = 0, NEW p \in Nat, NEW l \in Nat, l < b,
           p * b = x + l
    PROVE  l = 0
<1>1. PICK q \in Nat : x = b * q
  <2>1. PICK q \in Nat, r \in 0..b - 1 :
              /\ q = x \div b /\ r = x % b /\ x = b * q + r
              /\ (x + 1) % b # 0 => (x + 1) \div b = q /\ (x + 1) % b = r + 1
              /\ (x + 1) % b = 0 => r = b - 1
    BY Division, Zenon
  <2>2. PICK m \in Nat : m = b * q
    OBVIOUS
  <2>3. x = m
    BY <2>1, <2>2
  <2> QED BY <2>2, <2>3
<1>2. PICK bp \in Nat : bp = p * b
  OBVIOUS
<1>3. PICK bq \in Nat : bq = b * q
  OBVIOUS
<1>4. bp = bq + l
  BY <1>1, <1>2, <1>3
<1>5. CASE p <= q
  <2>1. bp <= bq
    BY <1>2, <1>3, <1>5
  <2> QED BY <1>4, <2>1
<1>6. CASE p > q
  <2>1. PICK r \in Nat : p = q + 1 + r
    <3>1. p - (q + 1) \in Nat /\ p = q + 1 + (p - (q + 1))
      BY <1>6
    <3> QED BY <3>1
  <2>2. bp = bq + b + r * b /\ r * b \in Nat
    BY <1>2, <1>3, <2>1
  <2> QED BY <1>4, <2>2
<1> QED BY <1>5, <1>6

\* The bytes of the stream that the length fields before the next have used.
Used(c) == (c.chunk_counter % Interval) * LenBytes

\* c is at the boundary of a length field.
Aligned(c) == At(c, Used(c)) /\ Len(c.keystream) < BlockBytes

\* A length field moves c on by LenBytes, or to a new key made of what follows.
LEMMA CryptedAligned ==
    ASSUME NEW c, Aligned(c)
    PROVE  /\ Aligned(Crypted(c))
           /\ \/ /\ Crypted(c).key = c.key
                 /\ Crypted(c).chunk_counter \div Interval = c.chunk_counter \div Interval
                 /\ Used(Crypted(c)) = Used(c) + LenBytes
              \/ Crypted(c).key = <<c.key[1] + 1, Used(c) + LenBytes>>
<1>1. /\ c \in LengthCiphers /\ c.chunk_counter \in Nat /\ c.key \in Nat \X Nat
      /\ c.key[1] \in Nat /\ Used(c) \in Nat
  BY DEF Aligned, At, LengthCiphers
<1>2. /\ Interval \in Nat \ {0} /\ LenBytes \in Nat \ {0} /\ KeyBytes \in Nat \ {0}
      /\ BlockBytes \in Nat \ {0} /\ (Interval * LenBytes + KeyBytes) % BlockBytes = 0
  BY CipherAssumption
<1>3. PICK q \in Nat, r \in 0..Interval - 1 :
          /\ q = c.chunk_counter \div Interval /\ r = c.chunk_counter % Interval
          /\ (c.chunk_counter + 1) % Interval # 0 =>
                /\ (c.chunk_counter + 1) \div Interval = q
                /\ (c.chunk_counter + 1) % Interval = r + 1
          /\ (c.chunk_counter + 1) % Interval = 0 => r = Interval - 1
  <2>1. PICK n \in Nat : n = c.chunk_counter
    BY <1>1
  <2>2. \E q \in Nat, r \in 0..Interval - 1 :
          /\ q = n \div Interval /\ r = n % Interval /\ n = Interval * q + r
          /\ (n + 1) % Interval # 0 =>
                (n + 1) \div Interval = q /\ (n + 1) % Interval = r + 1
          /\ (n + 1) % Interval = 0 => r = Interval - 1
    BY <1>2, Division, ZenonT(30)
  <2> QED BY <2>1, <2>2
<1>4. PICK u \in Nat : u = r * LenBytes
  BY <1>2
<1>5. Used(c) = u /\ At(c, u) /\ Len(c.keystream) < BlockBytes
  BY <1>3, <1>4 DEF Used, Aligned
<1>6. PICK d : d = Drained(c, LenBytes)
  OBVIOUS
<1>7. /\ At(d, u + LenBytes) /\ d.key = c.key /\ d.chunk_counter = c.chunk_counter
      /\ Len(d.keystream) < BlockBytes
  BY <1>2, <1>5, <1>6, DrainedAt
<1>8. CASE (c.chunk_counter + 1) % Interval # 0
  <2>1. PICK e : e = [d EXCEPT !.chunk_counter = @ + 1]
    OBVIOUS
  <2>2. Crypted(c) = e
    BY <1>6, <1>8, <2>1 DEF Crypted
  <2>3. d \in LengthCiphers /\ d.chunk_counter \in Nat
    BY <1>7 DEF At, LengthCiphers
  <2>4. /\ e \in LengthCiphers /\ e.key = c.key /\ e.chunk_counter = c.chunk_counter + 1
        /\ e.block_counter = d.block_counter /\ e.keystream = d.keystream
    BY <1>7, <2>1, <2>3 DEF LengthCiphers
  <2>5. e.chunk_counter \div Interval = c.chunk_counter \div Interval
    BY <1>3, <1>8, <2>4
  <2>6. Used(e) = u + LenBytes
    <3>1. (r + 1) * LenBytes = u + LenBytes
      BY <1>2, <1>4
    <3> QED BY <1>3, <1>8, <2>4, <3>1 DEF Used
  <2>7. \A p : ByteAt(e, p) = ByteAt(d, p)
    BY <1>7, <2>4, <2>5 DEF ByteAt
  <2>8. At(e, u + LenBytes)
    BY <1>7, <2>4, <2>7 DEF At
  <2> QED BY <1>5, <1>7, <2>2, <2>4, <2>5, <2>6, <2>8 DEF Aligned
<1>9. CASE (c.chunk_counter + 1) % Interval = 0
  <2>1. PICK w \in Nat : w = Interval * LenBytes + KeyBytes
    BY <1>2
  <2>2. u + LenBytes + KeyBytes = w /\ u + LenBytes \in Nat
    <3>1. PICK i \in Nat : Interval = i + 1 /\ r = i
      <4>1. Interval - 1 \in Nat /\ Interval = (Interval - 1) + 1 /\ r = Interval - 1
        BY <1>2, <1>3, <1>9
      <4> QED BY <4>1
    <3>2. (i + 1) * LenBytes = u + LenBytes
      BY <1>2, <1>4, <3>1
    <3> QED BY <1>2, <2>1, <3>1, <3>2
  <2>3. PICK e : e = Drained(d, KeyBytes)
    OBVIOUS
  <2>4. /\ At(e, w) /\ Len(e.keystream) < BlockBytes
        /\ e.key = c.key /\ e.chunk_counter = c.chunk_counter
    <3>1. /\ At(e, u + LenBytes + KeyBytes) /\ Len(e.keystream) < BlockBytes
          /\ e.key = d.key /\ e.chunk_counter = d.chunk_counter
      BY <1>2, <1>7, <2>3, DrainedAt
    <3> QED BY <1>7, <2>2, <3>1
  <2>5. Got(d, KeyBytes)[1].pos = u + LenBytes
    <3>1. 1 \in 1..KeyBytes /\ u + LenBytes + 1 - 1 = u + LenBytes
      BY <1>2, <2>2
    <3>2. Got(d, KeyBytes)[1] = ByteAt(d, u + LenBytes + 1 - 1)
      BY <1>2, <1>7, <3>1, DrainedAt
    <3> QED BY <3>1, <3>2 DEF ByteAt
  <2>6. /\ e \in LengthCiphers /\ e.block_counter \in Nat /\ e.keystream \in Seq(KeystreamBytes)
        /\ e.block_counter * BlockBytes = w + Len(e.keystream) /\ Len(e.keystream) \in Nat
    BY <2>4 DEF At, LengthCiphers
  <2>7. Len(e.keystream) = 0
    BY <1>2, <2>1, <2>4, <2>6, WholeBlocks
  <2>8. PICK f : f = [e EXCEPT !.key = <<c.key[1] + 1, u + LenBytes>>, !.block_counter = 0,
                               !.chunk_counter = c.chunk_counter + 1]
    OBVIOUS
  <2>9. Crypted(c) = f
    <3>1. Rekeyed(d) = [e EXCEPT !.key = <<c.key[1] + 1, u + LenBytes>>, !.block_counter = 0]
      BY <1>7, <2>3, <2>5 DEF Rekeyed
    <3>2. Crypted(c) = [Rekeyed(d) EXCEPT !.chunk_counter = @ + 1]
      BY <1>6, <1>9 DEF Crypted
    <3> QED BY <2>4, <2>6, <2>8, <3>1, <3>2 DEF LengthCiphers
  <2>10. /\ f \in LengthCiphers /\ f.key = <<c.key[1] + 1, u + LenBytes>>
         /\ f.chunk_counter = c.chunk_counter + 1
         /\ f.block_counter = 0 /\ f.keystream = e.keystream
    <3>1. c.key[1] + 1 \in Nat /\ c.chunk_counter + 1 \in Nat
      BY <1>1
    <3> QED BY <2>2, <2>6, <2>8, <3>1 DEF LengthCiphers
  <2>11. Used(f) = 0
    BY <1>2, <1>9, <2>10 DEF Used
  <2>12. At(f, 0)
    <3>1. 0 * BlockBytes = 0 + 0 /\ \A i \in 1..0 : FALSE
      BY <1>2
    <3> QED BY <2>7, <2>10, <3>1 DEF At
  <2> QED BY <1>5, <2>4, <2>9, <2>10, <2>11, <2>12 DEF Aligned
<1> QED BY <1>8, <1>9

\* The sender's next length field uses bytes that come after the last one used.
LengthBehind ==
    /\ Aligned(sendL)
    /\ lastByte # <<>> =>
          \E b : /\ lastByte[1] = b
                 /\ \/ b.key[1] < sendL.key[1]
                    \/ /\ b.key = sendL.key
                       /\ b.nonce = sendL.chunk_counter \div Interval
                       /\ b.pos < Used(sendL)

\* The bytes a length field is encrypted with.
LEMMA LengthBytesAt ==
    ASSUME LengthBehind
    PROVE  /\ \A i \in 1..LenBytes : Got(sendL, LenBytes)[i] = ByteAt(sendL, Used(sendL) + i - 1)
           /\ Used(sendL) \in Nat /\ sendL.key[1] \in Nat
           /\ LenBytes \in 1..LenBytes /\ 1 \in 1..LenBytes /\ LenBytes \in Nat
<1>1. sendL \in LengthCiphers /\ Used(sendL) \in Nat /\ LenBytes \in Nat \ {0}
  BY CipherAssumption DEF LengthBehind, Aligned, At
<1> QED BY <1>1, DrainedAt DEF LengthBehind, Aligned, LengthCiphers

LEMMA LengthStaysBehind ==
    ASSUME LengthBehind, [CipherNext]_cipherVars
    PROVE  LengthBehind'
<1>1. CASE Seal
  <2>1. lastByte' = <<Got(sendL, LenBytes)[LenBytes]>> /\ sendL' = Crypted(sendL)
    BY <1>1 DEF Seal
  <2>2. PICK u \in Nat : u = Used(sendL)
    BY LengthBytesAt
  <2>3. PICK b : b = ByteAt(sendL, u + LenBytes - 1)
    OBVIOUS
  <2>4. lastByte'[1] = b
    BY <2>1, <2>2, <2>3, LengthBytesAt
  <2>5. PICK c : c = sendL'
    OBVIOUS
  <2>6. /\ Aligned(c)
        /\ \/ /\ c.key = sendL.key
              /\ c.chunk_counter \div Interval = sendL.chunk_counter \div Interval
              /\ Used(c) = u + LenBytes
           \/ c.key = <<sendL.key[1] + 1, u + LenBytes>>
    BY <2>1, <2>2, <2>5, CryptedAligned DEF LengthBehind
  <2>7. /\ b.key = sendL.key /\ b.nonce = sendL.chunk_counter \div Interval
        /\ b.pos = u + LenBytes - 1 /\ u + LenBytes - 1 < u + LenBytes
    BY <2>3, LengthBytesAt DEF ByteAt
  <2>8. \/ b.key[1] < c.key[1]
        \/ b.key = c.key /\ b.nonce = c.chunk_counter \div Interval /\ b.pos < Used(c)
    <3>1. sendL.key[1] < sendL.key[1] + 1
      BY LengthBytesAt
    <3> QED BY <2>6, <2>7, <3>1
  <2>9. Aligned(sendL)'
    BY <2>5, <2>6 DEF Aligned, At, Used, ByteAt
  <2>10. Used(sendL)' = Used(c) /\ sendL'.key = c.key /\ sendL'.chunk_counter = c.chunk_counter
    BY <2>5 DEF Used
  <2> QED BY <2>4, <2>8, <2>9, <2>10 DEF LengthBehind
<1>2. CASE UNCHANGED <<sendL, lastByte>>
  BY <1>2 DEF LengthBehind, Aligned, At, Used, ByteAt
<1> QED BY <1>1, <1>2 DEF CipherNext, cipherVars, ReceiveLength, ReceiveContents

(* No keystream byte encrypts two length fields, or a length field and a   *)
(* key, however many keys the direction goes through.                      *)
THEOREM KeystreamIsFresh == CipherSpec => KeystreamUsedOnce
<1> DEFINE Fresh == Len(sealed') > Len(sealed) =>
        LET len == sealed'[Len(sealed')].len IN
        /\ lastByte # <<>> => Later(len[1], lastByte[1])
        /\ \A i \in 1..LenBytes - 1 : Later(len[i + 1], len[i])
        /\ sendL'.key # sendL.key => sendL'.key[2] > len[LenBytes].pos
<1>1. CipherInit => LengthBehind
  <2> SUFFICES ASSUME CipherInit PROVE LengthBehind
    OBVIOUS
  <2>1. /\ sendL \in LengthCiphers /\ sendL.chunk_counter = 0 /\ sendL.block_counter = 0
        /\ sendL.keystream = <<>>
    BY DEF CipherInit, NewL, LengthCiphers
  <2>2. Interval \in Nat \ {0} /\ LenBytes \in Nat \ {0} /\ BlockBytes \in Nat \ {0}
    BY CipherAssumption
  <2>3. Used(sendL) = 0
    BY <2>1, <2>2 DEF Used
  <2> QED BY <2>1, <2>2, <2>3 DEF CipherInit, LengthBehind, Aligned, At
<1>2. LengthBehind /\ [CipherNext]_cipherVars => LengthBehind'
  BY LengthStaysBehind
<1>3. InStep /\ LengthBehind /\ [CipherNext]_cipherVars => [Fresh]_cipherVars
  <2> SUFFICES ASSUME InStep, LengthBehind, CipherNext, Len(sealed') > Len(sealed)
               PROVE  Fresh
    OBVIOUS
  <2>1. PICK x : /\ x = [len |-> Got(sendL, LenBytes), body |-> NonceOf(sendP)]
                 /\ sealed' = Append(sealed, x) /\ sendL' = Crypted(sendL)
    BY OnlySealLengthens DEF Seal
  <2>2. sealed'[Len(sealed')] = x
    <3>1. PICK S : sealed \in Seq(S)
      BY DEF InStep
    <3> QED BY <2>1, <3>1, Appended
  <2>3. PICK len : len = Got(sendL, LenBytes)
    OBVIOUS
  <2>4. sealed'[Len(sealed')].len = len
    BY <2>1, <2>2, <2>3
  <2>5. PICK u \in Nat : u = Used(sendL)
    BY LengthBytesAt
  <2>6. \A i \in 1..LenBytes : len[i] = ByteAt(sendL, u + i - 1)
    BY <2>3, <2>5, LengthBytesAt
  <2>7. LenBytes \in 1..LenBytes /\ 1 \in 1..LenBytes /\ LenBytes \in Nat
    BY LengthBytesAt
  <2>8. ASSUME lastByte # <<>>
        PROVE  Later(len[1], lastByte[1])
    <3>1. PICK b : /\ lastByte[1] = b
                   /\ \/ b.key[1] < sendL.key[1]
                      \/ /\ b.key = sendL.key /\ b.nonce = sendL.chunk_counter \div Interval
                         /\ b.pos < u
      BY <2>5, <2>8 DEF LengthBehind
    <3>2. /\ len[1].key = sendL.key /\ len[1].nonce = sendL.chunk_counter \div Interval
          /\ len[1].pos = u
      <4>1. len[1] = ByteAt(sendL, u + 1 - 1) /\ u + 1 - 1 = u
        BY <2>6, <2>7
      <4> QED BY <4>1 DEF ByteAt
    <3> QED BY <3>1, <3>2 DEF Later
  <2>9. ASSUME NEW i \in 1..LenBytes - 1
        PROVE  Later(len[i + 1], len[i])
    <3>1. i \in 1..LenBytes /\ i + 1 \in 1..LenBytes
      BY <2>7
    <3>2. u + (i + 1) - 1 > u + i - 1
      BY <2>7
    <3>3. /\ len[i + 1] = ByteAt(sendL, u + (i + 1) - 1)
          /\ len[i] = ByteAt(sendL, u + i - 1)
      BY <2>6, <3>1
    <3> QED BY <3>2, <3>3 DEF Later, ByteAt
  <2>10. ASSUME sendL'.key # sendL.key
         PROVE  sendL'.key[2] > len[LenBytes].pos
    <3>1. sendL'.key = <<sendL.key[1] + 1, u + LenBytes>>
      BY <2>1, <2>5, <2>10, CryptedAligned DEF LengthBehind
    <3>2. len[LenBytes].pos = u + LenBytes - 1
      <4>1. len[LenBytes] = ByteAt(sendL, u + LenBytes - 1)
        BY <2>6, <2>7
      <4> QED BY <4>1 DEF ByteAt
    <3> QED BY <2>7, <3>1, <3>2
  <2> QED BY <2>4, <2>8, <2>9, <2>10
<1> QED BY <1>1, <1>2, <1>3, StaysInStep, PTL DEF CipherSpec, KeystreamUsedOnce

-----------------------------------------------------------------------------
(* The bytes of a handshake                                                *)

Kinds == {"key", "garbage", "version", "marker", "message", "decoy", Initiator, Responder}

\* What may be on the wire: bytes of a v1 stream only if the peer is a v1 node.
Alphabet(p) == [kind : IF p = "v1" THEN Kinds \cup {"v1"} ELSE Kinds, n : Nat]

\* The steps of both handshake functions.
Steps ==
    {"prefix", "key", "skip", "version", "marker", "idle", "active", "served", "failed", "left",
     "probe", "splice", "splicing", "dropped"}

\* The steps of a handshake that goes well.
ClientSteps == {"prefix", "key", "skip", "version", "marker", "idle", "active", "served"}

\* All the bytes there are, are of A.
Over(A) ==
    /\ out \in [Ends -> Seq(A)] /\ wire \in [Ends -> Seq(A)] /\ got \in [Ends -> Seq(A)]
    /\ node \in Seq(A)

HandshakeTypes ==
    /\ peer \in {"client", "v1", "v2"}
    /\ at \in [Ends -> Steps]
    /\ garbage \in [Ends -> Nat]
    /\ peer = "client" => \A e \in Ends : garbage[e] < MaxGarbage
    /\ skipped \in [Ends -> Nat]
    /\ Over(Alphabet(peer))

\* Byte n of what an end sends, of a v1 node's or of a client's handshake, with
\* g bytes of garbage.
Sent(p, e, g, n) ==
    CASE p = "v1" -> Byte("v1", n)
      [] p # "v1" /\ n <= KeyLen -> Byte("key", n)
      [] p # "v1" /\ n > KeyLen /\ n <= KeyLen + g + 1 -> Byte("garbage", 0)
      [] p # "v1" /\ n = KeyLen + g + 2 -> Byte(e, 0)
      [] p # "v1" /\ n = KeyLen + g + 3 -> Byte("version", g)
      [] p # "v1" /\ n > KeyLen + g + 3 -> Byte("marker", 0)

\* The bytes of s are what e sends after its first k bytes.
Continues(e, s, k) == \A i \in 1..Len(s) : s[i] = Sent(peer, e, garbage[e], k + i)

\* All of what e sends after its first k bytes that it has begun to write.
Ahead(e, k) == Continues(e, wire[e], k) /\ Continues(e, out[e], k + Len(wire[e]))

-----------------------------------------------------------------------------
(* A client's handshake                                                    *)

\* The bytes an end has consumed before the read of step s; g is the garbage of
\* the other.
Consumed(e, s, g) ==
    CASE s = "prefix" -> 0
      [] s = "key" -> IF e = Initiator THEN 0 ELSE PrefixLen
      [] s = "skip" -> KeyLen
      [] s = "version" -> KeyLen + g + 2
      [] s \in {"marker", "idle", "active"} -> KeyLen + g + 3
      [] s = "served" -> KeyLen + g + 4

\* The bytes that the read of step s takes.
ReadOf(e, s, g) ==
    CASE s = "prefix" -> PrefixLen
      [] s = "key" -> IF e = Initiator THEN KeyLen ELSE KeyLen - PrefixLen
      [] s = "skip" -> g + 2
      [] s \in {"version", "marker"} -> 1
      [] s \in {"idle", "active", "served"} -> 0

\* The bytes an end has written by step s; g is its garbage.
Written(e, s, g) ==
    CASE s = "prefix" -> 0
      [] s = "key" -> IF e = Initiator THEN KeyLen + g ELSE 0
      [] s = "skip" -> IF e = Initiator THEN KeyLen + g + 2 ELSE KeyLen + g
      [] s \in {"version", "marker", "idle", "served"} -> KeyLen + g + 3
      [] s = "active" -> KeyLen + g + 4

\* The bytes that e has read of what the other end sends.
Taken(e) == Consumed(e, at[e], garbage[Other(e)]) + Len(got[e])

\* The read of e is where it should be in what the other end sends.
Reads(e) ==
    /\ Len(got[e]) <= ReadOf(e, at[e], garbage[Other(e)])
    /\ Continues(Other(e), got[e], Consumed(e, at[e], garbage[Other(e)]))
    /\ Ahead(Other(e), Taken(e))

\* All that e has written is read, in TCP, or yet to be handed to TCP.
Writes(e) == Taken(Other(e)) + Len(wire[e]) + Len(out[e]) = Written(e, at[e], garbage[e])

ClientInv ==
    peer = "client" =>
        /\ at[Initiator] \in {"key", "skip", "version", "idle", "active", "left"}
        /\ at[Responder] \in {"prefix", "key", "skip", "version", "marker", "served", "probe"}
        /\ gone => at[Initiator] = "left"
        /\ at[Initiator] = "left" => gone
        /\ at[Responder] = "probe" => gone
        /\ \A e \in Ends :
              at[e] \in {"version", "idle", "marker"} => skipped[e] = garbage[Other(e)]
        /\ at[Responder] # "probe" => Reads(Responder)
        /\ at[Initiator] # "left" => Reads(Initiator) /\ \A e \in Ends : Writes(e)

-----------------------------------------------------------------------------
(* A v1 node's splice                                                      *)

\* Every byte of the node is in bitcoind, or in the read that recognises it, or
\* on its way, in order.
SpliceInv ==
    IF peer = "v1"
    THEN /\ at[Initiator] \in {"key", "left"}
         /\ at[Responder] \in {"prefix", "splice", "splicing", "dropped", "probe"}
         /\ at[Responder] \in {"prefix", "splice"} =>
               /\ Len(got[Responder]) <= PrefixLen
               /\ Continues(Initiator, got[Responder], 0)
               /\ Ahead(Initiator, Len(got[Responder]))
         /\ at[Responder] = "splicing" =>
               Continues(Initiator, node, 0) /\ Ahead(Initiator, Len(node))
         /\ at[Responder] # "splicing" => node = <<>>
    ELSE at[Responder] \notin {"splice", "splicing"} /\ node = <<>>

-----------------------------------------------------------------------------
(* Types                                                                   *)

\* What is true of the two ends whoever acts.
LEMMA TwoEnds ==
    /\ Initiator \in Ends /\ Responder \in Ends /\ Initiator # Responder
    /\ Other(Initiator) = Responder /\ Other(Responder) = Initiator
    /\ \A e \in Ends : /\ Other(e) \in Ends /\ Other(e) # e /\ Other(Other(e)) = e
                       /\ \A o \in Ends : o = e \/ o = Other(e)
BY DEF Ends, Other, Initiator, Responder

\* A byte of a kind every peer may send.
LEMMA ByteTyped ==
    ASSUME NEW p, NEW kind \in Kinds, NEW n \in Nat
    PROVE  Byte(kind, n) \in Alphabet(p) /\ <<Byte(kind, n)>> \in Seq(Alphabet(p))
<1>1. Byte(kind, n) \in Alphabet(p)
  BY DEF Byte, Alphabet
<1> QED BY <1>1

\* What the ends write.
LEMMA WritesTyped ==
    ASSUME NEW p, NEW e \in Ends, NEW g \in Nat
    PROVE  /\ SendTerminator(e) \in Seq(Alphabet(p)) /\ Len(SendTerminator(e)) = 2
           /\ KeyAndGarbage(e, g) \in Seq(Alphabet(p)) /\ Len(KeyAndGarbage(e, g)) = KeyLen + g
           /\ \A i \in 1..KeyLen : KeyAndGarbage(e, g)[i] = Byte("key", i)
           /\ \A i \in 1..g : KeyAndGarbage(e, g)[KeyLen + i] = Byte("garbage", 0)
<1>1. \A i \in Nat : Byte("key", i) \in Alphabet(p)
  BY ByteTyped DEF Kinds
<1>2. Byte("garbage", 0) \in Alphabet(p) /\ Byte(e, 0) \in Alphabet(p)
  BY ByteTyped DEF Kinds, Ends
<1>3. SendTerminator(e) \in Seq(Alphabet(p)) /\ Len(SendTerminator(e)) = 2
  BY <1>2 DEF SendTerminator
<1>4. KeyLen \in Nat
  BY HandshakeAssumption
<1>5. PICK k : k = Run("key", KeyLen)
  OBVIOUS
<1>6. /\ k \in Seq(Alphabet(p)) /\ Len(k) = KeyLen
      /\ \A i \in 1..KeyLen : k[i] = Byte("key", i)
  BY <1>1, <1>4, <1>5 DEF Run
<1>7. PICK t : t = [i \in 1..g |-> Byte("garbage", 0)]
  OBVIOUS
<1>8. t \in Seq(Alphabet(p)) /\ Len(t) = g /\ \A i \in 1..g : t[i] = Byte("garbage", 0)
  BY <1>2, <1>7
<1>9. /\ k \o t \in Seq(Alphabet(p)) /\ Len(k \o t) = KeyLen + g
      /\ \A i \in 1..KeyLen + g : (k \o t)[i] = IF i <= KeyLen THEN k[i] ELSE t[i - KeyLen]
  BY <1>6, <1>8, ConcatProperties
<1>10. KeyAndGarbage(e, g) = k \o t
  BY <1>5, <1>7 DEF KeyAndGarbage
<1>11. ASSUME NEW i \in 1..KeyLen
       PROVE  (k \o t)[i] = k[i]
  <2>1. i \in 1..KeyLen + g /\ i <= KeyLen
    BY <1>4
  <2> QED BY <1>9, <2>1
<1>12. ASSUME NEW i \in 1..g
       PROVE  (k \o t)[KeyLen + i] = t[i]
  <2>1. PICK n \in 1..KeyLen + g : n = KeyLen + i /\ ~(n <= KeyLen) /\ n - KeyLen = i
    BY <1>4
  <2> QED BY <1>9, <2>1
<1> QED BY <1>3, <1>6, <1>8, <1>9, <1>10, <1>11, <1>12

LEMMA InitTyped == Init => HandshakeTypes
<1> SUFFICES ASSUME Init PROVE HandshakeTypes
  OBVIOUS
<1>1. MaxGarbage \in Nat /\ V1Len \in Nat
  BY HandshakeAssumption
<1>2. PICK i \in Lengths(peer), r \in Lengths("client") :
          /\ garbage = [e \in Ends |-> IF e = Initiator THEN i ELSE r]
          /\ out = [e \in Ends |-> IF e = Initiator THEN Opening(peer, i) ELSE <<>>]
  BY DEF Init
<1>3. i \in Nat /\ r \in Nat /\ r < MaxGarbage /\ (peer = "client" => i < MaxGarbage)
  BY <1>1 DEF Lengths
<1>4. PICK A : A = Alphabet(peer)
  OBVIOUS
<1>5. Opening(peer, i) \in Seq(A)
  <2>1. CASE peer = "v1"
    <3>1. \A n \in 1..V1Len : Byte("v1", n) \in A
      BY <1>4, <2>1 DEF Byte, Alphabet
    <3> QED BY <1>1, <2>1, <3>1 DEF Opening, Run
  <2>2. CASE peer # "v1"
    BY <1>3, <1>4, <2>2, TwoEnds, WritesTyped DEF Opening
  <2> QED BY <2>1, <2>2
<1>6. Over(A)
  <2>1. <<>> \in Seq(A)
    OBVIOUS
  <2>2. out \in [Ends -> Seq(A)]
    BY <1>2, <1>5, <2>1
  <2>3. /\ wire = [e \in Ends |-> <<>>] /\ got = [e \in Ends |-> <<>>] /\ node = <<>>
    BY DEF Init
  <2> QED BY <2>1, <2>2, <2>3 DEF Over
<1>7. at \in [Ends -> Steps] /\ skipped \in [Ends -> Nat] /\ peer \in {"client", "v1", "v2"}
  <2>1. at = [e \in Ends |-> IF e = Initiator THEN "key" ELSE "prefix"]
    BY DEF Init
  <2> QED BY <2>1 DEF Init, Steps, ClientSteps
<1>8. garbage \in [Ends -> Nat] /\ (peer = "client" => \A e \in Ends : garbage[e] < MaxGarbage)
  BY <1>2, <1>3
<1> QED BY <1>4, <1>6, <1>7, <1>8 DEF HandshakeTypes

\* Going on to a step, and writing bytes of the alphabet.
LEMMA GoOver ==
    ASSUME NEW A, Over(A), NEW e \in Ends, NEW s, NEW bytes \in Seq(A), Go(e, s, bytes),
           wire' = wire, node' = node
    PROVE  Over(A)'
<1>1. <<>> \in Seq(A)
  OBVIOUS
<1> QED BY <1>1 DEF Over, Go

\* What a version packet and a terminator before it are.
LEMMA VersionTyped ==
    ASSUME NEW p, garbage \in [Ends -> Nat], NEW e \in Ends
    PROVE  /\ Version(e) \in Seq(Alphabet(p))
           /\ SendTerminator(e) \o Version(e) \in Seq(Alphabet(p))
<1>1. garbage[e] \in Nat
  OBVIOUS
<1>2. Version(e) \in Seq(Alphabet(p))
  BY <1>1, ByteTyped DEF Version, Kinds
<1> QED BY <1>1, <1>2, WritesTyped

LEMMA StepOver ==
    ASSUME NEW A, A = Alphabet(peer), Over(A), garbage \in [Ends -> Nat], NEW e \in Ends, Step(e)
    PROVE  Over(A)'
<1>1. <<>> \in Seq(A)
  OBVIOUS
<1>2. CASE Put(e)
  <2>1. /\ out[e] \in Seq(A) /\ out[e] # <<>> /\ wire[e] \in Seq(A)
        /\ wire' = [wire EXCEPT ![e] = Append(@, Head(out[e]))]
        /\ out' = [out EXCEPT ![e] = Tail(@)]
        /\ got' = got /\ node' = node
    BY <1>2 DEF Put, Over
  <2>2. Append(wire[e], Head(out[e])) \in Seq(A) /\ Tail(out[e]) \in Seq(A)
    BY <2>1, HeadTailProperties, AppendProperties
  <2> QED BY <2>1, <2>2 DEF Over
<1>3. CASE Take(e)
  <2>1. Other(e) \in Ends
    BY TwoEnds
  <2>2. /\ wire[Other(e)] \in Seq(A) /\ wire[Other(e)] # <<>> /\ got[e] \in Seq(A)
        /\ got' = [got EXCEPT ![e] = Append(@, Head(wire[Other(e)]))]
        /\ wire' = [wire EXCEPT ![Other(e)] = Tail(@)]
        /\ out' = out /\ node' = node
    BY <1>3, <2>1 DEF Take, Over
  <2>3. Append(got[e], Head(wire[Other(e)])) \in Seq(A) /\ Tail(wire[Other(e)]) \in Seq(A)
    BY <2>2, HeadTailProperties, AppendProperties
  <2> QED BY <2>1, <2>2, <2>3 DEF Over
<1>4. CASE SkipGarbage(e)
  <2>1. PICK bytes \in Seq(A) :
           bytes = IF e = Initiator THEN Version(e) ELSE SendTerminator(e) \o Version(e)
    BY VersionTyped
  <2>2. Go(e, "version", bytes) /\ wire' = wire /\ node' = node
    BY <1>4, <2>1 DEF SkipGarbage
  <2> QED BY <2>2, GoOver
<1>5. CASE ReadVersion(e)
  BY <1>1, <1>5, GoOver DEF ReadVersion
<1>6. CASE HandshakeFails(e)
  BY <1>1, <1>6, GoOver DEF HandshakeFails
<1> QED BY <1>2, <1>3, <1>4, <1>5, <1>6 DEF Step

LEMMA RespondOver ==
    ASSUME NEW A, A = Alphabet(peer), Over(A), garbage \in [Ends -> Nat], Respond
    PROVE  Over(A)'
<1>1. <<>> \in Seq(A) /\ Responder \in Ends /\ Initiator \in Ends
  BY TwoEnds
<1>2. CASE ResponderSeesV1 \/ SpliceStarts
  <2>1. out' = out /\ wire' = wire /\ got' = got /\ (node' = node \/ node' = got[Responder])
    BY <1>2 DEF ResponderSeesV1, SpliceStarts, net
  <2> QED BY <1>1, <2>1 DEF Over
<1>3. CASE ResponderSeesKey \/ PeerLost \/ SpliceDropped \/ ReadMarker
  <2>1. wire' = wire /\ node' = node /\ \E s : Go(Responder, s, <<>>)
    BY <1>3 DEF ResponderSeesKey, PeerLost, SpliceDropped, ReadMarker
  <2> QED BY <1>1, <2>1, GoOver
<1>4. CASE ResponderReadsKey
  <2>1. PICK bytes \in Seq(A) : bytes = KeyAndGarbage(Responder, garbage[Responder])
    BY <1>1, WritesTyped
  <2>2. wire' = wire /\ node' = node /\ Go(Responder, "skip", bytes)
    BY <1>4, <2>1 DEF ResponderReadsKey
  <2> QED BY <1>1, <2>2, GoOver
<1>5. CASE SplicePumps
  <2>1. /\ wire[Initiator] \in Seq(A) /\ wire[Initiator] # <<>>
        /\ node \in Seq(A) /\ node' = Append(node, Head(wire[Initiator]))
        /\ wire' = [wire EXCEPT ![Initiator] = Tail(@)]
        /\ out' = out /\ got' = got
    BY <1>1, <1>5 DEF SplicePumps, Over
  <2>2. Append(node, Head(wire[Initiator])) \in Seq(A) /\ Tail(wire[Initiator]) \in Seq(A)
    BY <2>1, HeadTailProperties, AppendProperties
  <2> QED BY <1>1, <2>1, <2>2 DEF Over
<1> QED BY <1>2, <1>3, <1>4, <1>5 DEF Respond

LEMMA NextOver ==
    ASSUME NEW A, A = Alphabet(peer), Over(A), garbage \in [Ends -> Nat], [Next]_vars
    PROVE  Over(A)'
<1>1. <<>> \in Seq(A) /\ Initiator \in Ends
  BY TwoEnds
<1>2. CASE InitiatorReadsKey
  <2>1. PICK bytes \in Seq(A) : bytes = SendTerminator(Initiator)
    BY <1>1, WritesTyped
  <2>2. wire' = wire /\ node' = node /\ Go(Initiator, "skip", bytes)
    BY <1>2, <2>1 DEF InitiatorReadsKey
  <2> QED BY <1>1, <2>2, GoOver
<1>3. ASSUME NEW kind \in {"marker", "message", "decoy"}, Speak(kind)
      PROVE  Over(A)'
  <2>1. PICK bytes \in Seq(A) : bytes = <<Byte(kind, 0)>>
    BY ByteTyped DEF Kinds
  <2>2. wire' = wire /\ node' = node /\ \E s : Go(Initiator, s, bytes)
    BY <1>3, <2>1 DEF Speak
  <2> QED BY <1>1, <2>2, GoOver
<1>4. CASE Leave
  BY <1>1, <1>4 DEF Leave, Over
<1>5. CASE UNCHANGED vars
  BY <1>5 DEF vars, Over
<1> QED BY <1>2, <1>3, <1>4, <1>5, StepOver, RespondOver DEF Next

\* Who is there, and with how much garbage, is settled when they connect.
LEMMA NextKeeps ==
    ASSUME [Next]_vars
    PROVE  peer' = peer /\ garbage' = garbage
BY DEF Next, vars, Step, Put, Take, SkipGarbage, ReadVersion, HandshakeFails, Respond,
   ResponderSeesV1, ResponderSeesKey, ResponderReadsKey, ReadMarker, PeerLost, SpliceStarts,
   SpliceDropped, SplicePumps, InitiatorReadsKey, Speak, Leave

LEMMA NextTyped ==
    ASSUME HandshakeTypes, [Next]_vars
    PROVE  HandshakeTypes'
<1>1. peer' = peer /\ garbage' = garbage
  BY NextKeeps
<1>2. Over(Alphabet(peer))'
  <2>1. PICK A : A = Alphabet(peer)
    OBVIOUS
  <2>2. Over(A)'
    BY <2>1, NextOver DEF HandshakeTypes
  <2> QED BY <1>1, <2>1, <2>2 DEF Over
<1>3. at' \in [Ends -> Steps]
  <2>1. Initiator \in Ends /\ Responder \in Ends
    BY TwoEnds
  <2> DEFINE Moved == at' = at \/ \E e \in Ends, s \in Steps : at' = [at EXCEPT ![e] = s]
  <2>2. ASSUME NEW e \in Ends, Step(e) PROVE Moved
    BY <2>2 DEF Step, Put, Take, SkipGarbage, ReadVersion, HandshakeFails, Go, Steps, ClientSteps
  <2>3. ASSUME Respond PROVE Moved
    BY <2>1, <2>3 DEF Respond, ResponderSeesV1, ResponderSeesKey, ResponderReadsKey, ReadMarker,
       PeerLost, SpliceStarts, SpliceDropped, SplicePumps, Go, Steps, ClientSteps
  <2>4. ASSUME NEW kind, Speak(kind) PROVE Moved
    BY <2>1, <2>4 DEF Speak, Go, Steps, ClientSteps
  <2>5. ASSUME InitiatorReadsKey \/ Leave PROVE Moved
    BY <2>1, <2>5 DEF InitiatorReadsKey, Leave, Go, Steps, ClientSteps
  <2>6. Moved
    BY <2>2, <2>3, <2>4, <2>5 DEF Next, vars
  <2> QED BY <2>6 DEF HandshakeTypes
<1>4. skipped' \in [Ends -> Nat]
  <2>1. ASSUME NEW e \in Ends, SkipGarbage(e)
        PROVE  skipped' \in [Ends -> Nat]
    <3>1. PICK n \in Nat : n = Len(got[e]) - TermLen
      <4>1. Len(got[e]) \in Nat /\ TermLen <= Len(got[e])
        BY <2>1 DEF SkipGarbage, Found, HandshakeTypes, Over
      <4> QED BY <4>1 DEF TermLen
    <3> QED BY <2>1, <3>1 DEF SkipGarbage, HandshakeTypes
  <2>2. skipped' = skipped \/ \E e \in Ends : SkipGarbage(e)
    BY DEF Next, vars, Step, Put, Take, ReadVersion, HandshakeFails, Respond,
       ResponderSeesV1, ResponderSeesKey, ResponderReadsKey, ReadMarker, PeerLost, SpliceStarts,
       SpliceDropped, SplicePumps, InitiatorReadsKey, Speak, Leave
  <2> QED BY <2>1, <2>2 DEF HandshakeTypes
<1> QED BY <1>1, <1>2, <1>3, <1>4 DEF HandshakeTypes

-----------------------------------------------------------------------------
(* Bytes on their way                                                      *)

\* Taking the first byte of a stretch.
LEMMA ContinuesTail ==
    ASSUME NEW A, NEW s \in Seq(A), s # <<>>, NEW e, NEW k \in Nat, Continues(e, s, k)
    PROVE  /\ Head(s) = Sent(peer, e, garbage[e], k + 1) /\ Head(s) \in A
           /\ Continues(e, Tail(s), k + 1)
           /\ Tail(s) \in Seq(A) /\ Len(Tail(s)) = Len(s) - 1 /\ Len(s) \in Nat /\ Len(s) >= 1
<1>1. /\ Head(s) \in A /\ Tail(s) \in Seq(A) /\ Len(Tail(s)) = Len(s) - 1
      /\ \A i \in 1..Len(Tail(s)) : Tail(s)[i] = s[i + 1]
  BY HeadTailProperties
<1>2. Len(s) \in Nat /\ Len(s) >= 1 /\ Head(s) = s[1]
  OBVIOUS
<1>3. ASSUME NEW i \in 1..Len(Tail(s))
      PROVE  Tail(s)[i] = Sent(peer, e, garbage[e], k + 1 + i)
  <2>1. i + 1 \in 1..Len(s) /\ k + (i + 1) = k + 1 + i
    BY <1>1, <1>2
  <2> QED BY <1>1, <2>1 DEF Continues
<1> QED BY <1>1, <1>2, <1>3 DEF Continues

\* Adding the next byte to one.
LEMMA ContinuesAppend ==
    ASSUME NEW A, NEW s \in Seq(A), NEW x \in A, NEW e, NEW k \in Nat, Continues(e, s, k),
           x = Sent(peer, e, garbage[e], k + Len(s) + 1)
    PROVE  /\ Continues(e, Append(s, x), k)
           /\ Append(s, x) \in Seq(A) /\ Len(Append(s, x)) = Len(s) + 1 /\ Len(s) \in Nat
<1>1. /\ Append(s, x) \in Seq(A) /\ Len(Append(s, x)) = Len(s) + 1 /\ Len(s) \in Nat
      /\ \A i \in 1..Len(s) : Append(s, x)[i] = s[i]
      /\ Append(s, x)[Len(s) + 1] = x
  BY AppendProperties
<1>2. ASSUME NEW i \in 1..Len(s) + 1
      PROVE  Append(s, x)[i] = Sent(peer, e, garbage[e], k + i)
  <2>1. CASE i = Len(s) + 1
    <3>1. k + (Len(s) + 1) = k + Len(s) + 1
      BY <1>1
    <3> QED BY <1>1, <2>1, <3>1
  <2>2. CASE i \in 1..Len(s)
    BY <1>1, <2>2 DEF Continues
  <2>3. i = Len(s) + 1 \/ i \in 1..Len(s)
    BY <1>1
  <2> QED BY <2>1, <2>2, <2>3
<1> QED BY <1>1, <1>2 DEF Continues

\* What the others do leaves an end's bytes where they are.
LEMMA AheadKept ==
    ASSUME peer' = peer, garbage' = garbage, NEW e, NEW k, Ahead(e, k), wire'[e] = wire[e],
           out'[e] = out[e]
    PROVE  Ahead(e, k)'
BY DEF Ahead, Continues

LEMMA PutAhead ==
    ASSUME NEW A, Over(A), NEW e \in Ends, Put(e), NEW k \in Nat, Ahead(e, k)
    PROVE  /\ Ahead(e, k)'
           /\ Len(wire'[e]) + Len(out'[e]) = Len(wire[e]) + Len(out[e])
<1>1. /\ out[e] # <<>> /\ peer' = peer /\ garbage' = garbage
      /\ wire' = [wire EXCEPT ![e] = Append(@, Head(out[e]))]
      /\ out' = [out EXCEPT ![e] = Tail(@)]
  BY DEF Put
<1>2. PICK w \in Seq(A), o \in Seq(A) : w = wire[e] /\ o = out[e]
  BY DEF Over
<1>3. Continues(e, w, k) /\ Continues(e, o, k + Len(w)) /\ o # <<>> /\ Len(w) \in Nat
  BY <1>1, <1>2 DEF Ahead
<1>4. PICK n \in Nat : n = k + Len(w)
  BY <1>3
<1>5. /\ Head(o) = Sent(peer, e, garbage[e], n + 1) /\ Head(o) \in A
      /\ Continues(e, Tail(o), n + 1)
      /\ Tail(o) \in Seq(A) /\ Len(Tail(o)) = Len(o) - 1 /\ Len(o) \in Nat
  BY <1>3, <1>4, ContinuesTail
<1>6. /\ Continues(e, Append(w, Head(o)), k) /\ Len(Append(w, Head(o))) = Len(w) + 1
  BY <1>3, <1>4, <1>5, ContinuesAppend
<1>7. PICK v, p : v = Append(w, Head(o)) /\ p = Tail(o)
  OBVIOUS
<1>8. wire'[e] = v /\ out'[e] = p
  BY <1>1, <1>2, <1>7 DEF Over
<1>9. k + Len(v) = n + 1
  BY <1>3, <1>4, <1>6, <1>7
<1>10. Continues(e, v, k)' /\ Continues(e, p, k + Len(v))'
  BY <1>1, <1>5, <1>6, <1>7, <1>9 DEF Continues
<1>11. Len(v) + Len(p) = Len(w) + Len(o)
  BY <1>3, <1>5, <1>6, <1>7
<1> QED BY <1>2, <1>8, <1>10, <1>11 DEF Ahead

\* The other end, or bitcoind, takes a byte from TCP.
LEMMA PullAhead ==
    ASSUME NEW A, Over(A), NEW e \in Ends, wire[e] # <<>>,
           wire' = [wire EXCEPT ![e] = Tail(@)], out' = out, peer' = peer, garbage' = garbage,
           NEW k \in Nat, Ahead(e, k)
    PROVE  /\ Ahead(e, k + 1)'
           /\ Head(wire[e]) = Sent(peer, e, garbage[e], k + 1) /\ Head(wire[e]) \in A
           /\ Len(wire'[e]) = Len(wire[e]) - 1 /\ Len(wire[e]) \in Nat /\ Len(wire[e]) >= 1
<1>1. PICK w \in Seq(A), o \in Seq(A) : w = wire[e] /\ o = out[e]
  BY DEF Over
<1>2. Continues(e, w, k) /\ Continues(e, o, k + Len(w)) /\ w # <<>> /\ Len(w) \in Nat
  BY <1>1 DEF Ahead
<1>3. /\ Head(w) = Sent(peer, e, garbage[e], k + 1) /\ Head(w) \in A
      /\ Continues(e, Tail(w), k + 1)
      /\ Len(Tail(w)) = Len(w) - 1 /\ Len(w) >= 1
  BY <1>2, ContinuesTail
<1>4. PICK v : v = Tail(w)
  OBVIOUS
<1>5. wire'[e] = v /\ out'[e] = o
  BY <1>1, <1>4 DEF Over
<1>6. k + 1 + Len(v) = k + Len(w)
  BY <1>2, <1>3, <1>4
<1>7. Continues(e, v, k + 1)' /\ Continues(e, o, k + 1 + Len(v))'
  BY <1>2, <1>3, <1>4, <1>6 DEF Continues
<1> QED BY <1>1, <1>2, <1>3, <1>4, <1>5, <1>7 DEF Ahead

\* A read takes the byte that follows what it has.
LEMMA TakeAhead ==
    ASSUME NEW A, Over(A), NEW e \in Ends, Take(e), NEW c \in Nat,
           Continues(Other(e), got[e], c), Ahead(Other(e), c + Len(got[e]))
    PROVE  /\ Continues(Other(e), got[e], c)' /\ Ahead(Other(e), c + Len(got[e]))'
           /\ Len(got'[e]) = Len(got[e]) + 1 /\ Len(got[e]) \in Nat
           /\ Len(wire'[Other(e)]) = Len(wire[Other(e)]) - 1 /\ Len(wire[Other(e)]) \in Nat
<1>1. /\ wire[Other(e)] # <<>> /\ out' = out /\ peer' = peer /\ garbage' = garbage
      /\ got' = [got EXCEPT ![e] = Append(@, Head(wire[Other(e)]))]
      /\ wire' = [wire EXCEPT ![Other(e)] = Tail(@)]
  BY DEF Take
<1>2. PICK o \in Ends : o = Other(e)
  BY TwoEnds
<1>3. PICK g \in Seq(A) : g = got[e]
  BY DEF Over
<1>4. PICK k \in Nat : k = c + Len(g)
  OBVIOUS
<1>5. /\ Ahead(o, k + 1)'
      /\ Head(wire[o]) = Sent(peer, o, garbage[o], k + 1) /\ Head(wire[o]) \in A
      /\ Len(wire'[o]) = Len(wire[o]) - 1 /\ Len(wire[o]) \in Nat
  BY <1>1, <1>2, <1>3, <1>4, PullAhead
<1>6. PICK x \in A : x = Head(wire[o])
  BY <1>5
<1>7. Continues(o, Append(g, x), c) /\ Len(Append(g, x)) = Len(g) + 1 /\ Len(g) \in Nat
  BY <1>2, <1>3, <1>4, <1>5, <1>6, ContinuesAppend
<1>8. PICK h : h = Append(g, x)
  OBVIOUS
<1>9. got'[e] = h
  BY <1>1, <1>2, <1>3, <1>6, <1>8 DEF Over
<1>10. Continues(o, h, c)'
  BY <1>1, <1>7, <1>8 DEF Continues
<1>11. c + Len(h) = k + 1
  BY <1>4, <1>7, <1>8
<1> QED BY <1>2, <1>3, <1>5, <1>7, <1>8, <1>9, <1>10, <1>11

-----------------------------------------------------------------------------
(* The splice                                                              *)

\* While the peer is a v1 node.
LEMMA V1Stays ==
    ASSUME HandshakeTypes, SpliceInv, peer = "v1", Next
    PROVE  SpliceInv'
<1>1. peer' = "v1" /\ peer' = peer /\ garbage' = garbage
  BY NextKeeps
<1>2. PICK A : A = Alphabet(peer) /\ Over(A)
  BY DEF HandshakeTypes
<1>3. /\ at[Initiator] \in {"key", "left"}
      /\ at[Responder] \in {"prefix", "splice", "splicing", "dropped", "probe"}
      /\ at[Responder] \in {"prefix", "splice"} =>
            /\ Len(got[Responder]) <= PrefixLen
            /\ Continues(Initiator, got[Responder], 0)
            /\ Ahead(Initiator, Len(got[Responder]))
      /\ at[Responder] = "splicing" =>
            Continues(Initiator, node, 0) /\ Ahead(Initiator, Len(node))
      /\ at[Responder] # "splicing" => node = <<>>
  BY DEF SpliceInv
<1>4. PICK g \in Seq(A), d \in Seq(A) : g = got[Responder] /\ d = node
  BY <1>2, TwoEnds DEF Over
<1>5. Len(g) \in Nat /\ Len(d) \in Nat /\ at \in [Ends -> Steps] /\ PrefixLen \in Nat \ {0}
  BY HandshakeAssumption DEF HandshakeTypes
\* What it takes that the bytes stay in order where they are.
<1>6. ASSUME at' = at, got'[Responder] = got[Responder], node' = node,
             \A k \in Nat : Ahead(Initiator, k) => Ahead(Initiator, k)'
      PROVE  SpliceInv'
  <2>1. Continues(Initiator, g, 0) => Continues(Initiator, g, 0)'
    BY <1>1 DEF Continues
  <2>2. Continues(Initiator, d, 0) => Continues(Initiator, d, 0)'
    BY <1>1 DEF Continues
  <2>3. /\ Ahead(Initiator, Len(g)) => Ahead(Initiator, Len(g))'
        /\ Ahead(Initiator, Len(d)) => Ahead(Initiator, Len(d))'
    BY <1>5, <1>6
  <2> QED BY <1>1, <1>3, <1>4, <1>6, <2>1, <2>2, <2>3 DEF SpliceInv
<1>7. ASSUME wire'[Initiator] = wire[Initiator], out'[Initiator] = out[Initiator]
      PROVE  \A k \in Nat : Ahead(Initiator, k) => Ahead(Initiator, k)'
  BY <1>1, <1>7, AheadKept
<1>8. ASSUME NEW e \in Ends, Step(e)
      PROVE  SpliceInv'
  <2>1. CASE Put(e)
    <3>1. \A k \in Nat : Ahead(Initiator, k) => Ahead(Initiator, k)'
      <4>1. CASE e = Initiator
        BY <1>2, <2>1, <4>1, PutAhead
      <4>2. CASE e # Initiator
        BY <1>2, <1>7, <2>1, <4>2, TwoEnds DEF Put, Over
      <4> QED BY <4>1, <4>2
    <3> QED BY <1>6, <2>1, <3>1 DEF Put
  <2>2. CASE Take(e) /\ e = Responder
    <3>1. at[Responder] = "prefix" /\ Len(got[Responder]) < PrefixLen
      BY <1>3, <1>4, <1>5, <2>2 DEF Take, Wants, Needed
    <3>2. /\ Continues(Initiator, got[Responder], 0)' /\ Ahead(Initiator, 0 + Len(got[Responder]))'
          /\ Len(got'[Responder]) = Len(got[Responder]) + 1
      <4>1. 0 + Len(got[Responder]) = Len(got[Responder])
        BY <1>4, <1>5
      <4> QED BY <1>2, <1>3, <2>2, <3>1, <4>1, TakeAhead, TwoEnds
    <3>3. PICK h : h = got'[Responder]
      OBVIOUS
    <3>4. Len(h) = Len(g) + 1 /\ 0 + Len(h) = Len(h) /\ Len(h) <= PrefixLen
      BY <1>4, <1>5, <3>1, <3>2, <3>3
    <3>5. at' = at /\ node' = node
      BY <2>2 DEF Take
    <3> QED BY <1>1, <1>3, <3>1, <3>2, <3>3, <3>4, <3>5 DEF SpliceInv
  <2>3. CASE Take(e) /\ e = Initiator
    <3>1. at' = at /\ node' = node /\ got'[Responder] = got[Responder]
          /\ wire'[Initiator] = wire[Initiator] /\ out'[Initiator] = out[Initiator]
      BY <1>2, <2>3, TwoEnds DEF Take, Over
    <3> QED BY <1>6, <1>7, <3>1
  <2>4. ~SkipGarbage(e) /\ ~ReadVersion(e) /\ ~HandshakeFails(e)
    BY <1>3 DEF SkipGarbage, ReadVersion, HandshakeFails, Fails, Has, Ends
  <2> QED BY <1>8, <2>1, <2>2, <2>3, <2>4, TwoEnds DEF Step, Ends
<1>9. ASSUME Respond
      PROVE  SpliceInv'
  <2>1. CASE ResponderSeesV1
    <3>1. at' = [at EXCEPT ![Responder] = "splice"] /\ at[Responder] = "prefix"
          /\ got' = got /\ wire' = wire /\ out' = out /\ node' = node
      BY <2>1 DEF ResponderSeesV1, Has, net
    <3>2. at'[Responder] = "splice" /\ at'[Initiator] = at[Initiator]
      BY <1>5, <3>1, TwoEnds
    <3>3. Ahead(Initiator, Len(g))'
      BY <1>1, <1>3, <1>4, <3>1, AheadKept
    <3>4. Continues(Initiator, g, 0)'
      BY <1>1, <1>3, <1>4, <3>1 DEF Continues
    <3> QED BY <1>1, <1>3, <1>4, <3>1, <3>2, <3>3, <3>4 DEF SpliceInv
  <2>2. ~ResponderSeesKey
    <3>1. SUFFICES ASSUME ResponderSeesKey PROVE FALSE
      OBVIOUS
    <3>2. at[Responder] = "prefix" /\ ~(Len(g) < PrefixLen) /\ g # Run("v1", PrefixLen)
      BY <1>4, <3>1 DEF ResponderSeesKey, Has, Wants, Needed
    <3>3. Len(g) = PrefixLen
      BY <1>3, <1>4, <1>5, <3>2
    <3>4. \A i \in 1..PrefixLen : 0 + i = i
      BY <1>5
    <3>5. \A i \in 1..PrefixLen : g[i] = Byte("v1", i)
      BY <1>3, <1>4, <3>2, <3>3, <3>4 DEF Continues, Sent
    <3> QED BY <1>4, <3>2, <3>3, <3>5 DEF Run
  <2>3. ~ResponderReadsKey /\ ~ReadMarker
    BY <1>3 DEF ResponderReadsKey, ReadMarker, Has
  <2>4. CASE PeerLost \/ SpliceDropped
    <3>1. PICK s \in {"probe", "dropped"} : at' = [at EXCEPT ![Responder] = s]
      BY <2>4 DEF PeerLost, SpliceDropped, Go
    <3>2. at'[Responder] = s /\ at'[Initiator] = at[Initiator]
      BY <1>5, <3>1, TwoEnds
    <3>3. node' = node /\ node = <<>>
      BY <1>3, <2>4 DEF PeerLost, SpliceDropped, Handshaking
    <3> QED BY <1>1, <1>3, <3>1, <3>2, <3>3 DEF SpliceInv
  <2>5. CASE SpliceStarts
    <3>1. at' = [at EXCEPT ![Responder] = "splicing"] /\ at[Responder] = "splice"
          /\ got' = got /\ wire' = wire /\ out' = out /\ node' = g
      BY <1>4, <2>5 DEF SpliceStarts, net
    <3>2. at'[Responder] = "splicing" /\ at'[Initiator] = at[Initiator]
      BY <1>5, <3>1, TwoEnds
    <3>3. Ahead(Initiator, Len(g))'
      BY <1>1, <1>3, <1>4, <3>1, AheadKept
    <3>4. Continues(Initiator, g, 0)'
      BY <1>1, <1>3, <1>4, <3>1 DEF Continues
    <3> QED BY <1>1, <1>3, <1>4, <3>1, <3>2, <3>3, <3>4 DEF SpliceInv
  <2>6. CASE SplicePumps
    <3>1. /\ at[Responder] = "splicing" /\ wire[Initiator] # <<>> /\ at' = at
          /\ node' = Append(node, Head(wire[Initiator]))
          /\ wire' = [wire EXCEPT ![Initiator] = Tail(@)] /\ out' = out
      BY <2>6 DEF SplicePumps
    <3>2. Continues(Initiator, d, 0) /\ Ahead(Initiator, Len(d))
      BY <1>3, <1>4, <3>1
    <3>3. PICK k \in Nat : k = Len(d)
      BY <1>5
    <3>4. /\ Ahead(Initiator, k + 1)' /\ Head(wire[Initiator]) \in A
          /\ Head(wire[Initiator]) = Sent(peer, Initiator, garbage[Initiator], k + 1)
      <4>1. Ahead(Initiator, k) /\ Initiator \in Ends
        BY <3>2, <3>3, TwoEnds
      <4> QED BY <1>1, <1>2, <3>1, <4>1, PullAhead
    <3>5. PICK x \in A : x = Head(wire[Initiator])
      BY <3>4
    <3>6. Continues(Initiator, Append(d, x), 0) /\ Len(Append(d, x)) = Len(d) + 1
      <4>1. 0 + Len(d) + 1 = k + 1
        BY <3>3
      <4> QED BY <1>4, <3>2, <3>4, <3>5, <4>1, ContinuesAppend
    <3>7. PICK m : m = Append(d, x)
      OBVIOUS
    <3>8. node' = m /\ Len(m) = k + 1 /\ Continues(Initiator, m, 0)'
      BY <1>1, <1>4, <3>1, <3>3, <3>5, <3>6, <3>7 DEF Continues
    <3> QED BY <1>1, <1>3, <3>1, <3>4, <3>8 DEF SpliceInv
  <2> QED BY <1>9, <2>1, <2>2, <2>3, <2>4, <2>5, <2>6 DEF Respond
<1>10. CASE Leave
  <2>1. /\ at' = [at EXCEPT ![Initiator] = "left"] /\ out' = [out EXCEPT ![Initiator] = <<>>]
        /\ got' = got /\ wire' = wire /\ node' = node
    BY <1>10 DEF Leave
  <2>2. at'[Initiator] = "left" /\ at'[Responder] = at[Responder]
    BY <1>5, <2>1, TwoEnds
  <2>3. out'[Initiator] = <<>> /\ Len(<<>>) = 0
    BY <1>2, <2>1, TwoEnds DEF Over
  <2>4. ASSUME NEW k, Ahead(Initiator, k)
        PROVE  Ahead(Initiator, k)'
    BY <1>1, <2>1, <2>3, <2>4 DEF Ahead, Continues
  <2>5. Continues(Initiator, g, 0) => Continues(Initiator, g, 0)'
    BY <1>1 DEF Continues
  <2>6. Continues(Initiator, d, 0) => Continues(Initiator, d, 0)'
    BY <1>1 DEF Continues
  <2> QED BY <1>1, <1>3, <1>4, <2>1, <2>2, <2>4, <2>5, <2>6 DEF SpliceInv
<1>11. ~InitiatorReadsKey /\ \A kind : ~Speak(kind)
  BY <1>3 DEF InitiatorReadsKey, Speak
<1> QED BY <1>8, <1>9, <1>10, <1>11 DEF Next

\* No other peer is spliced.
LEMMA OthersStay ==
    ASSUME HandshakeTypes, SpliceInv, peer # "v1", Next
    PROVE  SpliceInv'
<1>1. peer' = peer /\ at \in [Ends -> Steps]
  BY NextKeeps DEF HandshakeTypes
<1>2. at[Responder] \notin {"splice", "splicing"} /\ node = <<>>
  BY DEF SpliceInv
<1>3. ~ResponderSeesV1
  <2>1. SUFFICES ASSUME ResponderSeesV1 PROVE FALSE
    OBVIOUS
  <2>2. got[Responder] = Run("v1", PrefixLen) /\ got[Responder] \in Seq(Alphabet(peer))
    BY <2>1, TwoEnds DEF ResponderSeesV1, HandshakeTypes, Over
  <2>3. 1 \in 1..PrefixLen /\ PrefixLen \in Nat
    BY HandshakeAssumption
  <2>4. got[Responder][1] = Byte("v1", 1) /\ Len(got[Responder]) = PrefixLen
    BY <2>2, <2>3 DEF Run
  <2>5. Byte("v1", 1) \in Alphabet(peer)
    BY <2>2, <2>3, <2>4, ElementOfSeq
  <2> QED BY <2>5 DEF Byte, Alphabet, Kinds, Initiator, Responder
<1>4. ~SpliceStarts /\ ~SpliceDropped /\ ~SplicePumps
  BY <1>2 DEF SpliceStarts, SpliceDropped, SplicePumps
<1>5. node' = node
  BY <1>4 DEF Next, Step, Put, Take, SkipGarbage, ReadVersion, HandshakeFails, Respond,
     ResponderSeesV1, ResponderSeesKey, ResponderReadsKey, ReadMarker, PeerLost,
     InitiatorReadsKey, Speak, Leave
<1>6. at'[Responder] \notin {"splice", "splicing"}
  <2>1. ASSUME NEW e \in Ends, Step(e)
        PROVE  at'[Responder] \notin {"splice", "splicing"}
    BY <1>1, <1>2, <2>1, TwoEnds
       DEF Step, Put, Take, SkipGarbage, ReadVersion, HandshakeFails, Go
  <2>2. ASSUME Respond
        PROVE  at'[Responder] \notin {"splice", "splicing"}
    BY <1>1, <1>2, <1>3, <1>4, <2>2, TwoEnds
       DEF Respond, ResponderSeesKey, ResponderReadsKey, ReadMarker, PeerLost, Go
  <2>3. ASSUME NEW kind, InitiatorReadsKey \/ Speak(kind) \/ Leave
        PROVE  at'[Responder] \notin {"splice", "splicing"}
    BY <1>1, <1>2, <2>3, TwoEnds DEF InitiatorReadsKey, Speak, Leave, Go
  <2> QED BY <2>1, <2>2, <2>3 DEF Next
<1> QED BY <1>1, <1>2, <1>5, <1>6 DEF SpliceInv

LEMMA SpliceStays ==
    ASSUME HandshakeTypes, SpliceInv, [Next]_vars
    PROVE  SpliceInv'
<1>1. CASE UNCHANGED vars
  BY <1>1 DEF vars, SpliceInv, Ahead, Continues
<1> QED BY <1>1, V1Stays, OthersStay

LEMMA InitSplice == Init => SpliceInv
<1> SUFFICES ASSUME Init PROVE SpliceInv
  OBVIOUS
<1>1. /\ at[Initiator] = "key" /\ at[Responder] = "prefix" /\ node = <<>>
      /\ wire[Initiator] = <<>> /\ got[Responder] = <<>>
  BY TwoEnds DEF Init
<1>2. ASSUME peer = "v1" PROVE out[Initiator] = Run("v1", V1Len)
  BY <1>2, TwoEnds DEF Init, Opening
<1>3. V1Len \in Nat /\ PrefixLen \in Nat
  BY HandshakeAssumption
<1>4. ASSUME peer = "v1" PROVE Continues(Initiator, out[Initiator], 0)
  <2>1. \A i \in 1..V1Len : Run("v1", V1Len)[i] = Byte("v1", i) /\ 0 + i = i
    BY <1>3 DEF Run
  <2>2. Len(Run("v1", V1Len)) = V1Len
    BY <1>3 DEF Run
  <2> QED BY <1>2, <1>4, <2>1, <2>2 DEF Continues, Sent
<1>5. Len(<<>>) = 0 /\ 0 + 0 = 0 /\ 0 <= PrefixLen /\ 1..0 = {}
  BY <1>3
<1>6. Continues(Initiator, <<>>, 0)
  BY <1>5 DEF Continues
<1> QED BY <1>1, <1>4, <1>5, <1>6 DEF SpliceInv, Ahead

(* bitcoind receives a v1 node's bytes from the first, without a gap.      *)
THEOREM SplicesVerbatim == Spec => []SpliceIsVerbatim
<1>1. HandshakeTypes /\ SpliceInv => SpliceIsVerbatim
  <2> SUFFICES ASSUME HandshakeTypes, SpliceInv PROVE SpliceIsVerbatim
    OBVIOUS
  <2>1. PICK d \in Seq(Alphabet(peer)) : d = node
    BY DEF HandshakeTypes, Over
  <2>2. CASE d = <<>>
    BY <2>1, <2>2 DEF SpliceIsVerbatim, Run
  <2>3. CASE d # <<>>
    <3>1. peer = "v1" /\ Continues(Initiator, d, 0)
      BY <2>1, <2>3 DEF SpliceInv
    <3>2. \A i \in 1..Len(d) : d[i] = Byte("v1", i)
      <4>1. \A i \in 1..Len(d) : 0 + i = i
        OBVIOUS
      <4> QED BY <3>1, <4>1 DEF Continues, Sent
    <3>3. d = Run("v1", Len(d))
      BY <3>2 DEF Run
    <3> QED BY <2>1, <3>3 DEF SpliceIsVerbatim
  <2> QED BY <2>2, <2>3
<1> QED BY <1>1, InitTyped, NextTyped, InitSplice, SpliceStays, PTL DEF Spec

-----------------------------------------------------------------------------
(* The client                                                              *)

\* The numbers that the steps of a handshake are counted with.
LEMMA Counts ==
    ASSUME NEW e \in Ends, NEW s \in ClientSteps,
           NEW g \in Nat
    PROVE  Consumed(e, s, g) \in Nat /\ ReadOf(e, s, g) \in Nat /\ Written(e, s, g) \in Nat
<1>1. PrefixLen \in Nat /\ KeyLen \in Nat /\ KeyLen - PrefixLen \in Nat
  BY HandshakeAssumption
<1> QED BY <1>1 DEF Consumed, ReadOf, Written, ClientSteps

\* The terminator is found when it has been read, and not before.
LEMMA FoundAtTerminator ==
    ASSUME HandshakeTypes, peer = "client", NEW e \in Ends, at[e] = "skip", Reads(e)
    PROVE  /\ Found(e) <=> Len(got[e]) = garbage[Other(e)] + 2
           /\ ~Exhausted(e)
<1>1. PICK o \in Ends : o = Other(e)
  BY TwoEnds
<1>2. PICK r \in Seq(Alphabet(peer)) : r = got[e]
  BY DEF HandshakeTypes, Over
<1>3. PICK g \in Nat : g = garbage[o] /\ g < MaxGarbage
  BY DEF HandshakeTypes
<1>4. PICK l \in Nat : l = Len(r)
  OBVIOUS
<1>5. l <= g + 2 /\ \A i \in 1..l : r[i] = Sent(peer, o, g, KeyLen + i)
  BY <1>1, <1>2, <1>3, <1>4 DEF Reads, ReadOf, Consumed, Continues
<1>6. KeyLen \in Nat /\ MaxGarbage \in Nat
  BY HandshakeAssumption
<1>7. \A i \in 1..g + 1 : Sent(peer, o, g, KeyLen + i) = Byte("garbage", 0)
  BY <1>6 DEF Sent
<1>8. Sent(peer, o, g, KeyLen + (g + 2)) = Byte(o, 0)
  BY <1>6 DEF Sent
<1>9. Byte("garbage", 0) # Byte(o, 0)
  BY DEF Byte, Ends, Initiator, Responder
<1>10. ASSUME l >= 2
       PROVE  Last(r, 2)[1] = r[l - 1] /\ Last(r, 2)[2] = r[l] /\ Len(Last(r, 2)) = 2
              /\ Last(r, 2) \in Seq(Alphabet(peer))
  <2>1. PICK m \in Nat : m = l - 2
    BY <1>10
  <2>2. l - 2 + 1 = m + 1 /\ l = m + 2 /\ l - 1 = m + 1
    BY <2>1
  <2>3. \A i \in m + 1..m + 2 : r[i] \in Alphabet(peer)
    <3>1. \A i \in m + 1..m + 2 : i \in 1..Len(r)
      BY <1>4, <2>2
    <3> QED BY <3>1, ElementOfSeq
  <2>4. /\ Len(SubSeq(r, m + 1, m + 2)) = IF m + 1 <= m + 2 THEN (m + 2) - (m + 1) + 1 ELSE 0
        /\ SubSeq(r, m + 1, m + 2) \in Seq(Alphabet(peer))
        /\ \A i \in 1..(m + 2) - (m + 1) + 1 : SubSeq(r, m + 1, m + 2)[i] = r[(m + 1) + i - 1]
    BY <2>3, SubSeqProperties
  <2>5. /\ (m + 2) - (m + 1) + 1 = 2 /\ (m + 1) + 1 - 1 = m + 1 /\ (m + 1) + 2 - 1 = m + 2
        /\ m + 1 <= m + 2
    OBVIOUS
  <2>6. Last(r, 2) = SubSeq(r, m + 1, m + 2)
    BY <1>4, <2>2 DEF Last
  <2>7. 1 \in 1..2 /\ 2 \in 1..2
    OBVIOUS
  <2> QED BY <2>2, <2>4, <2>5, <2>6, <2>7
<1>11. RecvTerminator(e) = <<Byte("garbage", 0), Byte(o, 0)>>
  BY <1>1 DEF RecvTerminator, SendTerminator
<1>12. ASSUME l = g + 2
       PROVE  Found(e)
  <2>1. l - 1 = g + 1 /\ g + 1 \in 1..g + 1 /\ g + 1 \in 1..l /\ l \in 1..l /\ l >= 2
    BY <1>12
  <2>2. r[g + 1] = Byte("garbage", 0) /\ r[l] = Byte(o, 0)
    BY <1>5, <1>7, <1>8, <1>12, <2>1
  <2>3. Last(r, 2) = <<Byte("garbage", 0), Byte(o, 0)>>
    BY <1>10, <2>1, <2>2
  <2>4. 2 <= l /\ l < 2 + MaxGarbage
    BY <1>3, <1>6, <1>12
  <2> QED BY <1>2, <1>4, <1>11, <2>3, <2>4 DEF Found, TermLen
<1>13. ASSUME Found(e)
       PROVE  l = g + 2
  <2>1. l >= 2 /\ Last(r, 2) = <<Byte("garbage", 0), Byte(o, 0)>>
    BY <1>2, <1>4, <1>11, <1>13 DEF Found, TermLen
  <2>2. r[l] = Byte(o, 0) /\ l \in 1..l
    BY <1>10, <2>1
  <2>3. l \notin 1..g + 1
    BY <1>5, <1>7, <1>9, <2>2
  <2> QED BY <1>5, <2>1, <2>3
<1>14. ~Exhausted(e)
  BY <1>2, <1>3, <1>4, <1>5, <1>6 DEF Exhausted, TermLen
<1> QED BY <1>1, <1>2, <1>3, <1>4, <1>12, <1>13, <1>14

\* A read that is complete has taken what its step takes.
LEMMA ReadComplete ==
    ASSUME HandshakeTypes, peer = "client", NEW e \in Ends, Reads(e),
           NEW s \in {"prefix", "key", "skip", "version", "marker"}, Has(e, s)
    PROVE  /\ at[e] = s /\ out[e] = <<>> /\ Len(got[e]) = ReadOf(e, s, garbage[Other(e)])
           /\ s = "skip" => Found(e)
<1>1. at[e] = s /\ out[e] = <<>> /\ ~Wants(e)
  BY DEF Has
<1>2. Len(got[e]) \in Nat /\ garbage[Other(e)] \in Nat
  BY TwoEnds DEF HandshakeTypes, Over
<1>3. CASE s = "skip"
  <2>1. Found(e)
    BY <1>1, <1>3, FoundAtTerminator DEF Wants
  <2> QED BY <1>1, <1>3, <2>1, FoundAtTerminator DEF ReadOf
<1>4. CASE s # "skip"
  <2>1. PICK n \in Nat : n = ReadOf(e, s, garbage[Other(e)])
    BY <1>2, Counts DEF Steps, ClientSteps
  <2>2. Needed(e) = n
    BY <1>1, <1>4, <2>1 DEF Needed, ReadOf
  <2>3. ~(Len(got[e]) < n) /\ Len(got[e]) <= n
    BY <1>1, <1>4, <2>1, <2>2 DEF Wants, Reads
  <2> QED BY <1>1, <1>2, <1>4, <2>1, <2>3
<1> QED BY <1>3, <1>4

\* The part of ClientInv about the bytes.
Bytes ==
    /\ at[Responder] # "probe" => Reads(Responder)
    /\ at[Initiator] # "left" => Reads(Initiator) /\ \A e \in Ends : Writes(e)

\* Whether an end is in a step that counts its bytes.
Counting(e) == at[e] \in ClientSteps

\* A read that is in place stays there if the reader does nothing and the other
\* end's bytes are as they were.
LEMMA ReadsKept ==
    ASSUME peer' = peer, garbage' = garbage, NEW e \in Ends, at'[e] = at[e], got'[e] = got[e],
           Reads(e), NEW k, k = Taken(e), Ahead(Other(e), k) => Ahead(Other(e), k)'
    PROVE  Reads(e)'
<1>1. Taken(e)' = k
  BY DEF Taken
<1> QED BY <1>1 DEF Reads, Continues

\* An end that has read what its step takes goes on, and writes what comes next.
LEMMA ClientMoves ==
    ASSUME HandshakeTypes, ClientInv, peer = "client", NEW e \in Ends, Counting(e),
           NEW s \in ClientSteps,
           NEW bytes, Go(e, s, bytes), peer' = peer, garbage' = garbage, wire' = wire,
           out[e] = <<>>,
           Len(got[e]) = ReadOf(e, at[e], garbage[Other(e)]),
           Consumed(e, s, garbage[Other(e)]) =
               Consumed(e, at[e], garbage[Other(e)]) + ReadOf(e, at[e], garbage[Other(e)]),
           Len(bytes) \in Nat,
           Written(e, s, garbage[e]) = Written(e, at[e], garbage[e]) + Len(bytes),
           Continues(e, bytes, Written(e, at[e], garbage[e]))
    PROVE  Bytes'
<1>1. PICK o \in Ends : o = Other(e) /\ Other(o) = e /\ o # e
  BY TwoEnds
<1>2. at \in [Ends -> Steps] /\ Over(Alphabet(peer)) /\ garbage \in [Ends -> Nat]
  BY DEF HandshakeTypes
<1>3. /\ at'[e] = s /\ at'[o] = at[o] /\ got'[e] = <<>> /\ got'[o] = got[o]
      /\ out'[e] = bytes /\ out'[o] = out[o]
  BY <1>1, <1>2 DEF Go, Over
<1>4. PICK ge \in Nat, gr \in Nat : ge = garbage[e] /\ gr = garbage[o]
  BY <1>2
<1>5. /\ Consumed(e, at[e], gr) \in Nat /\ Written(e, at[e], ge) \in Nat
      /\ ReadOf(e, at[e], gr) \in Nat /\ ReadOf(e, s, gr) \in Nat
  BY <1>4, Counts DEF Counting, ClientSteps
<1>6. PICK c \in Nat, w \in Nat :
         /\ c = Consumed(e, s, gr) /\ c = Taken(e)
         /\ w = Written(e, at[e], ge) /\ Written(e, s, ge) = w + Len(bytes)
  BY <1>1, <1>4, <1>5 DEF Taken
<1>7. Taken(e)' = c
  <2>1. c + Len(<<>>) = c /\ garbage'[o] = gr
    BY <1>4
  <2>2. Taken(e)' = Consumed(e, at'[e], garbage'[Other(e)]) + Len(got'[e])
    BY DEF Taken
  <2> QED BY <1>1, <1>3, <1>6, <2>1, <2>2
<1>8. ASSUME Reads(e)
      PROVE  Reads(e)'
  <2>1. Ahead(o, c)
    BY <1>1, <1>6, <1>8 DEF Reads
  <2>2. Ahead(o, c)'
    BY <1>3, <2>1, AheadKept
  <2>3. Len(<<>>) = 0 /\ 0 <= ReadOf(e, s, gr) /\ 1..0 = {}
    BY <1>5
  <2>4. /\ (Len(got[e]) <= ReadOf(e, at[e], garbage[Other(e)]))'
        /\ Continues(Other(e), got[e], Consumed(e, at[e], garbage[Other(e)]))'
    BY <1>1, <1>3, <1>4, <2>3 DEF Continues
  <2> QED BY <1>1, <1>7, <2>2, <2>4 DEF Reads
<1>9. Taken(o)' = Taken(o)
  BY <1>3 DEF Taken
<1>10. ASSUME Reads(o), Writes(e), Counting(o)
       PROVE  Reads(o)' /\ Writes(e)'
  <2>1. PICK k : k = Taken(o)
    OBVIOUS
  <2>2. PICK v : v = wire[e] /\ Len(v) \in Nat
    BY <1>2 DEF Over
  <2>3. k + Len(v) + 0 = w
    <3>1. Taken(o) + Len(wire[e]) + Len(out[e]) = Written(e, at[e], garbage[e])
      BY <1>1, <1>10 DEF Writes
    <3> QED BY <1>4, <1>6, <2>1, <2>2, <3>1
  <2>4. Len(got[o]) \in Nat /\ Taken(o) = Consumed(o, at[o], garbage[Other(o)]) + Len(got[o])
    BY <1>2 DEF Over, Taken
  <2>5. k + Len(v) = w
    <3>1. Consumed(o, at[o], ge) \in Nat
      BY <1>4, <1>10, Counts DEF Counting, ClientSteps
    <3>2. k \in Nat
      BY <1>1, <1>4, <2>1, <2>4, <3>1
    <3> QED BY <2>2, <2>3, <3>2
  <2>6. Ahead(e, k) => Ahead(e, k)'
    <3>1. Continues(e, v, k) => Continues(e, v, k)'
      BY DEF Continues
    <3>2. Continues(e, bytes, w) => Continues(e, out[e], k + Len(v))'
      BY <1>3, <2>5 DEF Continues
    <3> QED BY <1>4, <1>6, <2>2, <3>1, <3>2 DEF Ahead
  <2>7. Reads(o)'
    BY <1>1, <1>3, <1>10, <2>1, <2>6, ReadsKept
  <2>8. Writes(e)'
    <3>1. k + Len(v) + Len(bytes) = w + Len(bytes)
      BY <2>5
    <3> QED BY <1>1, <1>3, <1>4, <1>6, <1>9, <2>1, <2>2, <3>1 DEF Writes
  <2> QED BY <2>7, <2>8
<1>11. ASSUME Writes(o)
       PROVE  Writes(o)'
  <2>1. Taken(e) + Len(wire[o]) + Len(out[o]) = Written(o, at[o], garbage[o])
    BY <1>1, <1>11 DEF Writes
  <2> QED BY <1>1, <1>3, <1>6, <1>7, <2>1 DEF Writes
<1>12. /\ at[Responder] # "probe" => Reads(Responder)
       /\ at[Initiator] # "left" => /\ Reads(Initiator) /\ \A x \in Ends : Writes(x)
                                    /\ at[Responder] # "probe" /\ Counting(o)
       /\ at[e] # "probe" /\ at[e] # "left" /\ s # "left" /\ s # "probe"
  BY <1>1, TwoEnds DEF ClientInv, Counting, ClientSteps, Steps, Ends
<1>13. CASE e = Initiator
  BY <1>1, <1>3, <1>8, <1>10, <1>11, <1>12, <1>13, TwoEnds DEF Bytes
<1>14. CASE e = Responder
  BY <1>1, <1>3, <1>8, <1>10, <1>11, <1>12, <1>14, TwoEnds DEF Bytes
<1> QED BY <1>13, <1>14 DEF Ends

\* What ClientInv says besides Bytes.
Places ==
    /\ at[Initiator] \in {"key", "skip", "version", "idle", "active", "left"}
    /\ at[Responder] \in {"prefix", "key", "skip", "version", "marker", "served", "probe"}
    /\ gone => at[Initiator] = "left"
    /\ at[Initiator] = "left" => gone
    /\ at[Responder] = "probe" => gone
    /\ \A e \in Ends : at[e] \in {"version", "idle", "marker"} => skipped[e] = garbage[Other(e)]

LEMMA ClientParts ==
    ASSUME peer = "client"
    PROVE  ClientInv <=> Places /\ Bytes
BY DEF ClientInv, Places, Bytes

\* An end that counts its bytes has its read in place.
LEMMA CountingReads ==
    ASSUME peer = "client", ClientInv, NEW e \in Ends, at[e] # "left", at[e] # "probe"
    PROVE  Reads(e) /\ Counting(e) /\ at[e] \in Steps
BY TwoEnds DEF ClientInv, Counting, ClientSteps, Steps, Ends

LEMMA ClientPuts ==
    ASSUME HandshakeTypes, ClientInv, peer = "client", NEW e \in Ends, Put(e)
    PROVE  ClientInv'
<1>1. /\ at' = at /\ got' = got /\ skipped' = skipped /\ gone' = gone
      /\ peer' = peer /\ garbage' = garbage
  BY DEF Put
<1>2. PICK A : A = Alphabet(peer) /\ Over(A)
  BY DEF HandshakeTypes
<1>3. \A x \in Ends : x # e => wire'[x] = wire[x] /\ out'[x] = out[x]
  BY <1>2 DEF Put, Over
<1>4. ASSUME NEW x \in Ends, Counting(x), Reads(x)
      PROVE  Reads(x)' /\ (Writes(Other(x)) => Writes(Other(x))')
  <2>1. PICK o \in Ends : o = Other(x)
    BY TwoEnds
  <2>2. PICK k \in Nat : k = Taken(x)
    <3>1. garbage[o] \in Nat /\ Len(got[x]) \in Nat
      BY <1>2 DEF HandshakeTypes, Over
    <3>2. Consumed(x, at[x], garbage[o]) \in Nat
      BY <1>4, <3>1, Counts DEF Counting, ClientSteps
    <3> QED BY <2>1, <3>1, <3>2 DEF Taken
  <2>3. Ahead(o, k)
    BY <1>4, <2>1, <2>2 DEF Reads
  <2>4. Ahead(o, k)' /\ Len(wire'[o]) + Len(out'[o]) = Len(wire[o]) + Len(out[o])
    <3>1. CASE o = e
      BY <1>2, <2>3, <3>1, PutAhead
    <3>2. CASE o # e
      BY <1>1, <1>3, <2>3, <3>2, AheadKept
    <3> QED BY <3>1, <3>2
  <2>5. Reads(x)'
    BY <1>1, <1>4, <2>1, <2>2, <2>4, ReadsKept
  <2>6. Taken(x)' = k
    BY <1>1, <2>2 DEF Taken
  <2>7. /\ Len(wire[o]) \in Nat /\ Len(out[o]) \in Nat
        /\ Len(wire'[o]) \in Nat /\ Len(out'[o]) \in Nat
    <3>1. Over(A)'
      BY <1>2, StepOver DEF HandshakeTypes, Step
    <3> QED BY <1>2, <3>1, SMTT(30) DEF Over
  <2>8. ASSUME Writes(o) PROVE Writes(o)'
    <3>1. PICK u \in Nat, v \in Nat, m \in Nat, n \in Nat :
             u = Len(wire[o]) /\ v = Len(out[o]) /\ m = Len(wire'[o]) /\ n = Len(out'[o])
      BY <2>7
    <3>2. k + u + v = k + m + n
      <4>1. m + n = u + v
        BY <2>4, <3>1
      <4> QED BY <4>1
    <3> QED BY <1>1, <2>1, <2>2, <2>6, <2>8, <3>1, <3>2, TwoEnds DEF Writes
  <2> QED BY <2>1, <2>5, <2>8
<1>5. Places'
  BY <1>1, ClientParts DEF Places
<1>6. Bytes'
  <2>1. ASSUME at[Responder] # "probe" PROVE Reads(Responder)'
    BY <1>4, <2>1, CountingReads, TwoEnds DEF ClientInv
  <2>2. ASSUME at[Initiator] # "left"
        PROVE  Reads(Initiator)' /\ \A x \in Ends : Writes(x)'
    <3>1. at[Responder] # "probe" /\ \A x \in Ends : Writes(x)
      BY <2>2 DEF ClientInv
    <3> QED BY <1>4, <2>2, <3>1, CountingReads, TwoEnds DEF ClientInv
  <2> QED BY <1>1, <2>1, <2>2 DEF Bytes
<1> QED BY <1>1, <1>5, <1>6, ClientParts DEF ClientInv, Places, Bytes

LEMMA ClientTakes ==
    ASSUME HandshakeTypes, ClientInv, peer = "client", NEW e \in Ends, Take(e)
    PROVE  ClientInv'
<1>1. /\ at' = at /\ out' = out /\ skipped' = skipped /\ gone' = gone
      /\ peer' = peer /\ garbage' = garbage /\ Wants(e)
  BY DEF Take
<1>2. PICK A : A = Alphabet(peer) /\ Over(A)
  BY DEF HandshakeTypes
<1>3. PICK o \in Ends : o = Other(e) /\ Other(o) = e /\ o # e
  BY TwoEnds
<1>4. got'[o] = got[o] /\ wire'[e] = wire[e]
  BY <1>2, <1>3 DEF Take, Over
<1>5. PICK g \in Nat, r \in Seq(A) : g = garbage[o] /\ r = got[e]
  BY <1>2 DEF HandshakeTypes, Over
<1>6. at[e] # "left" /\ at[e] # "probe"
  BY <1>1, <1>5 DEF Wants, Needed
<1>7. Reads(e) /\ Counting(e)
  BY <1>6, CountingReads
<1>8. PICK c \in Nat : c = Consumed(e, at[e], g)
  BY <1>5, <1>7, Counts DEF Counting, ClientSteps
<1>9. /\ Continues(o, got[e], c)' /\ Ahead(o, c + Len(got[e]))'
      /\ Len(got'[e]) = Len(got[e]) + 1 /\ Len(got[e]) \in Nat
      /\ Len(wire'[o]) = Len(wire[o]) - 1 /\ Len(wire[o]) \in Nat
  BY <1>2, <1>3, <1>5, <1>7, <1>8, TakeAhead DEF Reads, Taken
<1>10. Len(got[e]) < ReadOf(e, at[e], g)
  <2>1. PICK n \in Nat : n = ReadOf(e, at[e], g)
    BY <1>5, <1>7, Counts DEF Counting, ClientSteps
  <2>2. CASE at[e] = "skip"
    <3>1. Len(got[e]) # g + 2 /\ n = g + 2
      BY <1>1, <1>3, <1>5, <1>7, <2>1, <2>2, FoundAtTerminator DEF Wants, ReadOf
    <3>2. Len(got[e]) <= n
      BY <1>3, <1>5, <1>7, <2>1 DEF Reads
    <3> QED BY <1>9, <2>1, <3>1, <3>2
  <2>3. CASE at[e] # "skip"
    <3>1. Needed(e) = n \/ Needed(e) = 0
      BY <1>7, <2>1, <2>3 DEF Needed, ReadOf, Counting, Steps, ClientSteps
    <3>2. Len(got[e]) < Needed(e)
      BY <1>1, <2>3 DEF Wants
    <3> QED BY <1>9, <2>1, <3>1, <3>2
  <2> QED BY <2>2, <2>3
<1>11. Reads(e)'
  <2>1. PICK l \in Nat : l = Len(got'[e])
    BY <1>9
  <2>2. PICK n \in Nat : n = ReadOf(e, at[e], g)
    BY <1>5, <1>7, Counts DEF Counting, ClientSteps
  <2>3. l <= n /\ Taken(e)' = c + l
    BY <1>1, <1>3, <1>5, <1>8, <1>9, <1>10, <2>1, <2>2 DEF Taken
  <2>4. (Len(got[e]) <= ReadOf(e, at[e], garbage[Other(e)]))'
    BY <1>1, <1>3, <1>5, <2>1, <2>2, <2>3
  <2>5. Continues(Other(e), got[e], Consumed(e, at[e], garbage[Other(e)]))'
    BY <1>1, <1>3, <1>5, <1>8, <1>9
  <2>6. Ahead(o, c + l)'
    BY <1>9, <2>1 DEF Ahead, Continues
  <2> QED BY <1>3, <2>3, <2>4, <2>5, <2>6 DEF Reads
<1>12. Taken(e)' = Taken(e) + 1
  BY <1>1, <1>3, <1>5, <1>8, <1>9 DEF Taken
<1>13. Taken(o)' = Taken(o)
  BY <1>1, <1>4 DEF Taken
<1>14. Reads(o) => Reads(o)'
  <2>1. PICK k : k = Taken(o)
    OBVIOUS
  <2>2. Ahead(e, k) => Ahead(e, k)'
    BY <1>1, <1>4, AheadKept
  <2> QED BY <1>1, <1>3, <1>4, <2>1, <2>2, ReadsKept
<1>15. Writes(e) => Writes(e)'
  BY <1>1, <1>3, <1>4, <1>13 DEF Writes
<1>16. Writes(o) => Writes(o)'
  <2>1. PICK k \in Nat, u \in Nat, v \in Nat : k = Taken(e) /\ u = Len(wire[o]) /\ v = Len(out[o])
    <3>1. Taken(e) \in Nat
      BY <1>3, <1>5, <1>8, <1>9 DEF Taken
    <3>2. Len(wire[o]) \in Nat /\ Len(out[o]) \in Nat
      BY <1>2 DEF Over
    <3> QED BY <3>1, <3>2
  <2>2. (k + 1) + (u - 1) + v = k + u + v
    OBVIOUS
  <2> QED BY <1>1, <1>3, <1>9, <1>12, <2>1, <2>2 DEF Writes
<1>17. Places'
  BY <1>1, ClientParts DEF Places
<1>18. Bytes'
  BY <1>1, <1>3, <1>11, <1>14, <1>15, <1>16, TwoEnds DEF Bytes, ClientInv
<1> QED BY <1>1, <1>17, <1>18, ClientParts DEF ClientInv, Places, Bytes

\* What the steps read and write.
LEMMA Stretches ==
    ASSUME HandshakeTypes, peer = "client", NEW e \in Ends
    PROVE  LET g == garbage[e] IN
           /\ Continues(e, <<>>, Written(e, at[e], g))
           /\ Continues(e, SendTerminator(e), KeyLen + g)
           /\ Continues(e, Version(e), KeyLen + g + 2) /\ Len(Version(e)) = 1
           /\ Continues(e, KeyAndGarbage(e, g), 0)
           /\ Continues(e, SendTerminator(e) \o Version(e), KeyLen + g)
           /\ Len(SendTerminator(e) \o Version(e)) = 3
           /\ Continues(e, <<Byte("marker", 0)>>, KeyLen + g + 3)
<1>1. PICK g \in Nat : g = garbage[e]
  BY DEF HandshakeTypes
<1>2. KeyLen \in Nat
  BY HandshakeAssumption
<1>3. \A n \in 1..KeyLen : Sent(peer, e, g, n) = Byte("key", n)
  BY <1>2 DEF Sent
<1>4. \A n \in 1..g + 1 : Sent(peer, e, g, KeyLen + n) = Byte("garbage", 0)
  BY <1>2 DEF Sent
<1>5. /\ Sent(peer, e, g, KeyLen + g + 1) = Byte("garbage", 0)
      /\ Sent(peer, e, g, KeyLen + g + 2) = Byte(e, 0)
      /\ Sent(peer, e, g, KeyLen + g + 3) = Byte("version", g)
      /\ Sent(peer, e, g, KeyLen + g + 4) = Byte("marker", 0)
  BY <1>2 DEF Sent
<1>6. Continues(e, <<>>, Written(e, at[e], g))
  BY DEF Continues
<1>7. PICK t : /\ t = SendTerminator(e) /\ Len(t) = 2 /\ t \in Seq(Alphabet(peer))
               /\ t[1] = Byte("garbage", 0) /\ t[2] = Byte(e, 0)
  <2>1. PICK t : t = <<Byte("garbage", 0), Byte(e, 0)>>
    OBVIOUS
  <2>2. t = SendTerminator(e)
    BY <2>1 DEF SendTerminator
  <2>3. t \in Seq(Alphabet(peer))
    BY <1>1, <2>2, WritesTyped
  <2>4. Len(t) = 2 /\ t[1] = Byte("garbage", 0) /\ t[2] = Byte(e, 0)
    BY <2>1
  <2> QED BY <2>2, <2>3, <2>4
<1>8. Continues(e, t, KeyLen + g)
  BY <1>1, <1>2, <1>5, <1>7 DEF Continues
<1>9. PICK v : /\ v = Version(e) /\ Len(v) = 1 /\ v \in Seq(Alphabet(peer))
               /\ v[1] = Byte("version", g)
  <2>1. PICK v : v = <<Byte("version", g)>>
    OBVIOUS
  <2>2. v = Version(e)
    BY <1>1, <2>1 DEF Version
  <2>3. v \in Seq(Alphabet(peer))
    BY <1>1, <2>1, ByteTyped DEF Kinds
  <2>4. Len(v) = 1 /\ v[1] = Byte("version", g)
    BY <2>1
  <2> QED BY <2>2, <2>3, <2>4
<1>10. Continues(e, v, KeyLen + g + 2)
  <2>1. KeyLen + g + 2 + 1 = KeyLen + g + 3
    BY <1>2
  <2> QED BY <1>1, <1>5, <1>9, <2>1 DEF Continues
<1>11. PICK m : m = <<Byte("marker", 0)>> /\ Len(m) = 1 /\ m[1] = Byte("marker", 0)
  <2>1. PICK m : m = <<Byte("marker", 0)>>
    OBVIOUS
  <2> QED BY <2>1
<1>12. Continues(e, m, KeyLen + g + 3)
  <2>1. KeyLen + g + 3 + 1 = KeyLen + g + 4
    BY <1>2
  <2> QED BY <1>1, <1>5, <1>11, <2>1 DEF Continues
<1>13. Len(t \o v) = 3 /\ \A i \in 1..3 : (t \o v)[i] = IF i <= 2 THEN t[i] ELSE v[i - 2]
  <2>1. t \in Seq(Alphabet(peer)) /\ v \in Seq(Alphabet(peer))
    BY <1>7, <1>9
  <2>2. /\ Len(t \o v) = Len(t) + Len(v)
        /\ \A i \in 1..Len(t) + Len(v) : (t \o v)[i] = IF i <= Len(t) THEN t[i] ELSE v[i - Len(t)]
    BY <2>1, ConcatProperties
  <2>3. Len(t) = 2 /\ Len(v) = 1 /\ 2 + 1 = 3
    BY <1>7, <1>9
  <2> QED BY <2>2, <2>3
<1>14. Continues(e, t \o v, KeyLen + g)
  <2>1. (t \o v)[1] = t[1] /\ (t \o v)[2] = t[2] /\ (t \o v)[3] = v[1]
    BY <1>13
  <2>2. \A i \in 1..3 : i = 1 \/ i = 2 \/ i = 3
    OBVIOUS
  <2> QED BY <1>1, <1>5, <1>7, <1>9, <1>13, <2>1, <2>2 DEF Continues
<1>18. /\ Len(KeyAndGarbage(e, g)) = KeyLen + g
       /\ \A i \in 1..KeyLen : KeyAndGarbage(e, g)[i] = Byte("key", i)
       /\ \A i \in 1..g : KeyAndGarbage(e, g)[KeyLen + i] = Byte("garbage", 0)
  BY WritesTyped
<1>15. PICK k : /\ k = KeyAndGarbage(e, g) /\ Len(k) = KeyLen + g
                /\ \A i \in 1..KeyLen : k[i] = Byte("key", i)
                /\ \A i \in 1..g : k[KeyLen + i] = Byte("garbage", 0)
  BY <1>18
<1>16. ASSUME NEW i \in 1..KeyLen + g
       PROVE  k[i] = Sent(peer, e, g, 0 + i)
  <2>1. CASE i <= KeyLen
    <3>1. i \in 1..KeyLen /\ 0 + i = i
      BY <1>2, <2>1
    <3> QED BY <1>3, <1>15, <3>1
  <2>2. CASE ~(i <= KeyLen)
    <3>1. PICK j \in 1..g : i = KeyLen + j
      <4>1. i - KeyLen \in 1..g /\ i = KeyLen + (i - KeyLen)
        BY <1>2, <2>2
      <4> QED BY <4>1
    <3>2. j \in 1..g + 1 /\ 0 + i = KeyLen + j
      BY <1>2, <3>1
    <3> QED BY <1>4, <1>15, <3>1, <3>2
  <2> QED BY <2>1, <2>2
<1>17. Continues(e, k, 0)
  BY <1>1, <1>15, <1>16 DEF Continues
<1> QED BY <1>1, <1>6, <1>7, <1>8, <1>9, <1>10, <1>11, <1>12, <1>13, <1>14, <1>15, <1>17

\* The version packet of the other end opens.
LEMMA VersionOpens ==
    ASSUME HandshakeTypes, ClientInv, peer = "client", NEW e \in Ends, Has(e, "version")
    PROVE  Opens(e) /\ skipped[e] = garbage[Other(e)]
<1>1. PICK o \in Ends : o = Other(e)
  BY TwoEnds
<1>2. PICK g \in Nat : g = garbage[o]
  BY DEF HandshakeTypes
<1>3. PICK r \in Seq(Alphabet(peer)) : r = got[e]
  BY DEF HandshakeTypes, Over
<1>4. at[e] = "version" /\ Reads(e) /\ skipped[e] = g
  BY <1>1, <1>2, CountingReads DEF Has, ClientInv
<1>5. Len(r) = 1 /\ Continues(o, r, KeyLen + g + 2)
  BY <1>1, <1>2, <1>3, <1>4, ReadComplete DEF Reads, ReadOf, Consumed
<1>6. KeyLen \in Nat
  BY HandshakeAssumption
<1>7. Sent(peer, o, g, KeyLen + g + 2 + 1) = Byte("version", g)
  BY <1>6 DEF Sent
<1>8. r[1] = Byte("version", g)
  BY <1>2, <1>5, <1>7 DEF Continues
<1>9. r = <<Byte("version", g)>>
  BY <1>5, <1>8
<1> QED BY <1>1, <1>2, <1>3, <1>4, <1>9 DEF Opens

\* A client's handshake function does not fail.
LEMMA ClientNeverFails ==
    ASSUME HandshakeTypes, ClientInv, peer = "client", NEW e \in Ends
    PROVE  ~HandshakeFails(e)
<1>1. ASSUME Has(e, "skip") PROVE Found(e)
  <2>1. Reads(e)
    BY <1>1, CountingReads DEF Has
  <2> QED BY <1>1, <2>1, ReadComplete
<1> QED BY <1>1, VersionOpens DEF HandshakeFails, Fails

\* An end whose read is complete goes on.
LEMMA ClientGoes ==
    ASSUME HandshakeTypes, ClientInv, peer = "client", NEW e \in Ends,
           NEW t \in {"prefix", "key", "skip", "version", "marker"}, Has(e, t),
           NEW s \in ClientSteps,
           NEW bytes, Go(e, s, bytes), peer' = peer, garbage' = garbage, wire' = wire,
           NEW g \in Nat, g = garbage[e], NEW h \in Nat, h = garbage[Other(e)],
           Consumed(e, s, h) = Consumed(e, t, h) + ReadOf(e, t, h),
           Len(bytes) \in Nat,
           Written(e, s, g) = Written(e, t, g) + Len(bytes),
           Continues(e, bytes, Written(e, t, g))
    PROVE  Bytes'
<1>1. at[e] = t /\ at[e] # "left" /\ at[e] # "probe"
  BY DEF Has
<1>2. Reads(e) /\ Counting(e)
  BY <1>1, CountingReads
<1>3. out[e] = <<>> /\ Len(got[e]) = ReadOf(e, at[e], garbage[Other(e)])
  BY <1>1, <1>2, ReadComplete
<1> QED BY <1>1, <1>2, <1>3, ClientMoves

LEMMA InitiatorReadsKeyStays ==
    ASSUME HandshakeTypes, ClientInv, peer = "client", InitiatorReadsKey
    PROVE  ClientInv'
<1>1. /\ Has(Initiator, "key") /\ Go(Initiator, "skip", SendTerminator(Initiator))
      /\ peer' = peer /\ garbage' = garbage /\ wire' = wire /\ skipped' = skipped /\ gone' = gone
  BY DEF InitiatorReadsKey
<1>2. PICK g \in Nat, h \in Nat : g = garbage[Initiator] /\ h = garbage[Other(Initiator)]
  BY TwoEnds DEF HandshakeTypes
<1>3. PICK bytes : bytes = SendTerminator(Initiator)
  OBVIOUS
<1>4. Len(bytes) = 2 /\ Continues(Initiator, bytes, KeyLen + g)
  BY <1>2, <1>3, TwoEnds, WritesTyped, Stretches
<1>5. KeyLen \in Nat
  BY HandshakeAssumption
<1>6. /\ Consumed(Initiator, "skip", h) =
            Consumed(Initiator, "key", h) + ReadOf(Initiator, "key", h)
      /\ Written(Initiator, "skip", g) = Written(Initiator, "key", g) + 2
      /\ Written(Initiator, "key", g) = KeyLen + g
  BY <1>5 DEF Consumed, ReadOf, Written
<1>7. Bytes'
  <2>1. /\ Written(Initiator, "skip", g) = Written(Initiator, "key", g) + Len(bytes)
        /\ Continues(Initiator, bytes, Written(Initiator, "key", g)) /\ Len(bytes) \in Nat
    BY <1>4, <1>6
  <2>2. Initiator \in Ends /\ "skip" \in ClientSteps
    BY TwoEnds DEF Steps, ClientSteps
  <2> QED BY <1>1, <1>2, <1>3, <1>6, <2>1, <2>2, ClientGoes
<1>8. at'[Initiator] = "skip" /\ at'[Responder] = at[Responder]
  BY <1>1, TwoEnds DEF Go, HandshakeTypes
<1>9. at[Initiator] = "key"
  BY <1>1 DEF Has
<1>10. Places'
  BY <1>1, <1>8, <1>9, TwoEnds DEF ClientInv, Places, Ends
<1> QED BY <1>1, <1>7, <1>10 DEF ClientInv, Places, Bytes

LEMMA ResponderSeesKeyStays ==
    ASSUME HandshakeTypes, ClientInv, peer = "client", ResponderSeesKey
    PROVE  ClientInv'
<1>1. /\ Has(Responder, "prefix") /\ Go(Responder, "key", <<>>)
      /\ peer' = peer /\ garbage' = garbage /\ wire' = wire /\ skipped' = skipped /\ gone' = gone
  BY DEF ResponderSeesKey
<1>2. PICK g \in Nat, h \in Nat : g = garbage[Responder] /\ h = garbage[Other(Responder)]
  BY TwoEnds DEF HandshakeTypes
<1>3. PICK bytes : bytes = <<>>
  OBVIOUS
<1>4. Len(bytes) = 0 /\ \A k : Continues(Responder, bytes, k)
  BY <1>3 DEF Continues
<1>5. PrefixLen \in Nat /\ 0 + 0 = 0 /\ 0 + PrefixLen = PrefixLen
  BY HandshakeAssumption
<1>6. /\ Consumed(Responder, "key", h) =
            Consumed(Responder, "prefix", h) + ReadOf(Responder, "prefix", h)
      /\ Written(Responder, "key", g) = Written(Responder, "prefix", g) + 0
  BY <1>5, TwoEnds DEF Consumed, ReadOf, Written
<1>7. Bytes'
  BY <1>1, <1>2, <1>3, <1>4, <1>6, ClientGoes, TwoEnds DEF Steps, ClientSteps
<1>8. at'[Responder] = "key" /\ at'[Initiator] = at[Initiator]
  BY <1>1, TwoEnds DEF Go, HandshakeTypes
<1>9. Places'
  BY <1>1, <1>8, TwoEnds DEF ClientInv, Places, Ends
<1> QED BY <1>1, <1>7, <1>9 DEF ClientInv, Places, Bytes

LEMMA ResponderReadsKeyStays ==
    ASSUME HandshakeTypes, ClientInv, peer = "client", ResponderReadsKey
    PROVE  ClientInv'
<1>1. /\ Has(Responder, "key")
      /\ Go(Responder, "skip", KeyAndGarbage(Responder, garbage[Responder]))
      /\ peer' = peer /\ garbage' = garbage /\ wire' = wire /\ skipped' = skipped /\ gone' = gone
  BY DEF ResponderReadsKey
<1>2. PICK g \in Nat, h \in Nat : g = garbage[Responder] /\ h = garbage[Other(Responder)]
  BY TwoEnds DEF HandshakeTypes
<1>3. PICK bytes : bytes = KeyAndGarbage(Responder, g)
  OBVIOUS
<1>4. Len(bytes) = KeyLen + g /\ Continues(Responder, bytes, 0)
  BY <1>2, <1>3, TwoEnds, WritesTyped, Stretches, ZenonT(30)
<1>5. PrefixLen \in Nat /\ KeyLen \in Nat /\ PrefixLen + (KeyLen - PrefixLen) = KeyLen
  BY HandshakeAssumption
<1>6. /\ Consumed(Responder, "skip", h) =
            Consumed(Responder, "key", h) + ReadOf(Responder, "key", h)
      /\ Written(Responder, "skip", g) = Written(Responder, "key", g) + (KeyLen + g)
      /\ Written(Responder, "key", g) = 0
  BY <1>5, TwoEnds DEF Consumed, ReadOf, Written
<1>7. Bytes'
  BY <1>1, <1>2, <1>3, <1>4, <1>5, <1>6, ClientGoes, TwoEnds DEF Steps, ClientSteps
<1>8. at'[Responder] = "skip" /\ at'[Initiator] = at[Initiator]
  BY <1>1, TwoEnds DEF Go, HandshakeTypes
<1>9. Places'
  BY <1>1, <1>8, TwoEnds DEF ClientInv, Places, Ends
<1> QED BY <1>1, <1>7, <1>9 DEF ClientInv, Places, Bytes

LEMMA SkipGarbageStays ==
    ASSUME HandshakeTypes, ClientInv, peer = "client", NEW e \in Ends, SkipGarbage(e)
    PROVE  ClientInv'
<1>1. PICK bytes : bytes = IF e = Initiator THEN Version(e) ELSE SendTerminator(e) \o Version(e)
  OBVIOUS
<1>2. /\ Has(e, "skip") /\ Found(e) /\ Go(e, "version", bytes)
      /\ skipped' = [skipped EXCEPT ![e] = Len(got[e]) - TermLen]
      /\ peer' = peer /\ garbage' = garbage /\ wire' = wire /\ gone' = gone
  BY <1>1 DEF SkipGarbage
<1>3. PICK g \in Nat, h \in Nat : g = garbage[e] /\ h = garbage[Other(e)]
  BY TwoEnds DEF HandshakeTypes
<1>4. at[e] = "skip" /\ Reads(e)
  BY <1>2, CountingReads DEF Has
<1>5. Len(got[e]) - TermLen = h
  <2>1. Len(got[e]) = h + 2
    BY <1>2, <1>3, <1>4, FoundAtTerminator
  <2> QED BY <2>1 DEF TermLen
<1>6. PICK n \in Nat : n = IF e = Initiator THEN 1 ELSE 3
  OBVIOUS
<1>7. KeyLen \in Nat
  BY HandshakeAssumption
<1>8. /\ Consumed(e, "version", h) = Consumed(e, "skip", h) + ReadOf(e, "skip", h)
      /\ Written(e, "version", g) = Written(e, "skip", g) + n
  BY <1>6, <1>7 DEF Consumed, ReadOf, Written
<1>9. Len(bytes) = n /\ Continues(e, bytes, Written(e, "skip", g))
  BY <1>1, <1>3, <1>6, Stretches DEF Written
<1>10. Bytes'
  BY <1>2, <1>3, <1>6, <1>8, <1>9, ClientGoes DEF Steps, ClientSteps
<1>11. /\ at' = [at EXCEPT ![e] = "version"] /\ at'[e] = "version"
       /\ \A x \in Ends : x # e => at'[x] = at[x] /\ skipped'[x] = skipped[x]
       /\ skipped'[e] = h
  BY <1>2, <1>5 DEF Go, HandshakeTypes
<1>12. \A x \in Ends : x = Initiator \/ x = Responder
  BY DEF Ends
<1>13. Places'
  BY <1>2, <1>3, <1>4, <1>11, <1>12, TwoEnds DEF ClientInv, Places
<1> QED BY <1>2, <1>10, <1>13 DEF ClientInv, Places, Bytes

LEMMA ReadVersionStays ==
    ASSUME HandshakeTypes, ClientInv, peer = "client", NEW e \in Ends, ReadVersion(e)
    PROVE  ClientInv'
<1>1. PICK s \in {"idle", "marker"} : s = IF e = Initiator THEN "idle" ELSE "marker"
  OBVIOUS
<1>2. /\ Has(e, "version") /\ Go(e, s, <<>>)
      /\ peer' = peer /\ garbage' = garbage /\ wire' = wire /\ skipped' = skipped /\ gone' = gone
  BY <1>1 DEF ReadVersion
<1>3. PICK g \in Nat, h \in Nat : g = garbage[e] /\ h = garbage[Other(e)]
  BY TwoEnds DEF HandshakeTypes
<1>4. skipped[e] = h /\ at[e] = "version"
  BY <1>2, <1>3, VersionOpens DEF Has
<1>5. PICK bytes : bytes = <<>>
  OBVIOUS
<1>6. Len(bytes) = 0 /\ \A k : Continues(e, bytes, k)
  BY <1>5 DEF Continues
<1>7. KeyLen \in Nat
  BY HandshakeAssumption
<1>8. /\ Consumed(e, s, h) = Consumed(e, "version", h) + ReadOf(e, "version", h)
      /\ Written(e, s, g) = Written(e, "version", g) + 0
  BY <1>7 DEF Consumed, ReadOf, Written
<1>9. Bytes'
  BY <1>2, <1>3, <1>5, <1>6, <1>8, ClientGoes DEF Steps, ClientSteps
<1>10. at'[e] = s /\ \A x \in Ends : x # e => at'[x] = at[x]
  BY <1>2 DEF Go, HandshakeTypes
<1>11. \A x \in Ends : x = Initiator \/ x = Responder
  BY DEF Ends
<1>12. Places'
  BY <1>1, <1>2, <1>3, <1>4, <1>10, <1>11, TwoEnds DEF ClientInv, Places
<1> QED BY <1>2, <1>9, <1>12 DEF ClientInv, Places, Bytes

LEMMA SpeakStays ==
    ASSUME HandshakeTypes, ClientInv, peer = "client", NEW kind, Speak(kind)
    PROVE  ClientInv'
<1>1. kind = "marker"
  BY DEF Speak
<1>2. PICK bytes : bytes = <<Byte("marker", 0)>>
  OBVIOUS
<1>3. /\ at[Initiator] = "idle" /\ out[Initiator] = <<>> /\ Go(Initiator, "active", bytes)
      /\ peer' = peer /\ garbage' = garbage /\ wire' = wire /\ skipped' = skipped /\ gone' = gone
  BY <1>1, <1>2 DEF Speak
<1>4. PICK g \in Nat, h \in Nat : g = garbage[Initiator] /\ h = garbage[Other(Initiator)]
  BY TwoEnds DEF HandshakeTypes
<1>5. Len(bytes) = 1 /\ Continues(Initiator, bytes, KeyLen + g + 3)
  BY <1>2, <1>4, TwoEnds, Stretches
<1>6. KeyLen \in Nat
  BY HandshakeAssumption
<1>7. /\ ReadOf(Initiator, "idle", h) = 0
      /\ Consumed(Initiator, "active", h) = Consumed(Initiator, "idle", h) + 0
      /\ Written(Initiator, "active", g) = Written(Initiator, "idle", g) + 1
      /\ Written(Initiator, "idle", g) = KeyLen + g + 3
  BY <1>4, <1>6 DEF Consumed, ReadOf, Written
<1>8. Reads(Initiator) /\ Counting(Initiator)
  BY <1>3, CountingReads, TwoEnds
<1>9. Len(got[Initiator]) = 0
  <2>1. Len(got[Initiator]) \in Nat
    BY TwoEnds DEF HandshakeTypes, Over
  <2>2. Len(got[Initiator]) <= 0
    BY <1>3, <1>4, <1>7, <1>8 DEF Reads
  <2> QED BY <2>1, <2>2
<1>10. Bytes'
  <2>1. /\ Written(Initiator, "active", g) = Written(Initiator, "idle", g) + Len(bytes)
        /\ Continues(Initiator, bytes, Written(Initiator, "idle", g)) /\ Len(bytes) \in Nat
    BY <1>5, <1>7
  <2>2. Initiator \in Ends /\ "active" \in ClientSteps
    BY TwoEnds DEF Steps, ClientSteps
  <2> QED BY <1>3, <1>4, <1>7, <1>8, <1>9, <2>1, <2>2, ClientMoves
<1>11. at'[Initiator] = "active" /\ at'[Responder] = at[Responder]
  BY <1>3, TwoEnds DEF Go, HandshakeTypes
<1>12. Places'
  BY <1>3, <1>11, TwoEnds DEF ClientInv, Places, Ends
<1> QED BY <1>3, <1>10, <1>12 DEF ClientInv, Places, Bytes

LEMMA ReadMarkerStays ==
    ASSUME HandshakeTypes, ClientInv, peer = "client", ReadMarker
    PROVE  ClientInv'
<1>1. /\ Has(Responder, "marker")
      /\ peer' = peer /\ garbage' = garbage /\ wire' = wire /\ skipped' = skipped /\ gone' = gone
  BY DEF ReadMarker
<1>2. PICK g \in Nat, h \in Nat : g = garbage[Responder] /\ h = garbage[Initiator]
  BY TwoEnds DEF HandshakeTypes
<1>3. at[Responder] = "marker" /\ Reads(Responder)
  BY <1>1, CountingReads, TwoEnds DEF Has
<1>4. KeyLen \in Nat
  BY HandshakeAssumption
<1>5. got[Responder][1].kind = "marker"
  <2>1. Len(got[Responder]) = 1 /\ Continues(Initiator, got[Responder], KeyLen + h + 3)
    BY <1>1, <1>2, <1>3, ReadComplete, TwoEnds DEF Reads, ReadOf, Consumed
  <2>2. got[Responder][1] = Sent(peer, Initiator, h, KeyLen + h + 3 + 1)
    BY <1>2, <2>1 DEF Continues
  <2>3. Sent(peer, Initiator, h, KeyLen + h + 3 + 1) = Byte("marker", 0)
    BY <1>4 DEF Sent
  <2> QED BY <2>2, <2>3 DEF Byte
<1>6. Go(Responder, "served", <<>>)
  BY <1>5 DEF ReadMarker
<1>7. PICK bytes : bytes = <<>>
  OBVIOUS
<1>8. Len(bytes) = 0 /\ \A k : Continues(Responder, bytes, k)
  BY <1>7 DEF Continues
<1>9. /\ Consumed(Responder, "served", h) =
            Consumed(Responder, "marker", h) + ReadOf(Responder, "marker", h)
      /\ Written(Responder, "served", g) = Written(Responder, "marker", g) + 0
  BY <1>4 DEF Consumed, ReadOf, Written
<1>10. Bytes'
  BY <1>1, <1>2, <1>6, <1>7, <1>8, <1>9, ClientGoes, TwoEnds DEF Steps, ClientSteps
<1>11. at'[Responder] = "served" /\ at'[Initiator] = at[Initiator]
  BY <1>6, TwoEnds DEF Go, HandshakeTypes
<1>12. Places'
  BY <1>1, <1>11, TwoEnds DEF ClientInv, Places, Ends
<1> QED BY <1>1, <1>10, <1>12 DEF ClientInv, Places, Bytes

LEMMA LeaveStays ==
    ASSUME HandshakeTypes, ClientInv, peer = "client", Leave
    PROVE  ClientInv'
<1>1. /\ at' = [at EXCEPT ![Initiator] = "left"] /\ out' = [out EXCEPT ![Initiator] = <<>>]
      /\ peer' = peer /\ garbage' = garbage /\ wire' = wire /\ got' = got /\ skipped' = skipped
      /\ gone'
  BY DEF Leave
<1>2. /\ at'[Initiator] = "left" /\ at'[Responder] = at[Responder]
      /\ out'[Initiator] = <<>> /\ Len(<<>>) = 0
  BY <1>1, TwoEnds DEF HandshakeTypes, Over
<1>3. ASSUME Reads(Responder) PROVE Reads(Responder)'
  <2>1. PICK k : k = Taken(Responder)
    OBVIOUS
  <2>2. Ahead(Initiator, k) => Ahead(Initiator, k)'
    BY <1>1, <1>2 DEF Ahead, Continues
  <2> QED BY <1>1, <1>2, <1>3, <2>1, <2>2, ReadsKept, TwoEnds
<1>4. Bytes'
  BY <1>2, <1>3 DEF ClientInv, Bytes
<1>5. Places'
  BY <1>1, <1>2, TwoEnds DEF ClientInv, Places, Ends
<1> QED BY <1>1, <1>4, <1>5 DEF ClientInv, Places, Bytes

LEMMA PeerLostStays ==
    ASSUME HandshakeTypes, ClientInv, peer = "client", PeerLost
    PROVE  ClientInv'
<1>1. /\ gone /\ Go(Responder, "probe", <<>>) /\ peer' = peer /\ garbage' = garbage
      /\ skipped' = skipped /\ gone' = gone
  BY DEF PeerLost
<1>2. at'[Responder] = "probe" /\ at'[Initiator] = at[Initiator] /\ at[Initiator] = "left"
  BY <1>1, TwoEnds DEF Go, HandshakeTypes, ClientInv
<1>3. Bytes'
  BY <1>2 DEF Bytes
<1>4. Places'
  BY <1>1, <1>2, TwoEnds DEF ClientInv, Places, Ends
<1> QED BY <1>1, <1>3, <1>4 DEF ClientInv, Places, Bytes

LEMMA ClientStays ==
    ASSUME HandshakeTypes, SpliceInv, ClientInv, [Next]_vars
    PROVE  ClientInv'
<1>1. peer' = peer
  BY NextKeeps
<1>2. CASE peer # "client"
  BY <1>1, <1>2 DEF ClientInv
<1>3. CASE peer = "client"
  <2>1. CASE UNCHANGED vars
    BY <2>1 DEF vars, ClientInv, Reads, Writes, Taken, Ahead, Continues
  <2>2. ASSUME NEW e \in Ends, Step(e)
        PROVE  ClientInv'
    BY <1>3, <2>2, ClientPuts, ClientTakes, SkipGarbageStays, ReadVersionStays, ClientNeverFails
       DEF Step
  <2>3. ~ResponderSeesV1
    <3>1. ASSUME ResponderSeesV1 PROVE FALSE
      <4>1. at'[Responder] = "splice"
        BY <3>1, TwoEnds DEF ResponderSeesV1, HandshakeTypes
      <4>2. Next
        BY <3>1 DEF Next, Respond
      <4> QED BY <1>1, <1>3, <4>1, <4>2, OthersStay DEF SpliceInv
    <3> QED BY <3>1
  <2>4. ~SpliceStarts /\ ~SpliceDropped /\ ~SplicePumps
    BY <1>3 DEF SpliceStarts, SpliceDropped, SplicePumps, SpliceInv
  <2>5. ASSUME Respond PROVE ClientInv'
    BY <1>3, <2>3, <2>4, <2>5, ResponderSeesKeyStays, ResponderReadsKeyStays, ReadMarkerStays,
       PeerLostStays DEF Respond
  <2> QED BY <1>3, <2>1, <2>2, <2>5, InitiatorReadsKeyStays, SpeakStays, LeaveStays DEF Next
<1> QED BY <1>2, <1>3

LEMMA InitClient == Init => ClientInv
<1> SUFFICES ASSUME Init, peer = "client" PROVE ClientInv
  BY DEF ClientInv
<1>1. HandshakeTypes
  BY InitTyped
<1>2. /\ at[Initiator] = "key" /\ at[Responder] = "prefix" /\ gone = FALSE
      /\ \A e \in Ends : wire[e] = <<>> /\ got[e] = <<>>
  BY TwoEnds DEF Init
<1>3. PICK g \in Nat, r \in Nat : g = garbage[Initiator] /\ r = garbage[Responder]
  BY <1>1, TwoEnds DEF HandshakeTypes
<1>4. out[Initiator] = KeyAndGarbage(Initiator, g) /\ out[Responder] = <<>>
  <2>1. PICK i, j : /\ garbage = [e \in Ends |-> IF e = Initiator THEN i ELSE j]
                    /\ out = [e \in Ends |-> IF e = Initiator THEN Opening(peer, i) ELSE <<>>]
    BY DEF Init
  <2>2. i = g
    BY <1>3, <2>1, TwoEnds
  <2> QED BY <2>1, <2>2, TwoEnds DEF Opening
<1>5. Len(out[Initiator]) = KeyLen + g /\ Continues(Initiator, out[Initiator], 0)
  <2>1. Initiator \in Ends
    BY TwoEnds
  <2>2. Len(KeyAndGarbage(Initiator, g)) = KeyLen + g
    BY <2>1, WritesTyped
  <2>3. Continues(Initiator, KeyAndGarbage(Initiator, g), 0)
    BY <1>1, <1>3, <2>1, Stretches
  <2> QED BY <1>4, <2>2, <2>3
<1>6. /\ Len(<<>>) = 0 /\ 0 + 0 = 0 /\ 1..0 = {} /\ \A e, k : Continues(e, <<>>, k)
      /\ PrefixLen \in Nat /\ KeyLen \in Nat /\ 0 <= PrefixLen /\ 0 <= KeyLen
  BY HandshakeAssumption DEF Continues
<1>7. /\ Consumed(Initiator, "key", r) = 0 /\ Consumed(Responder, "prefix", g) = 0
      /\ ReadOf(Initiator, "key", r) = KeyLen /\ ReadOf(Responder, "prefix", g) = PrefixLen
      /\ Written(Initiator, "key", g) = KeyLen + g /\ Written(Responder, "prefix", r) = 0
  BY DEF Consumed, ReadOf, Written
<1>8. Taken(Initiator) = 0 /\ Taken(Responder) = 0
  BY <1>2, <1>3, <1>6, <1>7, TwoEnds DEF Taken
<1>9. Reads(Initiator) /\ Reads(Responder)
  BY <1>2, <1>3, <1>4, <1>5, <1>6, <1>7, <1>8, TwoEnds DEF Reads, Ahead
<1>10. Writes(Initiator) /\ Writes(Responder)
  <2>1. 0 + 0 + (KeyLen + g) = KeyLen + g /\ 0 + 0 + 0 = 0
    BY <1>6
  <2> QED BY <1>2, <1>3, <1>4, <1>5, <1>6, <1>7, <1>8, <2>1, TwoEnds DEF Writes
<1> QED BY <1>2, <1>9, <1>10 DEF ClientInv, Ends

(* A client of this code that stays is never refused and never taken for a *)
(* probe, whatever garbage both sides send and wherever TCP splits it.     *)
THEOREM ClientsAreRecognised == Spec => []ClientIsRecognised
<1>1. ClientInv => ClientIsRecognised
  BY DEF ClientInv, ClientIsRecognised
<1> QED
  BY <1>1, InitTyped, NextTyped, InitSplice, SpliceStays, InitClient, ClientStays, PTL DEF Spec
=============================================================================
