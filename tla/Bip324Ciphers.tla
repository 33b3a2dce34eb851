---------------------------- MODULE Bip324Ciphers ---------------------------
(***************************************************************************)
(* The ciphers of one direction of a BIP 324 stream                        *)
(* (ark-core/src/bip324/cipher.rs): FsChaCha20 for the length fields and   *)
(* FsChaCha20Poly1305 for the packets, at the sender and at the receiver.  *)
(* Bip324Stream takes from here that packets open exactly when the         *)
(* counters agree.                                                         *)
(*                                                                         *)
(* A keystream byte is named by what determines it: the key, the nonce and *)
(* its position in the ChaCha20 stream. A derived key is named by its      *)
(* generation and the first keystream byte it is made of.                  *)
(* A definition `XBug` is X with a slip a maintainer could make.            *)
(***************************************************************************)
EXTENDS Naturals, Sequences

CONSTANTS
    Interval,    \* REKEY_INTERVAL
    LenBytes,    \* LENGTH_FIELD_LEN
    KeyBytes,    \* bytes of a ChaCha20 key
    BlockBytes,  \* bytes of a ChaCha20 block
    MaxPackets,  \* bound on the packets sealed
    Window       \* bound on the packets sealed and not yet opened

ASSUME CipherAssumption ==
    /\ Interval \in Nat \ {0}
    /\ LenBytes \in Nat \ {0}
    /\ KeyBytes \in Nat \ {0}
    /\ BlockBytes \in Nat \ {0}
    /\ MaxPackets \in Nat \ {0}
    /\ Window \in Nat \ {0}
    \* The bytes between two rekeyings, the new key's with them, are whole
    \* blocks (224 * 3 + 32 = 11 * 64): a new key starts with an empty buffer.
    /\ (Interval * LenBytes + KeyBytes) % BlockBytes = 0

VARIABLES
    sendL,       \* the sender's FsChaCha20
    sendP,       \* the sender's FsChaCha20Poly1305
    recvL,       \* the receiver's FsChaCha20
    recvP,       \* the receiver's FsChaCha20Poly1305
    sealed,      \* packets sealed and not yet opened, oldest first
    phase,       \* what the receiver decrypts next: "length" or "body"
    garbled,     \* whether a length or a packet has been decrypted wrongly
    lastByte,    \* the last keystream byte the sender has used
    lastNonce    \* the key and nonce of the last packet it sealed

cipherVars == <<sendL, sendP, recvL, recvP, sealed, phase, garbled, lastByte, lastNonce>>

-----------------------------------------------------------------------------
(* FsChaCha20 *)

NewL == [key |-> <<0, 0>>, chunk_counter |-> 0, block_counter |-> 0, keystream |-> <<>>]

\* fill_keystream: whole blocks are appended until nbytes bytes are there.
Filled(c, nbytes) ==
    LET have == Len(c.keystream)
        blocks == IF have >= nbytes THEN 0
                  ELSE (nbytes - have + BlockBytes - 1) \div BlockBytes
        fresh == [i \in 1..blocks * BlockBytes |->
                     [key |-> c.key, nonce |-> c.chunk_counter \div Interval,
                      pos |-> c.block_counter * BlockBytes + i - 1]]
    IN [c EXCEPT !.block_counter = @ + blocks, !.keystream = @ \o fresh]

\* get_keystream_bytes: the bytes, and the cipher without them.
Got(c, nbytes) == SubSeq(Filled(c, nbytes).keystream, 1, nbytes)
DrainedBug(c, nbytes) == Filled(c, nbytes)    \* [..n].to_vec() for drain(..n)
Drained(c, nbytes) ==
    [Filled(c, nbytes) EXCEPT !.keystream = SubSeq(@, nbytes + 1, Len(@))]

\* The rekeying of crypt: the next KeyBytes of the keystream are the new key.
\* The keystream buffer is kept.
Rekeyed(c) ==
    [Drained(c, KeyBytes) EXCEPT
        !.key = <<c.key[1] + 1, Got(c, KeyBytes)[1].pos>>, !.block_counter = 0]

\* crypt of a length field: the cipher after it.
Crypted(c) ==
    LET used == Drained(c, LenBytes)
        kept == IF (c.chunk_counter + 1) % Interval = 0 THEN Rekeyed(used) ELSE used
    IN [kept EXCEPT !.chunk_counter = @ + 1]

-----------------------------------------------------------------------------
(* FsChaCha20Poly1305 *)

NewP == [key |-> 0, packet_counter |-> 0]

\* The key and the nonce of the next packet: build_nonce.
NonceOf(a) ==
    [key |-> a.key, counter |-> a.packet_counter % Interval,
     rekeyings |-> a.packet_counter \div Interval]

\* maybe_rekey returns before it counts the packet.
AdvancedBug(a) ==
    IF (a.packet_counter + 1) % Interval = 0
    THEN [key |-> a.key + 1, packet_counter |-> a.packet_counter + 1]
    ELSE a

\* maybe_rekey
Advanced(a) ==
    [key |-> IF (a.packet_counter + 1) % Interval = 0 THEN a.key + 1 ELSE a.key,
     packet_counter |-> a.packet_counter + 1]

-----------------------------------------------------------------------------
CipherInit ==
    /\ sendL = NewL /\ recvL = NewL
    /\ sendP = NewP /\ recvP = NewP
    /\ sealed = <<>> /\ phase = "length" /\ garbled = FALSE
    /\ lastByte = <<>> /\ lastNonce = <<>>

\* v2_enc_packet
Seal ==
    /\ sendP.packet_counter < MaxPackets
    /\ Len(sealed) < Window
    /\ LET len == Got(sendL, LenBytes) IN
       /\ sealed' = Append(sealed, [len |-> len, body |-> NonceOf(sendP)])
       /\ lastByte' = <<len[LenBytes]>>
    /\ lastNonce' = <<NonceOf(sendP)>>
    /\ sendP' = Advanced(sendP)
    /\ sendL' = Crypted(sendL)
    /\ UNCHANGED <<recvL, recvP, phase, garbled>>

\* The length is decrypted again after a poll that was dropped.
ReceiveLengthBug ==
    /\ sealed # <<>>
    /\ phase = "length"
    /\ ~garbled
    /\ garbled' = (Got(recvL, LenBytes) # Head(sealed).len)
    /\ recvL' = Crypted(Crypted(recvL))
    /\ phase' = "body"
    /\ UNCHANGED <<sendL, sendP, recvP, sealed, lastByte, lastNonce>>

\* v2_receive_length
ReceiveLength ==
    /\ sealed # <<>>
    /\ phase = "length"
    /\ ~garbled
    /\ garbled' = (Got(recvL, LenBytes) # Head(sealed).len)
    /\ recvL' = Crypted(recvL)
    /\ phase' = "body"
    /\ UNCHANGED <<sendL, sendP, recvP, sealed, lastByte, lastNonce>>

\* v2_receive_contents: if authentication fails the cipher does not advance.
ReceiveContents ==
    /\ sealed # <<>>
    /\ phase = "body"
    /\ ~garbled
    /\ IF NonceOf(recvP) = Head(sealed).body
       THEN recvP' = Advanced(recvP) /\ sealed' = Tail(sealed) /\ phase' = "length"
                /\ UNCHANGED garbled
       ELSE garbled' = TRUE /\ UNCHANGED <<recvP, sealed, phase>>
    /\ UNCHANGED <<sendL, sendP, recvL, lastByte, lastNonce>>

CipherNext == Seal \/ ReceiveLength \/ ReceiveContents

CipherSpec == CipherInit /\ [][CipherNext]_cipherVars

-----------------------------------------------------------------------------
(* Properties *)

(* The receiver's two ciphers follow the sender's across every rekeying,   *)
(* although the length cipher rekeys before the packet it announces is     *)
(* opened, and the packet cipher after.                                    *)
NeverGarbled == ~garbled

Later(b, a) ==
    \/ b.key[1] > a.key[1]
    \/ b.key = a.key /\ b.nonce > a.nonce
    \/ b.key = a.key /\ b.nonce = a.nonce /\ b.pos > a.pos

(* No keystream byte encrypts two length fields, or a length field and a   *)
(* key: each is later in the stream of its key than the one before it.     *)
KeystreamUsedOnce ==
    [][Len(sealed') > Len(sealed) =>
        LET len == sealed'[Len(sealed')].len IN
        /\ lastByte # <<>> => Later(len[1], lastByte[1])
        /\ \A i \in 1..LenBytes - 1 : Later(len[i + 1], len[i])
        /\ sendL'.key # sendL.key => sendL'.key[2] > len[LenBytes].pos]_cipherVars

(* No packet is sealed under the key and nonce of an earlier one.          *)
NonceUsedOnce ==
    [][(Len(sealed') > Len(sealed) /\ lastNonce # <<>>) =>
        LET n == lastNonce'[1]
            o == lastNonce[1]
        IN \/ n.key > o.key
           \/ n.key = o.key /\ n.rekeyings > o.rekeyings
           \/ n.key = o.key /\ n.rekeyings = o.rekeyings /\ n.counter > o.counter]_cipherVars
=============================================================================
