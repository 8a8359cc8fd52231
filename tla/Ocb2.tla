-------------------------------- MODULE Ocb2 --------------------------------
(***************************************************************************)
(* The nonce window of the OCB2-AES128 crypt state                         *)
(* (mumble-protocol/src/transport/ocb2.rs) as pure operators.              *)
(*                                                                         *)
(* A 16-byte little-endian IV is a record: lo is its first byte, hi the    *)
(* fifteen bytes above it read as one number.  The byte modulus, the       *)
(* out-of-order window and the number of values of hi (256, 30 and         *)
(* 256^15 in the code) are constants so that small instances can be        *)
(* checked.  The block cipher is external: the truncated tag of a packet   *)
(* verifies exactly when the receiver decrypts it under the nonce it was   *)
(* encrypted with.                                                         *)
(***************************************************************************)
EXTENDS Integers

CONSTANTS B,      \* values of one byte (256)
          W,      \* out-of-order window (30)
          HiMod   \* values of the bytes above the first one (256^15)

ASSUME OcbAssumption ==
    /\ B \in Nat \ {0} /\ W \in Nat \ {0} /\ HiMod \in Nat \ {0}
    /\ 2 * W <= B

\* The upper bytes are whole bytes.
ASSUME WholeBytes == HiMod % B = 0

Byte == 0 .. B - 1

Nonce == [hi : 0 .. HiMod - 1, lo : Byte]

\* decrypt_iv[1], the byte that the replay history remembers.
Iv1(n) == n.hi % B

\* carry_iv_bytes: one more in the bytes above the first, wrapping.
Carry(n) == [hi |-> IF n.hi + 1 = HiMod THEN 0 ELSE n.hi + 1, lo |-> 0]

\* The increment at the top of encrypt.
Succ(n) == IF n.lo + 1 = B THEN Carry(n) ELSE [n EXCEPT !.lo = n.lo + 1]

\* Every slot of the history of a fresh state holds !server_nonce[1].
Complement(b) == B - 1 - b

\* Ocb2CryptState, decrypt side, and its PacketStats.
CryptState == [iv : Nonce, hist : [Byte -> Byte]]
PacketStats == [good : Nat, late : Nat, lost : Nat]

SetKey(serverNonce) ==
    [iv   |-> serverNonce,
     hist |-> [b \in Byte |-> Complement(Iv1(serverNonce))]]
NoPackets == [good |-> 0, late |-> 0, lost |-> 0]

\* Mutant: the resync answer is ignored.
SetDecryptIvIgnored(c, serverNonce) == c

\* set_decrypt_iv leaves the history alone.
SetDecryptIv(c, serverNonce) == [c EXCEPT !.iv = serverNonce]

-----------------------------------------------------------------------------
\* The signed distance between the packet's byte and the expected one.
Diff(iv, byte) ==
    LET d == byte - iv.lo IN
    CASE 2 * d > B  -> d - B
      [] 2 * d < -B -> d + B
      [] OTHER      -> d

InSequence(iv, byte) == byte = Succ(iv).lo
Late(iv, byte) ==
    /\ ~ InSequence(iv, byte)
    /\ byte < iv.lo /\ Diff(iv, byte) > -W /\ Diff(iv, byte) < 0
Skipped(iv, byte) ==
    /\ ~ InSequence(iv, byte)
    /\ byte > iv.lo /\ Diff(iv, byte) > 0 /\ Diff(iv, byte) < W
InRange(iv, byte) ==
    InSequence(iv, byte) \/ Late(iv, byte) \/ Skipped(iv, byte)

\* The nonce decrypt rebuilds from the packet's one byte.
Rebuilt(iv, byte) == IF InSequence(iv, byte) THEN Succ(iv)
                                             ELSE [iv EXCEPT !.lo = byte]

\* Mutant: no replay check.
ReplayedNever(c, byte) == FALSE

\* Replay detection: the slot of the byte holds iv[1] already.
Replayed(c, byte) == c.hist[byte] = Iv1(Rebuilt(c.iv, byte))

\* Mutant: the tag is not verified.
VerdictNoTag(c, p) ==
    CASE ~ InRange(c.iv, p.lo)      -> "range"
      [] Replayed(c, p.lo)          -> "replay"
      [] OTHER                      -> "ok"

\* What decrypt makes of the packet encrypted under nonce p.
Verdict(c, p) ==
    CASE ~ InRange(c.iv, p.lo)      -> "range"
      [] Replayed(c, p.lo)          -> "replay"
      [] Rebuilt(c.iv, p.lo) # p    -> "auth"
      [] OTHER                      -> "ok"

\* Mutant: the history is not updated.
AcceptedForgetful(c, p) ==
    [c EXCEPT !.iv = IF Late(c.iv, p.lo) THEN c.iv ELSE Rebuilt(c.iv, p.lo)]

\* The state after a successful decrypt; every error restores the old one.
Accepted(c, p) ==
    [iv   |-> IF Late(c.iv, p.lo) THEN c.iv ELSE Rebuilt(c.iv, p.lo),
     hist |-> [c.hist EXCEPT ![p.lo] = Iv1(p)]]

Decrypt(c, p) == IF Verdict(c, p) = "ok" THEN Accepted(c, p) ELSE c

Gap(c, p) == IF Skipped(c.iv, p.lo) THEN p.lo - c.iv.lo - 1 ELSE 0

\* stats.late after a packet: the last branch takes from it what a late
\* packet (lost = -1) has just added, unless nothing would remain.
LateAfter(st, c, p) ==
    IF Late(c.iv, p.lo)
    THEN IF st.late + 1 > 1 THEN st.late ELSE st.late + 1
    ELSE st.late

\* The counters after a successful decrypt in state c.
Count(st, c, p) == [good |-> st.good + 1,
                    late |-> LateAfter(st, c, p),
                    lost |-> st.lost + Gap(c, p)]
=============================================================================
