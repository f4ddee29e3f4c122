-------------------------------- MODULE Auth --------------------------------
(***************************************************************************)
(* auth.h: HMAC-SHA256 written by hand, and hexadecimal text.              *)
(*                                                                         *)
(* A byte is a tuple that names what it was made from: a plain value, the  *)
(* xor of a byte with a pad, a byte of the length or of a digest.  The     *)
(* compression function only keeps the list of the blocks it was given, so *)
(* that two digests are equal if and only if their blocks are.             *)
(***************************************************************************)
EXTENDS Naturals, Sequences

\* A string without characters: no password, or no address.
Empty == ""

Block == 64
Byte(v) == <<"byte", v>>
Xor(b, pad) == <<"xor", b, pad>>
Fill(v, n) == [k \in 1..n |-> Byte(v)]
LengthBytes(count) == [k \in 1..8 |-> <<"length", 8 * count, k>>]

\* sha256_transform, once for each block, and the bytes of the state.
Transform(state, blocks) == state \o blocks
Digest(state) == [k \in 1..32 |-> <<"digest", state, k>>]

-----------------------------------------------------------------------------
\* Sha256Ctx: state, count and buf.
Sha256Init == [state |-> <<>>, count |-> 0, buf |-> Fill(0, Block)]

\* The whole blocks of data, from its start.
Blocks(data) == [n \in 1..Len(data) \div Block |-> SubSeq(data, (n-1) * Block + 1, n * Block)]
Rest(data) == SubSeq(data, (Len(data) \div Block) * Block + 1, Len(data))

\* memcpy into buf after its first used bytes.
Copy(buf, used, data) ==
    SubSeq(buf, 1, used) \o data \o SubSeq(buf, used + Len(data) + 1, Block)

Sha256Update(c, data) ==
    LET used == c.count % Block
        free == Block - used
        after == IF used = 0 THEN data ELSE SubSeq(data, free + 1, Len(data))
        full == IF used = 0 THEN <<>> ELSE <<Copy(c.buf, used, SubSeq(data, 1, free))>>
        buf == IF used = 0 THEN c.buf ELSE full[1]
    IN IF used # 0 /\ Len(data) < free
       THEN [c EXCEPT !.count = @ + Len(data), !.buf = Copy(c.buf, used, data)]
       ELSE [state |-> Transform(c.state, full \o Blocks(after)),
             count |-> c.count + Len(data),
             buf |-> Copy(buf, 0, Rest(after))]


\* No room for the length behind the byte 0x80.
TooLong(used) == used > Block - 8

Sha256Final(c) ==
    LET marked == Copy(c.buf, c.count % Block, <<Byte(128)>>)
        used == (c.count % Block) + 1
        full == Copy(marked, used, Fill(0, Block - used))
        last == IF TooLong(used) THEN Fill(0, Block - 8)
                ELSE Copy(marked, used, Fill(0, Block - 8 - used))
    IN Digest(Transform(c.state,
            (IF TooLong(used) THEN <<full>> ELSE <<>>)
                \o <<SubSeq(last, 1, Block - 8) \o LengthBytes(c.count)>>))

Sha256(data) == Sha256Final(Sha256Update(Sha256Init, data))

\* A key that is longer than a block is hashed first.
Kpad(key) ==
    IF Len(key) > Block THEN Sha256(key) \o Fill(0, Block - 32)
    ELSE key \o Fill(0, Block - Len(key))

XorPad(bytes, pad) == [k \in DOMAIN bytes |-> Xor(bytes[k], pad)]

HmacSha256(key, message) ==
    LET ipad == XorPad(Kpad(key), 54)
        opad == XorPad(Kpad(key), 92)
        inner == Sha256Final(Sha256Update(Sha256Update(Sha256Init, ipad), message))
    IN Sha256Final(Sha256Update(Sha256Update(Sha256Init, opad), inner))

\* A byte is two digits.
ToHex(bytes) ==
    [d \in 1..2 * Len(bytes) |-> [half |-> d % 2, of |-> bytes[(d + 1) \div 2]]]

\* Anything else than pairs of digits is rejected.
FromHex(digits) ==
    IF Len(digits) % 2 = 0 /\ \A d \in 1..Len(digits) :
          digits[d].half = d % 2 /\ (d % 2 = 0 => digits[d].of = digits[d-1].of)
    THEN [b \in 1..Len(digits) \div 2 |-> digits[2 * b].of]
    ELSE <<>>

-----------------------------------------------------------------------------
(***************************************************************************)
(* External: the functions as they are defined (FIPS 180-4, RFC 2104),     *)
(* which the phone has from javax.crypto.                                  *)
(***************************************************************************)
Padded(data) ==
    LET zeros == CHOOSE z \in 0..(Block-1) : (Len(data) + 1 + z + 8) % Block = 0
    IN data \o <<Byte(128)>> \o Fill(0, zeros) \o LengthBytes(Len(data))

JavaSha256(data) == Digest(Blocks(Padded(data)))

JavaHmac(key, message) ==
    LET k0 == IF Len(key) > Block THEN JavaSha256(key) ELSE key
        whole == [k \in 1..Block |-> IF k <= Len(k0) THEN k0[k] ELSE Byte(0)]
    IN JavaSha256(XorPad(whole, 92) \o JavaSha256(XorPad(whole, 54) \o message))
=============================================================================
