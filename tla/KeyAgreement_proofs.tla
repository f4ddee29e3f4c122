------------------------- MODULE KeyAgreement_proofs -------------------------
(***************************************************************************)
(* The two sides of the handshake for every set of passwords, lengths of   *)
(* them, addresses and number of requests: the HMAC that auth.h computes by *)
(* hand is the one of javax.crypto, a token is accepted if and only if both *)
(* sides have its password, the state has its types, and, with a user who  *)
(* lets one thing end before the next begins and discovery at any time,    *)
(* both sides of a stream that was not launched ahead of the request have  *)
(* the same key, and those of every stream the same password.              *)
(***************************************************************************)
EXTENDS CalmAgreement, TLAPS, SequenceTheorems

\* s is a sequence, of whatever elements.
IsSeq(s) == Len(s) \in Nat /\ s = [k \in 1..Len(s) |-> s[k]]

LEMMA IsSeqSeq ==
    ASSUME NEW s, IsSeq(s)
    PROVE  s \in Seq({s[k] : k \in 1..Len(s)})
BY DEF IsSeq

\* How the library's sequences are got at.
LEMMA FunctionIsSeq ==
    ASSUME NEW n \in Nat, NEW s, s = [k \in 1..n |-> s[k]]
    PROVE  IsSeq(s) /\ Len(s) = n
<1> DEFINE S == {s[k] : k \in 1..n}
<1>1. s \in [1..n -> S]
  OBVIOUS
<1>2. s \in Seq(S)
  BY <1>1
<1> QED BY <1>1, <1>2 DEF IsSeq

\* The elements of the sequences that Auth builds.
LEMMA ConcatIsSeq ==
    ASSUME NEW s, NEW t, IsSeq(s), IsSeq(t)
    PROVE  /\ IsSeq(s \o t) /\ Len(s \o t) = Len(s) + Len(t)
           /\ \A k \in 1..Len(s) : (s \o t)[k] = s[k]
           /\ \A k \in 1..Len(t) : (s \o t)[Len(s) + k] = t[k]
<1> DEFINE S == {s[k] : k \in 1..Len(s)} \cup {t[k] : k \in 1..Len(t)}
<1>1. s \in Seq(S) /\ t \in Seq(S)
  BY DEF IsSeq
<1>2. s \o t \in Seq(S)
  BY <1>1
<1> HIDE DEF S
<1>3. /\ Len(s \o t) = Len(s) + Len(t)
      /\ \A k \in 1..Len(s) : (s \o t)[k] = s[k]
      /\ \A k \in 1..Len(t) : (s \o t)[Len(s) + k] = t[k]
  BY <1>1, <1>2
<1>4. ASSUME NEW u \in Seq(S)
      PROVE  IsSeq(u)
  BY LenProperties DEF IsSeq
<1> QED BY <1>2, <1>3, <1>4

LEMMA SubSeqIsSeq ==
    ASSUME NEW s, IsSeq(s), NEW m \in 1..Len(s)+1, NEW n \in (m-1)..Len(s)
    PROVE  /\ IsSeq(SubSeq(s, m, n)) /\ Len(SubSeq(s, m, n)) = n - m + 1
           /\ \A k \in 1..(n - m + 1) : SubSeq(s, m, n)[k] = s[m + k - 1]
<1> DEFINE S == {s[k] : k \in 1..Len(s)}
<1>1. s \in Seq(S)
  BY IsSeqSeq
<1> HIDE DEF S
<1>2. /\ SubSeq(s, m, n) \in Seq(S)
      /\ Len(SubSeq(s, m, n)) = n - m + 1
      /\ \A k \in 1..(n - m + 1) : SubSeq(s, m, n)[k] = s[m + k - 1]
  BY <1>1, SubSeqProperties DEF IsSeq
<1>3. ASSUME NEW u \in Seq(S)
      PROVE  IsSeq(u)
  BY LenProperties DEF IsSeq
<1> QED BY <1>2, <1>3

LEMMA TupleIsSeq ==
    /\ IsSeq(<<>>) /\ Len(<<>>) = 0
    /\ \A b : IsSeq(<<b>>) /\ Len(<<b>>) = 1
BY DEF IsSeq

LEMMA FirstOfConcat ==
    ASSUME NEW s, NEW t, IsSeq(s), IsSeq(t), Len(s) > 0
    PROVE  IsSeq(s \o t) /\ Len(s \o t) > 0 /\ (s \o t)[1] = s[1]
<1>1. Len(s) \in Nat /\ Len(t) \in Nat /\ 1 \in 1..Len(s)
  BY DEF IsSeq
<1> QED BY <1>1, ConcatIsSeq

LEMMA EmptyConcat ==
    ASSUME NEW t, IsSeq(t)
    PROVE  <<>> \o t = t
<1> DEFINE S == {t[k] : k \in 1..Len(t)}
<1>1. t \in Seq(S)
  BY IsSeqSeq
<1> HIDE DEF S
<1> QED BY <1>1, ConcatEmptySeq

\* The blocks that a piece of data adds to the state, at a block's boundary.
LEMMA BlocksIsSeq ==
    ASSUME NEW data, IsSeq(data)
    PROVE  /\ IsSeq(Blocks(data)) /\ Len(Blocks(data)) = Len(data) \div Block
           /\ Len(data) >= Block => Blocks(data)[1][1] = data[1]
<1> DEFINE n == Len(data) \div Block
<1>1. Len(data) \in Nat /\ Block = 64
  BY DEF IsSeq, Block
<1>2. n \in Nat
  BY <1>1
<1>3. Blocks(data) = [k \in 1..n |-> SubSeq(data, (k-1) * Block + 1, k * Block)]
  BY DEF Blocks
<1>4. IsSeq(Blocks(data)) /\ Len(Blocks(data)) = n
  <2> HIDE DEF n
  <2>1. Blocks(data) = [k \in 1..n |-> Blocks(data)[k]]
    BY <1>3
  <2> QED BY <1>2, <2>1, FunctionIsSeq
<1>5. ASSUME Len(data) >= Block
      PROVE  Blocks(data)[1][1] = data[1]
  <2>1. 1 \in 1..n /\ (1-1) * Block + 1 = 1 /\ 1 * Block = 64
    BY <1>1, <1>5
  <2> HIDE DEF n
  <2>2. Blocks(data)[1] = SubSeq(data, (1-1) * Block + 1, 1 * Block)
    BY <1>3, <2>1
  <2>3. SubSeq(data, 1, 64)[1] = data[1]
    BY <1>1, <1>5, SubSeqIsSeq
  <2> QED BY <2>1, <2>2, <2>3
<1> QED BY <1>4, <1>5

\* sha256_update where the buffer is empty.
LEMMA UpdateAtBoundary ==
    ASSUME NEW c, c.count \in Nat, c.count % Block = 0, NEW data, IsSeq(data)
    PROVE  /\ Sha256Update(c, data).count = c.count + Len(data)
           /\ Sha256Update(c, data).state = c.state \o Blocks(data)
<1>1. <<>> \o Blocks(data) = Blocks(data)
  BY BlocksIsSeq, EmptyConcat
<1> QED BY <1>1 DEF Sha256Update, Transform

\* The first data of all.
LEMMA FirstUpdate ==
    ASSUME NEW data, IsSeq(data)
    PROVE  /\ Sha256Update(Sha256Init, data).count = Len(data)
           /\ Sha256Update(Sha256Init, data).state = Blocks(data)
<1>1. Sha256Init.count = 0 /\ Sha256Init.state = <<>> /\ Len(data) \in Nat
  BY DEF Sha256Init, IsSeq
<1>2. Sha256Init.count \in Nat /\ Sha256Init.count % Block = 0
  BY DEF Sha256Init, Block
<1>3. /\ Sha256Update(Sha256Init, data).count = Sha256Init.count + Len(data)
      /\ Sha256Update(Sha256Init, data).state = Sha256Init.state \o Blocks(data)
  BY <1>2, UpdateAtBoundary
<1>4. <<>> \o Blocks(data) = Blocks(data)
  BY BlocksIsSeq, EmptyConcat
<1> QED BY <1>1, <1>3, <1>4

\* sha256_final adds to the state.
LEMMA FinalKeepsBlocks ==
    ASSUME NEW c, IsSeq(c.state), Len(c.state) > 0
    PROVE  \E state : Sha256Final(c) = Digest(state) /\ state[1] = c.state[1]
<1>1. ASSUME NEW full, NEW last
      PROVE  IsSeq(<<full>> \o <<last>>) /\ IsSeq(<<>> \o <<last>>)
  <2>1. IsSeq(<<full>>) /\ IsSeq(<<last>>) /\ IsSeq(<<>>)
    BY TupleIsSeq
  <2> QED BY <2>1, ConcatIsSeq
<1>2. PICK rest : IsSeq(rest) /\ Sha256Final(c) = Digest(c.state \o rest)
  BY <1>1 DEF Sha256Final, Transform
<1>3. (c.state \o rest)[1] = c.state[1]
  BY <1>2, FirstOfConcat
<1> QED BY <1>2, <1>3

-----------------------------------------------------------------------------
\* Digests, padding and xor.
LEMMA DigestIsSeq ==
    ASSUME NEW state
    PROVE  /\ IsSeq(Digest(state)) /\ Len(Digest(state)) = 32
           /\ Digest(state)[1] = <<"digest", state, 1>>
<1>1. Digest(state) = [k \in 1..32 |-> Digest(state)[k]]
  BY DEF Digest
<1>2. Digest(state)[1] = <<"digest", state, 1>>
  BY DEF Digest
<1> QED BY <1>1, <1>2, FunctionIsSeq

LEMMA FillIsSeq ==
    ASSUME NEW v, NEW n \in Nat
    PROVE  IsSeq(Fill(v, n)) /\ Len(Fill(v, n)) = n /\ \A k \in 1..n : Fill(v, n)[k] = Byte(v)
<1>1. Fill(v, n) = [k \in 1..n |-> Fill(v, n)[k]]
  BY DEF Fill
<1> QED BY <1>1, FunctionIsSeq DEF Fill

LEMMA XorPadIsSeq ==
    ASSUME NEW bytes, IsSeq(bytes), NEW pad
    PROVE  /\ IsSeq(XorPad(bytes, pad)) /\ Len(XorPad(bytes, pad)) = Len(bytes)
           /\ \A k \in 1..Len(bytes) : XorPad(bytes, pad)[k] = Xor(bytes[k], pad)
<1>1. DOMAIN bytes = 1..Len(bytes) /\ Len(bytes) \in Nat
  BY DEF IsSeq
<1>2. XorPad(bytes, pad) = [k \in 1..Len(bytes) |-> XorPad(bytes, pad)[k]]
  BY <1>1 DEF XorPad
<1> QED BY <1>1, <1>2, FunctionIsSeq DEF XorPad

\* auth.h: the first byte of what is hashed is in the first block of the state.
LEMMA Sha256KeepsFirst ==
    ASSUME NEW data, IsSeq(data), Len(data) >= Block
    PROVE  \E state : Sha256(data) = Digest(state) /\ state[1][1] = data[1]
<1> DEFINE c == Sha256Update(Sha256Init, data)
<1>1. Block = 64 /\ Len(data) \in Nat
  BY DEF Block, IsSeq
<1>2. c.state = Blocks(data)
  BY FirstUpdate
<1>3. IsSeq(Blocks(data)) /\ Len(Blocks(data)) > 0 /\ Blocks(data)[1][1] = data[1]
  BY <1>1, BlocksIsSeq
<1> HIDE DEF c
<1>4. PICK state : Sha256Final(c) = Digest(state) /\ state[1] = c.state[1]
  BY <1>2, <1>3, FinalKeepsBlocks
<1> QED BY <1>2, <1>3, <1>4 DEF Sha256, c

\* The padded key is a block.
LEMMA KpadIsSeq ==
    ASSUME NEW key, IsSeq(key)
    PROVE  IsSeq(Kpad(key)) /\ Len(Kpad(key)) = Block
<1>1. Block = 64 /\ Len(key) \in Nat
  BY DEF Block, IsSeq
<1>2. CASE Len(key) > Block
  <2>1. PICK state : Sha256(key) = Digest(state)
    BY <1>1, <1>2, Sha256KeepsFirst
  <2> DEFINE d == Digest(state)
             f == Fill(0, 32)
  <2>2. Kpad(key) = d \o f
    BY <1>1, <1>2, <2>1 DEF Kpad
  <2>3. IsSeq(d) /\ Len(d) = 32
    BY DigestIsSeq
  <2>4. IsSeq(f) /\ Len(f) = 32
    BY FillIsSeq
  <2> HIDE DEF d, f
  <2>5. IsSeq(d) /\ IsSeq(f)
    BY <2>3, <2>4
  <2>6. IsSeq(d \o f) /\ Len(d \o f) = Len(d) + Len(f)
    BY <2>5, ConcatIsSeq
  <2>7. Len(d \o f) = 64
    BY <2>3, <2>4, <2>6
  <2> QED BY <1>1, <2>2, <2>6, <2>7
<1>3. CASE ~(Len(key) > Block)
  <2> DEFINE n == Block - Len(key)
  <2>1. Kpad(key) = key \o Fill(0, n) /\ n \in Nat /\ Len(key) + n = 64
    BY <1>1, <1>3 DEF Kpad
  <2> HIDE DEF n
  <2>2. IsSeq(Fill(0, n)) /\ Len(Fill(0, n)) = n
    BY <2>1, FillIsSeq
  <2> QED BY <1>1, <2>1, <2>2, ConcatIsSeq
<1> QED BY <1>2, <1>3

\* HmacSha256 of auth.h ends in a digest that begins with the padded key.
LEMMA HmacKeepsKey ==
    ASSUME NEW key, IsSeq(key), NEW message, IsSeq(message)
    PROVE  \E state : /\ HmacSha256(key, message) = Digest(state)
                      /\ state[1][1] = Xor(Kpad(key)[1], 92)
<1> DEFINE ipad == XorPad(Kpad(key), 54)
           opad == XorPad(Kpad(key), 92)
           inner == Sha256Final(Sha256Update(Sha256Update(Sha256Init, ipad), message))
           c == Sha256Update(Sha256Init, opad)
           d == Sha256Update(c, inner)
<1>0. HmacSha256(key, message) = Sha256Final(d)
  BY DEF HmacSha256
<1>1. PICK of : inner = Digest(of)
  BY DEF Sha256Final
<1>2. IsSeq(inner) /\ Len(inner) = 32
  BY <1>1, DigestIsSeq
<1>3. IsSeq(opad) /\ Len(opad) = 64 /\ opad[1] = Xor(Kpad(key)[1], 92)
  BY KpadIsSeq, XorPadIsSeq DEF Block
<1> HIDE DEF opad, ipad, inner
<1>4. /\ Len(opad) >= Block /\ Len(opad) \div Block = 1
      /\ Len(opad) \in Nat /\ Len(opad) % Block = 0
  BY <1>3 DEF Block
<1>5. c.count = Len(opad) /\ c.state = Blocks(opad)
  BY <1>3, FirstUpdate
<1>6. IsSeq(Blocks(opad)) /\ Len(Blocks(opad)) = 1 /\ Blocks(opad)[1][1] = opad[1]
  BY <1>3, <1>4, BlocksIsSeq
<1> HIDE DEF c
<1>7. d.state = c.state \o Blocks(inner)
  <2>1. c.count \in Nat /\ c.count % Block = 0
    BY <1>4, <1>5
  <2> QED BY <1>2, <2>1, UpdateAtBoundary
<1>8. IsSeq(Blocks(inner))
  BY <1>2, BlocksIsSeq
<1> HIDE DEF d
<1>9. IsSeq(d.state) /\ Len(d.state) > 0 /\ d.state[1] = c.state[1]
  <2>1. IsSeq(c.state) /\ Len(c.state) > 0
    BY <1>5, <1>6
  <2> QED BY <1>7, <1>8, <2>1, FirstOfConcat
<1>10. PICK state : Sha256Final(d) = Digest(state) /\ state[1] = d.state[1]
  BY <1>9, FinalKeepsBlocks
<1> QED BY <1>0, <1>3, <1>5, <1>6, <1>9, <1>10

-----------------------------------------------------------------------------
(***************************************************************************)
(* HMAC.  Holds says of a Sha256Ctx that it has taken in data; an update at a *)
(* block's boundary keeps it (UpdateHolds), and sha256_final pads as FIPS 180-4 *)
(* says (FinalIsHash): the blocks it passes on are the blocks of the padded *)
(* data, because they are cut where those are (CutsAreBlocks).             *)
(***************************************************************************)
\* Division by the size of a block.
LEMMA DivMod ==
    ASSUME NEW n \in Nat
    PROVE  n \div 64 \in Nat /\ n % 64 \in 0..63 /\ n = 64 * (n \div 64) + (n % 64)
<1>1. n \div 64 \in Nat
  OBVIOUS
<1>2. n % 64 \in Int /\ n % 64 >= 0 /\ n % 64 < 64
  OBVIOUS
<1>3. n = 64 * (n \div 64) + (n % 64)
  OBVIOUS
<1> QED BY <1>1, <1>2, <1>3

LEMMA DivModOf ==
    ASSUME NEW q \in Nat, NEW r \in 0..63
    PROVE  (64 * q + r) \div 64 = q /\ (64 * q + r) % 64 = r
OBVIOUS

LEMMA BlockIs64 ==
    ASSUME NEW s, IsSeq(s)
    PROVE  Block = 64 /\ Len(s) \in Nat
BY DEF Block, IsSeq

LEMMA SameSeq ==
    ASSUME NEW s, NEW t, IsSeq(s), IsSeq(t), Len(s) = Len(t), \A k \in 1..Len(s) : s[k] = t[k]
    PROVE  s = t
<1>1. s = [k \in 1..Len(s) |-> s[k]] /\ t = [k \in 1..Len(s) |-> t[k]]
  BY DEF IsSeq
<1> QED BY <1>1

\* u is data cut into whole blocks.
IsCut(u, data) ==
    /\ IsSeq(u) /\ Len(u) = Len(data) \div Block
    /\ \A i \in 1..Len(u) : /\ IsSeq(u[i]) /\ Len(u[i]) = Block
                            /\ \A k \in 1..Block : u[i][k] = data[(i - 1) * Block + k]

LEMMA BlocksAreCut ==
    ASSUME NEW data, IsSeq(data)
    PROVE  IsCut(Blocks(data), data)
<1> DEFINE n == Len(data) \div Block
<1>1. Len(data) \in Nat /\ Block = 64 /\ n \in Nat
  BY DEF IsSeq, Block
<1>2. IsSeq(Blocks(data)) /\ Len(Blocks(data)) = n
  BY BlocksIsSeq
<1>3. ASSUME NEW i \in 1..n
      PROVE  /\ IsSeq(Blocks(data)[i]) /\ Len(Blocks(data)[i]) = Block
             /\ \A k \in 1..Block : Blocks(data)[i][k] = data[(i - 1) * Block + k]
  <2> DEFINE a == (i - 1) * Block + 1
             b == i * Block
  <2>1. Blocks(data)[i] = SubSeq(data, a, b)
    BY DEF Blocks
  <2>2. a \in 1..Len(data)+1 /\ b \in (a-1)..Len(data) /\ b - a + 1 = Block /\ a \in Nat
    <3>1. 64 * n <= Len(data)
      BY <1>1
    <3>2. i \in Nat /\ 1 <= i /\ i <= n
      BY <1>1
    <3> HIDE DEF n
    <3> QED BY <1>1, <3>1, <3>2
  <2>3. \A k \in 1..Block : a + k - 1 = (i - 1) * Block + k
    BY <1>1
  <2> HIDE DEF a, b, n
  <2>4. /\ IsSeq(SubSeq(data, a, b)) /\ Len(SubSeq(data, a, b)) = b - a + 1
        /\ \A k \in 1..(b - a + 1) : SubSeq(data, a, b)[k] = data[a + k - 1]
    BY <2>2, SubSeqIsSeq
  <2> QED BY <2>1, <2>2, <2>3, <2>4
<1> HIDE DEF n
<1> QED BY <1>2, <1>3 DEF IsCut, n

LEMMA CutsAreBlocks ==
    ASSUME NEW data, IsSeq(data), NEW u, IsCut(u, data)
    PROVE  u = Blocks(data)
<1> DEFINE v == Blocks(data)
<1>1. IsCut(v, data)
  BY BlocksAreCut
<1> HIDE DEF v
<1>2. ASSUME NEW i \in 1..Len(u)
      PROVE  u[i] = v[i]
  <2>1. /\ IsSeq(u[i]) /\ Len(u[i]) = Block /\ IsSeq(v[i]) /\ Len(v[i]) = Block
        /\ \A k \in 1..Block : u[i][k] = v[i][k]
    BY <1>1 DEF IsCut
  <2> QED BY <2>1, SameSeq
<1>3. IsSeq(u) /\ IsSeq(v) /\ Len(u) = Len(v)
  BY <1>1 DEF IsCut
<1> QED BY <1>2, <1>3, SameSeq DEF v

\* At the end of a block, the blocks of two pieces are those of the whole.
LEMMA BlocksOfConcat ==
    ASSUME NEW d, IsSeq(d), Len(d) % Block = 0, NEW e, IsSeq(e)
    PROVE  Blocks(d) \o Blocks(e) = Blocks(d \o e)
<1> DEFINE n == Len(d) \div Block
           m == Len(e) \div Block
           u == Blocks(d)
           v == Blocks(e)
           de == d \o e
           uv == u \o v
<1>1. /\ Len(d) \in Nat /\ Len(e) \in Nat /\ Block = 64 /\ n \in Nat /\ m \in Nat
      /\ Len(d) = 64 * n
  <2>1. Len(d) \in Nat /\ Len(e) \in Nat /\ Block = 64
    BY BlockIs64
  <2>2. Len(d) % 64 = 0
    BY <2>1
  <2> QED BY <2>1, <2>2, DivMod
<1>2. IsCut(u, d) /\ IsCut(v, e)
  BY BlocksAreCut
<1>3. /\ IsSeq(de) /\ Len(de) = Len(d) + Len(e)
      /\ \A k \in 1..Len(d) : de[k] = d[k]
      /\ \A k \in 1..Len(e) : de[Len(d) + k] = e[k]
  BY ConcatIsSeq
<1> HIDE DEF u, v, de
<1>4. /\ IsSeq(uv) /\ Len(uv) = Len(u) + Len(v)
      /\ \A k \in 1..Len(u) : uv[k] = u[k]
      /\ \A k \in 1..Len(v) : uv[Len(u) + k] = v[k]
  <2>1. IsSeq(u) /\ IsSeq(v)
    BY <1>2 DEF IsCut
  <2> QED BY <2>1, ConcatIsSeq
<1> HIDE DEF uv
<1>5. Len(u) = n /\ Len(v) = m
  BY <1>2 DEF IsCut
<1>6. Len(de) \div Block = n + m /\ 64 * m <= Len(e)
  <2> DEFINE r == Len(e) % 64
  <2>1. r \in 0..63 /\ Len(e) = 64 * m + r
    <3> DEFINE l == Len(e)
    <3>1. l \in Nat
      BY <1>1
    <3> HIDE DEF l
    <3>2. l % 64 \in 0..63 /\ l = 64 * (l \div 64) + (l % 64)
      BY <3>1, DivMod
    <3> QED BY <1>1, <3>2 DEF l
  <2> HIDE DEF n, m, r
  <2>2. Len(de) = 64 * (n + m) + r /\ n + m \in Nat
    BY <1>1, <1>3, <2>1
  <2>3. (64 * (n + m) + r) \div 64 = n + m
    BY <2>1, <2>2, DivModOf
  <2> QED BY <1>1, <2>1, <2>2, <2>3
<1> HIDE DEF n, m
<1>7. ASSUME NEW i \in 1..Len(uv)
      PROVE  /\ IsSeq(uv[i]) /\ Len(uv[i]) = Block
             /\ \A k \in 1..Block : uv[i][k] = de[(i - 1) * Block + k]
  <2>1. CASE i <= n
    <3>1. i \in 1..Len(u) /\ uv[i] = u[i]
      BY <1>1, <1>4, <1>5, <2>1
    <3>2. \A k \in 1..Block : u[i][k] = d[(i - 1) * Block + k]
      BY <1>2, <3>1 DEF IsCut
    <3>3. \A k \in 1..Block : (i - 1) * Block + k \in 1..Len(d)
      BY <1>1, <2>1
    <3> QED BY <1>2, <1>3, <3>1, <3>2, <3>3 DEF IsCut
  <2>2. CASE i > n
    <3> DEFINE j == i - n
    <3>1. j \in 1..Len(v) /\ i = Len(u) + j
      BY <1>1, <1>4, <1>5, <2>2
    <3> HIDE DEF j
    <3>2. uv[i] = v[j] /\ \A k \in 1..Block : v[j][k] = e[(j - 1) * Block + k]
      BY <1>2, <1>4, <3>1 DEF IsCut
    <3>3. ASSUME NEW k \in 1..Block
          PROVE  de[(i - 1) * Block + k] = e[(j - 1) * Block + k]
      <4>1. (j - 1) * Block + k \in 1..Len(e) /\ (i - 1) * Block + k = Len(d) + ((j - 1) * Block + k)
        BY <1>1, <1>5, <1>6, <3>1
      <4> QED BY <1>3, <4>1
    <3>4. IsSeq(v[j]) /\ Len(v[j]) = Block
      BY <1>2, <3>1 DEF IsCut
    <3> QED BY <3>2, <3>3, <3>4
  <2> QED BY <1>1, <1>4, <1>5, <2>1, <2>2
<1>8. IsCut(uv, de)
  BY <1>4, <1>5, <1>6, <1>7 DEF IsCut
<1> QED BY <1>3, <1>8, CutsAreBlocks DEF u, v, de, uv

\* memcpy into a block.
LEMMA CopyIsSeq ==
    ASSUME NEW buf, IsSeq(buf), Len(buf) = Block, NEW used \in 0..Block, NEW d, IsSeq(d),
           used + Len(d) <= Block
    PROVE  /\ IsSeq(Copy(buf, used, d)) /\ Len(Copy(buf, used, d)) = Block
           /\ \A k \in 1..used : Copy(buf, used, d)[k] = buf[k]
           /\ \A k \in 1..Len(d) : Copy(buf, used, d)[used + k] = d[k]
<1> DEFINE a == SubSeq(buf, 1, used)
           b == SubSeq(buf, used + Len(d) + 1, Block)
           ad == a \o d
           abd == ad \o b
<1>1. Len(d) \in Nat /\ Block = 64 /\ used \in Nat /\ used <= 64
  <2>1. Len(d) \in Nat /\ Block = 64
    BY BlockIs64
  <2> QED BY <2>1
<1>2. IsSeq(a) /\ Len(a) = used /\ \A k \in 1..used : a[k] = buf[k]
  <2>1. 1 \in 1..Len(buf)+1 /\ used \in (1-1)..Len(buf) /\ used - 1 + 1 = used
    BY <1>1
  <2>2. \A k \in 1..used : 1 + k - 1 = k
    BY <1>1
  <2> QED BY <2>1, <2>2, SubSeqIsSeq
<1>3. IsSeq(b) /\ Len(b) = 64 - used - Len(d)
  <2> DEFINE m == used + Len(d) + 1
  <2>1. m \in 1..Len(buf)+1 /\ Block \in (m-1)..Len(buf) /\ Block - m + 1 = 64 - used - Len(d)
    <3> DEFINE l == Len(d)
    <3>1. l \in Nat /\ used + l <= 64 /\ m = used + l + 1 /\ Len(buf) = 64
      BY <1>1
    <3> HIDE DEF l, m
    <3>2. m \in 1..Len(buf)+1 /\ Block \in (m-1)..Len(buf) /\ Block - m + 1 = 64 - used - l
      BY <1>1, <3>1
    <3> QED BY <3>2 DEF l
  <2> HIDE DEF m
  <2>2. IsSeq(SubSeq(buf, m, Block)) /\ Len(SubSeq(buf, m, Block)) = Block - m + 1
    BY <2>1, SubSeqIsSeq
  <2> QED BY <2>1, <2>2 DEF m
<1> HIDE DEF a, b
<1>4. /\ IsSeq(ad) /\ Len(ad) = used + Len(d)
      /\ \A k \in 1..used : ad[k] = buf[k]
      /\ \A k \in 1..Len(d) : ad[used + k] = d[k]
  <2>1. /\ IsSeq(ad) /\ Len(ad) = Len(a) + Len(d)
        /\ \A k \in 1..Len(a) : ad[k] = a[k]
        /\ \A k \in 1..Len(d) : ad[Len(a) + k] = d[k]
    BY <1>2, ConcatIsSeq
  <2> HIDE DEF ad
  <2> QED BY <1>2, <2>1
<1> HIDE DEF ad
<1>5. /\ IsSeq(abd) /\ Len(abd) = Len(ad) + Len(b)
      /\ \A k \in 1..Len(ad) : abd[k] = ad[k]
  BY <1>3, <1>4, ConcatIsSeq
<1> HIDE DEF abd
<1>6. Copy(buf, used, d) = abd
  BY DEF Copy, abd, ad, a, b
<1>7. Len(abd) = Block
  BY <1>1, <1>3, <1>4, <1>5
<1>8. \A k \in 1..used : abd[k] = buf[k]
  BY <1>1, <1>4, <1>5
<1>9. \A k \in 1..Len(d) : abd[used + k] = d[k]
  BY <1>1, <1>4, <1>5
<1> QED BY <1>5, <1>6, <1>7, <1>8, <1>9
-----------------------------------------------------------------------------
\* c has taken in data: whole blocks in the state, what is left in buf.
Holds(c, data) ==
    /\ c.count = Len(data) /\ c.state = Blocks(data)
    /\ IsSeq(c.buf) /\ Len(c.buf) = Block
    /\ \A k \in 1..(Len(data) % 64) : c.buf[k] = data[64 * (Len(data) \div 64) + k]

LEMMA RestIsSeq ==
    ASSUME NEW e, IsSeq(e)
    PROVE  /\ IsSeq(Rest(e)) /\ Len(Rest(e)) = Len(e) % 64
           /\ \A k \in 1..(Len(e) % 64) : Rest(e)[k] = e[64 * (Len(e) \div 64) + k]
<1> DEFINE l == Len(e)
           q == l \div 64
           r == l % 64
           a == 64 * q + 1
<1>1. l \in Nat /\ Block = 64
  BY BlockIs64
<1>2. q \in Nat /\ r \in 0..63 /\ l = 64 * q + r
  <2> HIDE DEF l
  <2> QED BY <1>1, DivMod
<1>3. Rest(e) = SubSeq(e, a, l)
  <2>1. (Len(e) \div Block) * Block + 1 = a
    <3> HIDE DEF q
    <3>1. q * 64 + 1 = 64 * q + 1
      BY <1>2
    <3> QED BY <1>1, <3>1 DEF q
  <2> QED BY <2>1 DEF Rest
<1> HIDE DEF q, r
<1>4. a \in 1..l+1 /\ l \in (a-1)..l /\ l - a + 1 = r
  BY <1>1, <1>2
<1>5. \A k \in 1..r : a + k - 1 = 64 * q + k
  BY <1>2
<1> HIDE DEF a
<1>6. /\ IsSeq(SubSeq(e, a, l)) /\ Len(SubSeq(e, a, l)) = l - a + 1
      /\ \A k \in 1..(l - a + 1) : SubSeq(e, a, l)[k] = e[a + k - 1]
  BY <1>4, SubSeqIsSeq
<1>7. IsSeq(Rest(e)) /\ Len(Rest(e)) = r /\ \A k \in 1..r : Rest(e)[k] = e[64 * q + k]
  BY <1>3, <1>4, <1>5, <1>6
<1> QED BY <1>7 DEF q, r

LEMMA InitHolds == Holds(Sha256Init, <<>>)
<1>1. IsSeq(<<>>) /\ Len(<<>>) = 0
  BY TupleIsSeq
<1>2. Blocks(<<>>) = <<>>
  BY <1>1, DivMod DEF Blocks, Block
<1>3. IsSeq(Fill(0, Block)) /\ Len(Fill(0, Block)) = Block
  BY FillIsSeq DEF Block
<1>4. 0 % 64 = 0
  OBVIOUS
<1> QED BY <1>1, <1>2, <1>3, <1>4 DEF Holds, Sha256Init

\* sha256_update at the end of a block.
LEMMA UpdateHolds ==
    ASSUME NEW c, NEW d, IsSeq(d), Holds(c, d), Len(d) % 64 = 0, NEW e, IsSeq(e)
    PROVE  IsSeq(d \o e) /\ Holds(Sha256Update(c, e), d \o e)
<1> DEFINE n == Sha256Update(c, e)
           de == d \o e
           l == Len(d)
           m == Len(e)
           rest == Rest(e)
           buf == Copy(c.buf, 0, rest)
<1>1. l \in Nat /\ m \in Nat /\ Block = 64
  BY BlockIs64
<1>2. c.count = l /\ c.count % Block = 0 /\ c.count \in Nat
  BY <1>1 DEF Holds
<1>3. n.count = l + m /\ n.state = c.state \o Blocks(e)
  BY <1>2, UpdateAtBoundary
<1>4. n.buf = buf
  <2>1. <<>> = <<>> /\ c.count % Block = 0
    BY <1>2
  <2> QED BY <2>1 DEF Sha256Update
<1>5. Blocks(d) \o Blocks(e) = Blocks(de)
  BY <1>1, BlocksOfConcat
<1>6. /\ IsSeq(de) /\ Len(de) = l + m
      /\ \A k \in 1..m : de[l + k] = e[k]
  BY ConcatIsSeq
<1>7. /\ IsSeq(rest) /\ Len(rest) = m % 64
      /\ \A k \in 1..(m % 64) : rest[k] = e[64 * (m \div 64) + k]
  BY RestIsSeq
<1>8. IsSeq(c.buf) /\ Len(c.buf) = Block
  BY DEF Holds
<1> HIDE DEF n, de, l, m, rest
<1>9. m % 64 \in 0..63 /\ m \div 64 \in Nat /\ m = 64 * (m \div 64) + (m % 64)
  BY <1>1, DivMod
<1>10. l = 64 * (l \div 64) /\ l \div 64 \in Nat
  <2>1. l % 64 = 0
    BY DEF l
  <2> QED BY <1>1, <2>1, DivMod
<1>11. /\ IsSeq(buf) /\ Len(buf) = Block
       /\ \A k \in 1..Len(rest) : buf[0 + k] = rest[k]
  <2>1. 0 \in 0..Block /\ 0 + Len(rest) <= Block
    BY <1>1, <1>7, <1>9
  <2> QED BY <1>7, <1>8, <2>1, CopyIsSeq
<1> HIDE DEF buf
<1>12. (l + m) % 64 = m % 64 /\ (l + m) \div 64 = (l \div 64) + (m \div 64)
  <2> DEFINE q == (l \div 64) + (m \div 64)
             r == m % 64
  <2>1. q \in Nat /\ r \in 0..63 /\ l + m = 64 * q + r
    BY <1>1, <1>9, <1>10
  <2> HIDE DEF q, r
  <2>2. (64 * q + r) \div 64 = q /\ (64 * q + r) % 64 = r
    BY <2>1, DivModOf
  <2> QED BY <2>1, <2>2 DEF q, r
<1>13. ASSUME NEW k \in 1..(m % 64)
       PROVE  buf[k] = de[64 * ((l \div 64) + (m \div 64)) + k]
  <2> DEFINE j == 64 * (m \div 64) + k
  <2>1. j \in 1..m /\ 64 * ((l \div 64) + (m \div 64)) + k = l + j /\ 0 + k = k /\ k \in 1..Len(rest)
    BY <1>1, <1>7, <1>9, <1>10
  <2>2. rest[k] = e[j]
    BY <1>7
  <2> HIDE DEF j
  <2> QED BY <1>6, <1>11, <2>1, <2>2
<1>14. n.state = Blocks(de)
  BY <1>3, <1>5 DEF Holds
<1>15. \A k \in 1..(Len(de) % 64) : n.buf[k] = de[64 * (Len(de) \div 64) + k]
  BY <1>4, <1>6, <1>12, <1>13
<1>16. Holds(n, de)
  BY <1>3, <1>4, <1>6, <1>11, <1>14, <1>15 DEF Holds
<1> QED BY <1>6, <1>16 DEF n, de

-----------------------------------------------------------------------------
\* The padding of FIPS 180-4, byte by byte.
LEMMA PaddedIsSeq ==
    ASSUME NEW data, IsSeq(data)
    PROVE  LET l == Len(data)
               r == l % 64
               z == IF r < 56 THEN 55 - r ELSE 119 - r
               p == Padded(data)
           IN /\ IsSeq(p) /\ Len(p) = l + 1 + z + 8
              /\ \A k \in 1..l : p[k] = data[k]
              /\ p[l + 1] = Byte(128)
              /\ \A k \in 1..z : p[l + 1 + k] = Byte(0)
              /\ \A k \in 1..8 : p[l + 1 + z + k] = LengthBytes(l)[k]
<1> DEFINE l == Len(data)
           r == l % 64
           z == IF r < 56 THEN 55 - r ELSE 119 - r
           zeros == CHOOSE y \in 0..(Block-1) : (l + 1 + y + 8) % Block = 0
           bits == LengthBytes(l)
           fill == Fill(0, zeros)
           one == <<Byte(128)>>
           marked == data \o one
           filled == marked \o fill
           p == filled \o bits
<1>1. l \in Nat /\ Block = 64
  BY BlockIs64
<1>2. r \in 0..63 /\ l = 64 * (l \div 64) + r /\ l \div 64 \in Nat
  <2> HIDE DEF l
  <2> QED BY <1>1, DivMod
<1>3. zeros = z /\ z \in Nat
  <2> HIDE DEF l, r
  <2>1. z \in 0..63
    BY <1>2
  <2>2. ASSUME NEW y \in 0..63
        PROVE  (l + 1 + y + 8) % 64 = 0 <=> y = z
    <3> DEFINE q == l \div 64
               s == r + 1 + y + 8
    <3>1. s \in 9..135 /\ q \in Nat /\ l + 1 + y + 8 = 64 * q + s
      BY <1>2, <2>2
    <3> HIDE DEF q, s
    <3>2. CASE s < 64
      <4>0. s \in 0..63
        BY <3>1, <3>2
      <4>1. (64 * q + s) % 64 = s
        BY <3>1, <4>0, DivModOf
      <4>2. y # z
        BY <1>2, <3>2 DEF s
      <4> QED BY <3>1, <4>1, <4>2
    <3>3. CASE s >= 64 /\ s < 128
      <4> DEFINE t == s - 64
      <4>1. t \in 0..63 /\ 64 * q + s = 64 * (q + 1) + t /\ q + 1 \in Nat
        BY <3>1, <3>3
      <4> HIDE DEF t
      <4>2. (64 * (q + 1) + t) % 64 = t
        BY <4>1, DivModOf
      <4>3. t = 0 <=> y = z
        BY <1>2, <2>2, <3>1, <3>3 DEF s, t
      <4> QED BY <3>1, <4>1, <4>2, <4>3
    <3>4. CASE s >= 128
      <4> DEFINE t == s - 128
      <4>1. t \in 0..63 /\ 64 * q + s = 64 * (q + 2) + t /\ q + 2 \in Nat
        BY <3>1, <3>4
      <4> HIDE DEF t
      <4>2. (64 * (q + 2) + t) % 64 = t
        BY <4>1, DivModOf
      <4>3. t = 0 <=> y = z
        BY <1>2, <2>2, <3>1, <3>4 DEF s, t
      <4> QED BY <3>1, <4>1, <4>2, <4>3
    <3> QED BY <3>1, <3>2, <3>3, <3>4
  <2> HIDE DEF z
  <2>3. Block - 1 = 63
    BY <1>1
  <2>4. zeros \in 0..63 /\ (l + 1 + zeros + 8) % 64 = 0
    BY <1>1, <2>1, <2>2, <2>3
  <2> HIDE DEF zeros
  <2> QED BY <2>1, <2>2, <2>4
<1>4. IsSeq(bits) /\ Len(bits) = 8
  <2>1. bits = [k \in 1..8 |-> bits[k]]
    BY DEF LengthBytes
  <2> HIDE DEF bits
  <2> QED BY <2>1, FunctionIsSeq
<1>5. Padded(data) = p
  BY DEF Padded
<1> HIDE DEF zeros
<1>6. IsSeq(fill) /\ Len(fill) = z /\ \A k \in 1..z : fill[k] = Byte(0)
  <2> HIDE DEF z
  <2> QED BY <1>3, FillIsSeq
<1>7. IsSeq(one) /\ Len(one) = 1 /\ one[1] = Byte(128)
  BY TupleIsSeq
<1> HIDE DEF bits, fill, one, z, r
<1>8. /\ IsSeq(marked) /\ Len(marked) = l + 1
      /\ \A k \in 1..l : marked[k] = data[k]
      /\ marked[l + 1] = Byte(128)
  <2>0. IsSeq(data) /\ IsSeq(one)
    BY <1>7
  <2>1. /\ IsSeq(marked) /\ Len(marked) = l + Len(one)
        /\ \A k \in 1..l : marked[k] = data[k]
        /\ \A k \in 1..Len(one) : marked[l + k] = one[k]
    BY <2>0, ConcatIsSeq
  <2> HIDE DEF marked, l
  <2> QED BY <1>1, <1>7, <2>1
<1> HIDE DEF marked, l
<1>9. /\ IsSeq(filled) /\ Len(filled) = l + 1 + z
      /\ \A k \in 1..(l + 1) : filled[k] = marked[k]
      /\ \A k \in 1..z : filled[l + 1 + k] = Byte(0)
  <2>1. /\ IsSeq(filled) /\ Len(filled) = Len(marked) + Len(fill)
        /\ \A k \in 1..Len(marked) : filled[k] = marked[k]
        /\ \A k \in 1..Len(fill) : filled[Len(marked) + k] = fill[k]
    BY <1>6, <1>8, ConcatIsSeq
  <2> HIDE DEF filled
  <2> QED BY <1>6, <1>8, <2>1
<1> HIDE DEF filled
<1>10. /\ IsSeq(p) /\ Len(p) = l + 1 + z + 8
       /\ \A k \in 1..(l + 1 + z) : p[k] = filled[k]
       /\ \A k \in 1..8 : p[l + 1 + z + k] = bits[k]
  <2>1. /\ IsSeq(p) /\ Len(p) = Len(filled) + Len(bits)
        /\ \A k \in 1..Len(filled) : p[k] = filled[k]
        /\ \A k \in 1..Len(bits) : p[Len(filled) + k] = bits[k]
    <3>1. IsSeq(filled) /\ IsSeq(bits)
      BY <1>4, <1>9
    <3> QED BY <3>1, ConcatIsSeq
  <2> HIDE DEF p
  <2> QED BY <1>4, <1>9, <2>1
<1> HIDE DEF p
<1>11. \A k \in 1..l : p[k] = data[k]
  BY <1>1, <1>3, <1>8, <1>9, <1>10
<1>12. p[l + 1] = Byte(128)
  BY <1>1, <1>3, <1>8, <1>9, <1>10
<1>13. ASSUME NEW k \in 1..z
       PROVE  p[l + 1 + k] = Byte(0)
  <2>1. l + 1 + k \in 1..(l + 1 + z)
    BY <1>1, <1>3
  <2> QED BY <1>9, <1>10, <2>1
<1> QED BY <1>5, <1>10, <1>11, <1>12, <1>13 DEF l, r, z, bits
-----------------------------------------------------------------------------
\* u begins p, block by block.
Begins(u, p) ==
    /\ IsSeq(u)
    /\ \A i \in 1..Len(u) : /\ IsSeq(u[i]) /\ Len(u[i]) = Block
                            /\ \A k \in 1..Block : u[i][k] = p[64 * (i - 1) + k]

LEMMA OneMoreBlock ==
    ASSUME NEW p, NEW u, Begins(u, p), NEW b, IsSeq(b), Len(b) = Block,
           \A k \in 1..Block : b[k] = p[64 * Len(u) + k]
    PROVE  Begins(u \o <<b>>, p) /\ Len(u \o <<b>>) = Len(u) + 1
<1> DEFINE one == <<b>>
           v == u \o one
<1>1. IsSeq(one) /\ Len(one) = 1 /\ one[1] = b
  BY TupleIsSeq
<1>2. IsSeq(u) /\ Len(u) \in Nat
  BY DEF Begins, IsSeq
<1> HIDE DEF one
<1>3. /\ IsSeq(v) /\ Len(v) = Len(u) + Len(one)
      /\ \A k \in 1..Len(u) : v[k] = u[k]
      /\ \A k \in 1..Len(one) : v[Len(u) + k] = one[k]
  <2>1. IsSeq(u) /\ IsSeq(one)
    BY <1>1, <1>2
  <2> QED BY ONLY <2>1, ConcatIsSeq
<1> HIDE DEF v
<1>4. Len(v) = Len(u) + 1 /\ v[Len(u) + 1] = b
  BY <1>1, <1>3
<1>5. ASSUME NEW i \in 1..Len(v)
      PROVE  /\ IsSeq(v[i]) /\ Len(v[i]) = Block
             /\ \A k \in 1..Block : v[i][k] = p[64 * (i - 1) + k]
  <2>1. CASE i \in 1..Len(u)
    BY <1>3, <2>1 DEF Begins
  <2>2. CASE i = Len(u) + 1
    <3>1. i - 1 = Len(u)
      BY <1>2, <2>2
    <3>2. v[i] = b
      BY <1>4, <2>2
    <3> QED BY <3>1, <3>2
  <2> QED BY <1>2, <1>4, <2>1, <2>2
<1> QED BY <1>3, <1>4, <1>5 DEF Begins, v, one

LEMMA ConcatTwo ==
    ASSUME NEW u, IsSeq(u), NEW a, NEW b
    PROVE  u \o (<<a>> \o <<b>>) = (u \o <<a>>) \o <<b>>
<1> DEFINE S == {u[k] : k \in 1..Len(u)} \cup {a, b}
<1>1. u \in Seq(S)
  BY DEF IsSeq
<1>2. <<a>> \in Seq(S) /\ <<b>> \in Seq(S)
  OBVIOUS
<1> HIDE DEF S
<1> QED BY <1>1, <1>2, ConcatAssociative

\* The last block: 56 bytes and the length.
Ends(end, last, n) ==
    /\ IsSeq(end) /\ Len(end) = Block
    /\ \A k \in 1..56 : end[k] = last[k]
    /\ \A k \in 1..8 : end[56 + k] = LengthBytes(n)[k]

LEMMA LastIsSeq ==
    ASSUME NEW last, IsSeq(last), Len(last) >= 56, NEW n
    PROVE  Ends(SubSeq(last, 1, 56) \o LengthBytes(n), last, n)
<1> DEFINE a == SubSeq(last, 1, 56)
           bits == LengthBytes(n)
           end == a \o bits
<1>1. IsSeq(bits) /\ Len(bits) = 8
  <2>1. bits = [k \in 1..8 |-> bits[k]]
    BY DEF LengthBytes
  <2> HIDE DEF bits
  <2> QED BY <2>1, FunctionIsSeq
<1>2. IsSeq(a) /\ Len(a) = 56 /\ \A k \in 1..56 : a[k] = last[k]
  <2>1. Len(last) \in Nat
    BY BlockIs64
  <2>2. 1 \in 1..Len(last)+1 /\ 56 \in (1-1)..Len(last) /\ 56 - 1 + 1 = 56
    BY <2>1
  <2>3. \A k \in 1..56 : 1 + k - 1 = k
    OBVIOUS
  <2> QED BY <2>2, <2>3, SubSeqIsSeq
<1> HIDE DEF a, bits
<1>3. /\ IsSeq(end) /\ Len(end) = Len(a) + Len(bits)
      /\ \A k \in 1..Len(a) : end[k] = a[k]
      /\ \A k \in 1..Len(bits) : end[Len(a) + k] = bits[k]
  <2>1. IsSeq(a) /\ IsSeq(bits)
    BY <1>1, <1>2
  <2> QED BY ONLY <2>1, ConcatIsSeq
<1> HIDE DEF end
<1>4. IsSeq(end) /\ Len(end) = Block
  <2>1. Len(end) = 64
    BY <1>1, <1>2, <1>3
  <2>2. Block = 64
    BY DEF Block
  <2> QED BY <1>3, <2>1, <2>2
<1>5. \A k \in 1..56 : end[k] = last[k]
  BY <1>2, <1>3
<1>6. \A k \in 1..8 : end[56 + k] = bits[k]
  BY <1>1, <1>2, <1>3
<1> QED BY <1>4, <1>5, <1>6 DEF Ends, end, a, bits

\* What sha256_final computes, the two cases apart.
LEMMA FinalExpands ==
    ASSUME NEW c, NEW r, c.count % Block = r
    PROVE  LET marked == Copy(c.buf, r, <<Byte(128)>>)
               full == Copy(marked, r + 1, Fill(0, 64 - (r + 1)))
               short == Copy(marked, r + 1, Fill(0, 56 - (r + 1)))
               end(last) == SubSeq(last, 1, 56) \o LengthBytes(c.count)
           IN /\ r + 1 > 56 =>
                    Sha256Final(c) = Digest(c.state \o (<<full>> \o <<end(Fill(0, 56))>>))
              /\ ~(r + 1 > 56) =>
                    Sha256Final(c) = Digest(c.state \o (<<>> \o <<end(short)>>))
<1> DEFINE used == c.count % Block
           mark == Copy(c.buf, used, <<Byte(128)>>)
           whole == Copy(mark, used + 1, Fill(0, Block - (used + 1)))
           part == Copy(mark, used + 1, Fill(0, Block - 8 - (used + 1)))
           ending(last) == SubSeq(last, 1, Block - 8) \o LengthBytes(c.count)
<1>1. /\ TooLong(used + 1) =>
            Sha256Final(c) = Digest(c.state \o (<<whole>> \o <<ending(Fill(0, Block - 8))>>))
      /\ ~TooLong(used + 1) =>
            Sha256Final(c) = Digest(c.state \o (<<>> \o <<ending(part)>>))
  BY Zenon DEF Sha256Final, Transform
<1>2. Block = 64 /\ Block - 8 = 56
  BY DEF Block
<1>3. TooLong(r + 1) <=> r + 1 > 56
  BY <1>2 DEF TooLong
<1>4. used = r
  OBVIOUS
<1> DEFINE markR == Copy(c.buf, r, <<Byte(128)>>)
           wholeR == Copy(markR, r + 1, Fill(0, 64 - (r + 1)))
           partR == Copy(markR, r + 1, Fill(0, 56 - (r + 1)))
           endingR(last) == SubSeq(last, 1, 56) \o LengthBytes(c.count)
<1>5. mark = markR
  BY <1>4
<1>6. whole = wholeR
  <2> HIDE DEF used, mark, markR
  <2> QED BY <1>2, <1>4, <1>5
<1>7. part = partR
  <2> HIDE DEF used, mark, markR
  <2> QED BY <1>2, <1>4, <1>5
<1>8. /\ ending(Fill(0, Block - 8)) = endingR(Fill(0, 56))
      /\ ending(part) = endingR(partR)
  <2> HIDE DEF part, partR
  <2> QED BY <1>2, <1>7
<1> HIDE DEF used, whole, wholeR, part, partR, ending, endingR
<1>9. /\ r + 1 > 56 =>
            Sha256Final(c) = Digest(c.state \o (<<wholeR>> \o <<endingR(Fill(0, 56))>>))
      /\ ~(r + 1 > 56) =>
            Sha256Final(c) = Digest(c.state \o (<<>> \o <<endingR(partR)>>))
  BY <1>1, <1>3, <1>4, <1>6, <1>7, <1>8, Zenon
<1> QED BY <1>9 DEF wholeR, partR, endingR

\* sha256_final pads as FIPS 180-4 says, with one block more where the length
\* has no room: what it has taken in is hashed.
LEMMA FinalIsHash ==
    ASSUME NEW data, IsSeq(data), NEW c, Holds(c, data)
    PROVE  Sha256Final(c) = JavaSha256(data)
<1> DEFINE l == Len(data)
           q == l \div 64
           r == l % 64
           z == IF r < 56 THEN 55 - r ELSE 119 - r
           p == Padded(data)
           bits == LengthBytes(l)
           used == r + 1
           u == Blocks(data)
           marked == Copy(c.buf, r, <<Byte(128)>>)
           full == Copy(marked, used, Fill(0, 64 - used))
           short == Copy(marked, used, Fill(0, 56 - used))
           last == IF used > 56 THEN Fill(0, 56) ELSE short
           end == SubSeq(last, 1, 56) \o bits
           tail == (IF used > 56 THEN <<full>> ELSE <<>>) \o <<end>>
<1>1. l \in Nat /\ Block = 64
  BY BlockIs64
<1>2. r \in 0..63 /\ l = 64 * q + r /\ q \in Nat
  <2> HIDE DEF l
  <2> QED BY <1>1, DivMod
<1>3. Sha256Final(c) = Digest(u \o tail)
  <2>1. c.count = l /\ c.state = u /\ c.count % Block = r
    BY <1>1 DEF Holds
  <2>2. /\ used > 56 => Sha256Final(c) =
              Digest(c.state \o (<<full>> \o <<SubSeq(Fill(0, 56), 1, 56) \o LengthBytes(c.count)>>))
        /\ ~(used > 56) => Sha256Final(c) =
              Digest(c.state \o (<<>> \o <<SubSeq(short, 1, 56) \o LengthBytes(c.count)>>))
    BY ONLY <2>1, FinalExpands
  <2> HIDE DEF u, l, used, full, short
  <2>3. CASE used > 56
    <3>1. last = Fill(0, 56)
      BY <2>3
    <3>2. tail = <<full>> \o <<SubSeq(Fill(0, 56), 1, 56) \o LengthBytes(c.count)>>
      BY <2>1, <2>3, <3>1
    <3> HIDE DEF tail
    <3> QED BY <2>1, <2>2, <2>3, <3>2
  <2>4. CASE ~(used > 56)
    <3>1. last = short
      BY <2>4
    <3>2. tail = <<>> \o <<SubSeq(short, 1, 56) \o LengthBytes(c.count)>>
      BY <2>1, <2>4, <3>1
    <3> HIDE DEF tail
    <3> QED BY <2>1, <2>2, <2>4, <3>2
  <2> QED BY <2>3, <2>4
<1>4. /\ IsSeq(p) /\ Len(p) = l + 1 + z + 8
      /\ \A k \in 1..l : p[k] = data[k]
      /\ p[l + 1] = Byte(128)
      /\ \A k \in 1..z : p[l + 1 + k] = Byte(0)
      /\ \A k \in 1..8 : p[l + 1 + z + k] = bits[k]
  BY PaddedIsSeq
<1>5. Begins(u, p) /\ Len(u) = q
  <2>1. IsCut(u, data)
    BY BlocksAreCut
  <2>2. Len(u) = q /\ IsSeq(u)
    BY <1>1, <2>1 DEF IsCut
  <2> HIDE DEF u, l, q, r, z, p
  <2>3. ASSUME NEW i \in 1..Len(u)
        PROVE  /\ IsSeq(u[i]) /\ Len(u[i]) = Block
               /\ \A k \in 1..Block : u[i][k] = p[64 * (i - 1) + k]
    <3>1. ASSUME NEW k \in 1..Block
          PROVE  u[i][k] = p[64 * (i - 1) + k]
      <4> DEFINE j == 64 * (i - 1) + k
      <4>1. j \in 1..l /\ (i - 1) * Block + k = j
        BY <1>1, <1>2, <2>2
      <4>2. u[i][k] = data[(i - 1) * Block + k]
        BY <2>1 DEF IsCut
      <4> HIDE DEF j
      <4>3. u[i][k] = p[j]
        BY <1>4, <4>1, <4>2
      <4> QED BY <4>3 DEF j
    <3> QED BY <2>1, <3>1 DEF IsCut
  <2> QED BY <2>2, <2>3 DEF Begins
<1> HIDE DEF u
<1>6. /\ IsSeq(marked) /\ Len(marked) = Block
      /\ \A k \in 1..used : marked[k] = p[64 * q + k]
  <2> DEFINE one == <<Byte(128)>>
  <2>1. IsSeq(one) /\ Len(one) = 1 /\ one[1] = Byte(128)
    BY TupleIsSeq
  <2>2. IsSeq(c.buf) /\ Len(c.buf) = Block /\ \A k \in 1..r : c.buf[k] = data[64 * q + k]
    BY DEF Holds
  <2> HIDE DEF one, l, q, r, z, p
  <2>3. r \in 0..Block /\ r + Len(one) <= Block
    BY <1>1, <1>2, <2>1
  <2>4. /\ IsSeq(Copy(c.buf, r, one)) /\ Len(Copy(c.buf, r, one)) = Block
        /\ \A k \in 1..r : Copy(c.buf, r, one)[k] = c.buf[k]
        /\ \A k \in 1..Len(one) : Copy(c.buf, r, one)[r + k] = one[k]
    <3>1. IsSeq(c.buf) /\ Len(c.buf) = Block /\ IsSeq(one) /\ r \in 0..Block /\ r + Len(one) <= Block
      BY <2>1, <2>2, <2>3
    <3> QED BY ONLY <3>1, CopyIsSeq
  <2>5. marked = Copy(c.buf, r, one)
    BY DEF one
  <2> HIDE DEF marked
  <2>6. ASSUME NEW k \in 1..r
        PROVE  marked[k] = p[64 * q + k]
    <3>1. 64 * q + k \in 1..l
      BY <1>1, <1>2
    <3> QED BY <1>4, <2>2, <2>4, <2>5, <3>1
  <2>7. marked[r + 1] = p[64 * q + (r + 1)]
    <3>1. 64 * q + (r + 1) = l + 1
      BY <1>1, <1>2
    <3>2. marked[r + 1] = Byte(128)
      BY <2>1, <2>4, <2>5
    <3> QED BY <1>4, <3>1, <3>2
  <2>8. \A k \in 1..used : k \in 1..r \/ k = r + 1
    BY <1>2
  <2> QED BY <2>4, <2>5, <2>6, <2>7, <2>8
<1> HIDE DEF marked, l, q, r, p, bits
\* Zeros after the mark, n of them.
<1>7. ASSUME NEW n \in 0..(64 - used)
      PROVE  /\ IsSeq(Copy(marked, used, Fill(0, n))) /\ Len(Copy(marked, used, Fill(0, n))) = Block
             /\ n <= z => \A k \in 1..(used + n) : Copy(marked, used, Fill(0, n))[k] = p[64 * q + k]
  <2> DEFINE f == Fill(0, n)
             m == Copy(marked, used, f)
  <2>1. n \in Nat /\ used \in 1..64 /\ n <= 64 - used /\ z \in Nat
    BY <1>2
  <2>2. IsSeq(f) /\ Len(f) = n /\ \A k \in 1..n : f[k] = Byte(0)
    BY <2>1, FillIsSeq
  <2> HIDE DEF f, z, used
  <2>3. used \in 0..Block /\ used + Len(f) <= Block
    BY <1>1, <2>1, <2>2
  <2>4. /\ IsSeq(m) /\ Len(m) = Block
        /\ \A k \in 1..used : m[k] = marked[k]
        /\ \A k \in 1..Len(f) : m[used + k] = f[k]
    <3>1. IsSeq(marked) /\ Len(marked) = Block /\ IsSeq(f) /\ used \in 0..Block /\ used + Len(f) <= Block
      BY <1>6, <2>2, <2>3
    <3> QED BY ONLY <3>1, CopyIsSeq
  <2> HIDE DEF m
  <2>5. ASSUME n <= z, NEW k \in 1..(used + n)
        PROVE  m[k] = p[64 * q + k]
    <3>1. CASE k <= used
      <4>1. k \in 1..used
        BY <2>1, <3>1
      <4> QED BY <1>6, <2>4, <4>1
    <3>2. CASE k > used
      <4> DEFINE j == k - used
      <4>1. j \in 1..n /\ j \in 1..z /\ used + j = k /\ 64 * q + k = l + 1 + j
        BY <1>1, <1>2, <2>1, <2>5, <3>2 DEF used
      <4> HIDE DEF j
      <4> QED BY <1>4, <2>2, <2>4, <4>1
    <3> QED BY <2>1, <3>1, <3>2
  <2> QED BY <2>4, <2>5 DEF m, f
<1>8. IsSeq(last) /\ Len(last) >= 56
  <2>1. CASE used > 56
    <3>1. IsSeq(Fill(0, 56)) /\ Len(Fill(0, 56)) = 56
      <4>1. 56 \in Nat
        OBVIOUS
      <4> QED BY ONLY <4>1, FillIsSeq
    <3>2. last = Fill(0, 56)
      BY <2>1
    <3> HIDE DEF last
    <3>3. IsSeq(last) /\ Len(last) = 56
      BY ONLY <3>1, <3>2
    <3> QED BY ONLY <3>3
  <2>2. CASE ~(used > 56)
    <3>1. 56 - used \in 0..(64 - used)
      BY <1>2, <2>2
    <3>2. IsSeq(short) /\ Len(short) = 64
      BY <1>1, <1>7, <3>1
    <3>3. last = short
      BY <2>2
    <3> HIDE DEF short, last
    <3>4. IsSeq(last) /\ Len(last) = 64
      BY ONLY <3>2, <3>3
    <3> QED BY ONLY <3>4
  <2> QED BY <2>1, <2>2
<1> HIDE DEF last
<1>9. /\ IsSeq(end) /\ Len(end) = Block
      /\ \A k \in 1..56 : end[k] = last[k]
      /\ \A k \in 1..8 : end[56 + k] = bits[k]
  <2>1. Ends(SubSeq(last, 1, 56) \o LengthBytes(l), last, l)
    BY <1>8, LastIsSeq
  <2>2. Ends(end, last, l)
    BY <2>1 DEF bits
  <2> HIDE DEF end
  <2> QED BY <2>2 DEF Ends, bits
<1> HIDE DEF end
<1>10. u \o tail = Blocks(p)
  <2>1. CASE used > 56
    <3>1. z = 119 - r /\ Len(p) = 64 * (q + 2) + 0
      BY <1>1, <1>2, <1>4, <2>1
    <3>2. /\ IsSeq(full) /\ Len(full) = Block
          /\ \A k \in 1..Block : full[k] = p[64 * Len(u) + k]
      <4>1. 64 - used \in 0..(64 - used) /\ 64 - used <= z /\ used + (64 - used) = Block
        BY <1>1, <1>2, <3>1
      <4> QED BY <1>5, <1>7, <4>1
    <3> HIDE DEF full
    <3>3. Begins(u \o <<full>>, p) /\ Len(u \o <<full>>) = q + 1
      <4>1. Begins(u, p) /\ IsSeq(full) /\ Len(full) = Block
        BY <1>5, <3>2
      <4>2. \A k \in 1..Block : full[k] = p[64 * Len(u) + k]
        BY <3>2
      <4>3. Begins(u \o <<full>>, p) /\ Len(u \o <<full>>) = Len(u) + 1
        BY ONLY <4>1, <4>2, OneMoreBlock
      <4> QED BY <1>5, <4>3
    <3>4. \A k \in 1..Block : end[k] = p[64 * (q + 1) + k]
      <4>1. ASSUME NEW k \in 1..56
            PROVE  end[k] = p[64 * (q + 1) + k]
        <5> DEFINE j == 63 - r + k
        <5>1. j \in 1..z /\ 64 * (q + 1) + k = l + 1 + j
          BY <1>1, <1>2, <3>1
        <5>2. last[k] = Byte(0)
          BY <2>1, FillIsSeq DEF last
        <5> HIDE DEF j, z
        <5>3. end[k] = last[k]
          BY <1>9
        <5>4. p[l + 1 + j] = Byte(0)
          BY <1>4, <5>1
        <5> QED BY ONLY <5>1, <5>2, <5>3, <5>4
      <4>2. ASSUME NEW k \in 1..8
            PROVE  end[56 + k] = p[64 * (q + 1) + (56 + k)]
        <5>1. 64 * (q + 1) + (56 + k) = l + 1 + z + k
          BY <1>1, <1>2, <3>1
        <5> HIDE DEF z
        <5>2. end[56 + k] = bits[k]
          BY <1>9
        <5>3. p[l + 1 + z + k] = bits[k]
          BY <1>4
        <5> QED BY ONLY <5>1, <5>2, <5>3
      <4>3. \A k \in 1..Block : k \in 1..56 \/ (k - 56 \in 1..8 /\ 56 + (k - 56) = k)
        BY <1>1
      <4> QED BY <4>1, <4>2, <4>3
    <3> DEFINE v == u \o <<full>>
    <3>5. Begins(v, p) /\ Len(v) = q + 1
      BY <3>3
    <3> HIDE DEF v
    <3>6. Begins(v \o <<end>>, p) /\ Len(v \o <<end>>) = q + 2
      <4>1. \A k \in 1..Block : end[k] = p[64 * Len(v) + k]
        BY <3>4, <3>5
      <4>2. Begins(v \o <<end>>, p) /\ Len(v \o <<end>>) = Len(v) + 1
        <5>1. Begins(v, p) /\ IsSeq(end) /\ Len(end) = Block
          BY <1>9, <3>5
        <5> QED BY ONLY <4>1, <5>1, OneMoreBlock
      <4> QED BY <1>2, <3>5, <4>2
    <3>7. u \o tail = v \o <<end>>
      <4>1. tail = <<full>> \o <<end>>
        BY <2>1
      <4>2. IsSeq(u)
        BY <1>5 DEF Begins
      <4> QED BY <4>1, <4>2, ConcatTwo DEF v
    <3> DEFINE w == u \o tail
    <3>8. Begins(w, p) /\ Len(w) = q + 2
      BY <3>6, <3>7
    <3> HIDE DEF w
    <3>9. Len(p) \div Block = q + 2
      BY <1>1, <1>2, <3>1, DivModOf
    <3>10. IsCut(w, p)
      <4>1. \A i \in 1..Len(w), k \in 1..Block : (i - 1) * Block + k = 64 * (i - 1) + k
        BY <1>1, <1>2, <3>8
      <4> QED BY <3>8, <3>9, <4>1 DEF IsCut, Begins
    <3> QED BY <1>4, <3>10, CutsAreBlocks DEF w
  <2>2. CASE ~(used > 56)
    <3>1. z = 55 - r /\ Len(p) = 64 * (q + 1) + 0 /\ last = short
      <4>1. last = short
        BY <2>2 DEF last
      <4>2. r < 56 /\ z = 55 - r
        BY <1>2, <2>2
      <4>3. Len(p) = l + 1 + (55 - r) + 8
        BY <1>4, <4>2
      <4> QED BY <1>1, <1>2, <4>1, <4>2, <4>3
    <3>2. \A k \in 1..56 : last[k] = p[64 * q + k]
      <4>1. 56 - used \in 0..(64 - used) /\ 56 - used <= z /\ used + (56 - used) = 56
        BY <1>2, <2>2, <3>1
      <4> QED BY <1>7, <3>1, <4>1
    <3> HIDE DEF short
    <3>3. \A k \in 1..Block : end[k] = p[64 * q + k]
      <4>1. \A k \in 1..56 : end[k] = p[64 * q + k]
        BY <1>9, <3>2
      <4>2. ASSUME NEW k \in 1..8
            PROVE  end[56 + k] = p[64 * q + (56 + k)]
        <5>1. 64 * q + (56 + k) = l + 1 + z + k
          BY <1>1, <1>2, <3>1
        <5> HIDE DEF z
        <5>2. end[56 + k] = bits[k]
          BY <1>9
        <5>3. p[l + 1 + z + k] = bits[k]
          BY <1>4
        <5> QED BY ONLY <5>1, <5>2, <5>3
      <4>3. \A k \in 1..Block : k \in 1..56 \/ (k - 56 \in 1..8 /\ 56 + (k - 56) = k)
        BY <1>1
      <4> QED BY <4>1, <4>2, <4>3
    <3>4. Begins(u \o <<end>>, p) /\ Len(u \o <<end>>) = q + 1
      <4>1. \A k \in 1..Block : end[k] = p[64 * Len(u) + k]
        BY <1>5, <3>3
      <4>2. Begins(u \o <<end>>, p) /\ Len(u \o <<end>>) = Len(u) + 1
        <5>1. Begins(u, p) /\ IsSeq(end) /\ Len(end) = Block
          BY <1>5, <1>9
        <5> QED BY ONLY <4>1, <5>1, OneMoreBlock
      <4> QED BY <1>5, <4>2
    <3>5. u \o tail = u \o <<end>>
      <4>1. tail = <<>> \o <<end>>
        BY <2>2
      <4>2. IsSeq(<<end>>)
        BY TupleIsSeq
      <4> QED BY <4>1, <4>2, EmptyConcat
    <3> DEFINE w == u \o tail
    <3>6. Begins(w, p) /\ Len(w) = q + 1
      BY <3>4, <3>5
    <3> HIDE DEF w
    <3>7. Len(p) \div Block = q + 1
      BY <1>1, <1>2, <3>1, DivModOf
    <3>8. IsCut(w, p)
      <4>1. \A i \in 1..Len(w), k \in 1..Block : (i - 1) * Block + k = 64 * (i - 1) + k
        BY <1>1, <1>2, <3>6
      <4> QED BY <3>6, <3>7, <4>1 DEF IsCut, Begins
    <3> QED BY <1>4, <3>8, CutsAreBlocks DEF w
  <2> QED BY <2>1, <2>2
<1> HIDE DEF tail
<1> QED BY <1>3, <1>10 DEF JavaSha256, p
-----------------------------------------------------------------------------
\* hmac_sha256 hashes what FIPS 180-4 says, data taken in at once...
LEMMA Sha256IsHash ==
    ASSUME NEW data, IsSeq(data)
    PROVE  Sha256(data) = JavaSha256(data)
<1> DEFINE c == Sha256Update(Sha256Init, data)
<1>1. IsSeq(<<>>) /\ Len(<<>>) % 64 = 0
  BY TupleIsSeq
<1>2. Holds(c, <<>> \o data)
  BY <1>1, InitHolds, UpdateHolds
<1>3. <<>> \o data = data
  BY EmptyConcat
<1> HIDE DEF c
<1>4. Holds(c, data)
  BY <1>2, <1>3
<1> QED BY <1>4, FinalIsHash DEF Sha256, c

\* ... or a padded key first.
LEMMA TwoUpdatesHash ==
    ASSUME NEW d, IsSeq(d), Len(d) = 64, NEW e, IsSeq(e)
    PROVE  Sha256Final(Sha256Update(Sha256Update(Sha256Init, d), e)) = JavaSha256(d \o e)
<1> DEFINE c == Sha256Update(Sha256Init, d)
           n == Sha256Update(c, e)
           de == d \o e
<1>1. IsSeq(<<>>) /\ Len(<<>>) % 64 = 0
  BY TupleIsSeq
<1>2. Holds(c, <<>> \o d)
  BY <1>1, InitHolds, UpdateHolds
<1>3. <<>> \o d = d
  BY EmptyConcat
<1> HIDE DEF c
<1>4. Holds(c, d) /\ Len(d) % 64 = 0
  BY <1>2, <1>3
<1>5. IsSeq(de) /\ Holds(n, de)
  BY <1>4, UpdateHolds
<1> HIDE DEF n, de
<1>6. Sha256Final(n) = JavaSha256(de)
  BY <1>5, FinalIsHash
<1> QED BY <1>6 DEF n, de, c

\* A key is hashed if it is longer than a block, and padded with zeros.
LEMMA KpadIsPadded ==
    ASSUME NEW key, IsSeq(key)
    PROVE  LET k0 == IF Len(key) > Block THEN JavaSha256(key) ELSE key
           IN Kpad(key) = [k \in 1..Block |-> IF k <= Len(k0) THEN k0[k] ELSE Byte(0)]
<1> DEFINE k0 == IF Len(key) > Block THEN JavaSha256(key) ELSE key
           n == Block - Len(k0)
           f == Fill(0, n)
           padded == k0 \o f
<1>1. Block = 64 /\ Len(key) \in Nat
  BY DEF Block, IsSeq
<1>2. IsSeq(k0) /\ Len(k0) \in 0..64 /\ Kpad(key) = padded
  <2>1. CASE Len(key) > Block
    <3> DEFINE d == JavaSha256(key)
    <3>1. IsSeq(d) /\ Len(d) = 32
      BY DigestIsSeq DEF JavaSha256
    <3>2. Kpad(key) = d \o Fill(0, Block - 32)
      BY <2>1, Sha256IsHash DEF Kpad
    <3>3. k0 = d
      BY <2>1
    <3> HIDE DEF d, k0
    <3>4. IsSeq(k0) /\ Len(k0) = 32
      BY ONLY <3>1, <3>3
    <3>5. Len(k0) \in 0..64
      BY ONLY <3>4
    <3>6. Kpad(key) = padded
      BY <3>2, <3>3, <3>4
    <3> QED BY <3>4, <3>5, <3>6
  <2>2. CASE ~(Len(key) > Block)
    <3>1. k0 = key
      BY <2>2
    <3> HIDE DEF k0
    <3>2. Kpad(key) = key \o Fill(0, Block - Len(key))
      BY <2>2 DEF Kpad
    <3>3. IsSeq(k0) /\ Len(k0) = Len(key)
      BY <3>1
    <3>4. Len(key) \in 0..64
      <4>1. ~(Len(key) > 64)
        BY <1>1, <2>2
      <4>2. \A m \in Nat : ~(m > 64) => m \in 0..64
        OBVIOUS
      <4> QED BY ONLY <1>1, <4>1, <4>2
    <3>5. Kpad(key) = padded
      BY <3>1, <3>2
    <3> QED BY <3>3, <3>4, <3>5
  <2> QED BY <2>1, <2>2
<1> HIDE DEF k0
<1>3. n \in Nat /\ Len(k0) + n = 64
  <2>1. Len(k0) \in 0..64
    BY <1>2
  <2>2. \A m \in 0..64 : 64 - m \in Nat /\ m + (64 - m) = 64
    OBVIOUS
  <2>3. 64 - Len(k0) \in Nat /\ Len(k0) + (64 - Len(k0)) = 64
    BY ONLY <2>1, <2>2
  <2> QED BY <1>1, <2>3
<1> HIDE DEF n
<1>4. IsSeq(f) /\ Len(f) = n /\ \A k \in 1..n : f[k] = Byte(0)
  BY <1>3, FillIsSeq
<1> HIDE DEF f
<1>5. /\ IsSeq(padded) /\ Len(padded) = Len(k0) + Len(f)
      /\ \A k \in 1..Len(k0) : padded[k] = k0[k]
      /\ \A k \in 1..Len(f) : padded[Len(k0) + k] = f[k]
  <2>1. IsSeq(k0) /\ IsSeq(f)
    BY <1>2, <1>4
  <2> QED BY ONLY <2>1, ConcatIsSeq
<1> HIDE DEF padded
<1>6. ASSUME NEW k \in 1..Block
      PROVE  padded[k] = IF k <= Len(k0) THEN k0[k] ELSE Byte(0)
  <2>1. CASE k <= Len(k0)
    <3>1. k \in 1..Len(k0)
      BY <1>1, <1>2, <2>1
    <3> QED BY <1>5, <2>1, <3>1
  <2>2. CASE ~(k <= Len(k0))
    <3> DEFINE j == k - Len(k0)
    <3>1. j \in 1..n /\ Len(k0) + j = k
      BY <1>1, <1>2, <1>3, <2>2
    <3> HIDE DEF j
    <3>2. padded[Len(k0) + j] = f[j] /\ f[j] = Byte(0)
      BY <1>4, <1>5, <3>1
    <3> QED BY <2>2, <3>1, <3>2
  <2> QED BY <2>1, <2>2
<1>7. padded = [k \in 1..Block |-> padded[k]]
  <2>1. Len(padded) = Block
    BY <1>1, <1>3, <1>4, <1>5
  <2>2. padded = [k \in 1..Len(padded) |-> padded[k]]
    BY <1>5 DEF IsSeq
  <2> QED BY <2>1, <2>2
<1>8. padded = [k \in 1..Block |-> IF k <= Len(k0) THEN k0[k] ELSE Byte(0)]
  BY <1>6, <1>7
<1> QED BY <1>2, <1>8 DEF k0

\* The HMAC that auth.h computes by hand is the one that the phone has from
\* javax.crypto, for every key and message.
THEOREM HmacIsJavas ==
    \A key, message : IsSeq(key) /\ IsSeq(message) =>
        HmacSha256(key, message) = JavaHmac(key, message)
<1> SUFFICES ASSUME NEW key, NEW message, IsSeq(key), IsSeq(message)
             PROVE  HmacSha256(key, message) = JavaHmac(key, message)
  OBVIOUS
<1> DEFINE whole == Kpad(key)
           ipad == XorPad(whole, 54)
           opad == XorPad(whole, 92)
           inner == JavaSha256(ipad \o message)
<1>1. IsSeq(whole) /\ Len(whole) = 64
  BY KpadIsSeq DEF Block
<1>2. JavaHmac(key, message) = JavaSha256(opad \o inner)
  BY KpadIsPadded, Zenon DEF JavaHmac
<1> HIDE DEF whole
<1>3. IsSeq(ipad) /\ Len(ipad) = 64 /\ IsSeq(opad) /\ Len(opad) = 64
  BY <1>1, XorPadIsSeq
<1> HIDE DEF ipad, opad
<1>4. IsSeq(inner)
  BY DigestIsSeq DEF JavaSha256
<1>5. Sha256Final(Sha256Update(Sha256Update(Sha256Init, ipad), message)) = inner
  BY <1>3, TwoUpdatesHash
<1> HIDE DEF inner
<1>6. Sha256Final(Sha256Update(Sha256Update(Sha256Init, opad), inner)) = JavaSha256(opad \o inner)
  BY <1>3, <1>4, TwoUpdatesHash
<1>7. HmacSha256(key, message) =
          Sha256Final(Sha256Update(Sha256Update(Sha256Init, opad),
              Sha256Final(Sha256Update(Sha256Update(Sha256Init, ipad), message))))
  BY Zenon DEF HmacSha256, ipad, opad, whole
<1> QED BY <1>2, <1>5, <1>6, <1>7

\* Hexadecimal text is read back as the bytes it was written from.
LEMMA HexReadBack ==
    ASSUME NEW bytes, IsSeq(bytes)
    PROVE  FromHex(ToHex(bytes)) = bytes
<1> DEFINE n == Len(bytes)
           t == ToHex(bytes)
<1>1. n \in Nat /\ bytes = [k \in 1..n |-> bytes[k]]
  BY DEF IsSeq
<1>2. t = [d \in 1..2 * n |-> [half |-> d % 2, of |-> bytes[(d + 1) \div 2]]]
  BY DEF ToHex
<1> HIDE DEF n, t
<1>3. IsSeq(t) /\ Len(t) = 2 * n
  <2>1. t = [d \in 1..2 * n |-> t[d]] /\ 2 * n \in Nat
    BY <1>1, <1>2
  <2> QED BY <2>1, FunctionIsSeq
<1>4. ASSUME NEW d \in 1..2 * n
      PROVE  t[d].half = d % 2 /\ t[d].of = bytes[(d + 1) \div 2]
  BY <1>2
<1>5. ASSUME NEW d \in 1..2 * n, d % 2 = 0
      PROVE  t[d].of = t[d - 1].of
  <2>1. d - 1 \in 1..2 * n /\ (d + 1) \div 2 = (d - 1 + 1) \div 2
    BY <1>1, <1>5
  <2> QED BY <1>4, <2>1
<1>6. ASSUME NEW b \in 1..n
      PROVE  t[2 * b].of = bytes[b]
  <2>1. 2 * b \in 1..2 * n /\ (2 * b + 1) \div 2 = b
    BY <1>1
  <2> QED BY <1>4, <2>1
<1>7. (2 * n) % 2 = 0 /\ (2 * n) \div 2 = n
  BY <1>1
<1>8. FromHex(t) = [b \in 1..n |-> t[2 * b].of]
  <2>1. Len(t) % 2 = 0 /\ Len(t) \div 2 = n
    BY <1>3, <1>7
  <2>2. \A d \in 1..Len(t) : t[d].half = d % 2 /\ (d % 2 = 0 => t[d].of = t[d - 1].of)
    BY <1>3, <1>4, <1>5
  <2> QED BY <2>1, <2>2, Zenon DEF FromHex
<1> QED BY <1>1, <1>6, <1>8 DEF t

-----------------------------------------------------------------------------
(***************************************************************************)
(* Tokens.  The first byte of what is hashed is in the first block, and the *)
(* first byte of the padded key tells the password.                        *)
(***************************************************************************)
\* b is the first byte of password p, padded or hashed and padded.
Tells(b, p) ==
    \/ b = <<"char", p, 1>>
    \/ \E state : b = <<"digest", state, 1>> /\ state[1][1] = <<"char", p, 1>>

\* Such a byte names one password.
LEMMA TellsOne ==
    ASSUME NEW b, NEW p, NEW q, Tells(b, p), Tells(b, q)
    PROVE  p = q
<1>1. \A n, m : <<"char", n, 1>> = <<"char", m, 1>> => n = m
  OBVIOUS
<1>2. \A n, m : <<"digest", n, 1>> = <<"digest", m, 1>> => n = m
  OBVIOUS
<1>3. \A n, m : <<"char", n, 1>> # <<"digest", m, 1>>
  OBVIOUS
<1> QED BY <1>1, <1>2, <1>3 DEF Tells

\* A password has bytes, and the first of them names it.
LEMMA PasswordIsSeq ==
    ASSUME NEW p \in Passwords, p # Empty
    PROVE  IsSeq(Utf8(p)) /\ Len(Utf8(p)) > 0 /\ Utf8(p)[1] = <<"char", p, 1>>
<1>1. Length[p] \in Nat /\ Length[p] > 0
  BY PasswordAssumption
<1>2. Utf8(p) = [k \in 1..Length[p] |-> Utf8(p)[k]]
  BY DEF Utf8
<1>3. IsSeq(Utf8(p)) /\ Len(Utf8(p)) = Length[p]
  BY <1>1, <1>2, FunctionIsSeq
<1>4. Utf8(p)[1] = <<"char", p, 1>>
  <2>1. 1 \in 1..Length[p]
    BY <1>1
  <2> QED BY <2>1, Zenon DEF Utf8
<1> QED BY <1>1, <1>3, <1>4

\* The first byte of the padded key.
LEMMA ObsKeyTells ==
    ASSUME NEW p \in Passwords, p # Empty
    PROVE  Tells(Kpad(Utf8(p))[1], p)
<1> DEFINE key == Utf8(p)
<1>1. IsSeq(key) /\ Len(key) > 0 /\ key[1] = <<"char", p, 1>> /\ Block = 64 /\ Len(key) \in Nat
  BY PasswordIsSeq DEF Block, IsSeq
<1> HIDE DEF key
<1>2. CASE Len(key) > Block
  <2>1. PICK state : Sha256(key) = Digest(state) /\ state[1][1] = key[1]
    BY <1>1, <1>2, Sha256KeepsFirst
  <2> DEFINE d == Digest(state)
             f == Fill(0, 32)
  <2>2. Kpad(key) = d \o f
    BY <1>1, <1>2, <2>1 DEF Kpad
  <2>3. IsSeq(d) /\ Len(d) > 0 /\ d[1] = <<"digest", state, 1>>
    BY DigestIsSeq
  <2>4. IsSeq(f)
    BY FillIsSeq
  <2> HIDE DEF d, f
  <2>5. Kpad(key)[1] = d[1]
    BY <2>2, <2>3, <2>4, FirstOfConcat
  <2> QED BY <1>1, <2>1, <2>3, <2>5 DEF Tells, key
<1>3. CASE ~(Len(key) > Block)
  <2> DEFINE n == Block - Len(key)
             f == Fill(0, n)
  <2>1. Kpad(key) = key \o f /\ n \in Nat
    BY <1>1, <1>3 DEF Kpad
  <2> HIDE DEF n
  <2>2. IsSeq(f)
    BY <2>1, FillIsSeq
  <2> HIDE DEF f
  <2>3. Kpad(key)[1] = key[1]
    BY <1>1, <2>1, <2>2, FirstOfConcat
  <2> QED BY <1>1, <2>3 DEF Tells, key
<1> QED BY <1>2, <1>3

\* The challenge, which comes as hexadecimal text.
LEMMA ChallengeReadBack == IsSeq(Challenge) /\ FromHex(ToHex(Challenge)) = Challenge
<1>1. Challenge = [k \in 1..32 |-> Challenge[k]] /\ 32 \in Nat
  BY DEF Challenge
<1>2. IsSeq(Challenge)
  BY <1>1, FunctionIsSeq
<1> QED BY <1>2, HexReadBack

\* A token that one side accepts was computed with the password that it has.
LEMMA TokensDiffer ==
    ASSUME NEW p \in Passwords, NEW q \in Passwords, p # Empty, q # Empty, <<p, q>> \in Equal
    PROVE  p = q
<1>1. PhoneHmac[q] = ObsHmac[p]
  BY DEF Equal
<1>2. IsSeq(Challenge) /\ FromHex(ToHex(Challenge)) = Challenge
  BY ChallengeReadBack
<1>3. JavaHmac(Utf8(q), Challenge) = HmacSha256(Utf8(q), Challenge)
  BY <1>2, PasswordIsSeq, HmacIsJavas
<1>4. ToHex(HmacSha256(Utf8(q), Challenge)) = ToHex(HmacSha256(Utf8(p), Challenge))
  BY <1>1, <1>2, <1>3 DEF PhoneHmac, ObsHmac
<1>5. PICK mine : /\ HmacSha256(Utf8(p), Challenge) = Digest(mine)
                  /\ mine[1][1] = Xor(Kpad(Utf8(p))[1], 92)
  BY <1>2, HmacKeepsKey, PasswordIsSeq
<1>6. PICK theirs : /\ HmacSha256(Utf8(q), Challenge) = Digest(theirs)
                    /\ theirs[1][1] = Xor(Kpad(Utf8(q))[1], 92)
  BY <1>2, HmacKeepsKey, PasswordIsSeq
<1>7. ToHex(Digest(theirs)) = ToHex(Digest(mine))
  BY <1>4, <1>5, <1>6
<1>8. Digest(theirs) = Digest(mine)
  <2>1. IsSeq(Digest(theirs)) /\ IsSeq(Digest(mine))
    BY DigestIsSeq
  <2> QED BY <1>7, <2>1, HexReadBack
<1>9. mine = theirs
  BY <1>8, DigestIsSeq
<1>10. Kpad(Utf8(p))[1] = Kpad(Utf8(q))[1]
  BY <1>5, <1>6, <1>9 DEF Xor
<1> QED BY <1>10, ObsKeyTells, TellsOne

\* A token is accepted, on either side, if and only if it was computed with the
\* password of that side: constTimeEqual over the two implementations.
THEOREM TokensAgree ==
    \A p, q \in Passwords \ {Empty} : <<p, q>> \in Equal <=> p = q
<1>1. ASSUME NEW p \in Passwords \ {Empty}
      PROVE  <<p, p>> \in Equal
  <2>1. IsSeq(Utf8(p))
    BY PasswordIsSeq
  <2>2. IsSeq(Challenge) /\ FromHex(ToHex(Challenge)) = Challenge
    BY ChallengeReadBack
  <2>3. HmacSha256(Utf8(p), Challenge) = JavaHmac(Utf8(p), Challenge)
    BY <2>1, <2>2, HmacIsJavas
  <2>4. PhoneHmac[p] = ObsHmac[p]
    BY <2>2, <2>3 DEF PhoneHmac, ObsHmac
  <2> QED BY <2>4 DEF Equal
<1> QED BY <1>1, TokensDiffer

-----------------------------------------------------------------------------
(***************************************************************************)
(* Types.                                                                  *)
(***************************************************************************)
\* What TypeOK does not say: the fields of what is under way, and of the service.
Requests == {Request(p, s, PhoneNow) : p \in Passwords, s \in 0..MaxCalls}
Answers == {Answer(ip, p, ObsNow) : ip \in Addresses, p \in Passwords}
Calls == [n : 1..MaxCalls, ip : Addresses, salt : 0..MaxCalls, password : Passwords]
Shakes == [password : Passwords, at : {"waits", "locked", "open"}]
Links == [password : Passwords, at : {"send", "tear", "join"}]
Senders == {NoContext} \cup [context : {NoContext} \cup [session : Keys]]
Services == [state : {"none", "starting", "streaming"}, ip : Addresses, password : Passwords,
             salt : 0..MaxCalls, known : BOOLEAN, sender : Senders]

PhoneTypes ==
    /\ phonePw \in Passwords /\ wants \in BOOLEAN /\ streaming \in BOOLEAN /\ auto \in BOOLEAN
    /\ target \in Addresses /\ calls \subseteq Calls
    /\ called \in 0..MaxCalls /\ phoneSalt \in 0..MaxCalls
StreamTypes ==
    /\ job \in Addresses \cup {Nothing} /\ redirect \in Addresses \cup {Nothing}
    /\ service \in Services
NetTypes == requests \in Seq(Requests) /\ answers \in Seq(Answers)
ObsTypes ==
    /\ password \in Passwords /\ serverPw \in Passwords /\ saltHex \in 0..MaxCalls
    /\ listen \in [at : {"accept", "stop", "start"}, password : Passwords]
    /\ shakes \in Seq(Shakes) /\ link \in Links \cup {Nothing}
    /\ running \in BOOLEAN /\ network \in {"none", "runs", "ended"} /\ audio \in BOOLEAN
    /\ reconnecting \in {"no", "waits", "locked"} /\ updating \in BOOLEAN
SessionTypes ==
    /\ audioSrtp \in Sessions /\ videoSrtp \in Sessions /\ srtpSet \in BOOLEAN
    /\ audioSrtp.active <=> audioSrtp.session # NoKey
    /\ videoSrtp.active <=> videoSrtp.session # NoKey
OutTypes ==
    /\ picture \in {"none", "clear", "noise"} /\ sound \in {"none", "clear", "noise"}
    /\ failed \in BOOLEAN /\ taken \in BOOLEAN /\ ahead \in BOOLEAN /\ adapters \in Hosts

Types == PhoneTypes /\ StreamTypes /\ NetTypes /\ ObsTypes /\ SessionTypes /\ OutTypes

LEMMA TypesGiveTypeOK == Types => TypeOK
<1> SUFFICES ASSUME Types PROVE TypeOK
  OBVIOUS
<1> USE DEF Types, PhoneTypes, StreamTypes, ObsTypes, SessionTypes, OutTypes
<1>1. {target, service.ip} \subseteq Addresses /\ service.salt \in 0..MaxCalls
      /\ service.state \in {"none", "starting", "streaming"}
  BY DEF Services
<1>2. {wants, streaming, auto, running, audio, updating, srtpSet, failed, taken, ahead}
         \subseteq BOOLEAN
  BY Zenon
<1>3. \A s \in {audioSrtp, videoSrtp} : s.active <=> s.session # NoKey
  BY Zenon
<1> QED BY <1>1, <1>2, <1>3 DEF TypeOK, Calls, Shakes, Links

\* Constants that the steps assign.
LEMMA AddressFacts ==
    /\ Lan \in Addresses /\ "default" \in Addresses /\ Empty \in Addresses
    /\ Empty \in Passwords /\ 0 \in 0..MaxCalls /\ Nothing \notin Addresses
    /\ Nothing \notin Links /\ NoKey \notin Keys
    /\ \A h \in Hosts : BestLocalIp(h) \in Addresses
<1> HIDE DEF Addresses
<1>1. /\ Lan \in Addresses /\ "default" \in Addresses /\ Empty \in Addresses
      /\ Nothing \notin Addresses
      /\ \A h \in Hosts : BestLocalIp(h) \in Addresses
  BY KeyAssumption, Zenon DEF Addresses
<1> QED BY <1>1, KeyAssumption DEF Links, Keys

LEMMA NoServiceType == NoService \in Services
BY AddressFacts DEF NoService, Services, Senders

LEMMA InitTypes == Init => Types
<1> SUFFICES ASSUME Init PROVE Types
  OBVIOUS
<1>1. PhoneTypes /\ StreamTypes
  BY AddressFacts, NoServiceType DEF Init, PhoneTypes, StreamTypes
<1>2. NetTypes
  BY DEF Init, NetTypes
<1>3. ObsTypes
  <2>1. [at |-> "accept", password |-> Empty] \in [at : {"accept", "stop", "start"}, password : Passwords]
    BY AddressFacts
  <2>2. <<>> \in Seq(Shakes)
    OBVIOUS
  <2>3. serverPw \in Passwords
    BY DEF Init
  <2> QED BY <2>1, <2>2, <2>3, AddressFacts DEF Init, ObsTypes
<1>4. SessionTypes /\ OutTypes
  BY DEF Init, SessionTypes, OutTypes, NewSession, Sessions
<1> QED BY <1>1, <1>2, <1>3, <1>4 DEF Types

\* Keys and senders of a password and a salt.
LEMMA KeysDerived ==
    ASSUME NEW p \in Passwords, NEW s \in 0..MaxCalls
    PROVE  /\ DeriveKeys(p, s) \in Keys
           /\ Started(p, s) \in Sessions /\ (Started(p, s).active <=> Started(p, s).session # NoKey)
           /\ Stopped \in Sessions /\ (Stopped.active <=> Stopped.session # NoKey)
<1>1. DeriveKeys(p, s) \in Keys
  BY DEF DeriveKeys, Keys
<1> QED BY <1>1, AddressFacts DEF Started, Stopped, Sessions

LEMMA SenderType ==
    ASSUME NEW s \in Services
    PROVE  CreateRtpSender(s) \in Senders
<1>1. DeriveKeys(s.password, s.salt) \in Keys
  BY KeysDerived DEF Services
<1> QED BY <1>1 DEF CreateRtpSender, InitContext, Senders

-----------------------------------------------------------------------------
LEMMA UnchangedTypes ==
    ASSUME Types
    PROVE  /\ UNCHANGED pside => PhoneTypes'
           /\ UNCHANGED <<job, redirect, service>> => StreamTypes'
           /\ UNCHANGED <<requests, answers, skew>> => NetTypes'
           /\ UNCHANGED <<password, serverPw, saltHex, threads>> => ObsTypes'
           /\ UNCHANGED srtp => SessionTypes'
           /\ UNCHANGED <<picture, sound, failed, adapters, history>> => OutTypes'
<1> USE DEF Types
<1>1. UNCHANGED pside => PhoneTypes'
  BY DEF pside, PhoneTypes
<1>2. UNCHANGED <<job, redirect, service>> => StreamTypes'
  BY DEF StreamTypes
<1>3. UNCHANGED <<requests, answers, skew>> => NetTypes'
  BY DEF NetTypes, Answers, ObsNow
<1>4. UNCHANGED <<password, serverPw, saltHex, threads>> => ObsTypes'
  BY DEF threads, ObsTypes
<1>5. UNCHANGED srtp => SessionTypes'
  BY DEF srtp, SessionTypes
<1>6. UNCHANGED <<picture, sound, failed, adapters, history>> => OutTypes'
  BY DEF OutTypes, history
<1> QED BY <1>1, <1>2, <1>3, <1>4, <1>5, <1>6

\* One lemma per party: its actions keep the types.
LEMMA PhoneTypesStep ==
    ASSUME Types,
           \/ StartStreaming \/ UpdateIp \/ StopStreaming
           \/ \E p \in Passwords : UpdatePassword(p)
           \/ \E c \in calls : Connect(c) \/ SendRequest(c) \/ CallFails(c)
    PROVE  Types'
<1> USE DEF Types
<1>0. MaxCalls \in Nat
  BY KeyAssumption
<1>1. ASSUME NEW ip \in Addresses, Call(ip)
      PROVE  calls' \subseteq Calls /\ called' \in 0..MaxCalls
  BY <1>0, <1>1, AddressFacts DEF Call, PhoneTypes, Calls
<1>2. CASE StartStreaming
  <2>1. PhoneTypes'
    BY <1>1, <1>2, AddressFacts DEF StartStreaming, PhoneTypes
  <2>2. OutTypes'
    <3>1. taken' \in BOOLEAN /\ failed' \in BOOLEAN
      BY <1>2, Zenon DEF StartStreaming
    <3> QED BY <1>2, <3>1 DEF StartStreaming, OutTypes, heard
  <2>3. UNCHANGED <<job, redirect, service, net, obs, skew>>
    BY <1>2 DEF StartStreaming
  <2> QED BY <2>1, <2>2, <2>3, UnchangedTypes DEF net, obs
<1>3. CASE UpdateIp
  <2>1. PhoneTypes'
    BY <1>1, <1>3, AddressFacts DEF UpdateIp, PhoneTypes
  <2>2. UNCHANGED <<job, redirect, service, net, obs, heard, skew, adapters, failed>>
    BY <1>3 DEF UpdateIp
  <2>3. OutTypes'
    BY <1>3, <2>2 DEF UpdateIp, OutTypes, heard
  <2> QED BY <2>1, <2>2, <2>3, UnchangedTypes DEF net, obs
<1>4. CASE StopStreaming
  <2>1. PhoneTypes'
    BY <1>4 DEF StopStreaming, PhoneTypes
  <2>2. StreamTypes' /\ OutTypes'
    BY <1>4, NoServiceType DEF StopStreaming, StreamTypes, OutTypes
  <2>3. UNCHANGED <<net, obs, skew>>
    BY <1>4 DEF StopStreaming
  <2> QED BY <2>1, <2>2, <2>3, UnchangedTypes DEF net, obs
<1>5. ASSUME NEW p \in Passwords, UpdatePassword(p)
      PROVE  Types'
  <2>1. PhoneTypes'
    BY <1>5 DEF UpdatePassword, PhoneTypes
  <2>2. UNCHANGED <<job, redirect, service, net, obs, heard, skew, adapters, failed, history>>
    BY <1>5 DEF UpdatePassword
  <2> QED BY <2>1, <2>2, UnchangedTypes DEF net, obs, heard
<1>6. ASSUME NEW c \in calls, Connect(c)
      PROVE  Types'
  <2>1. PhoneTypes'
    <3>1. c \in Calls /\ c.n \in 0..MaxCalls
      BY <1>0 DEF PhoneTypes, Calls
    <3>2. [c EXCEPT !.salt = c.n, !.password = phonePw] \in Calls
      BY <3>1 DEF PhoneTypes, Calls
    <3> QED BY <1>6, <3>1, <3>2 DEF Connect, PhoneTypes
  <2>2. UNCHANGED <<job, redirect, service, net, obs, heard, env>>
    BY <1>6 DEF Connect
  <2> QED BY <2>1, <2>2, UnchangedTypes DEF net, obs, heard, env
<1>7. ASSUME NEW c \in calls, SendRequest(c)
      PROVE  Types'
  <2>1. PhoneTypes'
    BY <1>7 DEF SendRequest, PhoneTypes
  <2>2. NetTypes'
    <3>1. c \in Calls
      BY DEF PhoneTypes
    <3>2. Request(c.password, c.salt, PhoneNow) \in Requests
      BY <3>1 DEF Requests, Calls
    <3>3. requests' \in Seq(Requests)
      BY <1>7, <3>2 DEF SendRequest, NetTypes
    <3> QED BY <1>7, <3>3 DEF SendRequest, NetTypes, Answers, ObsNow, env
  <2>3. UNCHANGED <<job, redirect, service, obs, heard, env>>
    BY <1>7 DEF SendRequest
  <2> QED BY <2>1, <2>2, <2>3, UnchangedTypes DEF obs, heard, env
<1>8. ASSUME NEW c \in calls, CallFails(c)
      PROVE  Types'
  <2>1. PhoneTypes' /\ OutTypes'
    BY <1>8 DEF CallFails, PhoneTypes, OutTypes, heard, history
  <2>2. UNCHANGED <<job, redirect, service, net, obs, skew>>
    BY <1>8 DEF CallFails
  <2> QED BY <2>1, <2>2, UnchangedTypes DEF net, obs
<1> QED BY <1>2, <1>3, <1>4, <1>5, <1>6, <1>7, <1>8

LEMMA HeadTail ==
    ASSUME NEW S, NEW s \in Seq(S), s # <<>>
    PROVE  Head(s) \in S /\ Tail(s) \in Seq(S)
OBVIOUS

LEMMA StreamTypesStep ==
    ASSUME Types,
           HandleClient \/ HandshakeJob \/ ServiceStarts \/ ServiceConnected \/ Poll \/ RedirectStream
    PROVE  Types'
<1> USE DEF Types
<1>1. CASE HandleClient
  <2>1. Head(answers) \in Answers /\ Tail(answers) \in Seq(Answers)
    BY <1>1, HeadTail DEF HandleClient, NetTypes
  <2>2. Head(answers).ip \in Addresses
    BY <2>1 DEF Answers, Answer
  <2>3. job' \in Addresses \cup {Nothing} /\ answers' \in Seq(Answers)
    BY <1>1, <2>1, <2>2 DEF HandleClient, StreamTypes
  <2>4. UNCHANGED <<pside, service, redirect, requests, obs, heard, env>>
    BY <1>1 DEF HandleClient
  <2>5. StreamTypes'
    BY <2>3, <2>4 DEF StreamTypes
  <2>6. NetTypes'
    BY <2>3, <2>4 DEF NetTypes, Answers, ObsNow, env
  <2> QED BY <2>4, <2>5, <2>6, UnchangedTypes DEF obs, heard, env
<1>2. CASE HandshakeJob
  <2>1. job \in Addresses
    BY <1>2 DEF HandshakeJob, StreamTypes
  <2>2. LaunchStream(job) \in Services
    BY <2>1 DEF LaunchStream, Services, StreamTypes, PhoneTypes
  <2>3. PhoneTypes' /\ StreamTypes'
    <3>1. UNCHANGED <<phonePw, wants, streaming, auto, calls, called, phoneSalt>>
      BY <1>2 DEF HandshakeJob
    <3>2. target' \in Addresses /\ redirect' \in Addresses \cup {Nothing} /\ service' \in Services
      BY <1>2, <2>1, <2>2 DEF HandshakeJob, PhoneTypes, StreamTypes
    <3>3. job' = Nothing
      BY <1>2 DEF HandshakeJob
    <3> QED BY <3>1, <3>2, <3>3 DEF PhoneTypes, StreamTypes
  <2>4. UNCHANGED <<net, obs, heard, skew, adapters, failed, taken>>
    BY <1>2 DEF HandshakeJob
  <2>5. OutTypes'
    <3>1. ahead' \in BOOLEAN
      BY <1>2, Zenon DEF HandshakeJob, OutTypes
    <3> QED BY <2>4, <3>1 DEF OutTypes, heard
  <2> QED BY <2>3, <2>4, <2>5, UnchangedTypes DEF net, obs
<1>3. CASE ServiceStarts
  <2>1. CreateRtpSender(service) \in Senders
    BY SenderType DEF StreamTypes
  <2>2. StreamTypes'
    BY <1>3, <2>1 DEF ServiceStarts, StreamTypes, Services
  <2>3. UNCHANGED <<pside, net, obs, heard, env>>
    BY <1>3 DEF ServiceStarts
  <2> QED BY <2>2, <2>3, UnchangedTypes DEF net, obs, heard, env
<1>4. CASE ServiceConnected
  <2>1. StreamTypes'
    BY <1>4 DEF ServiceConnected, StreamTypes, Services
  <2>2. UNCHANGED <<pside, net, obs, heard, env>>
    BY <1>4 DEF ServiceConnected
  <2> QED BY <2>1, <2>2, UnchangedTypes DEF net, obs, heard, env
<1>5. CASE Poll
  <2>1. PhoneTypes'
    BY <1>5 DEF Poll, PhoneTypes
  <2>2. UNCHANGED <<job, redirect, service, net, obs, heard, env>>
    BY <1>5 DEF Poll
  <2> QED BY <2>1, <2>2, UnchangedTypes DEF net, obs, heard, env
<1>6. CASE RedirectStream
  <2>1. CreateRtpSender(service) \in Senders /\ redirect \in Addresses
    BY <1>6, SenderType DEF StreamTypes, RedirectStream
  <2>2. StreamTypes'
    BY <1>6, <2>1 DEF RedirectStream, StreamTypes, Services
  <2>3. UNCHANGED <<pside, net, obs, heard, env>>
    BY <1>6 DEF RedirectStream
  <2> QED BY <2>2, <2>3, UnchangedTypes DEF net, obs, heard, env
<1> QED BY <1>1, <1>2, <1>3, <1>4, <1>5, <1>6
LEMMA ListenTypesStep ==
    ASSUME Types, ListenLoop \/ StopSessions \/ StartSessions
    PROVE  Types'
<1> USE DEF Types
<1>1. CASE ListenLoop
  <2>1. Head(requests) \in Requests /\ Tail(requests) \in Seq(Requests)
    BY <1>1, HeadTail DEF ListenLoop, NetTypes
  <2>2. Head(requests).salt \in 0..MaxCalls
    BY <2>1 DEF Requests, Request
  <2>3. UNCHANGED <<phone, answers, password, serverPw, shakes, link, network, audio,
                    reconnecting, updating, srtp, heard, env>>
    BY <1>1 DEF ListenLoop
  <2>4. NetTypes'
    BY <1>1, <2>1, <2>3 DEF ListenLoop, NetTypes, Answers, ObsNow, env
  <2>5. /\ saltHex' \in 0..MaxCalls /\ running' \in BOOLEAN
        /\ listen' \in [at : {"accept", "stop", "start"}, password : Passwords]
    BY <1>1, <2>2 DEF ListenLoop, RequestReceived, ObsTypes
  <2>6. ObsTypes'
    BY <2>3, <2>5 DEF ObsTypes
  <2> QED BY <2>3, <2>4, <2>6, UnchangedTypes DEF phone, heard, env
<1>2. CASE StopSessions
  <2>1. UNCHANGED <<phone, net, password, serverPw, saltHex, shakes, link, running, network,
                    audio, reconnecting, updating, srtpSet, heard, env>>
    BY <1>2 DEF StopSessions
  <2>2. listen' \in [at : {"accept", "stop", "start"}, password : Passwords]
    BY <1>2 DEF StopSessions, ObsTypes
  <2>3. ObsTypes'
    BY <2>1, <2>2 DEF ObsTypes
  <2>4. SessionTypes'
    BY <1>2, <2>1, KeysDerived, AddressFacts DEF StopSessions, SessionTypes
  <2> QED BY <2>1, <2>3, <2>4, UnchangedTypes DEF phone, net, heard, env
<1>3. CASE StartSessions
  <2>1. UNCHANGED <<phone, net, password, serverPw, saltHex, link, running, network, audio,
                    reconnecting, updating, heard, skew, adapters, failed, ahead>>
    BY <1>3 DEF StartSessions
  <2>2. /\ listen' \in [at : {"accept", "stop", "start"}, password : Passwords]
        /\ shakes' \in Seq(Shakes)
    <3>1. NewShake \in Shakes
      BY DEF NewShake, ObsTypes, Shakes
    <3>2. listen' = [at |-> "accept", password |-> Empty]
      BY <1>3 DEF StartSessions
    <3> QED BY <1>3, <3>1, <3>2, AddressFacts DEF StartSessions, ObsTypes
  <2>3. ObsTypes'
    BY <2>1, <2>2 DEF ObsTypes
  <2>4. SessionTypes'
    <3>1. listen.password \in Passwords /\ saltHex \in 0..MaxCalls
      BY DEF ObsTypes
    <3>2. CASE listen.password # Empty /\ saltHex # 0
      <4>1. /\ audioSrtp' = Started(listen.password, saltHex)
            /\ videoSrtp' = Started(listen.password, saltHex) /\ srtpSet' = TRUE
        BY <1>3, <3>2 DEF StartSessions
      <4> QED BY <3>1, <4>1, KeysDerived DEF SessionTypes
    <3>3. CASE ~(listen.password # Empty /\ saltHex # 0)
      <4>1. UNCHANGED <<audioSrtp, videoSrtp>> /\ srtpSet' = FALSE
        BY <1>3, <3>3 DEF StartSessions
      <4> QED BY <4>1 DEF SessionTypes
    <3> QED BY <3>2, <3>3
  <2>5. OutTypes'
    BY <1>3, <2>1 DEF StartSessions, OutTypes, heard
  <2> QED BY <2>1, <2>3, <2>4, <2>5, UnchangedTypes DEF phone, net
<1> QED BY <1>1, <1>2, <1>3

LEMMA AnswerType ==
    ASSUME Types, NEW p \in Passwords, Send(p), UNCHANGED env
    PROVE  answers' \in Seq(Answers) /\ Answers' = Answers
<1>1. BestLocalIp(adapters) \in Addresses
  BY AddressFacts DEF Types, OutTypes
<1>2. Answer(BestLocalIp(adapters), p, ObsNow) \in Answers
  BY <1>1 DEF Answers
<1>3. Answers' = Answers
  BY DEF Answers, env, ObsNow
<1> QED BY <1>2, <1>3 DEF Send, Types, NetTypes

LEMMA ShakeTypesStep ==
    ASSUME Types, ShakeLocks \/ ShakeOpens \/ ShakeOpenFails \/ ShakeSends \/ ShakeSendFails
    PROVE  Types'
<1> USE DEF Types
<1>0. shakes # <<>> /\ Head(shakes) \in Shakes /\ Tail(shakes) \in Seq(Shakes)
  BY HeadTail DEF ShakeLocks, ShakeOpens, ShakeOpenFails, ShakeSends, ShakeSendFails, ShakeIs,
                  ObsTypes
<1>1. ASSUME NEW at \in {"waits", "locked", "open"}, ShakeGoesTo(at)
      PROVE  shakes' \in Seq(Shakes)
  <2>1. [Head(shakes) EXCEPT !.at = at] \in Shakes
    BY <1>0 DEF Shakes
  <2>2. shakes' = <<[Head(shakes) EXCEPT !.at = at]>> \o Tail(shakes)
    BY <1>1 DEF ShakeGoesTo
  <2> HIDE DEF Shakes
  <2> QED BY <1>0, <2>1, <2>2
<1>2. CASE ShakeLocks
  <2>1. UNCHANGED <<phone, net, password, serverPw, saltHex, listen, link, running, network,
                    audio, reconnecting, updating, srtp, heard, env>>
    BY <1>2 DEF ShakeLocks
  <2>2. shakes' \in Seq(Shakes)
    BY <1>1, <1>2 DEF ShakeLocks
  <2>3. ObsTypes'
    BY <2>1, <2>2 DEF ObsTypes
  <2> QED BY <2>1, <2>3, UnchangedTypes DEF phone, net, heard, env
<1>3. CASE ShakeOpens
  <2>1. UNCHANGED <<phone, net, password, serverPw, saltHex, listen, link, reconnecting,
                    updating, srtp, heard, env>>
    BY <1>3 DEF ShakeOpens
  <2>2. /\ running' \in BOOLEAN /\ network' \in {"none", "runs", "ended"} /\ audio' \in BOOLEAN
        /\ shakes' \in Seq(Shakes)
    BY <1>1, <1>3 DEF ShakeOpens, Open, AudioBinds
  <2>3. ObsTypes'
    BY <2>1, <2>2 DEF ObsTypes
  <2> QED BY <2>1, <2>3, UnchangedTypes DEF phone, net, heard, env
<1>4. CASE ShakeOpenFails
  <2>1. UNCHANGED <<phone, net, password, serverPw, saltHex, listen, link, running, audio,
                    reconnecting, updating, srtp, heard, skew, adapters, edits, history>>
    BY <1>4 DEF ShakeOpenFails
  <2>2. shakes' \in Seq(Shakes) /\ network' = "none" /\ failed' \in BOOLEAN
    BY <1>0, <1>4 DEF ShakeOpenFails
  <2>3. ObsTypes' /\ OutTypes'
    BY <2>1, <2>2 DEF ObsTypes, OutTypes, heard, history
  <2> QED BY <2>1, <2>3, UnchangedTypes DEF phone, net
<1>5. CASE ShakeSends
  <2>1. UNCHANGED <<phone, requests, password, serverPw, saltHex, listen, link, running,
                    network, audio, reconnecting, updating, srtp, heard, env>>
    BY <1>5 DEF ShakeSends
  <2>2. shakes' \in Seq(Shakes)
    BY <1>0, <1>5 DEF ShakeSends
  <2>3. ObsTypes'
    BY <2>1, <2>2 DEF ObsTypes
  <2>4. answers' \in Seq(Answers) /\ Answers' = Answers
    BY <1>0, <1>5, <2>1, AnswerType DEF ShakeSends, Shakes
  <2>5. NetTypes'
    BY <2>1, <2>4 DEF NetTypes
  <2> QED BY <2>1, <2>3, <2>5, UnchangedTypes DEF phone, heard, env
<1>6. CASE ShakeSendFails
  <2>1. UNCHANGED <<phone, net, password, serverPw, saltHex, listen, link, running, network,
                    audio, reconnecting, updating, srtp, heard, skew, adapters, edits, history>>
    BY <1>6 DEF ShakeSendFails
  <2>2. shakes' \in Seq(Shakes) /\ failed' \in BOOLEAN
    BY <1>0, <1>6 DEF ShakeSendFails
  <2>3. ObsTypes' /\ OutTypes'
    BY <2>1, <2>2 DEF ObsTypes, OutTypes, heard, history
  <2> QED BY <2>1, <2>3, UnchangedTypes DEF phone, net
<1> QED BY <1>2, <1>3, <1>4, <1>5, <1>6

LEMMA ReconnectTypesStep ==
    ASSUME Types, NetworkThreadEnds \/ ReconnectLocks \/ Reconnect
    PROVE  Types'
<1> USE DEF Types
<1>1. UNCHANGED <<phone, net, password, serverPw, saltHex, listen, shakes, link, audio,
                  updating, srtp, heard, env>>
  BY DEF NetworkThreadEnds, ReconnectLocks, Reconnect
<1>2. /\ running' \in BOOLEAN /\ network' \in {"none", "runs", "ended"}
      /\ reconnecting' \in {"no", "waits", "locked"}
  BY DEF NetworkThreadEnds, ReconnectLocks, Reconnect, ObsTypes
<1>3. ObsTypes'
  BY <1>1, <1>2 DEF ObsTypes
<1> QED BY <1>1, <1>3, UnchangedTypes DEF phone, net, heard, env

LEMMA LinkTypesStep ==
    ASSUME Types, Discovered \/ LinkSends \/ LinkSendFails \/ LinkTearsDown
    PROVE  Types'
<1> USE DEF Types
<1>1. CASE Discovered
  <2>1. UNCHANGED <<phone, requests, password, serverPw, saltHex, listen, shakes, reconnecting,
                    updating, srtp, heard, env>>
    BY <1>1 DEF Discovered
  <2>2. /\ running' \in BOOLEAN /\ network' \in {"none", "runs", "ended"} /\ audio' \in BOOLEAN
        /\ link' \in Links \cup {Nothing}
    <3>1. CASE UNCHANGED <<link, running, network, audio>>
      BY <3>1 DEF ObsTypes
    <3>2. CASE /\ Open
               /\ link' = [password |-> password, at |-> IF shakes = <<>> THEN "send" ELSE "join"]
      BY <3>2 DEF Open, AudioBinds, ObsTypes, Links
    <3> QED BY <1>1, <3>1, <3>2 DEF Discovered
  <2>3. answers' \in Seq(Answers) /\ Answers' = Answers
    <3>1. CASE Send(password)
      BY <2>1, <3>1, AnswerType DEF ObsTypes
    <3>2. CASE UNCHANGED answers
      BY <2>1, <3>2 DEF NetTypes, Answers, env, ObsNow
    <3> QED BY <1>1, <3>1, <3>2 DEF Discovered
  <2>4. ObsTypes' /\ NetTypes'
    BY <2>1, <2>2, <2>3 DEF ObsTypes, NetTypes
  <2> QED BY <2>1, <2>4, UnchangedTypes DEF phone, heard, env
<1>2. CASE LinkSends
  <2>1. UNCHANGED <<phone, requests, password, serverPw, saltHex, listen, shakes, running,
                    network, audio, reconnecting, updating, srtp, heard, env>>
    BY <1>2 DEF LinkSends
  <2>2. link.password \in Passwords /\ link' = Nothing
    BY <1>2 DEF LinkSends, LinkIs, ObsTypes, Links
  <2>3. answers' \in Seq(Answers) /\ Answers' = Answers
    BY <1>2, <2>1, <2>2, AnswerType DEF LinkSends
  <2>4. NetTypes' /\ ObsTypes'
    BY <2>1, <2>2, <2>3 DEF NetTypes, ObsTypes
  <2> QED BY <2>1, <2>4, UnchangedTypes DEF phone, heard, env
<1>3. CASE LinkSendFails
  <2>1. UNCHANGED <<phone, net, password, serverPw, saltHex, listen, shakes, running, network,
                    audio, reconnecting, updating, srtp, heard, skew, adapters, edits, history>>
    BY <1>3 DEF LinkSendFails
  <2>2. link' \in Links /\ failed' \in BOOLEAN
    BY <1>3 DEF LinkSendFails, LinkIs, ObsTypes, Links
  <2>3. ObsTypes' /\ OutTypes'
    BY <2>1, <2>2 DEF ObsTypes, OutTypes, heard, history
  <2> QED BY <2>1, <2>3, UnchangedTypes DEF phone, net
<1>4. CASE LinkTearsDown
  <2>1. UNCHANGED <<phone, net, password, serverPw, saltHex, listen, shakes, audio,
                    reconnecting, updating, srtp, heard, env>>
    BY <1>4 DEF LinkTearsDown
  <2>2. link' = Nothing /\ running' = FALSE /\ network' = "none"
    BY <1>4 DEF LinkTearsDown
  <2>3. ObsTypes'
    BY <2>1, <2>2 DEF ObsTypes
  <2> QED BY <2>1, <2>3, UnchangedTypes DEF phone, net, heard, env
<1> QED BY <1>1, <1>2, <1>3, <1>4

LEMMA UpdateTypesStep ==
    ASSUME Types, UpdateEnds \/ \E p \in Passwords : UpdateStops(p)
    PROVE  Types'
<1> USE DEF Types
<1>1. ASSUME NEW p \in Passwords, UpdateStops(p)
      PROVE  Types'
  <2>1. UNCHANGED <<phone, net, serverPw, saltHex, listen, shakes, link, running, network,
                    audio, reconnecting, heard, skew, adapters, failed, ahead>>
    BY <1>1 DEF UpdateStops
  <2>2. password' = p /\ updating' = TRUE /\ taken' = FALSE
    BY <1>1 DEF UpdateStops
  <2>3. ObsTypes'
    BY <2>1, <2>2 DEF ObsTypes
  <2>6. OutTypes'
    BY <2>1, <2>2 DEF OutTypes, heard
  <2>4. /\ audioSrtp' = Stopped /\ videoSrtp' = Stopped
        /\ srtpSet' \in BOOLEAN
    BY <1>1, Zenon DEF UpdateStops
  <2>5. SessionTypes'
    BY <2>4, KeysDerived, AddressFacts DEF SessionTypes
  <2> QED BY <2>1, <2>3, <2>5, <2>6, UnchangedTypes DEF phone, net
<1>2. CASE UpdateEnds
  <2>1. UNCHANGED <<phone, net, password, saltHex, listen, shakes, link, network, audio,
                    srtp, heard, env>>
    BY <1>2 DEF UpdateEnds
  <2>2. /\ serverPw' = password /\ updating' = FALSE /\ running' = FALSE
        /\ reconnecting' \in {"no", "waits", "locked"}
    BY <1>2 DEF UpdateEnds, SetPassword, ObsTypes
  <2>3. ObsTypes'
    BY <2>1, <2>2 DEF ObsTypes
  <2> QED BY <2>1, <2>3, UnchangedTypes DEF phone, net, heard, env
<1> QED BY <1>1, <1>2

LEMMA PacketTypesStep ==
    ASSUME Types, VideoPacket \/ AudioPacket
    PROVE  Types'
<1> USE DEF Types
<1>0. ASSUME NEW was, was \in {"none", "clear", "noise"}, NEW used, NEW srtps, NEW packet
      PROVE  After(was, Received(used, srtps, packet)) \in {"none", "clear", "noise"}
  BY <1>0 DEF After, Received, Unprotect
<1>1. CASE VideoPacket
  <2>1. UNCHANGED <<phone, net, obs, sound, env>>
    BY <1>1 DEF VideoPacket
  <2>2. picture' \in {"none", "clear", "noise"}
    BY <1>0, <1>1 DEF VideoPacket, OutTypes
  <2>3. OutTypes'
    BY <2>1, <2>2 DEF OutTypes, env, history
  <2> QED BY <2>1, <2>3, UnchangedTypes DEF phone, net, obs, env
<1>2. CASE AudioPacket
  <2>1. UNCHANGED <<phone, net, obs, picture, env>>
    BY <1>2 DEF AudioPacket
  <2>2. sound' \in {"none", "clear", "noise"}
    BY <1>0, <1>2 DEF AudioPacket, OutTypes
  <2>3. OutTypes'
    BY <2>1, <2>2 DEF OutTypes, env, history
  <2> QED BY <2>1, <2>3, UnchangedTypes DEF phone, net, obs, env
<1> QED BY <1>1, <1>2

LEMMA TypesStep == Types /\ [Next]_vars => Types'
<1> SUFFICES ASSUME Types, [Next]_vars
             PROVE  Types'
  OBVIOUS
<1>1. CASE UNCHANGED vars
  BY <1>1, UnchangedTypes DEF Types, vars, phone, net, obs, heard, env
<1>2. CASE Next
  BY <1>2, PhoneTypesStep, StreamTypesStep, ListenTypesStep, ShakeTypesStep,
     ReconnectTypesStep, LinkTypesStep, UpdateTypesStep, PacketTypesStep
  DEF Next, PhoneSteps, CallSteps, ObsSteps, User, Failures
<1> QED BY <1>1, <1>2

\* The variables of the two sides have their types.
THEOREM AgreementTypesCorrect == Spec => []TypeOK
<1>1. Init => Types
  BY InitTypes
<1>2. Types /\ [Next]_vars => Types'
  BY TypesStep
<1>3. Types => TypeOK
  BY TypesGiveTypeOK
<1> QED BY <1>1, <1>2, <1>3, PTL DEF Spec
-----------------------------------------------------------------------------
(***************************************************************************)
(* The same key on both sides.  What makes the three properties inductive  *)
(* is that one request is under way at a time (OneRequest) and has the     *)
(* phone's last salt (LastSalt), that what goes to the phone has the       *)
(* password of OBS (Carried), that OBS has the key of the last salt once it*)
(* has taken the request (KeyReady), and that a service which was not      *)
(* launched ahead of that has this salt (ServiceInv).                      *)
(***************************************************************************)
RequestsOf(salt) == {Request(p, salt, PhoneNow) : p \in Passwords}
ShakesOf(p) == [password : {p}, at : {"waits", "locked", "open"}]
AnswersOf(p) == {Answer(ip, p, ObsNow) : ip \in Addresses}

OneRequest ==
    /\ \A c, d \in calls : c = d
    /\ Len(requests) <= 1
    /\ calls # {} => requests = <<>>
    /\ calls # {} \/ requests # <<>> => listen.at = "accept"
    /\ calls # {} \/ requests # <<>> \/ listen.at # "accept" => ~taken /\ ~updating
    /\ taken => ~updating
    /\ ~updating => serverPw = password

LastSalt ==
    /\ \A c \in calls : Connected(c) => c.salt = phoneSalt
    /\ requests \in Seq(RequestsOf(phoneSalt))
    /\ requests # <<>> => phoneSalt # 0
    /\ listen.at # "accept" => saltHex = phoneSalt /\ phoneSalt # 0
    /\ listen.at = "start" => /\ listen.password = password
                              /\ audioSrtp = Stopped /\ videoSrtp = Stopped

Carried ==
    /\ shakes \in Seq(ShakesOf(password))
    /\ link # Nothing => link.password = password
    /\ answers \in Seq(AnswersOf(password))
    /\ job # Nothing => phonePw = password

KeyReady ==
    taken =>
        IF password = Empty THEN audioSrtp = Stopped /\ videoSrtp = Stopped /\ ~srtpSet
        ELSE /\ audioSrtp = Started(password, phoneSalt)
             /\ videoSrtp = Started(password, phoneSalt)
             /\ srtpSet

ServiceInv ==
    /\ service.state = "none" => service = NoService
    /\ streaming => service.state = "streaming" /\ service.known
    /\ service.state # "none" => service.password = phonePw /\ phonePw = password
    /\ service.state # "none" /\ ~ahead => taken /\ service.salt = phoneSalt
    /\ service.state = "streaming" => service.sender = CreateRtpSender(service)

AgreementInv ==
    OneRequest /\ LastSalt /\ Carried /\ KeyReady /\ ServiceInv /\ NothingEncryptedOut

\* What each part of the invariant depends on.
LEMMA PartsKept ==
    ASSUME AgreementInv
    PROVE  /\ UNCHANGED <<calls, requests, listen, taken, updating, serverPw, password>> => OneRequest'
           /\ UNCHANGED <<calls, phoneSalt, requests, listen, saltHex, password, audioSrtp, videoSrtp>>
                => LastSalt'
           /\ UNCHANGED <<shakes, link, answers, job, password, phonePw, skew>> => Carried'
           /\ UNCHANGED <<taken, password, phoneSalt, srtp>> => KeyReady'
           /\ UNCHANGED <<service, streaming, phonePw, password, ahead, taken, phoneSalt>> => ServiceInv'
           /\ UNCHANGED <<ahead, picture, sound>> => NothingEncryptedOut'
<1> USE DEF AgreementInv
<1>1. UNCHANGED <<calls, requests, listen, taken, updating, serverPw, password>> => OneRequest'
  BY DEF OneRequest
<1>2. UNCHANGED <<calls, phoneSalt, requests, listen, saltHex, password, audioSrtp, videoSrtp>>
        => LastSalt'
  BY DEF LastSalt, RequestsOf, PhoneNow
<1>3. UNCHANGED <<shakes, link, answers, job, password, phonePw, skew>> => Carried'
  BY DEF Carried, ShakesOf, AnswersOf, ObsNow
<1>4. UNCHANGED <<taken, password, phoneSalt, srtp>> => KeyReady'
  BY DEF KeyReady, srtp
<1>5. UNCHANGED <<service, streaming, phonePw, password, ahead, taken, phoneSalt>> => ServiceInv'
  BY DEF ServiceInv
<1>6. UNCHANGED <<ahead, picture, sound>> => NothingEncryptedOut'
  BY DEF NothingEncryptedOut
<1> QED BY <1>1, <1>2, <1>3, <1>4, <1>5, <1>6

-----------------------------------------------------------------------------
\* The user asks for the stream, or types an address: a call begins.
LEMMA StartKeepsInv ==
    ASSUME Types, AgreementInv, StartStreaming \/ UpdateIp, Idle,
           UpdateIp => ~streaming
    PROVE  AgreementInv'
<1> USE DEF AgreementInv
<1>1. /\ UNCHANGED <<phonePw, streaming, phoneSalt, job, service, net, obs, heard, skew, ahead>>
      /\ taken' = (taken /\ streaming)
      /\ calls' = calls \/ (~streaming /\ \E ip : calls' = calls \cup
              {[n |-> called + 1, ip |-> ip, salt |-> 0, password |-> Empty]})
  BY DEF StartStreaming, UpdateIp, Call
<1>2. calls = {} /\ requests = <<>> /\ listen.at = "accept" /\ ~updating
  BY DEF Idle
<1>3. \A c, d \in calls' : c = d /\ ~Connected(c)
  BY <1>1, <1>2 DEF Connected
<1>4. OneRequest'
  <2>1. calls' # {} => ~taken'
    BY <1>1, <1>2
  <2>2. UNCHANGED <<requests, listen, updating, serverPw, password>>
    BY <1>1 DEF net, obs, threads
  <2> QED BY <1>2, <1>3, <2>1, <2>2 DEF OneRequest
<1>5. LastSalt'
  BY <1>1, <1>3 DEF LastSalt, RequestsOf, PhoneNow, net, obs, threads, srtp
<1>6. KeyReady'
  BY <1>1 DEF KeyReady, obs, srtp
<1>7. ServiceInv'
  <2>1. service.state # "none" => streaming
    BY DEF Idle
  <2> QED BY <1>1, <2>1 DEF ServiceInv, obs
<1> QED BY <1>1, <1>4, <1>5, <1>6, <1>7, PartsKept DEF net, obs, threads, heard

LEMMA StopStreamingKeepsInv ==
    ASSUME AgreementInv, StopStreaming
    PROVE  AgreementInv'
<1> USE DEF AgreementInv
<1>1. /\ UNCHANGED <<phonePw, calls, phoneSalt, job, net, obs, skew, taken>>
      /\ streaming' = FALSE /\ service' = NoService
      /\ picture' = "none" /\ sound' = "none"
  BY DEF StopStreaming
<1>2. ServiceInv' /\ NothingEncryptedOut'
  BY <1>1 DEF ServiceInv, NoService, NothingEncryptedOut
<1> QED BY <1>1, <1>2, PartsKept DEF net, obs, threads, srtp

LEMMA UpdatePasswordKeepsInv ==
    ASSUME AgreementInv, NEW p \in Passwords, UpdatePassword(p),
           phonePw' # phonePw => Quiet /\ service = NoService
    PROVE  AgreementInv'
<1> USE DEF AgreementInv
<1>1. UNCHANGED <<streaming, calls, phoneSalt, job, service, net, obs, heard, skew, taken, ahead>>
  BY DEF UpdatePassword, history
<1>2. phonePw' = phonePw \/ (job = Nothing /\ service.state = "none")
  BY DEF Quiet, NoService
<1>3. Carried'
  BY <1>1, <1>2 DEF Carried, ShakesOf, AnswersOf, ObsNow, net, obs, threads
<1>4. ServiceInv'
  BY <1>1, <1>2 DEF ServiceInv, obs
<1> QED BY <1>1, <1>3, <1>4, PartsKept DEF net, obs, threads, srtp, heard

\* The salt of the one call there is becomes the last one.
LEMMA ConnectKeepsInv ==
    ASSUME Types, AgreementInv, NEW c \in calls, Connect(c)
    PROVE  AgreementInv'
<1> USE DEF AgreementInv
<1>1. /\ UNCHANGED <<phonePw, streaming, job, service, net, obs, heard, env>>
      /\ phoneSalt' = c.n
      /\ calls' = (calls \ {c}) \cup {[c EXCEPT !.salt = c.n, !.password = phonePw]}
  BY DEF Connect
<1>2. calls = {c} /\ requests = <<>> /\ listen.at = "accept" /\ ~taken /\ ~updating
  BY DEF OneRequest
<1>3. calls' = {[c EXCEPT !.salt = c.n, !.password = phonePw]} /\ c \in Calls
  BY <1>1, <1>2 DEF Types, PhoneTypes
<1>4. OneRequest'
  BY <1>1, <1>2, <1>3 DEF OneRequest, net, obs, threads, env, history
<1>5. LastSalt'
  <2>1. \A d \in calls' : d.salt = phoneSalt'
    BY <1>1, <1>3 DEF Calls
  <2>2. requests' = <<>> /\ listen'.at = "accept"
    BY <1>1, <1>2 DEF net, obs, threads
  <2> QED BY <2>1, <2>2 DEF LastSalt
<1>6. KeyReady' /\ ServiceInv'
  BY <1>1, <1>2 DEF KeyReady, ServiceInv, obs, env, history
<1> QED BY <1>1, <1>4, <1>5, <1>6, PartsKept DEF net, obs, threads, heard, env, history

LEMMA SendRequestKeepsInv ==
    ASSUME Types, AgreementInv, NEW c \in calls, SendRequest(c)
    PROVE  AgreementInv'
<1> USE DEF AgreementInv
<1>1. /\ UNCHANGED <<phonePw, streaming, phoneSalt, job, service, answers, obs, heard, env>>
      /\ calls' = calls \ {c} /\ Connected(c)
      /\ requests' = Append(requests, Request(c.password, c.salt, PhoneNow))
  BY DEF SendRequest
<1>2. calls = {c} /\ requests = <<>> /\ listen.at = "accept" /\ ~taken /\ ~updating
  BY DEF OneRequest
<1>3. c.salt = phoneSalt /\ phoneSalt # 0 /\ c.password \in Passwords
  BY <1>1 DEF LastSalt, Connected, Types, PhoneTypes, Calls
<1>4. /\ Request(c.password, c.salt, PhoneNow) \in RequestsOf(phoneSalt)
      /\ RequestsOf(phoneSalt)' = RequestsOf(phoneSalt)
  BY <1>1, <1>3 DEF RequestsOf, PhoneNow
<1>5. requests' \in Seq(RequestsOf(phoneSalt)) /\ Len(requests') = 1 /\ calls' = {}
  BY <1>1, <1>2, <1>4
<1>6. OneRequest'
  BY <1>1, <1>2, <1>5 DEF OneRequest, obs, threads, env, history
<1>7. LastSalt'
  BY <1>1, <1>2, <1>3, <1>4, <1>5 DEF LastSalt, obs, threads
<1> QED BY <1>1, <1>6, <1>7, PartsKept DEF obs, threads, heard, env, history

LEMMA CallFailsKeepsInv ==
    ASSUME AgreementInv, NEW c \in calls, CallFails(c)
    PROVE  AgreementInv'
<1> USE DEF AgreementInv
<1>1. /\ UNCHANGED <<phonePw, streaming, phoneSalt, job, service, net, obs, heard, skew, taken, ahead>>
      /\ calls' \subseteq calls
  BY DEF CallFails, history
<1>2. OneRequest'
  BY <1>1 DEF OneRequest, net, obs, threads
<1>3. LastSalt'
  BY <1>1 DEF LastSalt, RequestsOf, PhoneNow, net, obs, threads, srtp
<1> QED BY <1>1, <1>2, <1>3, PartsKept DEF net, obs, threads, heard

-----------------------------------------------------------------------------
\* The phone takes an answer only from an OBS that has its password.
LEMMA AcceptedIsSame ==
    ASSUME NEW ip, NEW p \in Passwords, NEW q \in Passwords, NEW t, NEW now,
           PhoneAccepts(Answer(ip, p, t), q, now)
    PROVE  p = q
<1>1. CASE q # Empty
  <2>1. Has(Answer(ip, p, t), "hmac") /\ <<Answer(ip, p, t).hmac, q>> \in Equal
    BY <1>1 DEF PhoneAccepts, Token
  <2>2. p # Empty
    BY <2>1 DEF Has, Answer
  <2>3. Answer(ip, p, t).hmac = p
    BY <2>2 DEF Answer
  <2> QED BY <1>1, <2>1, <2>2, <2>3, TokensDiffer
<1>2. CASE q = Empty
  <2>1. ~Has(Answer(ip, p, t), "hmac")
    BY <1>2 DEF PhoneAccepts, Token
  <2> QED BY <1>2, <2>1 DEF Has, Answer
<1> QED BY <1>1, <1>2

LEMMA HandleClientKeepsInv ==
    ASSUME Types, AgreementInv, HandleClient
    PROVE  AgreementInv'
<1> USE DEF AgreementInv
<1>1. /\ UNCHANGED <<pside, service, redirect, requests, obs, heard, env>>
      /\ answers # <<>> /\ answers' = Tail(answers)
      /\ job' = IF PhoneAccepts(Head(answers), phonePw, PhoneNow) THEN Head(answers).ip ELSE job
  BY DEF HandleClient
<1>2. Head(answers) \in AnswersOf(password) /\ Tail(answers) \in Seq(AnswersOf(password))
  BY <1>1, HeadTail DEF Carried
<1>3. Carried'
  <2>1. PICK ip \in Addresses : Head(answers) = Answer(ip, password, ObsNow)
    BY <1>2 DEF AnswersOf
  <2>2. PhoneAccepts(Head(answers), phonePw, PhoneNow) => phonePw = password
    BY <2>1, AcceptedIsSame DEF Types, PhoneTypes, ObsTypes
  <2>3. job' # Nothing => phonePw = password
    BY <1>1, <2>2 DEF Carried
  <2>4. UNCHANGED <<phonePw, password, shakes, link, skew>>
    BY <1>1 DEF pside, obs, threads, env
  <2>5. AnswersOf(password)' = AnswersOf(password) /\ ShakesOf(password)' = ShakesOf(password)
    BY <2>4 DEF AnswersOf, ShakesOf, ObsNow
  <2> QED BY <1>1, <1>2, <2>3, <2>4, <2>5 DEF Carried
<1> QED BY <1>1, <1>3, PartsKept DEF pside, obs, threads, srtp, heard, env, history

\* A launch that is not ahead of the request has the salt that OBS has taken.
LEMMA HandshakeJobKeepsInv ==
    ASSUME Types, AgreementInv, HandshakeJob
    PROVE  AgreementInv'
<1> USE DEF AgreementInv
<1>1. /\ UNCHANGED <<phonePw, streaming, calls, phoneSalt, net, obs, heard, skew, taken>>
      /\ job # Nothing /\ job' = Nothing
      /\ \/ UNCHANGED <<service, ahead>>
         \/ /\ ~streaming /\ ~service.known
            /\ service' = [service EXCEPT !.state = "starting", !.ip = job,
                               !.password = phonePw, !.salt = phoneSalt]
            /\ ahead' = (ahead \/ ~taken)
  <2>1. CASE ~streaming /\ wants /\ ~service.known /\ (auto \/ target = job)
    BY <2>1 DEF HandshakeJob, LaunchStream
  <2>2. CASE ~(~streaming /\ wants /\ ~service.known /\ (auto \/ target = job))
    <3>1. UNCHANGED service
      BY <2>2 DEF HandshakeJob, LaunchStream
    <3>2. ahead' = ahead
      BY <2>2 DEF HandshakeJob, Types, OutTypes
    <3> QED BY <3>1, <3>2 DEF HandshakeJob
  <2> QED BY <2>1, <2>2
<1>2. phonePw = password
  BY <1>1 DEF Carried
<1>3. Carried'
  BY <1>1 DEF Carried, ShakesOf, AnswersOf, ObsNow, net, obs, threads
<1>4. CASE UNCHANGED <<service, ahead>>
  BY <1>1, <1>3, <1>4, PartsKept DEF net, obs, threads, srtp, heard
<1>5. CASE /\ ~streaming /\ ~service.known
           /\ service' = [service EXCEPT !.state = "starting", !.ip = job,
                              !.password = phonePw, !.salt = phoneSalt]
           /\ ahead' = (ahead \/ ~taken)
  <2>1. /\ service'.state = "starting" /\ service'.password = phonePw
        /\ service'.salt = phoneSalt
    BY <1>5 DEF Types, StreamTypes, Services
  <2>2. ServiceInv'
    BY <1>1, <1>2, <1>5, <2>1 DEF ServiceInv, obs
  <2>3. NothingEncryptedOut'
    BY <1>1, <1>5 DEF NothingEncryptedOut, heard
  <2> QED BY <1>1, <1>3, <2>2, <2>3, PartsKept DEF net, obs, threads, srtp
<1> QED BY <1>1, <1>4, <1>5

LEMMA ServiceKeepsInv ==
    ASSUME Types, AgreementInv, ServiceStarts \/ ServiceConnected \/ RedirectStream
    PROVE  AgreementInv'
<1> USE DEF AgreementInv
<1>1. UNCHANGED <<pside, job, net, obs, heard, env>>
  BY DEF ServiceStarts, ServiceConnected, RedirectStream
<1>2. /\ service'.state = "none" <=> service.state = "none"
      /\ service.state = "none" => service' = service
      /\ service.state = "streaming" => service'.state = "streaming"
      /\ service.known => service'.known
      /\ service'.password = service.password /\ service'.salt = service.salt
      /\ service'.state = "streaming" =>
            \/ service'.sender = service.sender /\ service.state = "streaming"
            \/ service'.sender = CreateRtpSender(service)
  <2>1. service \in Services
    BY DEF Types, StreamTypes
  <2>2. CASE ServiceStarts
    BY <2>1, <2>2 DEF ServiceStarts, Services
  <2>3. CASE ServiceConnected
    BY <2>1, <2>3 DEF ServiceConnected, Services
  <2>4. CASE RedirectStream
    BY <2>1, <2>4 DEF RedirectStream, Services
  <2> QED BY <2>2, <2>3, <2>4
<1>3. CreateRtpSender(service') = CreateRtpSender(service)
  BY <1>2 DEF CreateRtpSender
<1>4. ServiceInv'
  BY <1>1, <1>2, <1>3 DEF ServiceInv, CreateRtpSender, pside, obs, env, history
<1> QED BY <1>1, <1>4, PartsKept DEF pside, net, obs, threads, srtp, heard, env, history

LEMMA PollKeepsInv ==
    ASSUME AgreementInv, Poll
    PROVE  AgreementInv'
<1> USE DEF AgreementInv
<1>1. /\ UNCHANGED <<phonePw, calls, phoneSalt, job, service, net, obs, heard, env>>
      /\ streaming' = TRUE /\ service.state = "streaming" /\ service.known
  BY DEF Poll
<1>2. ServiceInv'
  BY <1>1 DEF ServiceInv, obs, env, history
<1> QED BY <1>1, <1>2, PartsKept DEF net, obs, threads, srtp, heard, env, history

-----------------------------------------------------------------------------
\* OBS takes the request, or not: nothing else of it is under way.
LEMMA ListenLoopKeepsInv ==
    ASSUME Types, AgreementInv, ListenLoop
    PROVE  AgreementInv'
<1> USE DEF AgreementInv
<1>1. /\ UNCHANGED <<phone, answers, password, serverPw, shakes, link, updating, srtp, heard, env>>
      /\ listen.at = "accept" /\ requests # <<>> /\ requests' = Tail(requests)
      /\ \/ UNCHANGED listen
         \/ listen' = [listen EXCEPT !.at = "stop"] /\ saltHex' = Head(requests).salt
  BY DEF ListenLoop, RequestReceived
<1>2. /\ calls = {} /\ ~taken /\ ~updating /\ phoneSalt # 0
      /\ Len(requests) <= 1
  BY <1>1 DEF OneRequest, LastSalt
<1>3. Head(requests) \in RequestsOf(phoneSalt) /\ requests \in Seq(RequestsOf(phoneSalt))
  BY <1>1, HeadTail DEF LastSalt
<1>4. requests' = <<>> /\ Head(requests).salt = phoneSalt
  BY <1>1, <1>2, <1>3 DEF RequestsOf, Request
<1>5. listen'.at = listen.at \/ (listen'.at = "stop" /\ saltHex' = phoneSalt)
  BY <1>1, <1>4 DEF Types, ObsTypes
<1>6. OneRequest'
  BY <1>1, <1>2, <1>4 DEF OneRequest, phone, pside, env, history
<1>7. LastSalt'
  BY <1>1, <1>2, <1>4, <1>5 DEF LastSalt, phone, pside
<1> QED BY <1>1, <1>6, <1>7, PartsKept DEF phone, pside, heard, env, history

LEMMA StopSessionsKeepsInv ==
    ASSUME AgreementInv, StopSessions
    PROVE  AgreementInv'
<1> USE DEF AgreementInv
<1>1. /\ UNCHANGED <<phone, net, password, serverPw, saltHex, shakes, link, updating, heard, env>>
      /\ listen.at = "stop" /\ listen' = [at |-> "start", password |-> password]
      /\ audioSrtp' = Stopped /\ videoSrtp' = Stopped
  BY DEF StopSessions
<1>2. calls = {} /\ requests = <<>> /\ ~taken /\ ~updating
  BY <1>1 DEF OneRequest
<1>3. OneRequest' /\ KeyReady'
  BY <1>1, <1>2 DEF OneRequest, KeyReady, phone, pside, net, env, history
<1>4. LastSalt'
  BY <1>1, <1>2 DEF LastSalt, phone, pside, net
<1> QED BY <1>1, <1>3, <1>4, PartsKept DEF phone, pside, net, heard, env, history

LEMMA StartSessionsKeepsInv ==
    ASSUME Types, AgreementInv, StartSessions
    PROVE  AgreementInv'
<1> USE DEF AgreementInv
<1>1. /\ UNCHANGED <<phone, net, password, serverPw, saltHex, link, updating, heard, skew, ahead>>
      /\ listen.at = "start" /\ listen' = [at |-> "accept", password |-> Empty]
      /\ taken' = TRUE
      /\ shakes' = Append(shakes, NewShake)
  BY DEF StartSessions
<1>2. /\ calls = {} /\ requests = <<>> /\ ~taken /\ ~updating
      /\ listen.password = password /\ saltHex = phoneSalt /\ phoneSalt # 0
      /\ audioSrtp = Stopped /\ videoSrtp = Stopped
  BY <1>1 DEF OneRequest, LastSalt
<1>3. OneRequest'
  BY <1>1, <1>2 DEF OneRequest, phone, pside, net
<1>4. LastSalt'
  BY <1>1, <1>2 DEF LastSalt, phone, pside, net
<1>5. Carried'
  <2>1. NewShake \in ShakesOf(password) /\ shakes \in Seq(ShakesOf(password))
    BY <1>2 DEF Carried, NewShake, ShakesOf
  <2>2. shakes' \in Seq(ShakesOf(password))
    BY <1>1, <2>1
  <2>3. ShakesOf(password)' = ShakesOf(password) /\ AnswersOf(password)' = AnswersOf(password)
    BY <1>1 DEF ShakesOf, AnswersOf, ObsNow
  <2> QED BY <1>1, <2>2, <2>3 DEF Carried, phone, pside, net
<1>6. KeyReady'
  BY <1>1, <1>2 DEF KeyReady, StartSessions, phone, pside
<1>7. ServiceInv'
  BY <1>1, <1>2 DEF ServiceInv, phone, pside
<1> QED BY <1>1, <1>3, <1>4, <1>5, <1>6, <1>7, PartsKept DEF phone, heard

-----------------------------------------------------------------------------
\* A handshake that OBS sends has its password.
LEMMA SendHasPassword ==
    ASSUME Types, AgreementInv, Send(password), UNCHANGED <<password, skew>>
    PROVE  answers' \in Seq(AnswersOf(password)')
<1>1. BestLocalIp(adapters) \in Addresses
  BY AddressFacts DEF Types, OutTypes
<1>2. /\ Answer(BestLocalIp(adapters), password, ObsNow) \in AnswersOf(password)
      /\ AnswersOf(password)' = AnswersOf(password)
  BY <1>1 DEF AnswersOf, ObsNow
<1>3. answers \in Seq(AnswersOf(password))
  BY DEF AgreementInv, Carried
<1> QED BY <1>2, <1>3 DEF Send

LEMMA ShakeKeepsInv ==
    ASSUME Types, AgreementInv,
           ShakeLocks \/ ShakeOpens \/ ShakeOpenFails \/ ShakeSends \/ ShakeSendFails
    PROVE  AgreementInv'
<1> USE DEF AgreementInv
<1>1. /\ UNCHANGED <<phone, requests, password, serverPw, saltHex, listen, link, updating, srtp,
                     heard, skew, taken, ahead>>
      /\ shakes # <<>>
      /\ shakes' = Tail(shakes) \/ \E at \in {"waits", "locked", "open"} : ShakeGoesTo(at)
      /\ UNCHANGED answers \/ Send(Head(shakes).password)
  BY DEF ShakeLocks, ShakeOpens, ShakeOpenFails, ShakeSends, ShakeSendFails, ShakeIs,
         net, env, history
<1>2. Head(shakes) \in ShakesOf(password) /\ Tail(shakes) \in Seq(ShakesOf(password))
  BY <1>1, HeadTail DEF Carried
<1>3. /\ ShakesOf(password)' = ShakesOf(password) /\ AnswersOf(password)' = AnswersOf(password)
      /\ Head(shakes).password = password
  BY <1>1, <1>2 DEF ShakesOf, AnswersOf, ObsNow
<1>4. shakes' \in Seq(ShakesOf(password))
  <2>1. ASSUME NEW at \in {"waits", "locked", "open"}, ShakeGoesTo(at)
        PROVE  shakes' \in Seq(ShakesOf(password))
    <3>1. [Head(shakes) EXCEPT !.at = at] \in ShakesOf(password)
      BY <1>2 DEF ShakesOf
    <3> QED BY <1>2, <2>1, <3>1 DEF ShakeGoesTo
  <2> QED BY <1>1, <1>2, <2>1
<1>5. answers' \in Seq(AnswersOf(password)')
  <2>1. CASE UNCHANGED answers
    BY <1>3, <2>1 DEF Carried
  <2>2. CASE Send(Head(shakes).password)
    BY <1>1, <1>3, <2>2, SendHasPassword
  <2> QED BY <1>1, <2>1, <2>2
<1>6. Carried'
  BY <1>1, <1>3, <1>4, <1>5 DEF Carried, phone, pside
<1> QED BY <1>1, <1>6, PartsKept DEF phone, pside, srtp, heard

LEMMA LinkKeepsInv ==
    ASSUME Types, AgreementInv, Discovered \/ LinkSends \/ LinkSendFails \/ LinkTearsDown
    PROVE  AgreementInv'
<1> USE DEF AgreementInv
<1>1. /\ UNCHANGED <<phone, requests, password, serverPw, saltHex, listen, shakes, updating, srtp,
                     heard, skew, taken, ahead>>
      /\ UNCHANGED answers \/ Send(password) \/ (link # Nothing /\ Send(link.password))
  BY DEF Discovered, LinkSends, LinkSendFails, LinkTearsDown, LinkIs, net, env, history
<1>2. link' # Nothing => link'.password = password
  <2>1. CASE Discovered
    BY <2>1 DEF Discovered, Carried
  <2>2. CASE LinkSendFails
    <3>1. link \in Links /\ link' = [link EXCEPT !.at = "tear"] /\ link.password = password
      BY <2>2 DEF LinkSendFails, LinkIs, Carried, Types, ObsTypes
    <3> QED BY <3>1 DEF Links
  <2>3. CASE LinkSends \/ LinkTearsDown
    BY <2>3 DEF LinkSends, LinkTearsDown
  <2> QED BY <2>1, <2>2, <2>3
<1>3. answers' \in Seq(AnswersOf(password)')
  <2>1. UNCHANGED answers \/ Send(password)
    BY <1>1 DEF Carried
  <2>2. UNCHANGED answers => answers' \in Seq(AnswersOf(password)')
    BY <1>1 DEF Carried, AnswersOf, ObsNow
  <2> QED BY <1>1, <2>1, <2>2, SendHasPassword
<1>4. Carried'
  BY <1>1, <1>2, <1>3 DEF Carried, ShakesOf, phone, pside
<1> QED BY <1>1, <1>4, PartsKept DEF phone, pside, srtp, heard

\* These threads change nothing that the invariant is about.
LEMMA ReconnectKeepsInv ==
    ASSUME AgreementInv, NetworkThreadEnds \/ ReconnectLocks \/ Reconnect
    PROVE  AgreementInv'
<1>1. UNCHANGED <<phone, net, password, serverPw, saltHex, listen, shakes, link, updating, srtp,
                  heard, env>>
  BY DEF NetworkThreadEnds, ReconnectLocks, Reconnect
<1> QED BY <1>1, PartsKept DEF AgreementInv, phone, pside, net, srtp, heard, env, history

LEMMA UpdateStopsKeepsInv ==
    ASSUME AgreementInv, NEW p \in Passwords, UpdateStops(p), Quiet, service = NoService
    PROVE  AgreementInv'
<1> USE DEF AgreementInv
<1>1. /\ UNCHANGED <<phone, net, listen, shakes, link, heard, ahead>>
      /\ updating' = TRUE /\ taken' = FALSE
  BY DEF UpdateStops
<1>2. /\ calls = {} /\ requests = <<>> /\ listen.at = "accept" /\ shakes = <<>>
      /\ link = Nothing /\ answers = <<>> /\ job = Nothing /\ service.state = "none"
  BY DEF Quiet, Idle, NoService
<1>3. OneRequest' /\ KeyReady'
  BY <1>1, <1>2 DEF OneRequest, KeyReady, phone, pside, net
<1>4. LastSalt' /\ Carried'
  BY <1>1, <1>2 DEF LastSalt, Carried, phone, pside, net
<1>5. ServiceInv'
  BY <1>1, <1>2 DEF ServiceInv, phone, pside
<1> QED BY <1>1, <1>3, <1>4, <1>5, PartsKept DEF heard

LEMMA UpdateEndsKeepsInv ==
    ASSUME AgreementInv, UpdateEnds
    PROVE  AgreementInv'
<1> USE DEF AgreementInv
<1>1. /\ UNCHANGED <<phone, net, password, saltHex, listen, shakes, link, srtp, heard, env>>
      /\ serverPw' = password /\ updating' = FALSE /\ updating
  BY DEF UpdateEnds, SetPassword
<1>2. OneRequest'
  BY <1>1 DEF OneRequest, phone, pside, net, env, history
<1> QED BY <1>1, <1>2, PartsKept DEF phone, pside, net, srtp, heard, env, history

-----------------------------------------------------------------------------
LEMMA KeysAgreeNow == AgreementInv => KeysAgree
<1> SUFFICES ASSUME AgreementInv, service.state = "streaming", ~ahead
             PROVE  SameKeys
  BY DEF KeysAgree
<1> USE DEF AgreementInv
<1>1. /\ taken /\ service.salt = phoneSalt /\ service.password = password
      /\ service.sender = CreateRtpSender(service)
  BY DEF ServiceInv
<1>2. CASE password = Empty
  <2>1. service.sender.context = NoContext
    BY <1>1, <1>2 DEF CreateRtpSender
  <2> QED BY <1>1, <1>2, <2>1 DEF KeyReady, SameKeys, Stopped
<1>3. CASE password # Empty
  <2>1. service.sender.context.session = DeriveKeys(password, phoneSalt)
    BY <1>1, <1>3 DEF CreateRtpSender, InitContext
  <2>2. /\ audioSrtp = [session |-> DeriveKeys(password, phoneSalt), active |-> TRUE]
        /\ videoSrtp = audioSrtp /\ srtpSet
    BY <1>1, <1>3 DEF KeyReady, Started
  <2> QED BY <1>1, <1>3, <2>1, <2>2 DEF SameKeys
<1> QED BY <1>2, <1>3

LEMMA PacketKeepsInv ==
    ASSUME AgreementInv, VideoPacket \/ AudioPacket
    PROVE  AgreementInv'
<1> USE DEF AgreementInv
<1>1. /\ UNCHANGED <<phone, net, obs, env>>
      /\ service.state = "streaming"
      /\ \/ picture' = After(picture, Received(srtpSet, videoSrtp, Packet)) /\ sound' = sound
         \/ sound' = After(sound, Received(TRUE, audioSrtp, Packet)) /\ picture' = picture
  BY DEF VideoPacket, AudioPacket, Sends
<1>2. ASSUME ~ahead
      PROVE  /\ Received(srtpSet, videoSrtp, Packet) # "noise"
             /\ Received(TRUE, audioSrtp, Packet) # "noise"
  <2>1. SameKeys
    BY <1>1, <1>2, KeysAgreeNow DEF KeysAgree
  <2>2. CASE service.password = Empty
    BY <2>1, <2>2 DEF SameKeys, Received, Packet
  <2>3. CASE service.password # Empty
    <3>1. srtpSet /\ audioSrtp.active /\ videoSrtp.active
      BY <2>1, <2>3 DEF SameKeys
    <3> QED BY <3>1 DEF Received, Unprotect
  <2> QED BY <2>2, <2>3
<1>3. NothingEncryptedOut'
  BY <1>1, <1>2 DEF NothingEncryptedOut, After, env, history
<1> QED BY <1>1, <1>3, PartsKept DEF phone, pside, net, obs, threads, srtp, env, history

LEMMA InitGivesInv == Init => AgreementInv
<1> SUFFICES ASSUME Init PROVE AgreementInv
  OBVIOUS
<1>1. OneRequest /\ LastSalt /\ Carried
  BY DEF Init, OneRequest, LastSalt, Carried
<1>2. KeyReady /\ ServiceInv /\ NothingEncryptedOut
  BY DEF Init, KeyReady, ServiceInv, NothingEncryptedOut, NoService
<1> QED BY <1>1, <1>2 DEF AgreementInv

LEMMA CalmStep == Types /\ AgreementInv /\ [Next /\ Calm]_vars => AgreementInv'
<1> SUFFICES ASSUME Types, AgreementInv, [Next /\ Calm]_vars
             PROVE  AgreementInv'
  OBVIOUS
<1>1. CASE UNCHANGED vars
  BY <1>1, PartsKept DEF AgreementInv, vars, phone, pside, net, obs, threads, srtp, heard, env, history
<1>2. CASE Next /\ Calm
  <2>1. CASE PhoneSteps
    BY <2>1, ConnectKeepsInv, SendRequestKeepsInv, CallFailsKeepsInv, HandleClientKeepsInv,
       HandshakeJobKeepsInv, ServiceKeepsInv, PollKeepsInv DEF PhoneSteps, CallSteps
  <2>2. CASE ObsSteps
    BY <2>2, ListenLoopKeepsInv, StopSessionsKeepsInv, StartSessionsKeepsInv, ShakeKeepsInv,
       LinkKeepsInv, ReconnectKeepsInv, UpdateEndsKeepsInv, PacketKeepsInv DEF ObsSteps
  <2>3. CASE Discovered
    BY <2>3, LinkKeepsInv
  <2>4. CASE User
    <3>1. CASE StartStreaming
      <4>1. UpdateIp => ~streaming
        BY <1>2 DEF Calm
      <4> QED BY <1>2, <3>1, <4>1, StartKeepsInv DEF Calm
    <3>2. CASE UpdateIp
      BY <1>2, <3>2, StartKeepsInv DEF Calm
    <3>3. CASE StopStreaming
      BY <3>3, StopStreamingKeepsInv
    <3>4. ASSUME NEW p \in Passwords, UpdatePassword(p)
          PROVE  AgreementInv'
      BY <1>2, <3>4, UpdatePasswordKeepsInv DEF Calm
    <3>5. ASSUME NEW p \in Passwords, UpdateStops(p)
          PROVE  AgreementInv'
      <4>1. ~updating /\ updating'
        BY <3>5 DEF UpdateStops
      <4> QED BY <1>2, <3>5, <4>1, UpdateStopsKeepsInv DEF Calm
    <3> QED BY <2>4, <3>1, <3>2, <3>3, <3>4, <3>5 DEF User
  <2>5. CASE Failures
    BY <2>5, CallFailsKeepsInv, ShakeKeepsInv, LinkKeepsInv DEF Failures
  <2> QED BY <1>2, <2>1, <2>2, <2>3, <2>4, <2>5 DEF Next
<1> QED BY <1>1, <1>2

LEMMA CalmInvariant == CalmSpec => []AgreementInv
<1>1. Init => Types /\ AgreementInv
  BY InitTypes, InitGivesInv
<1>2. Types /\ AgreementInv /\ [Next /\ Calm]_vars => Types' /\ AgreementInv'
  BY TypesStep, CalmStep
<1> QED BY <1>1, <1>2, PTL DEF CalmSpec

\* With a user who waits for what he began, and discovery at any time, both sides
\* of a stream have one key, but for a stream launched before OBS had taken the
\* request (StreamViewModel.kt:170-172).
THEOREM CalmKeysAgree == CalmSpec => []KeysAgree
BY CalmInvariant, KeysAgreeNow, PTL

\* Nor is an encrypted packet of another stream than that passed on as it is
\* (rtp-receiver.cpp and audio-receiver.cpp without a session).
THEOREM CalmNothingEncryptedOut == CalmSpec => []NothingEncryptedOut
<1>1. AgreementInv => NothingEncryptedOut
  BY DEF AgreementInv
<1> QED BY <1>1, CalmInvariant, PTL

\* No stream starts on a phone with another password than OBS has, whatever
\* discovery does (Token in HandshakeServer.kt).
THEOREM CalmOnlySamePassword == CalmSpec => []OnlySamePassword
<1>1. AgreementInv => OnlySamePassword
  BY DEF AgreementInv, ServiceInv, OnlySamePassword
<1> QED BY <1>1, CalmInvariant, PTL
=============================================================================
