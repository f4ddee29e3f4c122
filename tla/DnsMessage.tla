----------------------------- MODULE DnsMessage -----------------------------
(***************************************************************************)
(* The DNS messages of mdns-discovery.cpp.                                 *)
(*                                                                         *)
(* A message is a sequence of cells: a label with its length, the zero     *)
(* that ends a name, a pointer of two bytes to an earlier name, the fixed  *)
(* part of a record (type, class, TTL, length) and its data.  An offset is *)
(* the position of a cell, and rdLen counts cells.                         *)
(***************************************************************************)
EXTENDS Naturals, Sequences, SequencesExt

CONSTANT SafetyLimit      \* 64, the bound of the loop of readDnsName

\* Enough for a name of four labels with a pointer behind each.
ASSUME SafetyAssumption == SafetyLimit \in Nat /\ SafetyLimit >= 10

ServiceType == <<"_phonewebcam", "_udp", "local">>

Label(l) == [cell |-> "label", label |-> l]
End == [cell |-> "end"]
Pointer(to) == [cell |-> "ptr", to |-> to]

\* writeDnsName: every label, then the zero; never a pointer.
WriteName(name) == Append([i \in 1..Len(name) |-> Label(name[i])], End)

\* Mutant: the rest of the name, behind a pointer, is not read.
NotFollowed(pos, there) == [name |-> <<>>, next |-> pos + 1]

\* The labels are those at the offset pointed to; savedOffset: reading goes on
\* behind the first pointer.
Followed(pos, there) == [name |-> there.name, next |-> pos + 1]

\* The name that starts at off, and the offset behind it.  left is what is left
\* of safetyLimit, so that pointers in a circle end, too.
ReadName(cells, off) ==
    LET read[left \in 0..SafetyLimit] == [pos \in Nat |->
            IF left = 0 \/ pos > Len(cells) THEN [name |-> <<>>, next |-> pos]
            ELSE LET c == cells[pos]
                     behind == read[left - 1][pos + 1]
                     there == read[left - 1][c.to]
                 IN CASE c.cell = "end" -> [name |-> <<>>, next |-> pos + 1]
                      [] c.cell = "ptr" -> Followed(pos, there)
                      [] OTHER -> [name |-> <<c.label>> \o behind.name, next |-> behind.next]]
    IN read[SafetyLimit][off]

-----------------------------------------------------------------------------
(***************************************************************************)
(* Records.  What discoveryLoop knows of one: its name, its type, and, by  *)
(* type, the target of a PTR, the target and port of an SRV, or the        *)
(* address of an A.                                                        *)
(***************************************************************************)
PTR(name, target) == [type |-> "PTR", name |-> name, target |-> target]
SRV(name, target, num) ==
    [type |-> "SRV", name |-> name, target |-> target, port |-> num]
A(name, ip) == [type |-> "A", name |-> name, ip |-> ip]
Other(name) == [type |-> "other", name |-> name]

\* The record whose name starts at s.at; s.at moves on by rdLen, wherever
\* reading the data ended.
ReadRecord(cells, s) ==
    IF s.at > Len(cells) THEN s
    ELSE LET owner == ReadName(cells, s.at)
             fixed == cells[owner.next]
             data == owner.next + 1
             rr == CASE fixed.type = "PTR" -> PTR(owner.name, ReadName(cells, data).name)
                     [] fixed.type = "SRV" -> SRV(owner.name, ReadName(cells, data + 1).name,
                                                  cells[data].port)
                     [] fixed.type = "A" -> A(owner.name, cells[data].ip)
                     [] OTHER -> Other(owner.name)
         IN [at |-> data + fixed.rdLen, rrs |-> Append(s.rrs, rr)]

\* A question is a name and four bytes, one cell.
SkipQuestions(cells, count) ==
    LET after[q \in 0..count] ==
            IF q = 0 THEN 1 ELSE ReadName(cells, after[q - 1]).next + 1
    IN after[count]

\* The records of a response with the given counts.
ReadRecords(cells, questions, records) ==
    LET after[n \in 0..records] ==
            IF n = 0 THEN [at |-> SkipQuestions(cells, questions), rrs |-> <<>>]
            ELSE ReadRecord(cells, after[n - 1])
    IN after[records].rrs

-----------------------------------------------------------------------------
(***************************************************************************)
(* External: the responder on the phone.  A name ends with a pointer to    *)
(* the longest part of it that the message already has, if packed.         *)
(***************************************************************************)
Places(cells, name) ==
    {i \in 1..Len(cells) : /\ cells[i].cell \in {"label", "ptr"}
                           /\ ReadName(cells, i).name = name}

EncodeName(cells, name, packed) ==
    LET tails == {k \in 1..Len(name) :
                     packed /\ Places(cells, SubSeq(name, k, Len(name))) # {}}
        k == Min(tails)
        p == Min(Places(cells, SubSeq(name, k, Len(name))))
    IN IF tails = {} THEN cells \o WriteName(name)
       ELSE cells \o [i \in 1..k-1 |-> Label(name[i])] \o <<Pointer(p)>>

\* The fixed part of a record comes before the data, whose length it holds.
EncodeRecord(cells, rr, packed) ==
    LET owner == EncodeName(cells, rr.name, packed)
        fixed(len) == Append(owner, [cell |-> "fixed", type |-> rr.type, rdLen |-> len])
        full == CASE rr.type = "PTR" -> EncodeName(fixed(0), rr.target, packed)
                  [] rr.type = "SRV" ->
                       EncodeName(Append(fixed(0), [cell |-> "port", port |-> rr.port]),
                                  rr.target, packed)
                  [] rr.type = "A" -> Append(fixed(0), [cell |-> "ip", ip |-> rr.ip])
                  [] OTHER -> Append(fixed(0), [cell |-> "data"])
    IN [full EXCEPT ![Len(owner) + 1].rdLen = Len(full) - Len(owner) - 1]

Encode(questions, records, packed) ==
    LET asking[q \in 0..Len(questions)] ==
            IF q = 0 THEN <<>>
            ELSE Append(EncodeName(asking[q - 1], questions[q], packed), [cell |-> "question"])
        cells[n \in 0..Len(records)] ==
            IF n = 0 THEN asking[Len(questions)]
            ELSE EncodeRecord(cells[n - 1], records[n], packed)
    IN cells[Len(records)]
=============================================================================
