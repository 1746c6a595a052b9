---------------------------- MODULE DnsTransport ----------------------------
(***************************************************************************)
(* The transport encoding of the DNS driver (pkg/tunnel/dns): the query    *)
(* name a frame is sent in (Driver.encodeDNSName, BuildDNSQuery and the   *)
(* wire encodeDNSName), the parser of the answers (ParseDNSResponse,       *)
(* decodeDNSName) and the decoding of the answer records back into bytes  *)
(* (decodeDNSResponse, removeDomain, decodeHex), and what one iteration   *)
(* of Driver.Run makes of a datagram.                                      *)
(*                                                                         *)
(* Strings are sequences of byte values (ASCII for names).  A parse works *)
(* on offsets into the datagram, 0-based as in the code.  The server's    *)
(* side of the encoding is in module Wire.                                 *)
(***************************************************************************)
EXTENDS Naturals, Sequences, SequencesExt, TLC

(* d.Domain is the parameter domain of the operators that read it, <<>>    *)
(* when no domain is configured.                                           *)

\* Constants of dns.go and protocol.go.
MaxFieldLength == 62
MaxDNSLength == 255
WildcardPrefix == <<100, 110, 115, 99, 97, 116>>     \* "dnscat"
TypeA == 1
TypeCNAME == 5
TypeMX == 15
TypeTXT == 16
TypeAAAA == 28
Dot == 46

\* Op applied to the value of x, x evaluated once.
With(x, Op(_)) == CHOOSE y \in {Op(v) : v \in {x}} : TRUE

LOCAL Be16(x) == <<x \div 256, x % 256>>
LOCAL Num(b) == FoldLeft(LAMBDA acc, y : acc * 256 + y, 0, b)
\* Bytes [from, to) of a datagram, 0-based offsets as in data[from:to].
LOCAL Bytes(d, from, to) == SubSeq(d, from + 1, to)

-----------------------------------------------------------------------------
(* Sending: the query a frame travels in.                                  *)

\* Mutant: the bound counts one byte of the name per byte of data.
MaxDNSCatLengthNoHalf(domain) ==
    LET domainLen == IF domain = <<>> THEN Len(WildcardPrefix) ELSE Len(domain)
    IN  MaxDNSLength - domainLen - 1 - ((MaxDNSLength \div MaxFieldLength) + 1)

\* Driver.MaxDNSCatLength
MaxDNSCatLength(domain) ==
    LET domainLen == IF domain = <<>> THEN Len(WildcardPrefix) ELSE Len(domain)
    IN  (MaxDNSLength \div 2) - domainLen - 1 - ((MaxDNSLength \div MaxFieldLength) + 1)

\* hex.EncodeToString: two lower-case digits per byte.
HexDigit(n) == IF n < 10 THEN 48 + n ELSE 87 + n
HexEncode(data) == [i \in 1..2 * Len(data) |->
                       IF i % 2 = 1 THEN HexDigit(data[(i + 1) \div 2] \div 16)
                       ELSE HexDigit(data[i \div 2] % 16)]

\* The loop of Driver.encodeDNSName: a period after every MaxFieldLength - 1
\* digits, unless the digit is the last.
RECURSIVE Sections(_)
Sections(h) ==
    IF Len(h) <= MaxFieldLength - 1 THEN h
    ELSE SubSeq(h, 1, MaxFieldLength - 1) \o <<Dot>> \o Sections(SubSeq(h, MaxFieldLength, Len(h)))

\* Driver.encodeDNSName
encodeDNSNameOfData(domain, data) ==
    IF domain = <<>> THEN WildcardPrefix \o <<Dot>> \o Sections(HexEncode(data))
    ELSE Sections(HexEncode(data)) \o <<Dot>> \o domain

\* strings.Split(name, "."), the empty parts dropped as encodeDNSName does.
RECURSIVE Labels(_)
Labels(name) ==
    LET i == SelectInSeq(name, LAMBDA c : c = Dot)
    IN  IF i = 0 THEN (IF name = <<>> THEN <<>> ELSE <<name>>)
        ELSE (IF i = 1 THEN <<>> ELSE <<SubSeq(name, 1, i - 1)>>)
             \o Labels(SubSeq(name, i + 1, Len(name)))

\* encodeDNSName of protocol.go: a length byte (byte(len(part))) before
\* each label, a 0 at the end.
encodeDNSName(name) ==
    LET ls == Labels(name)
    IN  FlattenSeq([i \in DOMAIN ls |-> <<Len(ls[i]) % 256>> \o ls[i]]) \o <<0>>

\* BuildDNSQuery with transaction id id: RD set, one question of class IN.
BuildDNSQuery(id, name, qtype) ==
    Be16(id) \o Be16(256) \o Be16(1) \o Be16(0) \o Be16(0) \o Be16(0)
    \o encodeDNSName(name) \o Be16(qtype) \o Be16(1)

-----------------------------------------------------------------------------
(* Receiving: ParseDNSResponse.                                            *)

JoinLabels(parts) ==
    FlattenSeq([i \in DOMAIN parts |-> IF i = 1 THEN parts[i] ELSE <<Dot>> \o parts[i]])

\* decodeDNSName from offset, one label or one compression pointer per
\* step.  A decoding that does not return within Len(data) + 1 steps
\* revisits an offset, and the code then loops for ever: "loop".
RECURSIVE decodeName(_, _, _, _, _, _)
decodeName(data, offset, parts, jumped, jumpOffset, fuel) ==
    IF fuel = 0 THEN [status |-> "loop"]
    ELSE IF offset >= Len(data) THEN [status |-> "err"]
    ELSE LET length == data[offset + 1]
         IN  IF length = 0
             THEN [status |-> "ok", name |-> JoinLabels(parts),
                   off |-> IF jumped THEN jumpOffset ELSE offset + 1]
             ELSE IF length >= 192     \* length & 0xC0 == 0xC0
             THEN IF offset + 1 >= Len(data) THEN [status |-> "err"]
                  ELSE decodeName(data, Num(Bytes(data, offset, offset + 2)) % 16384, parts,
                                  TRUE, IF jumped THEN jumpOffset ELSE offset + 2, fuel - 1)
             ELSE IF offset + 1 + length > Len(data) THEN [status |-> "err"]
             ELSE decodeName(data, offset + 1 + length,
                             Append(parts, Bytes(data, offset + 1, offset + 1 + length)),
                             jumped, jumpOffset, fuel - 1)

decodeDNSName(data, offset) == decodeName(data, offset, <<>>, FALSE, 0, Len(data) + 1)

\* The loop over the questions: each a name and four bytes.
RECURSIVE ParseQuestions(_, _, _)
ParseQuestions(data, offset, k) ==
    IF k = 0 THEN [status |-> "ok", off |-> offset]
    ELSE With(decodeDNSName(data, offset), LAMBDA n :
             IF n.status # "ok" THEN n
             ELSE IF n.off + 4 > Len(data) THEN [status |-> "err"]
             ELSE ParseQuestions(data, n.off + 4, k - 1))

\* a.Data of an answer of type t whose data starts at offset.
AnswerData(data, t, offset, rdLength) ==
    CASE t = TypeA    -> IF rdLength >= 4 THEN Bytes(data, offset, offset + 4) ELSE <<>>
      [] t = TypeAAAA -> IF rdLength >= 16 THEN Bytes(data, offset, offset + 16) ELSE <<>>
      [] t \in {TypeCNAME, TypeMX} ->
            IF t = TypeMX /\ rdLength < 2 THEN [status |-> "ok", name |-> <<>>]
            ELSE With(decodeDNSName(data, IF t = TypeMX THEN offset + 2 ELSE offset), LAMBDA n :
                      IF n.status = "ok" THEN [status |-> "ok", name |-> n.name] ELSE n)
      [] t = TypeTXT  -> IF rdLength >= 1 /\ offset + 1 + data[offset + 1] <= Len(data)
                         THEN Bytes(data, offset + 1, offset + 1 + data[offset + 1])
                         ELSE <<>>
      [] OTHER        -> Bytes(data, offset, offset + rdLength)

\* One answer at offset: its [type, data] record and the offset after it.
ParseAnswer(data, offset) ==
    With(decodeDNSName(data, offset), LAMBDA n :
         IF n.status # "ok" THEN n
         ELSE IF n.off + 10 > Len(data) THEN [status |-> "err"]
         ELSE With([t |-> Num(Bytes(data, n.off, n.off + 2)),
                    rd |-> Num(Bytes(data, n.off + 8, n.off + 10)), o |-> n.off], LAMBDA h :
              IF h.o + 10 + h.rd > Len(data) THEN [status |-> "err"]
              ELSE With(AnswerData(data, h.t, h.o + 10, h.rd), LAMBDA ad :
                   IF h.t \in {TypeCNAME, TypeMX} /\ ad.status = "loop" THEN ad
                   ELSE [status |-> "ok", next |-> h.o + 10 + h.rd,
                         rec |-> [type |-> h.t,
                                  data |-> IF h.t \notin {TypeCNAME, TypeMX} THEN ad
                                           ELSE IF ad.status = "ok" THEN ad.name
                                           ELSE <<>>]])))

\* The loop over the answers, collecting the records.
RECURSIVE ParseAnswers(_, _, _, _)
ParseAnswers(data, offset, k, acc) ==
    IF k = 0 THEN [status |-> "ok", answers |-> acc]
    ELSE With(ParseAnswer(data, offset), LAMBDA a :
              IF a.status # "ok" THEN a
              ELSE ParseAnswers(data, a.next, k - 1, Append(acc, a.rec)))

\* ParseDNSResponse: the rcode and the answers, an error, or "loop".
ParseDNSResponse(data) ==
    IF Len(data) < 12 THEN [status |-> "err"]
    ELSE With(ParseQuestions(data, 12, Num(Bytes(data, 4, 6))), LAMBDA q :
             IF q.status # "ok" THEN q
             ELSE With(ParseAnswers(data, q.off, Num(Bytes(data, 6, 8)), <<>>), LAMBDA a :
                      IF a.status # "ok" THEN a
                      ELSE [status |-> "ok", rcode |-> Num(Bytes(data, 2, 4)) % 16,
                            answers |-> a.answers]))

-----------------------------------------------------------------------------
(* Decoding the answers: decodeDNSResponse.                                *)

\* hex.DecodeString: an error for an odd length or a byte that is not a
\* hex digit.
HexValue(c) ==
    CASE c \in 48..57 -> c - 48 [] c \in 97..102 -> c - 87 [] c \in 65..70 -> c - 55
      [] OTHER -> 16
HexDecode(s) ==
    IF Len(s) % 2 = 1 \/ \E i \in DOMAIN s : HexValue(s[i]) = 16 THEN [status |-> "err"]
    ELSE [status |-> "ok",
          data |-> [i \in 1..Len(s) \div 2 |-> HexValue(s[2*i - 1]) * 16 + HexValue(s[2*i])]]

\* Driver.decodeHex: the periods removed, then hex.DecodeString.
decodeHex(data) == HexDecode(SelectSeq(data, LAMBDA c : c # Dot))

\* Driver.removeDomain: "" when the name does not carry the domain (or the
\* wildcard prefix), else the name without it.
removeDomain(domain, name) ==
    IF domain # <<>>
    THEN IF ~IsSuffix(domain, name) \/ name = domain THEN <<>>
         ELSE IF IsSuffix(<<Dot>> \o domain, name)
              THEN SubSeq(name, 1, Len(name) - Len(domain) - 1)
              ELSE name
    ELSE IF ~IsPrefix(WildcardPrefix, name) THEN <<>>
         ELSE IF IsPrefix(WildcardPrefix \o <<Dot>>, name)
              THEN SubSeq(name, Len(WildcardPrefix) + 2, Len(name))
              ELSE name

\* Mutant: the records taken in the order they arrived.
ReassembleUnsorted(answers, w) ==
    With(FlattenSeq([i \in DOMAIN answers |->
            IF Len(answers[i].data) >= w THEN SubSeq(answers[i].data, 2, w) ELSE <<>>]), LAMBDA buf :
         IF Len(buf) < 1 \/ buf[1] > Len(buf) - 1 THEN [status |-> "err"]
         ELSE [status |-> "ok", data |-> SubSeq(buf, 2, buf[1] + 1)])

\* The A and AAAA case: the answers sorted by their first byte (sort.Slice
\* indexes Data[0] of every answer it compares: a panic when one is
\* empty), bytes 2..w of each answer of w bytes appended, the first of
\* them the length of the payload.
Reassemble(answers, w) ==
    IF Len(answers) >= 2 /\ \E i \in DOMAIN answers : answers[i].data = <<>>
    THEN [status |-> "panic"]
    ELSE With(SortSeq(answers, LAMBDA x, y : x.data[1] < y.data[1]), LAMBDA sorted :
         With(FlattenSeq([i \in DOMAIN sorted |->
                 IF Len(sorted[i].data) >= w THEN SubSeq(sorted[i].data, 2, w) ELSE <<>>]), LAMBDA buf :
              IF Len(buf) < 1 \/ buf[1] > Len(buf) - 1 THEN [status |-> "err"]
              ELSE [status |-> "ok", data |-> SubSeq(buf, 2, buf[1] + 1)]))

\* Driver.decodeDNSResponse: the bytes the answers carry, by the type of
\* the first.
decodeDNSResponse(domain, answers) ==
    IF answers = <<>> THEN [status |-> "err"]
    ELSE LET t == answers[1].type
         IN  CASE t = TypeTXT -> decodeHex(answers[1].data)
               [] t \in {TypeCNAME, TypeMX} ->
                    With(removeDomain(domain, answers[1].data), LAMBDA name :
                         IF name = <<>> THEN [status |-> "err"] ELSE decodeHex(name))
               [] t = TypeA    -> Reassemble(answers, 4)
               [] t = TypeAAAA -> Reassemble(answers, 16)
               [] OTHER        -> [status |-> "err"]

\* One iteration of Driver.Run on a datagram: "data" (with the bytes
\* handed to controller.DataIncoming, possibly none) or "skip" (logged,
\* the loop goes on); on "loop" the goroutine never returns from
\* decodeDNSName, and a "panic" (no recover) ends the process.
Receive(domain, dgram) ==
    With(ParseDNSResponse(dgram), LAMBDA r :
         IF r.status = "err" THEN [status |-> "skip"]
         ELSE IF r.status = "loop" THEN r
         ELSE IF r.rcode # 0 \/ r.answers = <<>> THEN [status |-> "skip"]
         ELSE With(decodeDNSResponse(domain, r.answers), LAMBDA d :
                   CASE d.status = "ok"  -> [status |-> "data", data |-> d.data]
                     [] d.status = "err" -> [status |-> "skip"]
                     [] OTHER            -> d))
====
