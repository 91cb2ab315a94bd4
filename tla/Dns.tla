-------------------------------- MODULE Dns --------------------------------
(***************************************************************************)
(* Edge discovery: the name reader and the query encoder of cf_dns.c, byte *)
(* by byte; cf_dns_parse over the records of a reply; and discover of      *)
(* esp_cf_tunnel.c, which asks for the SRV records of the edge, chooses    *)
(* one, and asks for the addresses of its target.                          *)
(*                                                                         *)
(* The two halves share no state: name is one call of read_name, zone and  *)
(* dns are the discovery of successive attempts.                           *)
(***************************************************************************)
EXTENDS Integers, FiniteSets, SequencesExt

CONSTANTS
    HopMax,      \* compression pointers followed in one name
    LabelsMax,   \* labels of one name
    NameMax,     \* CF_DNS_NAME_MAX
    RecordMax,   \* CF_DNS_RECORD_MAX
    Packets,     \* byte sequences a resolver may send
    Zones,       \* sets of SRV records the edge may advertise
    MaxAttempts  \* bound: attempts of the connector

ASSUME DnsAssumption ==
    /\ {HopMax, LabelsMax, NameMax, RecordMax, MaxAttempts} \subseteq Nat \ {0}
    /\ Packets \subseteq Seq(0..255)
    /\ \A z \in Zones :
          /\ z # {} /\ IsFiniteSet(z)
          /\ \A r \in z : r.weight \in Nat /\ r.priority \in Nat /\ r.target # "somebody"

VARIABLES
    name,  \* a call of read_name: its packet, its locals and its result
    zone,  \* what the edge advertises
    dns    \* discovery: dns_stage, attempts (the length of picks) and answers

-----------------------------------------------------------------------------
(* Names on the wire.                                                      *)

Dot == 46
lower(c) == IF c \in 65..90 THEN c + 32 ELSE c
name_char(c) == c \in 97..122 \/ c \in 48..57 \/ c = 45 \/ c = 95

\* Offsets count from 0, as in the code.
Octet(p, i) == p[i + 1]

Call(p, start) == [packet |-> p, start |-> start, at |-> start, out |-> <<>>,
                   resume |-> 0, hops |-> 0, labels |-> 0, rc |-> "RUN"]

NameInit == name \in UNION {{Call(p, s) : s \in 0..Len(p)} : p \in Packets}

\* The octet at the head of an iteration, and the end of the call.
Head8 == Octet(name.packet, name.at)
Reading == name.rc = "RUN" /\ name.at < Len(name.packet)
Return(rc) == name' = [name EXCEPT !.rc = rc]

PastEnd == /\ name.rc = "RUN"
           /\ name.at >= Len(name.packet)
           /\ Return("TRUNCATED")

\* Mutant: the name resumes after the last pointer.
ResumeLast(target) == name' = [name EXCEPT !.hops = @ + 1, !.at = target,
                                           !.resume = name.at + 2]

\* The name resumes after the first pointer.
Jump(target) ==
    name' = [name EXCEPT !.hops = @ + 1, !.at = target,
                         !.resume = IF @ = 0 THEN name.at + 2 ELSE @]

\* Compression pointers only lead backwards.
Pointer ==
    LET target == (Head8 % 64) * 256 + Octet(name.packet, name.at + 1)
    IN /\ Reading
       /\ Head8 >= 192
       /\ IF name.at + 1 >= Len(name.packet) THEN Return("TRUNCATED")
          ELSE IF name.hops + 1 > HopMax \/ target >= name.at THEN Return("FORMAT")
          ELSE Jump(target)

Reserved == Reading /\ Head8 \in 64..191 /\ Return("FORMAT")

\* The offset of the caller moves past the name, not past what it points to.
NameEnd == /\ Reading
           /\ Head8 = 0
           /\ name' = [name EXCEPT !.rc = "OK",
                            !.at = IF name.resume # 0 THEN name.resume ELSE @ + 1]

Label ==
    LET n     == Head8
        chars == [i \in 1..n |-> lower(Octet(name.packet, name.at + i))]
        dot   == IF name.out = <<>> THEN <<>> ELSE <<Dot>>
    IN /\ Reading
       /\ n \in 1..63
       /\ IF \/ name.labels + 1 > LabelsMax
             \/ n > Len(name.packet) - (name.at + 1)
             \/ Len(name.out) + n + Len(dot) > NameMax
          THEN Return("LIMIT")
          ELSE IF \E i \in 1..n : ~name_char(chars[i]) THEN Return("FORMAT")
          ELSE name' = [name EXCEPT !.labels = @ + 1, !.at = @ + n + 1,
                                    !.out = @ \o dot \o chars]

read_name == PastEnd \/ Pointer \/ Reserved \/ NameEnd \/ Label

NameSpec == NameInit /\ [][read_name]_name

\* cf_dns_query: the question of a query, without its constant header and
\* trailer; the end of the string closes the last label like a dot.
cf_dns_query(string) ==
    LET Step(q, c) ==
          IF c # Dot
          THEN [q EXCEPT !.label = Append(@, lower(c)),
                         !.ok = @ /\ name_char(lower(c))]
          ELSE [bytes |-> q.bytes \o <<Len(q.label)>> \o q.label, label |-> <<>>,
                ok |-> q.ok /\ Len(q.label) \in 1..63]
        done == FoldLeft(Step, [bytes |-> <<>>, label |-> <<>>, ok |-> TRUE],
                         Append(string, Dot))
    IN IF string = <<>> \/ Len(string) > NameMax THEN [rc |-> "LIMIT", bytes |-> <<>>]
       ELSE IF ~done.ok THEN [rc |-> "ARGUMENT", bytes |-> <<>>]
       ELSE [rc |-> "OK", bytes |-> Append(done.bytes, 0)]

-----------------------------------------------------------------------------
(* Replies.                                                                *)

\* Mutant: records of the other sections count as answers.
AnswersAnywhere(r, question) ==
    r.type = question.type /\ r.class = 1 /\ r.owner = question.name

\* A record is what the loop of cf_dns_parse reads of it.  rc is the outcome of
\* its owner name and lengths; fault is what is wrong with its data, if
\* anything.
Answers(r, question) ==
    /\ r.section = "answer"
    /\ r.type = question.type
    /\ r.class = 1
    /\ r.owner = question.name

\* A must have four bytes and be unicast; SRV must hold a name that ends with
\* the record, the port of the edge and a target in its domain.
Verdict(r) ==
    CASE r.fault = "none" -> "OK"
      [] r.fault \in {"length", "multicast", "name"} -> "FORMAT"
      [] r.fault \in {"tail", "port", "domain"} -> "UNSUPPORTED"

\* One failure empties the whole answer.
Nothing(rc) == [rc |-> rc, records |-> <<>>]

Take(out, r, question) ==
    IF out.rc # "OK" THEN out
    ELSE IF r.rc # "OK" THEN Nothing(r.rc)
    ELSE IF ~Answers(r, question) THEN out
    ELSE IF Len(out.records) >= RecordMax THEN Nothing("LIMIT")
    ELSE IF Verdict(r) # "OK" THEN Nothing(Verdict(r))
    ELSE [rc |-> "OK", records |-> Append(out.records, r.data)]

\* The loop over the records of a reply.
TakeAll(records, question) ==
    LET out[i \in 0..Len(records)] ==
          IF i = 0 THEN Nothing("OK") ELSE Take(out[i - 1], records[i], question)
    IN out[Len(records)]

cf_dns_parse(reply, question) ==
    LET all == TakeAll(reply.records, question)
    IN IF reply.header # "OK" THEN Nothing(reply.header)
       ELSE IF reply.question # question THEN Nothing("FORMAT")
       ELSE IF all.rc # "OK" THEN all
       ELSE IF reply.trailing THEN Nothing("FORMAT")
       ELSE IF all.records = <<>> THEN Nothing("STATE")
       ELSE all

-----------------------------------------------------------------------------
(* Choosing an SRV record.                                                 *)

Exchange(s, i, j) ==
    IF i < j /\ s[j].priority < s[i].priority
    THEN [s EXCEPT ![i] = s[j], ![j] = s[i]] ELSE s

\* Mutant: only the first place gets its record.
SortedFirst(records) ==
    FoldLeft(LAMBDA s, j : Exchange(s, 1, j), records, [j \in 1..Len(records) |-> j])

\* The exchange sort: for every i, every j after it, swapped when out of order.
Pass(s, i) ==
    LET after[j \in 0..Len(s)] == IF j = 0 THEN s ELSE Exchange(after[j - 1], i, j)
    IN after[Len(s)]

Sorted(records) ==
    LET after[i \in 0..Len(records)] ==
          IF i = 0 THEN records ELSE Pass(after[i - 1], i)
    IN after[Len(records)]

\* first..last: the records around pick that share its priority.
Class(s, pick) ==
    LET Same(i, j) == \A k \in i..j : s[k].priority = s[pick].priority
    IN {i \in 1..Len(s) : Same(i, pick) /\ Same(pick, i)}

WeightsUpTo(s, class, i) ==
    LET sum[k \in 0..Len(s)] ==
          IF k = 0 THEN 0
          ELSE sum[k - 1] + IF k \in class THEN s[k].weight ELSE 0
    IN sum[i]

\* The rotated entry, or by weight in its class: the first record whose
\* running sum exceeds the random value.
Choice(s, attempts, random) ==
    LET pick  == 1 + ((attempts - 1) % Len(s))
        class == Class(s, pick)
        last  == CHOOSE i \in class : \A k \in class : k <= i
        sum   == WeightsUpTo(s, class, last)
        value == random % sum
    IN IF sum = 0 THEN s[pick]
       ELSE s[CHOOSE i \in class :
                /\ i = last \/ value < WeightsUpTo(s, class, i)
                /\ \A k \in class : k < i => value >= WeightsUpTo(s, class, k)]

-----------------------------------------------------------------------------
(* The resolver and the network between.                                   *)

SrvQuestion == [name |-> "discovery", type |-> "SRV"]
AQuestion(target) == [name |-> target, type |-> "A"]
Rogue(question) ==
    IF question.type = "SRV" THEN [target |-> "rogue", priority |-> 0, weight |-> 1]
    ELSE "rogue"

Answer(question, data) ==
    [section |-> "answer", owner |-> question.name, type |-> question.type,
     class |-> 1, rc |-> "OK", fault |-> "none", data |-> data]

\* What a reply may hold besides the answer: a record that answers another
\* question, in one respect only, or one that cannot be read or accepted.
Others(question) ==
    LET r == Answer(question, Rogue(question))
    IN {[r EXCEPT !.section = "other"], [r EXCEPT !.owner = "somebody"],
        [r EXCEPT !.type = "other"], [r EXCEPT !.class = 3]}
         \cup {[r EXCEPT !.rc = rc] : rc \in {"FORMAT", "TRUNCATED", "LIMIT"}}
         \cup {[r EXCEPT !.fault = f] :
                 f \in IF question.type = "A" THEN {"length", "multicast"}
                       ELSE {"length", "name", "tail", "port", "domain"}}

Reply(header, question, records, trailing) ==
    [header |-> header, question |-> question, records |-> records, trailing |-> trailing]

\* The records in any order, perhaps with another one, in a sound packet or not.
Resolver(question, data) ==
    LET answers == {[i \in DOMAIN s |-> Answer(question, s[i])] :
                      s \in SetToSeqs(data)}
        others  == UNION {{<<o>> \o a : a \in answers} : o \in Others(question)}
    IN {Reply("OK", question, a, FALSE) : a \in answers \cup others}
         \cup {Reply(rc, question, <<>>, FALSE) : rc \in {"FORMAT", "TRUNCATED", "LIMIT", "STATE"}}
         \cup {Reply("OK", AQuestion("another"), <<>>, FALSE),
               Reply("OK", question, <<>>, TRUE), Reply("OK", question, <<>>, FALSE)}

Addresses(target) == {<<target, 1>>, <<target, 2>>}

-----------------------------------------------------------------------------
(* discover                                                                *)

NoTarget == "none"
NoPick == <<>>

Undiscovered == [stage |-> "idle", picks |-> <<>>, target |-> NoTarget, edge |-> <<>>]

DnsInit == zone \in Zones /\ dns = Undiscovered

Fail == dns' = [dns EXCEPT !.stage = "failed"]

\* A new attempt: attempts is counted before anything can fail.
StartDiscovery ==
    LET d == [dns EXCEPT !.picks = Append(@, NoPick), !.target = NoTarget,
                         !.edge = <<>>]
    IN /\ dns.stage \in {"idle", "failed", "connecting"}
       /\ Len(dns.picks) < MaxAttempts
       /\ \/ dns' = [d EXCEPT !.stage = "srv"]
          \/ dns' = [d EXCEPT !.stage = "failed"]  \* no memory or no socket
       /\ UNCHANGED zone

\* No reply in time, or the socket failed.
QueryFails == dns.stage \in {"srv", "a"} /\ Fail /\ UNCHANGED zone

\* The SRV reply, and the question for the target it leads to.
SrvReply(reply, random) ==
    LET parsed == cf_dns_parse(reply, SrvQuestion)
        chosen == Choice(Sorted(parsed.records), Len(dns.picks), random)
    IN /\ dns.stage = "srv"
       /\ IF parsed.rc # "OK" THEN Fail
          ELSE \E sent \in BOOLEAN :
                 dns' = [dns EXCEPT !.picks[Len(dns.picks)] = chosen,
                                    !.target = chosen.target,
                                    !.stage = IF sent THEN "a" ELSE "failed"]
       /\ UNCHANGED zone

AReply(reply, random) ==
    LET parsed == cf_dns_parse(reply, AQuestion(dns.target))
        count  == Len(parsed.records)
    IN /\ dns.stage = "a"
       /\ IF parsed.rc # "OK" THEN Fail
          ELSE dns' = [dns EXCEPT !.edge = parsed.records[1 + (random % count)],
                                  !.stage = "connecting"]
       /\ UNCHANGED zone

Randoms == 0..3

discover ==
    \/ StartDiscovery
    \/ QueryFails
    \/ /\ dns.stage = "srv"
       /\ \E reply \in Resolver(SrvQuestion, zone), random \in Randoms :
            SrvReply(reply, random)
    \/ /\ dns.stage = "a"
       /\ \E reply \in Resolver(AQuestion(dns.target), Addresses(dns.target)),
             random \in Randoms : AReply(reply, random)

DnsSpec == DnsInit /\ [][discover]_<<zone, dns>>

-----------------------------------------------------------------------------
(* The reference: what a name stands for, from the format.                 *)

\* The names that start at an offset, none or one: their labels, the number of
\* pointers and labels read.
Expansions(p, start) ==
    LET Steps == 0..(HopMax + LabelsMax + 2)
        From[o \in 0..Len(p), left \in Steps] ==
          LET n    == Octet(p, o)
              next == (n % 64) * 256 + Octet(p, o + 1)
          IN IF left = 0 \/ o >= Len(p) THEN {}
             ELSE IF n = 0 THEN {[labels |-> <<>>, hops |-> 0]}
             ELSE IF n < 64 /\ o + n < Len(p)
                  THEN {[x EXCEPT !.labels = <<SubSeq(p, o + 2, o + 1 + n)>> \o @] :
                          x \in From[o + 1 + n, left - 1]}
             ELSE IF n >= 192 /\ o + 1 < Len(p) /\ next < o
                  THEN {[x EXCEPT !.hops = @ + 1] : x \in From[next, left - 1]}
             ELSE {}
    IN From[start, HopMax + LabelsMax + 2]

\* Where the bytes of the name itself end: after its first 0 or pointer.
NameExtent(p, start) ==
    LET End[o \in 0..Len(p)] ==
          IF Octet(p, o) = 0 THEN o + 1
          ELSE IF Octet(p, o) >= 192 THEN o + 2
          ELSE End[o + 1 + Octet(p, o)]
    IN End[start]

Text(labels) ==
    [i \in 1..Len(labels) |-> [k \in DOMAIN labels[i] |-> lower(labels[i][k])]]

Joined(labels) ==
    FoldLeft(LAMBDA s, l : IF s = <<>> THEN l ELSE s \o <<Dot>> \o l, <<>>, Text(labels))

\* The names the code is meant to take: within its limits and its characters.
Acceptable(x) ==
    /\ x.hops <= HopMax
    /\ Len(x.labels) <= LabelsMax
    /\ Len(Joined(x.labels)) <= NameMax
    /\ \A i \in DOMAIN x.labels : \A k \in DOMAIN x.labels[i] :
          name_char(lower(x.labels[i][k]))

\* Whatever pointers a resolver sends, read_name accepts exactly the names of
\* the format within its limits, yields their labels and leaves the parser
\* after the name's own bytes; and a name it accepted can be asked for: its
\* query holds the same labels.
NamesRead ==
    LET meant == {x \in Expansions(name.packet, name.start) : Acceptable(x)}
        again == cf_dns_query(name.out)
    IN /\ name.rc = "OK" =>
            /\ \E x \in meant : name.out = Joined(x.labels)
            /\ name.at = NameExtent(name.packet, name.start)
            /\ name.at <= Len(name.packet)
            /\ name.out # <<>> =>
                 /\ again.rc = "OK"
                 /\ \E x \in Expansions(again.bytes, 0) : Joined(x.labels) = name.out
       /\ name.rc \notin {"RUN", "OK"} => meant = {}

-----------------------------------------------------------------------------
\* Load: for the attempt at hand and any order of the records, the random values
\* choose each record of one priority in proportion to its weight, and without
\* weights the record whose turn it is.
Proportional ==
    \A order \in SetToSeqs(zone) :
        LET s      == Sorted(order)
            turn   == s[1 + ((Len(dns.picks) - 1) % Len(s))]
            class  == {r \in zone : r.priority = turn.priority}
            sum    == WeightsUpTo(s, {i \in 1..Len(s) : s[i] \in class}, Len(s))
            By(r)  == {v \in 0..(sum - 1) : Choice(s, Len(dns.picks), v) = r}
        IN IF sum = 0 THEN Choice(s, Len(dns.picks), 0) = turn
           ELSE \A r \in zone :
                  Cardinality(By(r)) = IF r \in class THEN r.weight ELSE 0

\* Failover: of as many successive attempts as there are SRV records, if each
\* got an answer, every priority is tried as often as it has records, in
\* whatever order the resolver lists them; within a priority, the random value
\* shares the load by weight.
FailoverReachesAll ==
    LET n      == Cardinality(zone)
        picks  == dns.picks
        window == {i \in DOMAIN picks : i > Len(picks) - n}
    IN /\ Len(picks) >= n /\ (\A i \in window : picks[i] # NoPick) =>
            \A p \in {r.priority : r \in zone} :
              Cardinality({i \in window : picks[i].priority = p})
                = Cardinality({r \in zone : r.priority = p})
       /\ dns.stage = "srv" => Proportional

\* The address connected to is one the resolver gave for the target that was
\* chosen from the advertised records: a record of another section, name, type
\* or class, and a reply with any fault, never contribute to it.
EdgeIsAdvertised ==
    dns.stage = "connecting" =>
        /\ \E r \in zone : r.target = dns.target
        /\ dns.edge \in Addresses(dns.target)
=============================================================================
