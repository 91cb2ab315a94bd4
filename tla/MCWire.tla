------------------------------- MODULE MCWire -------------------------------
(***************************************************************************)
(* The parsers of what the network sends, side by side: an initial state   *)
(* has one subject, and only its parser takes steps.                       *)
(***************************************************************************)
EXTENDS Framer, Dns, Capnp, Headers

VARIABLE subject

\* A frame with these segment sizes, in words.  U is 2: an entry is a low and a
\* high byte, and the body is filled with bytes that tell positions apart.
Encoded(sizes) ==
    LET n     == Len(sizes)
        Pair(v) == <<v % 256, v \div 256>>
        table == Pair(n - 1)
                   \o FlattenSeq([i \in 1..n |-> Pair(sizes[i])])
                   \o IF n % 2 = 0 THEN <<0, 0>> ELSE <<>>
        words == FoldLeft(LAMBDA x, y : x + y, 0, sizes)
    IN table \o [i \in 1..(4 * IF words > 4 THEN 1 ELSE words) |-> i]

\* Smallest, with an empty segment, and as large as the buffer.
Accepted == {<<1>>, <<1, 0>>, <<1, 1>>, <<1, 0, 1>>}

\* Too large by one word and by far, an empty first segment, a table larger
\* than the buffer and one segment too many.
Malformed == {<<2, 1>>, <<4>>, <<65535, 65535>>, <<0>>, <<0, 1>>,
              [i \in 1..8 |-> 1], [i \in 1..9 |-> 1]}

MCStreams == {Encoded(f) \o Encoded(g) : f \in Accepted, g \in Accepted \cup Malformed}

\* Names: labels of one and two letters, a bad letter, a label past the end, a
\* reserved length and pointers to the start, into and after a label.
Pieces == {<<0>>, <<1, 97>>, <<2, 65, 98>>, <<1, 46>>, <<5>>, <<64>>,
           <<192, 0>>, <<192, 1>>, <<192, 3>>}
Endings == {<<0>>, <<192>>, <<192, 0>>, <<192, 3>>}
MCPackets == UNION {{FlattenSeq(s) \o e : s \in [1..n -> Pieces], e \in Endings} : n \in 0..3}

\* SRV records: one, ties with and without weights, three priorities.
Srv(t, p, w) == [target |-> t, priority |-> p, weight |-> w]
MCZones == {{Srv("x", 1, 2)},
            {Srv("x", 1, 1), Srv("y", 1, 2), Srv("z", 2, 0)},
            {Srv("x", 2, 0), Srv("y", 1, 0), Srv("z", 2, 0)},
            {Srv("x", 3, 0), Srv("y", 1, 0), Srv("z", 2, 3)},
            {Srv("x", 1, 0), Srv("y", 1, 3), Srv("z", 1, 0)}}

\* Messages of two segments, of three words and of one: pointers forwards,
\* backwards and to themselves, tags whose count and size agree or disagree with
\* the list, far pointers with one and two words of landing pad.
Ends == {NullPtr, StructPtr(-1, 0, 1), StructPtr(-3, 1, 1), StructPtr(0, 1, 0),
         ListPtr(-1, 2, 8), FarPtr(FALSE, 1, 0), CapPtr}
Alphabet == Ends \cup {StructPtr(0, 1, 1), StructPtr(1, 0, 1), StructPtr(2, 1, 0),
                       ListPtr(0, 6, 2), ListPtr(0, 2, 9), ListPtr(0, 7, 1),
                       FarPtr(TRUE, 0, 1), OtherPtr}
MCMessages == {<<<<a, b, c>>, <<d>>>> : a, b \in Alphabet, c, d \in Ends}

FramerIdle == /\ framer = Empty /\ stream = <<>> /\ at = 0 /\ left = 0
              /\ delivered = <<>> /\ refused = FALSE
NameIdle == name = Call(<<0>>, 0)
DiscoveryIdle == zone = {Srv("x", 1, 2)} /\ dns = Undiscovered
CapnpIdle == /\ message = <<<<NullPtr>>>> /\ builder = Closed
             /\ reader = Fresh /\ value = NullValue /\ visited = 0

\* One and two letters in base64, one letter with a spare bit set, a lone digit,
\* a character that is none and the separators.
MCFragments == {<<24, 16>>, <<24, 22, 16>>, <<24, 17>>, <<24>>, <<24, NoDigit>>,
                <<Semicolon>>, <<Colon>>}

WireInit ==
    \/ /\ subject = "framer" /\ Init
       /\ NameIdle /\ DiscoveryIdle /\ CapnpIdle /\ HeadersInit
    \/ /\ subject = "name" /\ NameInit
       /\ FramerIdle /\ DiscoveryIdle /\ CapnpIdle /\ HeadersInit
    \/ /\ subject = "discovery" /\ DnsInit
       /\ FramerIdle /\ NameIdle /\ CapnpIdle /\ HeadersInit
    \/ /\ subject = "message" /\ CapnpInit
       /\ FramerIdle /\ NameIdle /\ DiscoveryIdle /\ HeadersInit
    \/ /\ subject = "headers" /\ HeadersInit
       /\ FramerIdle /\ NameIdle /\ DiscoveryIdle /\ CapnpIdle

WireNext ==
    \/ /\ subject = "framer"
       /\ Next
       /\ UNCHANGED <<subject, name, zone, dns, wire, capnpVars>>
    \/ /\ subject = "name"
       /\ read_name
       /\ UNCHANGED <<subject, vars, zone, dns, wire, capnpVars>>
    \/ /\ subject = "discovery"
       /\ discover
       /\ UNCHANGED <<subject, vars, name, wire, capnpVars>>
    \/ /\ subject = "message"
       /\ Read \/ Build
       /\ UNCHANGED <<subject, vars, name, zone, dns, wire>>
    \/ /\ subject = "headers"
       /\ \E text \in Fragments : Send(text)
       /\ UNCHANGED <<subject, vars, name, zone, dns, capnpVars>>

WireSpec == WireInit /\ [][WireNext]_<<subject, vars, name, zone, dns, wire, capnpVars>>
=============================================================================
