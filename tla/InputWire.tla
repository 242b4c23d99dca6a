------------------------------ MODULE InputWire -------------------------------
(***************************************************************************)
(* The bytes between the browser's input and the host's: the packet layout *)
(* of crates/protocol/src/input.rs, written by web/src/input/protocol.ts,  *)
(* and its two reliable carriers, the length-framed input stream and the   *)
(* lines of the control stream (crates/host/src/media/wt/session.rs).      *)
(* A byte is a digit to the base Base (256); NL and Close, the end of the  *)
(* JSON, are further characters, neither of which base64 yields.           *)
(***************************************************************************)
EXTENDS Integers, Sequences, FiniteSets

CONSTANTS
  Base,        \* values of a byte
  MaxFrame,    \* of a framed packet, 2048
  LineCap,     \* of a control line, 8192
  Packets,     \* what the browser writes
  Garbled,     \* byte strings that hold no packet and may be written nevertheless
  MaxWrites,   \* bound: messages the client writes
  MaxAgain     \* bound: times the reader hears an unfinished last line

VARIABLES
  carrier,   \* "stream" or "lines"
  written,   \* history: what the client wrote, packet or not
  flight,    \* bytes on their way, in order
  held,      \* bytes read and not consumed
  ended,     \* "no", "fin" by the client, "lost" with the connection, "dropped" by the host
  heard,     \* history: the packets of whole frames and lines that the input session got
  again      \* history: those that it got of what the stream ended inside

wireVars == <<carrier, written, flight, held, ended, heard, again>>

NL == Base
Close == Base + 1
HeaderLen == 16

(* The values of two and of four bytes.                                     *)
Word == Base * Base
Long == Word * Word
Half == Word \div 2

(* Little-endian fields; a negative number is its two's complement.         *)
Le1(v) == <<v % Base>>
Le2(v) == <<v % Base, (v \div Base) % Base>>
Le4(v) == Le2(v % Word) \o Le2(v \div Word)
Le8(v) == Le4(v % Long) \o Le4(v \div Long)
Le2s(s) == [j \in 1..(2 * Len(s)) |-> Le2(s[(j + 1) \div 2])[2 - (j % 2)]]

U2(b, at) == b[at] + Base * b[at + 1]
U4(b, at) == U2(b, at) + Word * U2(b, at + 2)
U8(b, at) == U4(b, at) + Long * U4(b, at + 4)
I2(b, at) == IF U2(b, at) < Half THEN U2(b, at) ELSE U2(b, at) - Word

(* A gamepad's buttons, four axes and two triggers: 16 bytes.               *)
WriteGamepad(g) == Le4(g[1]) \o Le2s(Tail(g))
ReadGamepad(b, at) ==
  [i \in 1..7 |-> IF i = 1 THEN U4(b, at)
                  ELSE IF i <= 5 THEN I2(b, at + 2 * i) ELSE U2(b, at + 2 * i)]

(* The payloads.  A packet's `pad` is a sequence of at most one gamepad.    *)
Payload(p) ==
  CASE p.kind \in {1, 2} -> Le2s(p.nums)
    [] p.kind = 3 -> Le2(p.nums[1]) \o Le1(p.nums[2]) \o Le1(p.nums[3])
    [] p.kind = 4 -> WriteGamepad(p.pad[1])
    [] p.kind = 5 -> Le2(p.nums[1]) \o Le1(p.nums[2]) \o Le1(Len(p.pad))
                     \o Le2(Len(p.keys)) \o Le2s(p.keys)
                     \o (IF p.pad = <<>> THEN <<>> ELSE WriteGamepad(p.pad[1]))
    [] p.kind = 6 -> Le4(p.nums[1]) \o Le1(p.nums[2]) \o Le1(0)
                     \o Le2(p.nums[3]) \o Le2(p.nums[4])

Header(p, version) ==
  Le1(version) \o Le1(p.kind) \o Le2(p.flags) \o Le4(p.seq) \o Le8(p.at)

EncodePacket(p, version) == Header(p, version) \o Payload(p)

(* The length of a packet of which the bytes b start.                       *)
KeyCount(b) == U2(b, HeaderLen + 5)
PadPresent(b) == b[HeaderLen + 4] % 2 = 1
Need(b) ==
  HeaderLen +
  CASE b[2] = 1 -> 8
    [] b[2] = 2 -> 2
    [] b[2] = 3 -> 4
    [] b[2] = 4 -> 16
    [] b[2] = 5 -> IF Len(b) < HeaderLen + 6 THEN 6
                   ELSE 6 + 2 * KeyCount(b) + (IF PadPresent(b) THEN 16 ELSE 0)
    [] b[2] = 6 -> 10

Decodes(b) == Len(b) >= HeaderLen /\ b[1] = 1 /\ b[2] \in 1..6 /\ Len(b) >= Need(b)

Fields(b) ==
  LET at == HeaderLen + 1
  IN CASE b[2] = 1 -> [nums |-> [i \in 1..4 |-> I2(b, at + 2 * i - 2)], keys |-> <<>>, pad |-> <<>>]
       [] b[2] = 2 -> [nums |-> <<U2(b, at)>>, keys |-> <<>>, pad |-> <<>>]
       [] b[2] = 3 -> [nums |-> <<U2(b, at), IF b[at + 2] # 0 THEN 1 ELSE 0, b[at + 3]>>,
                       keys |-> <<>>, pad |-> <<>>]
       [] b[2] = 4 -> [nums |-> <<>>, keys |-> <<>>, pad |-> <<ReadGamepad(b, at)>>]
       [] b[2] = 5 -> [nums |-> <<U2(b, at), b[at + 2]>>,
                       keys |-> [i \in 1..KeyCount(b) |-> U2(b, at + 4 + 2 * i)],
                       pad |-> IF PadPresent(b) THEN <<ReadGamepad(b, at + 6 + 2 * KeyCount(b))>> ELSE <<>>]
       [] b[2] = 6 -> [nums |-> <<U4(b, at), b[at + 4], U2(b, at + 6), U2(b, at + 8)>>,
                       keys |-> <<>>, pad |-> <<>>]

Decode(b) ==
  [kind |-> b[2], flags |-> U2(b, 3), seq |-> U4(b, 5), at |-> U8(b, 9),
   nums |-> Fields(b).nums, keys |-> Fields(b).keys, pad |-> Fields(b).pad]

------------------------------------------------------------------------------
(* The packets there are: what each kind's numbers range over, and who has  *)
(* keys or a gamepad.                                                       *)
Byte == 0..(Base - 1)
Unsigned == 0..(Word - 1)
AnInt16 == (-Half)..(Half - 1)

Nums ==
  <<<<AnInt16, AnInt16, AnInt16, AnInt16>>, <<Unsigned>>, <<Unsigned, 0..1, Byte>>, <<>>,
    <<Unsigned, Byte>>, <<0..(Long - 1), Byte, Unsigned, Unsigned>>>>

IsGamepad(g) ==
  /\ g \in Seq(Int) /\ Len(g) = 7 /\ g[1] \in 0..(Long - 1)
  /\ \A i \in 2..5 : g[i] \in AnInt16
  /\ \A i \in 6..7 : g[i] \in Unsigned

IsPacket(p) ==
  /\ p \in [kind : 1..6, flags : Unsigned, seq : 0..(Long - 1), at : 0..(Long * Long - 1),
            nums : Seq(Int), keys : Seq(Unsigned), pad : Seq(Seq(Int))]
  /\ Len(p.nums) = Len(Nums[p.kind]) /\ \A i \in 1..Len(p.nums) : p.nums[i] \in Nums[p.kind][i]
  /\ Len(p.keys) < Word /\ (p.kind # 5 => p.keys = <<>>)
  /\ Len(p.pad) \in (CASE p.kind = 4 -> {1} [] p.kind = 5 -> {0, 1} [] OTHER -> {0})
  /\ \A i \in 1..Len(p.pad) : IsGamepad(p.pad[i])

ASSUME WireBounds ==
  Base \in Nat /\ Base > 7 /\ MaxFrame \in Nat /\ LineCap \in Nat
  /\ MaxWrites \in Nat /\ MaxAgain \in Nat

(* The length of a frame has two bytes; no keyboard has the 30000 keys that *)
(* a packet would need to exceed it.                                        *)
ASSUME WrittenFits ==
  /\ \A p \in Packets : IsPacket(p) /\ Len(EncodePacket(p, 1)) < Word
  /\ \A b \in Garbled : b \in Seq(Byte) /\ Len(b) < Word /\ ~Decodes(b)

Sendable ==
  {[packet |-> <<p>>, bytes |-> EncodePacket(p, 1)] : p \in Packets} \cup
  {[packet |-> <<>>, bytes |-> b] : b \in Garbled}

------------------------------------------------------------------------------
(* The input stream: two bytes of length, the high one first.               *)
Framed(b) == <<(Len(b) \div Base) % Base, Len(b) % Base>> \o b
FrameLen(b) == b[1] * Base + b[2]

(* The control stream: one JSON message to a line.                          *)
Line(b) == b \o <<Close, NL>>

Chunk(m) == IF carrier = "stream" THEN Framed(m.bytes) ELSE Line(m.bytes)

InputWireInit ==
  /\ carrier \in {"stream", "lines"} /\ written = <<>> /\ flight = <<>> /\ held = <<>>
  /\ ended = "no" /\ heard = <<>> /\ again = <<>>

Write(m) ==
  /\ ended = "no" /\ Len(written) < MaxWrites
  /\ written' = Append(written, m)
  /\ flight' = flight \o Chunk(m)
  /\ UNCHANGED <<carrier, held, ended, heard, again>>

(* The client finishes its stream, after what it wrote or inside it.        *)
Fin ==
  /\ ended = "no" /\ ended' = "fin" /\ flight' \in {flight, <<>>}
  /\ UNCHANGED <<carrier, written, held, heard, again>>

(* The connection is lost: what has not arrived is gone, and the next read  *)
(* is an error.                                                             *)
Lost ==
  /\ ended = "no" /\ ended' = "lost" /\ flight' = <<>>
  /\ UNCHANGED <<carrier, written, held, heard, again>>

(* What a read returns is any part of what has come.                        *)
Arrive(n) ==
  /\ ended # "dropped" /\ flight # <<>>
  /\ held' = held \o SubSeq(flight, 1, n) /\ flight' = SubSeq(flight, n + 1, Len(flight))
  /\ UNCHANGED <<carrier, written, ended, heard, again>>

(* The input session decodes a whole packet or takes nothing.               *)
PacketOf(b) == IF Decodes(b) THEN <<Decode(b)>> ELSE <<>>

ReadFrame ==
  /\ carrier = "stream" /\ ended # "dropped" /\ Len(held) >= 2
  /\ FrameLen(held) \in 1..MaxFrame /\ Len(held) >= 2 + FrameLen(held)
  /\ heard' = heard \o PacketOf(SubSeq(held, 3, 2 + FrameLen(held)))
  /\ held' = SubSeq(held, 3 + FrameLen(held), Len(held))
  /\ UNCHANGED <<carrier, written, flight, ended, again>>

FramingViolation ==
  /\ carrier = "stream" /\ ended # "dropped" /\ Len(held) >= 2
  /\ FrameLen(held) \notin 1..MaxFrame
  /\ ended' = "dropped" /\ UNCHANGED <<carrier, written, flight, held, heard, again>>

HasLine == \E i \in 1..Len(held) : held[i] = NL
FirstNL == CHOOSE i \in 1..Len(held) : held[i] = NL /\ \A j \in 1..(i - 1) : held[j] # NL

(* A message is whole when its JSON closes.                                 *)
Parsed(line) ==
  IF line # <<>> /\ line[Len(line)] = Close
  THEN PacketOf(SubSeq(line, 1, Len(line) - 1)) ELSE <<>>

Retained_Nothing == <<>>
Retained == SubSeq(held, FirstNL + 1, Len(held))
TakeLine ==
  /\ carrier = "lines" /\ ended # "dropped" /\ HasLine
  /\ heard' = heard \o Parsed(SubSeq(held, 1, FirstNL - 1)) /\ held' = Retained
  /\ UNCHANGED <<carrier, written, flight, ended, again>>

LineTooLong ==
  /\ carrier = "lines" /\ ended # "dropped" /\ ~HasLine /\ Len(held) > LineCap
  /\ ended' = "dropped" /\ UNCHANGED <<carrier, written, flight, held, heard, again>>

(* At the end of the stream what is left is a line, and stays in the buffer *)
(* for the next read, which is at the end of the stream too.                *)
LastLine ==
  /\ carrier = "lines" /\ ended = "fin" /\ flight = <<>> /\ held # <<>> /\ ~HasLine
  /\ Len(held) <= LineCap /\ Len(again) < MaxAgain
  /\ again' = again \o Parsed(held)
  /\ UNCHANGED <<carrier, written, flight, held, ended, heard>>

(* The next connection brings a stream of its own.                          *)
Redial ==
  /\ ended # "no" /\ written' = <<>> /\ flight' = <<>> /\ held' = <<>> /\ heard' = <<>>
  /\ again' = <<>> /\ ended' = "no" /\ UNCHANGED carrier

InputWireNext ==
  \/ \E m \in Sendable : Write(m)
  \/ \E n \in 1..Len(flight) : Arrive(n)
  \/ Fin \/ Lost \/ Redial \/ ReadFrame \/ FramingViolation \/ TakeLine \/ LineTooLong \/ LastLine

InputWireSpec == InputWireInit /\ [][InputWireNext]_wireVars

------------------------------------------------------------------------------
InputWireTypeOK ==
  /\ carrier \in {"stream", "lines"} /\ ended \in {"no", "fin", "lost", "dropped"}
  /\ written \in Seq(Sendable) /\ Len(written) <= MaxWrites
  /\ flight \in Seq(0..Close) /\ held \in Seq(0..Close)
  /\ heard \in Seq(Packets) /\ again \in Seq(Packets)

(* How many of the first k messages are packets.                            *)
PacketsIn(k) == Cardinality({i \in 1..k : written[i].packet # <<>>})

(* Whatever the reads cut the stream into, and whatever else comes down it, *)
(* the packets the host hears of whole frames and lines are those the       *)
(* browser wrote, field by field and in order, none twice, none left out    *)
(* and none out of the middle: those among the first k messages, for some   *)
(* k.  A line the stream is finished inside is no part of them: it may be   *)
(* heard again and again (LineReader::read_line leaves it in its buffer),   *)
(* but only if it lacks no more than its newline, and then as the packet of *)
(* the very next message.                                                   *)
HeardIsWritten ==
  \E k \in 0..Len(written) :
    /\ Len(heard) = PacketsIn(k)
    /\ \A i \in 1..k : \A n \in 1..Len(written[i].packet) :
         heard[PacketsIn(i)] = written[i].packet[n]
    /\ \A n \in 1..Len(again) : k < Len(written) /\ written[k + 1].packet = <<again[n]>>
==============================================================================
