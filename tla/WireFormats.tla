---------------------------- MODULE WireFormats ----------------------------
(***************************************************************************)
(* What the device and the Mac make of the same bytes: CBOR integers and    *)
(* strings, the signed envelope and its payloads, the fragments of a BLE    *)
(* packet, the frames of a Wi-Fi session, the IMA-ADPCM blocks and the host *)
(* profile.  Each format is written by one side and read by the other, and  *)
(* the two sides are separate code.                                         *)
(*                                                                         *)
(* An integer is its eight big-endian bytes, since the widths are what the  *)
(* two sides may disagree about.  A MAC is a function of the key and of the *)
(* bytes it covers, and sealed text one of key, nonce, header and payload.  *)
(***************************************************************************)
EXTENDS Integers, Sequences, SequencesExt

CONSTANTS
  Refused,  \* what a writer or a reader returns for what it does not take
  Inputs    \* what is put through the formats: see Prompts, Reports, ... below

VARIABLE input

Min2(a, b) == IF a <= b THEN a ELSE b
U(n) == <<0, 0, 0, 0, n \div 16777216, (n \div 65536) % 256, (n \div 256) % 256, n % 256>>
Max32 == <<0, 0, 0, 0, 255, 255, 255, 255>>
Fits(u, k) == \A i \in 1..8 - k : u[i] = 0          \* in k bytes
Low(u, k) == SubSeq(u, 9 - k, 8)
Text(n) == [i \in 1..n |-> 97]                      \* a string of n bytes

----------------------------------------------------------------------------
(* CBOR.  The additional information of a head is the value itself up to    *)
(* 23, or says in how many bytes it follows.                                *)
UInt == 0  Raw == 2  Str == 3  Array == 4  Map == 5   \* major types
Plain == 6                                          \* a byte that is not CBOR's

Widths == {1, 2, 4, 8}
Code(k) == CASE k = 1 -> 24 [] k = 2 -> 25 [] k = 4 -> 26 [] k = 8 -> 27

\* append_major: the shortest head that says it
Major(major, u) ==
  IF Fits(u, 1) /\ u[8] <= 23 THEN <<32 * major + u[8]>>
  ELSE LET k == CHOOSE w \in Widths : Fits(u, w) /\ \A v \in Widths : v < w => ~Fits(u, v)
       IN <<32 * major + Code(k)>> \o Low(u, k)

Num(n) == Major(UInt, U(n))

\* the readers of the two sides differ in the widths they take only
EnvelopeWidths == Widths
PromptWidths == {1, 2, 4}
PayloadWidths == {1, 2}

Stuck == [ok |-> FALSE, got |-> <<>>, rest |-> <<>>]

ReadHead(major, widths, s) ==
  IF s = <<>> \/ s[1] \div 32 # major THEN Stuck
  ELSE IF s[1] % 32 <= 23
  THEN [ok |-> TRUE, got |-> U(s[1] % 32), rest |-> Tail(s)]
  ELSE IF ~\E k \in widths : Code(k) = s[1] % 32 /\ Len(s) > k THEN Stuck
  ELSE LET k == CHOOSE w \in widths : Code(w) = s[1] % 32
       IN [ok |-> TRUE, got |-> [i \in 1..8 - k |-> 0] \o SubSeq(s, 2, k + 1),
           rest |-> SubSeq(s, k + 2, Len(s))]

\* an item of major type Raw or Str takes the bytes its head counts along,
\* and Plain is one that is not CBOR's
ReadItem(item, widths, s) ==
  IF item = Plain
  THEN IF s = <<>> THEN Stuck ELSE [ok |-> TRUE, got |-> s[1], rest |-> Tail(s)]
  ELSE LET h == ReadHead(item, widths, s) n == h.got[7] * 256 + h.got[8]
       IN IF ~h.ok \/ item \notin {Raw, Str} THEN h
          ELSE IF ~Fits(h.got, 2) \/ n > Len(h.rest) THEN Stuck
          ELSE [ok |-> TRUE, got |-> SubSeq(h.rest, 1, n),
                rest |-> SubSeq(h.rest, n + 1, Len(h.rest))]

\* the items of a layout one after the other, got in that order
Read(layout, widths, s) ==
  LET r[k \in 0..Len(layout)] ==
        IF k = 0 THEN [ok |-> TRUE, got |-> <<>>, rest |-> s]
        ELSE LET p == r[k - 1]
                 x == ReadItem(layout[k], widths, p.rest)
             IN IF ~p.ok THEN p
                ELSE [ok |-> x.ok, got |-> Append(p.got, x.got), rest |-> x.rest]
  IN r[Len(layout)]

Ended(r) == r.ok /\ r.rest = <<>>
UInts(n) == [i \in 1..n |-> UInt]

----------------------------------------------------------------------------
(* The signed envelope.                                                     *)
MaxPacket == 512   MaxPayload == 448   DeviceOutput == 96
MessageTypes == 1..17
Key == "pairing secret"
Tag(key, s) == [i \in 1..16 |-> <<key, s>>]

Body(e) ==
  Num(0) \o Major(UInt, e.version) \o Num(1) \o Major(UInt, e.sequence) \o
  Num(2) \o Major(UInt, e.type) \o Num(3) \o Major(UInt, e.time) \o
  Num(4) \o Major(Raw, U(Len(e.payload))) \o e.payload
Sealed(e, key) ==
  LET unsigned == Major(Map, U(5)) \o Body(e)
  IN Major(Map, U(6)) \o Body(e) \o Num(5) \o Major(Raw, U(16)) \o Tag(key, unsigned)

DeviceSeals(e, key) ==
  IF e.version # U(1) \/ e.type \notin {U(t) : t \in MessageTypes}
     \/ Len(Sealed(e, key)) > DeviceOutput
  THEN Refused ELSE Sealed(e, key)

EnvelopeLayout == <<Map>> \o UInts(9) \o <<Raw, UInt, Raw>>
EnvelopeOf(g) ==
  [version |-> g[3], sequence |-> g[5], type |-> g[7], time |-> g[9], payload |-> g[11]]

\* what is made of an envelope's items, or refused of them
EnvelopeFrom(r, key) ==
  IF /\ Ended(r) /\ r.got[1] = U(6)
     /\ \A k \in 0..4 : r.got[2 * k + 2] = U(k)
     /\ r.got[12] = U(5) /\ Len(r.got[13]) = 16
     /\ r.got[13] = Tag(key, Major(Map, U(5)) \o Body(EnvelopeOf(r.got)))
     /\ EnvelopeOf(r.got).version = U(1) /\ Fits(EnvelopeOf(r.got).sequence, 4)
     /\ EnvelopeOf(r.got).type \in {U(t) : t \in MessageTypes}
  THEN EnvelopeOf(r.got) ELSE Refused

Envelope(s, key) == EnvelopeFrom(Read(EnvelopeLayout, EnvelopeWidths, s), key)

DeviceOpens(s, key) ==
  LET e == Envelope(s, key)
  IN IF Len(s) > MaxPacket \/ e = Refused THEN Refused
     ELSE IF Len(e.payload) > MaxPayload THEN Refused ELSE e

\* control messages are sent with a version, a number and the time
Message(type, number, payload) ==
  [version |-> U(1), sequence |-> number, type |-> U(type),
   time |-> <<0, 0, 1, 150, 11, 22, 33, 44>>, payload |-> payload]

----------------------------------------------------------------------------
(* Prompts and the answers to them.                                         *)
Yes == 245  No == 244
MaxOptions == 8  MaxPrompt == 440
IdentifierCapacity == 65
TitleTight == 80
TitleCapacity == 81

OptionBytes(o) ==
  Major(Map, U(3)) \o Num(0) \o Major(Str, U(Len(o.id))) \o o.id \o
  Num(1) \o Major(Str, U(Len(o.title))) \o o.title \o
  Num(2) \o <<IF o.long THEN Yes ELSE No>>

PromptBytes(p) ==
  LET s == Major(Map, U(2)) \o Num(0) \o Major(UInt, p.id) \o Num(1) \o
           Major(Array, U(Len(p.options))) \o
           FlattenSeq([i \in 1..Len(p.options) |-> OptionBytes(p.options[i])])
  IN IF /\ Len(p.options) \in 1..8
        /\ \A o \in ToSet(p.options) : Len(o.id) <= 64 /\ Len(o.title) <= 80
        /\ Len(s) <= MaxPrompt
     THEN s ELSE Refused

OptionLayout == <<Map, UInt, Str, UInt, Str, UInt, Plain>>

\* cc_prompt_decode; the options of a prompt are copied into fixed arrays
Prompt(s) ==
  LET h == Read(<<Map>> \o UInts(3) \o <<Array>>, PromptWidths, s)
      n == h.got[5][8]
      r == Read([k \in 1..7 * n |-> OptionLayout[((k - 1) % 7) + 1]], PromptWidths, h.rest)
      g(i, k) == r.got[7 * (i - 1) + k]
  IN IF ~h.ok THEN Refused
     ELSE IF /\ h.got[1] = U(2) /\ h.got[2] = U(0) /\ Fits(h.got[3], 4)
             /\ h.got[4] = U(1) /\ h.got[5] \in {U(c) : c \in 1..MaxOptions}
          THEN IF /\ Ended(r)
                  /\ \A i \in 1..n :
                       /\ g(i, 1) = U(3) /\ g(i, 2) = U(0)
                       /\ g(i, 4) = U(1) /\ g(i, 6) = U(2)
                       /\ Len(g(i, 3)) < IdentifierCapacity
                       /\ Len(g(i, 5)) < TitleCapacity
                       /\ g(i, 7) \in {Yes, No}
               THEN [id |-> h.got[3],
                     options |-> [i \in 1..n |-> [id |-> g(i, 3), title |-> g(i, 5),
                                                  long |-> g(i, 7) = Yes]]]
               ELSE Refused
          ELSE Refused

\* cc_prompt_encode_selection, into the 16 bytes of prompt_selected
SelectionRaw(id, index) ==
  Major(Map, U(2)) \o Num(0) \o Major(UInt, id) \o Num(1) \o <<index>>
SelectionBytes(id, index) ==
  Major(Map, U(2)) \o Num(0) \o Major(UInt, id) \o Num(1) \o Num(index)

Selection(s) ==
  LET r == Read(<<Map>> \o UInts(4), PromptWidths, s) g == r.got
  IN IF /\ Ended(r) /\ g[1] = U(2) /\ g[2] = U(0) /\ Fits(g[3], 4)
        /\ g[4] = U(1) /\ Fits(g[5], 1)
     THEN [id |-> g[3], index |-> g[5][8]] ELSE Refused

----------------------------------------------------------------------------
(* The reports of the Mac.  The state a device is given is never Listening, *)
(* which is its own.                                                        *)
Unavailable == 255  Listening == 9  Running == 12

Short(n) == IF n <= 23 THEN <<n>> ELSE <<24, n>>       \* appendUnsigned

StateBytes(state) == <<161, 0, state>>
ActivityBytes(a) ==
  <<164, 0, a.state, 1>> \o Short(a.active) \o <<2>> \o Short(a.attention) \o
  <<3>> \o Short(a.completed)
QuotaBytes(five, week) == <<162, 0>> \o Short(five) \o <<1>> \o Short(week)
HeartbeatBytes(fresh) == <<161, 0, IF fresh THEN Yes ELSE No>>
TaskEventBytes(kind) == <<161, 0, kind>>
WeatherBytes(w) ==
  <<1, (w.tenths % 65536) \div 256, w.tenths % 256, w.code, Len(w.city)>> \o w.city
WeatherConfigBytes(c) ==
  <<1, IF c.enabled THEN 1 ELSE 0, IF c.celsius THEN 1 ELSE 0, c.minutes>>

\* parse_state_payload
Activity(s) ==
  LET one == Read(UInts(1), PayloadWidths, SubSeq(s, 3, Len(s)))
      all == Read(UInts(7), PayloadWidths, SubSeq(s, 3, Len(s)))
      g == all.got
  IN IF Len(s) < 3 THEN Refused
     ELSE IF s[1] \notin {161, 164} \/ s[2] # 0 \/ ~one.ok THEN Refused
     ELSE IF one.got[1] \notin {U(n) : n \in (0..Running) \ {Listening}} THEN Refused
     ELSE IF s[1] = 161
     THEN IF ~Ended(one) THEN Refused
          ELSE [state |-> one.got[1][8], active |-> 0, attention |-> 0, completed |-> 0]
     ELSE IF ~Ended(all) THEN Refused
     ELSE IF \E k \in 1..3 : g[2 * k] # U(k) \/ ~Fits(g[2 * k + 1], 1) THEN Refused
     ELSE [state |-> g[1][8], active |-> g[3][8], attention |-> g[5][8],
           completed |-> g[7][8]]

\* parse_quota_payload: seven bytes at the least
Quota(s) ==
  LET r == Read(UInts(4), PayloadWidths, Tail(s)) g == r.got
  IN IF Len(s) < 7 THEN Refused
     ELSE IF s[1] # 162 \/ ~Ended(r) THEN Refused
     ELSE IF g[1] # U(0) \/ g[3] # U(1) \/ ~Fits(g[2], 1) \/ ~Fits(g[4], 1) THEN Refused
     ELSE [five |-> g[2][8], week |-> g[4][8]]

Heartbeat(s) ==
  IF Len(s) = 3 /\ SubSeq(s, 1, 2) = <<161, 0>> /\ s[3] \in {Yes, No}
  THEN [fresh |-> s[3] = Yes] ELSE Refused

TaskEvent(s) ==
  IF Len(s) = 3 /\ SubSeq(s, 1, 2) = <<161, 0>> /\ s[3] <= 1
  THEN [kind |-> s[3]] ELSE Refused

\* parse_weather_payload, into a city of 49 bytes; the raw sixteen bits are signed
CityCapacity == 49
Unsigned(raw) == raw
Signed(raw) == IF raw >= 32768 THEN raw - 65536 ELSE raw
Weather(s) ==
  IF Len(s) < 6 THEN Refused
  ELSE IF s[1] # 1 \/ s[5] = 0 \/ s[5] >= CityCapacity \/ Len(s) # s[5] + 5 THEN Refused
  ELSE [tenths |-> Signed(256 * s[2] + s[3]), code |-> s[4], city |-> SubSeq(s, 6, Len(s))]

\* both sides write and read the weather settings
WeatherConfig(s) ==
  IF Len(s) = 4 /\ s[1] = 1 /\ {s[2], s[3]} \subseteq {0, 1} /\ s[4] \in {15, 30, 60}
  THEN [enabled |-> s[2] = 1, celsius |-> s[3] = 1, minutes |-> s[4]] ELSE Refused

----------------------------------------------------------------------------
(* The fragments of a packet on BLE.                                        *)
GattLimit == 244  FrameHeader == 5  Chunk == GattLimit - FrameHeader

FragmentCount(length) == IF length = 0 THEN 1 ELSE (length + Chunk - 1) \div Chunk
Fragments(packet, frame) ==
  [i \in 1..FragmentCount(Len(packet)) |->
     [frame |-> frame, index |-> i - 1, count |-> FragmentCount(Len(packet)),
      data |-> SubSeq(packet, (i - 1) * Chunk + 1, Min2(i * Chunk, Len(packet)))]]

\* cc_ble_reassembler_accept: an error empties the buffer and leaves the rest
FreshReassembler == [frame |-> 0, expected |-> 0, count |-> 0, buffer |-> <<>>,
                     packets |-> <<>>]
AcceptsKeeps(r, f) ==
  LET s == IF f.index = 0
           THEN [r EXCEPT !.frame = f.frame, !.expected = 0, !.count = f.count]
           ELSE r
  IN IF s.frame # f.frame \/ s.count # f.count \/ s.expected # f.index
        \/ Len(s.buffer) + Len(f.data) > MaxPacket
     THEN [s EXCEPT !.buffer = <<>>]
     ELSE LET t == [s EXCEPT !.buffer = @ \o f.data, !.expected = @ + 1]
          IN IF t.expected = t.count THEN [t EXCEPT !.packets = Append(@, t.buffer)] ELSE t

Accepts(r, f) ==
  LET s == IF f.index = 0
           THEN [r EXCEPT !.frame = f.frame, !.expected = 0, !.count = f.count, !.buffer = <<>>]
           ELSE r
  IN IF s.frame # f.frame \/ s.count # f.count \/ s.expected # f.index
        \/ Len(s.buffer) + Len(f.data) > MaxPacket
     THEN [s EXCEPT !.buffer = <<>>]
     ELSE LET t == [s EXCEPT !.buffer = @ \o f.data, !.expected = @ + 1]
          IN IF t.expected = t.count THEN [t EXCEPT !.packets = Append(@, t.buffer)] ELSE t

\* BLEControlReassembler: an error, and a packet, leave nothing
MacAccepts(r, f) ==
  LET fresh == [FreshReassembler EXCEPT !.packets = r.packets]
      s == Accepts(r, f)
  IN IF s.packets # r.packets THEN [fresh EXCEPT !.packets = s.packets]
     ELSE IF s.buffer = <<>> /\ f.data # <<>> THEN fresh ELSE s

Reassembled(accept(_, _), fragments) ==
  LET r[n \in 0..Len(fragments)] ==
        IF n = 0 THEN FreshReassembler ELSE accept(r[n - 1], fragments[n])
  IN r[Len(fragments)].packets

----------------------------------------------------------------------------
(* The host profile a Mac writes when it pairs, and the bare secret of an   *)
(* older one.                                                               *)
ProfileHeader == 40
ProfileBytes(h) ==
  IF Len(h.id) \in 1..48 /\ Len(h.name) \in 1..64
  THEN <<67, 67, 80, 50, 1, h.capabilities, Len(h.id), Len(h.name)>> \o h.secret \o h.id \o h.name
  ELSE Refused

Legacy(secret) == [id |-> "legacy", name |-> "Paired host", capabilities |-> 60,
                   secret |-> secret]
Profile(s) ==
  IF Len(s) = 32 THEN Legacy(s)
  ELSE IF Len(s) < ProfileHeader THEN Refused
  ELSE IF SubSeq(s, 1, 5) # <<67, 67, 80, 50, 1>> \/ s[7] \notin 1..48 \/ s[8] \notin 1..64
          \/ Len(s) # ProfileHeader + s[7] + s[8]
  THEN Refused
  ELSE [capabilities |-> s[6], secret |-> SubSeq(s, 9, 40), id |-> SubSeq(s, 41, 40 + s[7]),
        name |-> SubSeq(s, 41 + s[7], Len(s))]

----------------------------------------------------------------------------
(* The frames of a Wi-Fi session and the stream they travel in.             *)
Control == 1  Audio == 2
WifiHeader == 42  WifiTag == 16  MaxWifiPayload == 768  AudioPayload == 640
MaxWifiPacket == WifiHeader + MaxWifiPayload + WifiTag

WifiLengths(kind) == IF kind = Audio THEN {AudioPayload} ELSE 0..MaxWifiPayload
WifiFrame(kind, session, number, payload, key) ==
  IF Len(payload) \notin WifiLengths(kind) THEN Refused
  ELSE LET header == <<kind, session, number, Len(payload)>>
       IN [header |-> header, sealed |-> <<key, <<session, number>>, header, payload>>,
           length |-> WifiHeader + Len(payload) + WifiTag]

\* cc_wifi_decode_frame and the checks of receive_control_loop, decode of the Mac
OpensFrame(f, kind, session, key) ==
  IF /\ f.length <= MaxWifiPacket /\ f.header[1] = kind /\ f.header[2] = session
     /\ f.header[4] \in WifiLengths(kind)
     /\ f.length = WifiHeader + f.header[4] + WifiTag
     /\ f.sealed[1] = key /\ f.sealed[3] = f.header
  THEN f.sealed[4] ELSE Refused

\* each frame behind its length; WiFiTCPFramer takes what the socket returns
TcpBytes(packets) ==
  FlattenSeq([i \in 1..Len(packets) |->
                <<Len(packets[i]) \div 256, Len(packets[i]) % 256>> \o packets[i]])

FreshFramer == [buffer |-> <<>>, packets |-> <<>>]
LengthAt(s, at) == 256 * s[at] + s[at + 1]
\* where each packet starts in what the framer has, 0 for none
PacketStarts(s) ==
  LET starts[n \in 0..Len(s)] ==
        IF n = 0 THEN 1
        ELSE IF starts[n - 1] = 0 \/ starts[n - 1] + 1 > Len(s) THEN 0
        ELSE LET next == starts[n - 1] + 2 + LengthAt(s, starts[n - 1])
             IN IF next > Len(s) + 1 THEN 0 ELSE next
  IN starts

\* a length no packet has throws, and nothing of the read is returned
FramerTakes(r, chunk) ==
  LET s == r.buffer \o chunk
      starts == PacketStarts(s)
      whole == CHOOSE n \in 0..Len(s) :
                 starts[n] # 0 /\ (n = Len(s) \/ starts[n + 1] = 0)
  IN IF \E n \in 0..whole :
          starts[n] + 1 <= Len(s) /\ LengthAt(s, starts[n]) \notin 1..MaxWifiPacket
     THEN [r EXCEPT !.buffer = <<>>]
     ELSE [buffer |-> SubSeq(s, starts[whole], Len(s)),
           packets |-> r.packets \o [n \in 1..whole |-> SubSeq(s, starts[n - 1] + 2, starts[n] - 1)]]

----------------------------------------------------------------------------
(* The numbers of a session already seen: the highest, and the bits of the  *)
(* 64 up to it.                                                             *)
Window == 64
FreshWindow == [session |-> 0, highest |-> 0, seen |-> {}, taken |-> <<>>]
ReplayForgets(w, f) ==
  IF w.session # f.session
  THEN [w EXCEPT !.session = f.session, !.highest = f.number, !.seen = {0},
                 !.taken = Append(@, f)]
  ELSE IF f.number > w.highest
  THEN LET shift == f.number - w.highest
       IN [w EXCEPT !.highest = f.number, !.taken = Append(@, f),
                    !.seen = {0}]
  ELSE LET distance == w.highest - f.number
       IN IF distance >= Window \/ distance \in w.seen THEN w
          ELSE [w EXCEPT !.seen = @ \cup {distance}, !.taken = Append(@, f)]
ReplayAccepts(w, f) ==
  IF w.session # f.session
  THEN [w EXCEPT !.session = f.session, !.highest = f.number, !.seen = {0},
                 !.taken = Append(@, f)]
  ELSE IF f.number > w.highest
  THEN LET shift == f.number - w.highest
       IN [w EXCEPT !.highest = f.number, !.taken = Append(@, f),
                    !.seen = {0} \cup {d + shift : d \in {x \in @ : x + shift < Window}}]
  ELSE LET distance == w.highest - f.number
       IN IF distance >= Window \/ distance \in w.seen THEN w
          ELSE [w EXCEPT !.seen = @ \cup {distance}, !.taken = Append(@, f)]

----------------------------------------------------------------------------
(* IMA-ADPCM.                                                               *)
StepTable ==
  <<7, 8, 9, 10, 11, 12, 13, 14, 16, 17, 19, 21, 23, 25, 28, 31,
    34, 37, 41, 45, 50, 55, 60, 66, 73, 80, 88, 97, 107, 118, 130,
    143, 157, 173, 190, 209, 230, 253, 279, 307, 337, 371, 408, 449,
    494, 544, 598, 658, 724, 796, 876, 963, 1060, 1166, 1282, 1411,
    1552, 1707, 1878, 2066, 2272, 2499, 2749, 3024, 3327, 3660, 4026,
    4428, 4871, 5358, 5894, 6484, 7132, 7845, 8630, 9493, 10442,
    11487, 12635, 13899, 15289, 16818, 18500, 20350, 22385, 24623,
    27086, 29794, 32767>>
IndexTable == <<-1, -1, -1, -1, 2, 4, 6, 8>>

Clamp(n, low, high) == IF n < low THEN low ELSE IF n > high THEN high ELSE n
Sample(n) == Clamp(n, -32768, 32767)
NextIndex(index, code) == Clamp(index + IndexTable[(code % 8) + 1], 0, 88)

\* encode_nibble: the sign, and the difference in step, half and quarter step
EncodedUnclamped(sample, c) ==
  LET step == StepTable[c.index + 1]
      far == IF sample < c.predictor THEN c.predictor - sample ELSE sample - c.predictor
      four == far >= step
      d1 == IF four THEN far - step ELSE far
      two == d1 >= step \div 2
      d2 == IF two THEN d1 - step \div 2 ELSE d1
      one == d2 >= step \div 4
      built == step \div 8 + (IF four THEN step ELSE 0) + (IF two THEN step \div 2 ELSE 0)
               + (IF one THEN step \div 4 ELSE 0)
      code == (IF sample < c.predictor THEN 8 ELSE 0) + (IF four THEN 4 ELSE 0)
              + (IF two THEN 2 ELSE 0) + (IF one THEN 1 ELSE 0)
  IN [predictor |-> (IF code >= 8 THEN c.predictor - built ELSE c.predictor + built),
      index |-> NextIndex(c.index, code), code |-> code]
Encoded(sample, c) ==
  LET step == StepTable[c.index + 1]
      far == IF sample < c.predictor THEN c.predictor - sample ELSE sample - c.predictor
      four == far >= step
      d1 == IF four THEN far - step ELSE far
      two == d1 >= step \div 2
      d2 == IF two THEN d1 - step \div 2 ELSE d1
      one == d2 >= step \div 4
      built == step \div 8 + (IF four THEN step ELSE 0) + (IF two THEN step \div 2 ELSE 0)
               + (IF one THEN step \div 4 ELSE 0)
      code == (IF sample < c.predictor THEN 8 ELSE 0) + (IF four THEN 4 ELSE 0)
              + (IF two THEN 2 ELSE 0) + (IF one THEN 1 ELSE 0)
  IN [predictor |-> Sample(IF code >= 8 THEN c.predictor - built ELSE c.predictor + built),
      index |-> NextIndex(c.index, code), code |-> code]

\* decodeNibble
Decoded(code, c) ==
  LET step == StepTable[c.index + 1]
      built == step \div 8 + (IF code % 2 = 1 THEN step \div 4 ELSE 0)
               + (IF (code \div 2) % 2 = 1 THEN step \div 2 ELSE 0)
               + (IF (code \div 4) % 2 = 1 THEN step ELSE 0)
  IN [predictor |-> Sample(IF code >= 8 THEN c.predictor - built ELSE c.predictor + built),
      index |-> NextIndex(c.index, code)]

----------------------------------------------------------------------------
(* What the two sides put into the formats.  A session's nonce is fresh, so  *)
(* that no session comes back, and a cut is the end of a read or of a link.  *)
Byte == 0..255
Int16 == {n \in Int : -32768 <= n /\ n <= 32767}
Word == [1..8 -> Byte]
Word32 == {u \in Word : Fits(u, 4)}
Strings == Seq(Byte)
Wire == Byte \cup ({Key} \X Strings)       \* bytes, and those of a tag

WellFormed(i) ==
  /\ i.kind = "prompt" =>
       /\ i.number \in Word32
       /\ i.prompt \in [id : Word32,
                       options : Seq([id : Strings, title : Strings, long : BOOLEAN])]
  /\ i.kind = "answer" => i.number \in Word32 /\ i.id \in Word32 /\ i.index \in Byte
  /\ i.kind = "activity" =>
       i.report \in [state : 0..Running, active : Byte, attention : Byte, completed : Byte]
  /\ i.kind = "state" => i.state \in 0..Running
  /\ i.kind = "quota" => i.five \in Byte /\ i.week \in Byte
  /\ i.kind = "heartbeat" => i.fresh \in BOOLEAN
  /\ i.kind = "task" => i.task \in {0, 1}
  /\ i.kind = "weather" =>
       /\ i.report \in [tenths : Int16, code : Byte, city : Strings]
       /\ Len(i.report.city) \in 1..CityCapacity - 1
  /\ i.kind = "settings" =>
       i.report \in [enabled : BOOLEAN, celsius : BOOLEAN, minutes : {15, 30, 60}]
  /\ i.kind = "profile" =>
       i.host \in [id : Strings, name : Strings, capabilities : Byte, secret : [1..32 -> Byte]]
  /\ i.kind = "ble" =>
       /\ i.first \in Strings /\ Len(i.first) \in 1..MaxPacket
       /\ i.second \in Strings /\ Len(i.second) \in 1..MaxPacket
       /\ i.cut \in 0..FragmentCount(Len(i.first))
  /\ i.kind = "tcp" =>
       /\ i.packets \in Seq(Strings)
       /\ \A k \in 1..Len(i.packets) : Len(i.packets[k]) \in 1..MaxWifiPacket
       /\ i.cut \in Nat /\ i.cut2 \in Nat /\ i.cut <= i.cut2
  /\ i.kind = "numbers" =>
       /\ i.frames \in Seq([session : Nat, number : Nat])
       /\ \A a, b, c \in 1..Len(i.frames) :
            a <= b /\ b <= c /\ i.frames[a].session = i.frames[c].session =>
              i.frames[b].session = i.frames[c].session
  /\ i.kind = "sample" =>
       /\ i.sample \in Int16
       /\ i.codec \in [predictor : Int16, index : 0..88]

ASSUME InputsAssumption == \A i \in Inputs : WellFormed(i)

\* what is refused is none of the things that are written or read
ASSUME RefusedAssumption ==
  /\ Refused \notin Seq(Wire)
  /\ Refused \notin [version : Word, sequence : Word, type : Word, time : Word, payload : Strings]
  /\ Refused \notin [header : Seq(Nat), sealed : {Key} \X Seq(Nat) \X Seq(Nat) \X Seq(Wire),
                    length : Nat]

----------------------------------------------------------------------------
(* One input is put through the formats.                                    *)
NoInput == [kind |-> "none"]
Init == input = NoInput
Takes == input = NoInput /\ input' \in Inputs
Next == Takes
Spec == Init /\ [][Next]_input

----------------------------------------------------------------------------
(* A prompt the Mac encodes arrives whole on every way to the device: within *)
(* an envelope, in the fragments of BLE or in a frame of Wi-Fi, or as a line *)
(* of base64 on USB.  The limits of these are numbers of seven files.       *)
UsbLine == 768
LineLength(s) == 2 + 4 * ((Len(s) + 2) \div 3)

PromptsReachDevice ==
  input.kind = "prompt" /\ PromptBytes(input.prompt) # Refused =>
    LET s == PromptBytes(input.prompt)
        packet == Sealed(Message(5, input.number, s), Key)
        frame == WifiFrame(Control, 1, 0, packet, Key)
    IN /\ Prompt(s) = input.prompt
       /\ Reassembled(Accepts, Fragments(packet, 1)) = <<packet>>
       /\ frame # Refused /\ OpensFrame(frame, Control, 1, Key) = packet
       /\ DeviceOpens(packet, Key) = Message(5, input.number, s)
       /\ LineLength(s) < UsbLine

\* What the user chose, or set on the device, is what the Mac reads, under
\* whatever number the device has come to, and fits the device's buffer.
AnswersReachMac ==
  input.kind = "answer" =>
    LET s == SelectionBytes(input.id, input.index)
        packet == DeviceSeals(Message(9, input.number, s), Key)
    IN /\ packet # Refused /\ Len(s) <= 16
       /\ Envelope(packet, Key) = Message(9, input.number, s)
       /\ Selection(s) = [id |-> input.id, index |-> input.index]
       /\ Reassembled(MacAccepts, Fragments(packet, 1)) = <<packet>>

\* A prompt and its answer, the two halves of one approval, both cross.
PromptsAndAnswersCross == PromptsReachDevice /\ AnswersReachMac

\* The device takes every report for what the Mac said, and refuses two whole
\* kinds: the state Listening, which is its own, and a quota with a value that
\* takes one byte (see QuotasReachDevice).
ReportsReachDevice ==
  /\ input.kind = "activity" =>
       Activity(ActivityBytes(input.report)) =
         IF input.report.state = Listening THEN Refused ELSE input.report
  /\ input.kind = "state" =>
       Activity(StateBytes(input.state)) =
         IF input.state = Listening THEN Refused
         ELSE [state |-> input.state, active |-> 0, attention |-> 0, completed |-> 0]
  /\ input.kind = "quota" =>
       Quota(QuotaBytes(input.five, input.week)) =
         IF input.five > 23 /\ input.week > 23
         THEN [five |-> input.five, week |-> input.week] ELSE Refused
  /\ input.kind = "heartbeat" => Heartbeat(HeartbeatBytes(input.fresh)) = [fresh |-> input.fresh]
  /\ input.kind = "task" => TaskEvent(TaskEventBytes(input.task)) = [kind |-> input.task]
  /\ input.kind = "weather" => Weather(WeatherBytes(input.report)) = input.report
  /\ input.kind = "settings" => WeatherConfig(WeatherConfigBytes(input.report)) = input.report
  /\ input.kind = "profile" /\ ProfileBytes(input.host) # Refused =>
       Profile(ProfileBytes(input.host)) = input.host

\* protocol/specification.md:91 "`quotaUpdate`: `{0: fiveHourRemaining, 1:
\* weekRemaining}` where `0...100` is a percentage": the device shows the quota
\* the Mac sent.
QuotasReachDevice ==
  input.kind = "quota" =>
    Quota(QuotaBytes(input.five, input.week)) = [five |-> input.five, week |-> input.week]

\* A packet cut short by a lost connection leaves nothing behind that the next
\* packet arrives with, and the reads of a stream may end anywhere.
PacketsArriveWhole ==
  /\ input.kind = "ble" =>
       \A accept \in {"device", "mac"} :
         LET sent == SubSeq(Fragments(input.first, 1), 1, input.cut) \o Fragments(input.second, 2)
             whole == IF input.cut = FragmentCount(Len(input.first))
                      THEN <<input.first, input.second>> ELSE <<input.second>>
         IN whole = IF accept = "device" THEN Reassembled(Accepts, sent)
                    ELSE Reassembled(MacAccepts, sent)
  /\ input.kind = "tcp" =>
       LET s == TcpBytes(input.packets)
           a == Min2(input.cut, Len(s)) b == Min2(input.cut2, Len(s))
           one == FramerTakes(FreshFramer, SubSeq(s, 1, a))
           two == FramerTakes(one, SubSeq(s, a + 1, b))
           three == FramerTakes(two, SubSeq(s, b + 1, Len(s)))
       IN three.packets = input.packets

\* protocol/specification.md:49 "Malformed, duplicated, skipped, or reordered
\* fragments reset the current reassembly": a damaged packet is not completed.
DamageResets ==
  input.kind = "damaged" => Reassembled(Accepts, input.fragments) = <<>>

\* In a session a number is taken once, and only while it is among the 64 up
\* to the highest; a number of these that is new is never lost.
NumbersTakenOnce ==
  input.kind = "numbers" =>
    LET w[n \in 0..Len(input.frames)] ==
          IF n = 0 THEN FreshWindow ELSE ReplayAccepts(w[n - 1], input.frames[n])
    IN \A n \in 1..Len(input.frames) :
         LET f == input.frames[n]
             before == {input.frames[k] : k \in 1..n - 1}
         IN (w[n].taken # w[n - 1].taken) <=>
              (f \notin before /\ \A g \in before :
                 g.session = f.session => g.number < f.number + Window)

\* What is sent over any link is taken whole, and once.
PacketsArriveOnce == PacketsArriveWhole /\ NumbersTakenOnce

\* After each code the decoder is where the encoder is, so that an error of
\* one sample is made good by the next ones and never accumulates.
CodecInStep ==
  input.kind = "sample" =>
    LET e == Encoded(input.sample, input.codec)
        d == Decoded(e.code, input.codec)
    IN e.code \in 0..15 /\ d.predictor = e.predictor /\ d.index = e.index

=============================================================================
