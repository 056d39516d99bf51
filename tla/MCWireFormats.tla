--------------------------- MODULE MCWireFormats ---------------------------
(* The inputs of WireFormats: every boundary of a width, a capacity or a    *)
(* table, on both of its sides.                                             *)
EXTENDS WireFormats

Numbers == {U(n) : n \in {0, 23, 24, 255, 256, 65535, 65536}} \cup {Max32}

Option(i, t, l) == [id |-> Text(i), title |-> Text(t), long |-> l]
Options == {Option(0, 0, FALSE), Option(1, 23, TRUE), Option(24, 24, FALSE),
            Option(64, 80, TRUE), Option(65, 1, TRUE), Option(1, 81, FALSE)}
Prompts ==
  {[kind |-> "prompt", number |-> n, prompt |-> [id |-> m, options |-> Append([i \in 1..c |-> o], p)]] :
     n \in {U(0), Max32}, m \in Numbers, c \in 0..8, o \in Options, p \in Options}

Answers == {[kind |-> "answer", number |-> n, id |-> m, index |-> i] :
              n \in Numbers, m \in Numbers, i \in {0, 7, 23, 24, 255}}

Counts == {0, 23, 24, 255}
Reports ==
  {[kind |-> "activity", report |-> [state |-> s, active |-> a, attention |-> b, completed |-> c]] :
     s \in 0..12, a \in Counts, b \in Counts, c \in Counts}
  \cup {[kind |-> "state", state |-> s] : s \in 0..12}
  \cup {[kind |-> "heartbeat", fresh |-> f] : f \in BOOLEAN}
  \cup {[kind |-> "task", task |-> t] : t \in {0, 1}}
  \cup {[kind |-> "weather", report |-> [tenths |-> t, code |-> c, city |-> Text(n)]] :
          t \in {-32768, -400, -1, 0, 1, 255, 256, 32767}, c \in {0, 99, 255}, n \in {1, 48}}
  \cup {[kind |-> "settings", report |-> [enabled |-> e, celsius |-> c, minutes |-> m]] :
          e \in BOOLEAN, c \in BOOLEAN, m \in {15, 30, 60}}
  \cup {[kind |-> "profile", host |-> [id |-> Text(i), name |-> Text(n), capabilities |-> c,
                                       secret |-> [k \in 1..32 |-> 7]]] :
          i \in {0, 1, 48, 49}, n \in {0, 1, 64, 65}, c \in {0, 63}}
  \cup {[kind |-> "quota", five |-> f, week |-> w] :
          f \in {0, 1, 23, 24, 50, 100, Unavailable}, w \in {0, 1, 23, 24, 50, 100, Unavailable}}

\* packets told apart by their bytes, about the multiples of a fragment
Packet(b, n) == [i \in 1..n |-> b]
Lengths == {1, 238, 239, 240, 478, 479, 512}
Packets ==
  {[kind |-> "ble", first |-> Packet(1, n), second |-> Packet(2, m), cut |-> c] :
     n \in Lengths, m \in Lengths, c \in 0..3}
Fitting == {p \in Packets : p.cut <= FragmentCount(Len(p.first))}
Streams ==
  {[kind |-> "tcp", packets |-> <<Packet(1, k), Packet(2, m), Packet(0, n)>>, cut |-> c, cut2 |-> d] :
     k \in 1..2, m \in {1, 256}, n \in 1..2, c \in 0..8, d \in 8..11}
  \cup {[kind |-> "tcp", packets |-> <<Packet(0, k)>>, cut |-> c, cut2 |-> c] : k \in 1..2, c \in 0..3}

\* one damaged packet: its fragments with one doubled, dropped or moved
Damaged ==
  LET f == Fragments(Packet(1, 512), 1)
  IN {[kind |-> "damaged", fragments |-> p] :
        p \in {<<f[1], f[2], f[2], f[3]>>, <<f[1], f[3]>>, <<f[2], f[3]>>, <<f[2], f[1], f[3]>>}}

\* a session, and the first number of the one before it
Runs ==
  {[kind |-> "numbers",
    frames |-> <<[session |-> 1, number |-> 64]>> \o [i \in 1..4 |-> [session |-> 2, number |-> f[i]]]] :
     f \in [1..4 -> {0, 1, 2, 63, 64, 65, 128}]}

Samples ==
  {[kind |-> "sample", sample |-> s, codec |-> [predictor |-> p, index |-> i]] :
     s \in {-32768, -32767, -100, -1, 0, 1, 6, 7, 50, 32766, 32767},
     p \in {-32768, -32760, -90, 0, 3, 32760, 32767}, i \in 0..88}

MCInputs == Prompts \cup Answers \cup Reports \cup Fitting \cup Streams \cup Damaged \cup Runs \cup Samples
=============================================================================
