--------------------------- MODULE SPenGatt_proofs ---------------------------
(***************************************************************************)
(* Proofs about SPenGatt, for any clients, any motions of a pen and any    *)
(* bounds: descriptors are written one after the other, no key stays down, *)
(* a motion is decoded to what the pen sent, and a press that a callback   *)
(* was told of from its beginning is a click if and only if the pen made   *)
(* no gesture, whatever is queued for the callback meanwhile.              *)
(***************************************************************************)
EXTENDS SPenGatt, SequenceTheorems, TLAPS

SetupKinds == {"connected", "discovered", "written"}
Events == {"down", "up", "move"}

\* Callbacks q of which at most one is about the setup, and answers operation o
\* if it is about a descriptor; otherwise no operation is under way.
InTurn(q, o) ==
    /\ \A i, j \in DOMAIN q : q[i].kind \in SetupKinds /\ q[j].kind \in SetupKinds => i = j
    /\ \A i \in DOMAIN q :
          q[i].kind \in SetupKinds =>
              o = IF q[i].kind = "written" THEN q[i].characteristic ELSE "none"

\* Keys that a callback has to send are the rest of one stroke.
KeysOK(c) ==
    \/ inject[c] = <<>> /\ keysDown[c] = {}
    \/ \E key \in Keys :
          \/ inject[c] = Stroke(key) /\ keysDown[c] = {}
          \/ inject[c] = <<[action |-> "up", key |-> key]>> /\ keysDown[c] = {key}

Far(call) == IsGesture(dX(call.motion), dY(call.motion))

\* t and g are mButtonDownTime and mButtonHadGesture after each of the callbacks q;
\* an "up" of the press that t names is still if no gesture came before it.
Plays(q, t, g) ==
    \A i \in 1..Len(q) :
        /\ t[i] = IF q[i].kind = "down" THEN q[i].press ELSE t[i - 1]
        /\ g[i] = IF q[i].kind = "up" THEN FALSE
                  ELSE (g[i - 1] \/ (q[i].kind = "move" /\ Far(q[i])))
        /\ q[i].kind = "up" /\ t[i - 1] = q[i].press => (q[i].still <=> ~g[i - 1])

\* What a callback knows that has been told all there is to tell of press p.
UpToDate(p, t, g) == IF p.down THEN t = p.n => (g <=> p.moved) ELSE ~g

\* A callback object with the fields t0 and g0 comes to know press p by the callbacks q.
Learns(t0, g0, q, p) ==
    \E t \in [Nat -> Nat], g \in [Nat -> BOOLEAN] :
        /\ t[0] = t0 /\ g[0] = g0
        /\ Plays(q, t, g)
        /\ UpToDate(p, t[Len(q)], g[Len(q)])

Heard(c) == Learns(mButtonDownTime[c], mButtonHadGesture[c], calls[c], press)

Unheard(c) ==
    /\ mButtonDownTime[c] = 0 /\ ~mButtonHadGesture[c]
    /\ \A i \in DOMAIN calls[c] : calls[c][i].kind \notin Events

Receives(c) == link[c] /\ "BUTTON_EVENT" \in enabled \cap notified[c]

ClickOK(c) ==
    /\ ~link[c] => calls[c] = <<>>
    /\ link[c] => Heard(c)
    /\ link[c] /\ ~Receives(c) => Unheard(c)

PressOK == press.down => press.n # 0

GattInv ==
    /\ TypeOK /\ PressOK /\ refused = {}
    /\ \A c \in Clients : InTurn(calls[c], op[c]) /\ KeysOK(c) /\ ClickOK(c)

-----------------------------------------------------------------------------
(* The decoding of motions                                                 *)

LEMMA Powers == 2^15 = 32768 /\ 2^16 = 65536
  OBVIOUS

\* The provers take an interval of numbers apart: a short is given by its bounds.
LEMMA ShortIs ==
    ASSUME NEW x \in Short
    PROVE  x \in Int /\ x + 32768 >= 0 /\ x < 32768
  <1>1. PICK p \in Int : p = 2^15
    BY Powers
  <1>2. x \in (-p)..(p - 1)
    BY <1>1 DEF Short
  <1>3. x \in Int /\ x + p >= 0 /\ x < p
    BY <1>2
  <1>4. QED
    BY <1>1, <1>3, Powers

\* The sixteen bits of a short.
Word(x) == IF x < 0 THEN x + 65536 ELSE x

LEMMA WordOfShort ==
    ASSUME NEW x \in Int, x + 32768 >= 0, x < 32768
    PROVE  /\ Word(x) \in Nat
           /\ (IF Word(x) >= 32768 THEN Word(x) - 65536 ELSE Word(x)) = x
  BY DEF Word

\* The two bytes of a word, put together.
LEMMA BytesOfWord ==
    ASSUME NEW u \in Nat
    PROVE  (u % 256) + 256 * (u \div 256) = u
  OBVIOUS

LEMMA Decoded ==
    ASSUME NEW motion \in Short \X Short
    PROVE  /\ motion[1] \in Int /\ motion[2] \in Int
           /\ dX(motion) = motion[1] /\ dY(motion) = motion[2]
  <1>1. PICK x \in Short, y \in Short : motion[1] = x /\ motion[2] = y
    OBVIOUS
  <1>2. /\ x \in Int /\ x + 32768 >= 0 /\ x < 32768
        /\ y \in Int /\ y + 32768 >= 0 /\ y < 32768
    BY ShortIs
  <1>3. Bytes(motion) = <<Word(x) % 256, Word(x) \div 256, Word(y) % 256, Word(y) \div 256>>
    BY <1>1, Powers DEF Bytes, Word
  <1>4. /\ extractShortValue(Bytes(motion), 1) =
              IF Word(x) >= 32768 THEN Word(x) - 65536 ELSE Word(x)
        /\ extractShortValue(Bytes(motion), 3) =
              IF Word(y) >= 32768 THEN Word(y) - 65536 ELSE Word(y)
    <2>1. PICK b : b = Bytes(motion)
      OBVIOUS
    <2>2. /\ b[1] = Word(x) % 256 /\ b[1 + 1] = Word(x) \div 256
          /\ b[3] = Word(y) % 256 /\ b[3 + 1] = Word(y) \div 256
      BY <1>3, <2>1
    <2>3. Word(x) \in Nat /\ Word(y) \in Nat
      BY <1>2, WordOfShort
    <2>4. b[1] + 256 * b[1 + 1] = Word(x) /\ b[3] + 256 * b[3 + 1] = Word(y)
      BY <2>2, <2>3, BytesOfWord
    <2>5. QED
      BY <2>1, <2>4, Powers DEF extractShortValue
  <1>5. QED
    BY <1>1, <1>2, <1>4, WordOfShort DEF dX, dY

-----------------------------------------------------------------------------
(* Queues of callbacks                                                     *)

LEMMA BoundsType ==
    /\ Motions \subseteq Short \X Short
    /\ MaxConnections \in Nat /\ MaxPresses \in Nat /\ MaxMotions \in Nat /\ MaxModes \in Nat
  BY GattAssumption

LEMMA CallKinds ==
    /\ [kind |-> "connected"] \in Call
    /\ \A service \in BOOLEAN : [kind |-> "discovered", service |-> service] \in Call
    /\ \A char \in Characteristics : [kind |-> "written", characteristic |-> char] \in Call
    /\ \A n \in 1..MaxPresses : [kind |-> "down", press |-> n] \in Call
    /\ \A n \in 1..MaxPresses, still \in BOOLEAN :
          [kind |-> "up", press |-> n, still |-> still] \in Call
    /\ \A motion \in Motions : [kind |-> "move", motion |-> motion] \in Call
  BY DEF Call

LEMMA CallFields ==
    ASSUME NEW e \in Call
    PROVE  /\ e.kind \in SetupKinds \cup Events
           /\ e.kind = "discovered" => e.service \in BOOLEAN
           /\ e.kind = "written" => e.characteristic \in Characteristics
           /\ e.kind \in {"down", "up"} => e.press \in 1..MaxPresses
           /\ e.kind = "up" => e.still \in BOOLEAN
           /\ e.kind = "move" => e.motion \in Motions
  BY DEF Call, SetupKinds, Events

LEMMA TailIs ==
    ASSUME NEW q \in Seq(Call), q # <<>>
    PROVE  /\ Tail(q) \in Seq(Call) /\ Len(q) \in Nat \ {0} /\ Len(Tail(q)) = Len(q) - 1
           /\ Head(q) = q[1] /\ Head(q) \in Call /\ 1 \in DOMAIN q
           /\ \A i \in DOMAIN Tail(q) : i \in Nat \ {0} /\ i + 1 \in DOMAIN q /\ Tail(q)[i] = q[i + 1]
           /\ DOMAIN q = 1..Len(q) /\ DOMAIN Tail(q) = 1..Len(Tail(q))
  OBVIOUS

LEMMA AppendIs ==
    ASSUME NEW q \in Seq(Call), NEW e \in Call
    PROVE  LET n == Len(q) + 1 IN
           /\ Append(q, e) \in Seq(Call) /\ Len(Append(q, e)) = n
           /\ DOMAIN q = 1..Len(q) /\ DOMAIN Append(q, e) = 1..n /\ n \in Nat
           /\ Append(q, e)[n] = e
           /\ \A i \in DOMAIN q : Append(q, e)[i] = q[i]
           /\ \A i \in 1..n : i = n \/ i \in DOMAIN q
  OBVIOUS

LEMMA TailInTurn ==
    ASSUME NEW q \in Seq(Call), q # <<>>, NEW o, InTurn(q, o), NEW p,
           Head(q).kind \in SetupKinds \/ p = o
    PROVE  InTurn(Tail(q), p)
  <1> DEFINE r == Tail(q)
  <1>1. \A i \in DOMAIN r : i \in Nat \ {0} /\ i + 1 \in DOMAIN q /\ r[i] = q[i + 1]
    BY TailIs
  <1>2. Head(q) = q[1] /\ 1 \in DOMAIN q
    BY TailIs
  <1> HIDE DEF r
  <1>3. \A i, j \in DOMAIN r : r[i].kind \in SetupKinds /\ r[j].kind \in SetupKinds => i = j
    <2> SUFFICES ASSUME NEW i \in DOMAIN r, NEW j \in DOMAIN r,
                        r[i].kind \in SetupKinds, r[j].kind \in SetupKinds
                 PROVE  i = j
      OBVIOUS
    <2>1. i + 1 = j + 1
      BY <1>1 DEF InTurn
    <2>2. QED
      BY <1>1, <2>1
  <1>4. ASSUME NEW i \in DOMAIN r, r[i].kind \in SetupKinds
        PROVE  p = IF r[i].kind = "written" THEN r[i].characteristic ELSE "none"
    <2>1. i + 1 \in DOMAIN q /\ q[i + 1] = r[i] /\ i + 1 # 1
      BY <1>1
    <2>2. Head(q).kind \notin SetupKinds
      BY <1>2, <1>4, <2>1 DEF InTurn
    <2>3. QED
      BY <1>4, <2>1, <2>2 DEF InTurn
  <1>5. QED
    BY <1>3, <1>4 DEF InTurn, r

\* Nothing about the setup is queued while the stack works on an operation.
LEMMA NoneInTurn ==
    ASSUME NEW q \in Seq(Call), NEW o, InTurn(q, o), o # "none",
           \A i \in DOMAIN q : q[i].kind # "written"
    PROVE  \A i \in DOMAIN q : q[i].kind \notin SetupKinds
  BY DEF InTurn

LEMMA AppendInTurn ==
    ASSUME NEW q \in Seq(Call), NEW o, InTurn(q, o), NEW e \in Call, NEW p,
           \/ e.kind \notin SetupKinds /\ p = o
           \/ /\ \A i \in DOMAIN q : q[i].kind \notin SetupKinds
              /\ p = IF e.kind = "written" THEN e.characteristic ELSE "none"
    PROVE  InTurn(Append(q, e), p)
  <1>1. PICK r : r = Append(q, e)
    OBVIOUS
  <1>2. PICK n \in Nat : n = Len(q) + 1
    OBVIOUS
  <1>3. /\ DOMAIN r = 1..n /\ r[n] = e
        /\ \A i \in DOMAIN q : r[i] = q[i]
        /\ \A i \in DOMAIN r : i = n \/ i \in DOMAIN q
    BY <1>1, <1>2, AppendIs
  <1>4. \A i, j \in DOMAIN r : r[i].kind \in SetupKinds /\ r[j].kind \in SetupKinds => i = j
    BY <1>3 DEF InTurn
  <1>5. \A i \in DOMAIN r :
           r[i].kind \in SetupKinds =>
               p = IF r[i].kind = "written" THEN r[i].characteristic ELSE "none"
    BY <1>3 DEF InTurn
  <1>6. QED
    BY <1>1, <1>4, <1>5 DEF InTurn

LEMMA TailPlays ==
    ASSUME NEW q \in Seq(Call), q # <<>>, NEW t \in [Nat -> Nat], NEW g \in [Nat -> BOOLEAN],
           Plays(q, t, g)
    PROVE  Plays(Tail(q), [i \in Nat |-> t[i + 1]], [i \in Nat |-> g[i + 1]])
  <1>1. PICK r : r = Tail(q)
    OBVIOUS
  <1>2. PICK u : u = [i \in Nat |-> t[i + 1]]
    OBVIOUS
  <1>3. PICK h : h = [i \in Nat |-> g[i + 1]]
    OBVIOUS
  <1>4. /\ \A i \in 1..Len(r) : i \in Nat \ {0} /\ i + 1 \in 1..Len(q) /\ r[i] = q[i + 1]
    BY <1>1, TailIs
  <1>5. ASSUME NEW i \in 1..Len(r)
        PROVE  /\ u[i] = IF r[i].kind = "down" THEN r[i].press ELSE u[i - 1]
               /\ h[i] = IF r[i].kind = "up" THEN FALSE
                         ELSE (h[i - 1] \/ (r[i].kind = "move" /\ Far(r[i])))
               /\ r[i].kind = "up" /\ u[i - 1] = r[i].press => (r[i].still <=> ~h[i - 1])
    <2>1. PICK k \in Nat : k = i + 1
      BY <1>4
    <2>2. /\ i \in Nat /\ i - 1 \in Nat /\ (i - 1) + 1 = k - 1 /\ k \in 1..Len(q) /\ r[i] = q[k]
      BY <1>4, <2>1
    <2>3. u[i] = t[k] /\ u[i - 1] = t[k - 1] /\ h[i] = g[k] /\ h[i - 1] = g[k - 1]
      BY <1>2, <1>3, <2>1, <2>2
    <2>4. /\ t[k] = IF q[k].kind = "down" THEN q[k].press ELSE t[k - 1]
          /\ g[k] = IF q[k].kind = "up" THEN FALSE
                    ELSE (g[k - 1] \/ (q[k].kind = "move" /\ Far(q[k])))
          /\ q[k].kind = "up" /\ t[k - 1] = q[k].press => (q[k].still <=> ~g[k - 1])
      BY <2>2 DEF Plays
    <2>5. QED
      BY <2>2, <2>3, <2>4
  <1>6. Plays(r, u, h)
    BY <1>5 DEF Plays
  <1>7. QED
    BY <1>1, <1>2, <1>3, <1>6

LEMMA LearnsTail ==
    ASSUME NEW q \in Seq(Call), q # <<>>, NEW t0, NEW g0, NEW p, Learns(t0, g0, q, p)
    PROVE  Learns(IF Head(q).kind = "down" THEN Head(q).press ELSE t0,
                  IF Head(q).kind = "up" THEN FALSE
                  ELSE (g0 \/ (Head(q).kind = "move" /\ Far(Head(q)))),
                  Tail(q), p)
  <1>1. PICK t \in [Nat -> Nat], g \in [Nat -> BOOLEAN] :
           /\ t[0] = t0 /\ g[0] = g0 /\ Plays(q, t, g)
           /\ UpToDate(p, t[Len(q)], g[Len(q)])
    BY DEF Learns
  <1>2. PICK u : u = [i \in Nat |-> t[i + 1]]
    OBVIOUS
  <1>3. PICK h : h = [i \in Nat |-> g[i + 1]]
    OBVIOUS
  <1>4. PICK r : r = Tail(q)
    OBVIOUS
  <1>5. u \in [Nat -> Nat] /\ h \in [Nat -> BOOLEAN]
    <2>1. \A i \in Nat : i + 1 \in Nat
      OBVIOUS
    <2>2. QED
      BY <1>2, <1>3, <2>1
  <1>6. Plays(r, u, h)
    BY <1>1, <1>2, <1>3, <1>4, TailPlays
  <1>7. PICK n \in Nat, k \in Nat : n = Len(r) /\ k = Len(q) /\ n + 1 = k
    <2>1. Len(q) \in Nat /\ Len(q) # 0 /\ Len(r) = Len(q) - 1
      BY <1>4, TailIs
    <2>2. Len(q) - 1 \in Nat /\ (Len(q) - 1) + 1 = Len(q)
      BY <2>1
    <2>3. QED
      BY <2>1, <2>2
  <1>8. u[n] = t[k] /\ h[n] = g[k]
    BY <1>2, <1>3, <1>7
  <1>9. u[0] = t[1] /\ h[0] = g[1]
    <2>1. 0 \in Nat /\ 0 + 1 = 1
      OBVIOUS
    <2>2. QED
      BY <1>2, <1>3, <2>1
  <1>10. /\ t[1] = IF q[1].kind = "down" THEN q[1].press ELSE t[0]
         /\ g[1] = IF q[1].kind = "up" THEN FALSE
                   ELSE (g[0] \/ (q[1].kind = "move" /\ Far(q[1])))
    <2>1. 1 \in 1..Len(q) /\ 1 - 1 = 0
      BY TailIs
    <2>2. QED
      BY <1>1, <2>1 DEF Plays
  <1>11. Head(q) = q[1]
    BY TailIs
  <1>12. UpToDate(p, u[Len(r)], h[Len(r)])
    BY <1>1, <1>7, <1>8
  <1>13. Learns(t[1], g[1], r, p)
    BY <1>5, <1>6, <1>9, <1>12 DEF Learns
  <1>14. QED
    BY <1>1, <1>4, <1>10, <1>11, <1>13

\* A callback e joins the queue while press p becomes press s.
LEMMA LearnsAppend ==
    ASSUME NEW q \in Seq(Call), NEW t0, NEW g0, NEW p, Learns(t0, g0, q, p),
           NEW e \in Call, NEW s,
           \A t \in Nat, g \in BOOLEAN :
              UpToDate(p, t, g) =>
                 /\ e.kind = "up" /\ t = e.press => (e.still <=> ~g)
                 /\ UpToDate(s, IF e.kind = "down" THEN e.press ELSE t,
                                IF e.kind = "up" THEN FALSE
                                ELSE (g \/ (e.kind = "move" /\ Far(e))))
    PROVE  Learns(t0, g0, Append(q, e), s)
  <1>1. PICK t \in [Nat -> Nat], g \in [Nat -> BOOLEAN] :
           /\ t[0] = t0 /\ g[0] = g0 /\ Plays(q, t, g)
           /\ UpToDate(p, t[Len(q)], g[Len(q)])
    BY DEF Learns
  <1>2. PICK tn \in Nat, gn \in BOOLEAN : tn = t[Len(q)] /\ gn = g[Len(q)]
    BY LenProperties
  <1>3. PICK t1 : t1 = IF e.kind = "down" THEN e.press ELSE tn
    OBVIOUS
  <1>4. PICK g1 \in BOOLEAN : g1 = IF e.kind = "up" THEN FALSE
                                   ELSE (gn \/ (e.kind = "move" /\ Far(e)))
    OBVIOUS
  <1>5. t1 \in Nat
    BY <1>3, CallFields, BoundsType
  <1>6. /\ e.kind = "up" /\ tn = e.press => (e.still <=> ~gn)
        /\ UpToDate(s, t1, g1)
    BY <1>1, <1>2, <1>3, <1>4
  <1>7. PICK u \in [Nat -> Nat], h \in [Nat -> BOOLEAN] :
           /\ u[0] = t[0] /\ h[0] = g[0] /\ Plays(Append(q, e), u, h)
           /\ u[Len(Append(q, e))] = t1 /\ h[Len(Append(q, e))] = g1
    <2>1. PICK n \in Nat : n = Len(q) /\ n + 1 # 0
      OBVIOUS
    <2>2. PICK r : r = Append(q, e)
      OBVIOUS
    <2>3. /\ Len(r) = n + 1 /\ r[n + 1] = e
          /\ \A i \in 1..n : r[i] = q[i]
      BY <2>1, <2>2, AppendIs
    <2>4. PICK u \in [Nat -> Nat] : u = [t EXCEPT ![n + 1] = t1]
      BY <1>5
    <2>5. PICK h \in [Nat -> BOOLEAN] : h = [g EXCEPT ![n + 1] = g1]
      OBVIOUS
    <2>6. /\ u[n + 1] = t1 /\ h[n + 1] = g1
          /\ \A i \in 0..n : u[i] = t[i] /\ h[i] = g[i]
      <3>1. n + 1 \in Nat /\ \A i \in 0..n : i \in Nat /\ i # n + 1
        OBVIOUS
      <3>2. QED
        BY <2>4, <2>5, <3>1
    <2>7. ASSUME NEW i \in 1..Len(r)
          PROVE  /\ u[i] = IF r[i].kind = "down" THEN r[i].press ELSE u[i - 1]
                 /\ h[i] = IF r[i].kind = "up" THEN FALSE
                           ELSE (h[i - 1] \/ (r[i].kind = "move" /\ Far(r[i])))
                 /\ r[i].kind = "up" /\ u[i - 1] = r[i].press => (r[i].still <=> ~h[i - 1])
      <3>1. CASE i = n + 1
        <4>1. i - 1 = n /\ n \in 0..n
          BY <3>1
        <4>2. r[i] = e /\ u[i] = t1 /\ h[i] = g1 /\ u[i - 1] = t[n] /\ h[i - 1] = g[n]
          BY <2>3, <2>6, <3>1, <4>1
        <4>3. u[i - 1] = tn /\ h[i - 1] = gn
          BY <1>2, <2>1, <4>2
        <4>4. QED
          BY <1>3, <1>4, <1>6, <4>2, <4>3
      <3>2. CASE i # n + 1
        <4>1. i \in 1..n /\ i \in 0..n /\ i - 1 \in 0..n
          <5>1. i \in 1..(n + 1)
            BY <2>3
          <5>2. QED
            BY <3>2, <5>1
        <4>2. r[i] = q[i] /\ u[i] = t[i] /\ h[i] = g[i] /\ u[i - 1] = t[i - 1] /\ h[i - 1] = g[i - 1]
          BY <2>3, <2>6, <4>1
        <4>3. /\ t[i] = IF q[i].kind = "down" THEN q[i].press ELSE t[i - 1]
              /\ g[i] = IF q[i].kind = "up" THEN FALSE
                        ELSE (g[i - 1] \/ (q[i].kind = "move" /\ Far(q[i])))
              /\ q[i].kind = "up" /\ t[i - 1] = q[i].press => (q[i].still <=> ~g[i - 1])
          BY <1>1, <2>1, <4>1 DEF Plays
        <4>4. QED
          BY <4>2, <4>3
      <3>3. QED
        BY <3>1, <3>2
    <2>8. Plays(r, u, h)
      BY <2>7 DEF Plays
    <2>9. u[0] = t[0] /\ h[0] = g[0]
      <3>1. 0 \in 0..n
        BY <2>1
      <3>2. QED
        BY <2>6, <3>1
    <2>10. QED
      BY <2>2, <2>3, <2>6, <2>8, <2>9
  <1>8. QED
    BY <1>1, <1>6, <1>7 DEF Learns

\* Who was told of nothing knows all there is to know of a press but its beginning.
LEMMA LearnsNothing ==
    ASSUME NEW q \in Seq(Call), \A i \in DOMAIN q : q[i].kind \notin Events,
           NEW p, p.down => p.n # 0
    PROVE  Learns(0, FALSE, q, p)
  <1>1. PICK t \in [Nat -> Nat] : t = [i \in Nat |-> 0]
    OBVIOUS
  <1>2. PICK g \in [Nat -> BOOLEAN] : g = [i \in Nat |-> FALSE]
    OBVIOUS
  <1>3. DOMAIN q = 1..Len(q) /\ Len(q) \in Nat /\ \A i \in 1..Len(q) : i \in Nat /\ i - 1 \in Nat
    OBVIOUS
  <1>4. Plays(q, t, g)
    BY <1>1, <1>2, <1>3 DEF Plays, Events
  <1>5. UpToDate(p, t[Len(q)], g[Len(q)])
    BY <1>1, <1>2, <1>3 DEF UpToDate
  <1>6. 0 \in Nat
    OBVIOUS
  <1>7. QED
    BY <1>1, <1>2, <1>4, <1>5, <1>6 DEF Learns

-----------------------------------------------------------------------------
(* Types                                                                   *)

LEMMA KeyFacts ==
    ASSUME NEW m \in Modes
    PROVE  /\ ButtonKey[m] \in Keys
           /\ \A d \in Directions : GestureKey[m][d] \in Keys
  BY DEF Modes, ButtonKey, GestureKey, Directions, Keys

LEMMA StrokeIs ==
    ASSUME NEW key \in Keys
    PROVE  /\ Stroke(key) \in Seq(KeyEvent) /\ Len(Stroke(key)) = 2 /\ Stroke(key) # <<>>
           /\ Head(Stroke(key)) = [action |-> "down", key |-> key]
           /\ Tail(Stroke(key)) = <<[action |-> "up", key |-> key]>>
  <1>1. PICK d \in KeyEvent, u \in KeyEvent :
           d = [action |-> "down", key |-> key] /\ u = [action |-> "up", key |-> key]
    BY DEF KeyEvent
  <1>2. Stroke(key) = <<d, u>>
    BY <1>1 DEF Stroke
  <1>3. QED
    BY <1>1, <1>2

\* The callback that c runs.
LEMMA RunsFacts ==
    ASSUME TypeOK, NEW c \in Clients, NEW kind, Runs(c, kind), Return(c)
    PROVE  /\ calls[c] \in Seq(Call) /\ calls[c] # <<>> /\ inject[c] = <<>>
           /\ Head(calls[c]) \in Call /\ Head(calls[c]).kind = kind
           /\ calls' \in [Clients -> Seq(Call)] /\ calls'[c] = Tail(calls[c])
           /\ \A d \in Clients : d # c => calls'[d] = calls[d]
  <1>1. calls \in [Clients -> Seq(Call)] /\ calls[c] # <<>> /\ inject[c] = <<>>
        /\ Head(calls[c]).kind = kind /\ calls' = [calls EXCEPT ![c] = Tail(@)]
    BY DEF TypeOK, Runs, Return
  <1>2. calls[c] \in Seq(Call) /\ Tail(calls[c]) \in Seq(Call) /\ Head(calls[c]) \in Call
    BY <1>1, TailIs
  <1>3. QED
    BY <1>1, <1>2

LEMMA SubscribeTypes ==
    ASSUME TypeOK, NEW c \in Clients, NEW char \in Characteristics,
           NEW o \in Characteristics \cup {"none", "discover"}, Subscribe(c, char, o),
           calls' \in [Clients -> Seq(Call)]
    PROVE  TypeOK'
  <1>1. op' \in [Clients -> Characteristics \cup {"none", "discover"}]
    BY DEF Subscribe, TypeOK
  <1>2. notified' \in [Clients -> SUBSET Characteristics]
    BY DEF Subscribe, TypeOK
  <1>3. refused' \subseteq Clients
    BY DEF Subscribe, TypeOK
  <1>4. QED
    BY <1>1, <1>2, <1>3 DEF Subscribe, TypeOK, callbackVars, penVars

LEMMA CallbackTypes ==
    ASSUME TypeOK, NEW c \in Clients, Callback(c)
    PROVE  TypeOK'
  <1>1. CASE OnConnected(c)
    <2>1. calls' \in [Clients -> Seq(Call)]
      BY <1>1, RunsFacts DEF OnConnected
    <2>2. QED
      BY <1>1, <2>1 DEF OnConnected, TypeOK, callbackVars, penVars
  <1>2. CASE onServicesDiscovered(c)
    <2>1. calls' \in [Clients -> Seq(Call)]
      BY <1>2, RunsFacts DEF onServicesDiscovered
    <2>2. CASE Head(calls[c]).service
      <3>1. mEnableCharacteristics[1] \in Characteristics
        BY DEF mEnableCharacteristics, Characteristics
      <3>2. op[c] \in Characteristics \cup {"none", "discover"}
        BY DEF TypeOK
      <3>3. QED
        BY <1>2, <2>1, <2>2, <3>1, <3>2, SubscribeTypes DEF onServicesDiscovered
    <2>3. CASE ~Head(calls[c]).service
      BY <1>2, <2>1, <2>3 DEF onServicesDiscovered, TypeOK, setupVars, callbackVars, penVars
    <2>4. QED
      BY <2>2, <2>3
  <1>3. CASE onDescriptorWrite(c)
    <2>1. calls' \in [Clients -> Seq(Call)]
      BY <1>3, RunsFacts DEF onDescriptorWrite
    <2>2. CASE Subscribe(c, "BUTTON_EVENT", "none")
      <3>1. "BUTTON_EVENT" \in Characteristics
        BY DEF Characteristics
      <3>2. QED
        BY <2>1, <2>2, <3>1, SubscribeTypes
    <2>3. CASE /\ op' = [op EXCEPT ![c] = "none"]
               /\ UNCHANGED <<link, notified, enabled, missing, refused, failed, callbackVars,
                              keysDown, penVars>>
      BY <2>1, <2>3 DEF TypeOK, callbackVars, penVars
    <2>4. QED
      BY <1>3, <2>2, <2>3 DEF onDescriptorWrite, mEnableCharacteristics
  <1>4. CASE OnDown(c)
    <2>1. /\ calls' \in [Clients -> Seq(Call)]
          /\ Head(calls[c]) \in Call /\ Head(calls[c]).kind = "down"
      BY <1>4, RunsFacts DEF OnDown
    <2>2. Head(calls[c]).press \in 0..MaxPresses
      BY <2>1, CallFields, BoundsType
    <2>3. QED
      BY <1>4, <2>1, <2>2 DEF OnDown, TypeOK, setupVars, penVars
  <1>5. CASE OnUp(c)
    <2>1. calls' \in [Clients -> Seq(Call)]
      BY <1>5, RunsFacts DEF OnUp
    <2>2. PICK s : s = IF mButtonHadGesture[c] THEN <<>> ELSE Stroke(ButtonKey[mode])
      OBVIOUS
    <2>3. s \in Seq(KeyEvent) /\ Len(s) <= 2
      <3>1. PICK key \in Keys : key = ButtonKey[mode]
        BY KeyFacts DEF TypeOK
      <3>2. s = <<>> \/ s = Stroke(key)
        BY <2>2, <3>1
      <3>3. Stroke(key) \in Seq(KeyEvent) /\ Len(Stroke(key)) = 2
        BY StrokeIs
      <3>4. <<>> \in Seq(KeyEvent) /\ Len(<<>>) = 0
        BY EmptySeq
      <3>5. CASE s = <<>>
        BY <3>4, <3>5
      <3>6. CASE s = Stroke(key)
        BY <3>3, <3>6
      <3>7. QED
        BY <3>2, <3>5, <3>6
    <2>4. inject' \in [Clients -> Seq(KeyEvent)] /\ \A d \in Clients : Len(inject'[d]) <= 2
      BY <1>5, <2>2, <2>3 DEF OnUp, TypeOK
    <2>5. QED
      BY <1>5, <2>1, <2>4 DEF OnUp, TypeOK, setupVars, penVars
  <1>6. CASE OnMove(c)
    <2>1. calls' \in [Clients -> Seq(Call)]
      BY <1>6, RunsFacts DEF OnMove
    <2> DEFINE m == Head(calls[c]).motion
    <2>2. PICK s : s = Stroke(GestureKey[mode][Direction(dX(m), dY(m))])
      OBVIOUS
    <2>3. s \in Seq(KeyEvent) /\ Len(s) <= 2
      <3>1. Direction(dX(m), dY(m)) \in Directions
        BY DEF Direction, Directions
      <3>2. mode \in Modes
        BY DEF TypeOK
      <3>3. QED
        <4>1. PICK key \in Keys : key = GestureKey[mode][Direction(dX(m), dY(m))]
          BY <3>1, <3>2, KeyFacts
        <4>2. s = Stroke(key)
          BY <2>2, <4>1
        <4>3. QED
          BY <4>2, StrokeIs
    <2>4. inject' \in [Clients -> Seq(KeyEvent)] /\ \A d \in Clients : Len(inject'[d]) <= 2
      BY <1>6, <2>2, <2>3 DEF OnMove, TypeOK
    <2>5. mButtonHadGesture' \in [Clients -> BOOLEAN]
      BY <1>6 DEF OnMove, TypeOK
    <2>6. QED
      BY <1>6, <2>1, <2>4, <2>5 DEF OnMove, TypeOK, setupVars, penVars
  <1>7. CASE sendEvent(c)
    <2>1. /\ inject[c] \in Seq(KeyEvent) /\ inject[c] # <<>> /\ Len(inject[c]) <= 2
      BY <1>7 DEF sendEvent, TypeOK
    <2>2. /\ Tail(inject[c]) \in Seq(KeyEvent) /\ Len(Tail(inject[c])) <= 2
          /\ Head(inject[c]) \in KeyEvent
      BY <2>1
    <2>3. inject' \in [Clients -> Seq(KeyEvent)] /\ \A d \in Clients : Len(inject'[d]) <= 2
      BY <1>7, <2>2 DEF sendEvent, TypeOK
    <2>4. keysDown' \in [Clients -> SUBSET Keys]
      <3>1. Head(inject[c]).key \in Keys
        BY <2>2 DEF KeyEvent
      <3>2. QED
        BY <1>7, <3>1 DEF sendEvent, TypeOK
    <2>5. QED
      BY <1>7, <2>3, <2>4 DEF sendEvent, TypeOK, setupVars, penVars
  <1>8. QED
    BY <1>1, <1>2, <1>3, <1>4, <1>5, <1>6, <1>7 DEF Callback

LEMMA NotifyTypes ==
    ASSUME TypeOK, NEW e \in Call, Notify(e)
    PROVE  calls' \in [Clients -> Seq(Call)]
  BY AppendIs DEF Notify, TypeOK

\* A button that is released was pressed.
LEMMA ReleaseCall ==
    ASSUME TypeOK, PressOK, press.down
    PROVE  [kind |-> "up", press |-> press.n, still |-> ~press.moved] \in Call
  <1>1. press.n \in 0..MaxPresses /\ press.n # 0
    BY DEF TypeOK, Press, PressOK
  <1>2. PICK n \in 0..MaxPresses : n = press.n
    BY <1>1
  <1>3. n \in 1..MaxPresses
    BY <1>1, <1>2, BoundsType
  <1>4. PICK still \in BOOLEAN : still = ~press.moved
    OBVIOUS
  <1>5. QED
    BY <1>2, <1>3, <1>4, CallKinds

LEMMA TypesNext ==
    ASSUME TypeOK, PressOK, [Next]_vars
    PROVE  TypeOK'
  <1>1. ASSUME NEW c \in Clients, ServicesFound(c) PROVE TypeOK'
    <2>1. op' \in [Clients -> Characteristics \cup {"none", "discover"}]
      BY <1>1 DEF ServicesFound, TypeOK
    <2>2. PICK service \in BOOLEAN, without \in SUBSET Characteristics :
             /\ calls' = [calls EXCEPT ![c] =
                             Append(@, [kind |-> "discovered", service |-> service])]
             /\ missing' = [missing EXCEPT ![c] = IF service THEN without ELSE Characteristics]
      BY <1>1 DEF ServicesFound
    <2>3. calls' \in [Clients -> Seq(Call)]
      BY <2>2, CallKinds DEF TypeOK
    <2>4. missing' \in [Clients -> SUBSET Characteristics]
      BY <2>2 DEF TypeOK
    <2>5. QED
      BY <1>1, <2>1, <2>3, <2>4 DEF ServicesFound, TypeOK, callbackVars, penVars
  <1>2. ASSUME NEW c \in Clients, DescriptorWritten(c) PROVE TypeOK'
    <2>1. calls' \in [Clients -> Seq(Call)]
      <3>1. [kind |-> "written", characteristic |-> op[c]] \in Call
        BY <1>2, CallKinds DEF DescriptorWritten
      <3>2. QED
        BY <1>2, <3>1 DEF DescriptorWritten, TypeOK
    <2>2. enabled' \subseteq Characteristics /\ failed' \in [Clients -> SUBSET Characteristics]
      <3>1. enabled \subseteq Characteristics /\ op[c] \in Characteristics
            /\ failed \in [Clients -> SUBSET Characteristics]
        BY <1>2 DEF DescriptorWritten, TypeOK
      <3>2. \/ enabled' = enabled \cup {op[c]} /\ failed' = failed
            \/ enabled' = enabled /\ failed' = [failed EXCEPT ![c] = @ \cup {op[c]}]
        BY <1>2 DEF DescriptorWritten
      <3>3. [failed EXCEPT ![c] = @ \cup {op[c]}] \in [Clients -> SUBSET Characteristics]
        BY <3>1
      <3>4. QED
        BY <3>1, <3>2, <3>3
    <2>3. QED
      BY <1>2, <2>1, <2>2 DEF DescriptorWritten, TypeOK, callbackVars, penVars
  <1>3. ASSUME NEW c \in Clients, Connect(c) PROVE TypeOK'
    <2>1. calls' \in [Clients -> Seq(Call)]
      <3>1. <<[kind |-> "connected"]>> \in Seq(Call)
        BY CallKinds
      <3>2. QED
        BY <1>3, <3>1 DEF Connect, TypeOK
    <2>2. connections' \in 0..MaxConnections
      <3>1. connections \in 0..MaxConnections /\ connections < MaxConnections
            /\ connections' = connections + 1
        BY <1>3 DEF Connect, TypeOK
      <3>2. QED
        BY <3>1, BoundsType
    <2>3. mButtonDownTime' \in [Clients -> 0..MaxPresses]
      <3>1. 0 \in 0..MaxPresses
        BY BoundsType
      <3>2. QED
        BY <1>3, <3>1 DEF Connect, TypeOK
    <2>4. /\ op' \in [Clients -> Characteristics \cup {"none", "discover"}]
          /\ link' \in [Clients -> BOOLEAN] /\ mButtonHadGesture' \in [Clients -> BOOLEAN]
      BY <1>3 DEF Connect, TypeOK
    <2>5. /\ notified' \in [Clients -> SUBSET Characteristics]
          /\ missing' \in [Clients -> SUBSET Characteristics]
          /\ failed' \in [Clients -> SUBSET Characteristics]
      BY <1>3 DEF Connect, TypeOK
    <2>6. QED
      BY <1>3, <2>1, <2>2, <2>3, <2>4, <2>5 DEF Connect, TypeOK
  <1>4. ASSUME NEW c \in Clients, Disconnect(c) PROVE TypeOK'
    <2>1. calls' \in [Clients -> Seq(Call)]
      BY <1>4, EmptySeq DEF Disconnect, TypeOK
    <2>2. link' \in [Clients -> BOOLEAN] /\ enabled' \subseteq Characteristics
      BY <1>4 DEF Disconnect, TypeOK
    <2>3. QED
      BY <1>4, <2>1, <2>2 DEF Disconnect, TypeOK, callbackVars, penVars
  <1>5. CASE PressButton
    <2>1. press \in Press /\ press.n \in 0..MaxPresses /\ press.n < MaxPresses
      BY <1>5 DEF PressButton, TypeOK, Press
    <2>2. press.n + 1 \in 1..MaxPresses /\ press.n + 1 \in 0..MaxPresses /\ 0 \in 0..MaxMotions
      BY <2>1, BoundsType
    <2>3. press' \in Press
      BY <1>5, <2>2 DEF PressButton, Press
    <2>4. calls' \in [Clients -> Seq(Call)]
      BY <1>5, <2>2, CallKinds, NotifyTypes DEF PressButton
    <2>5. QED
      BY <1>5, <2>3, <2>4 DEF PressButton, TypeOK, setupVars, callbackVars
  <1>6. CASE MovePen
    <2>1. PICK motion \in Motions :
             /\ press' = [press EXCEPT !.motions = @ + 1,
                                       !.moved = @ \/ IsGesture(motion[1], motion[2])]
             /\ Notify([kind |-> "move", motion |-> motion])
      BY <1>6 DEF MovePen
    <2>2. /\ press \in Press /\ press.motions \in 0..MaxMotions /\ press.motions < MaxMotions
      BY <1>6 DEF MovePen, TypeOK, Press
    <2>3. press.motions + 1 \in 0..MaxMotions
      BY <2>2, BoundsType
    <2>4. (press.moved \/ IsGesture(motion[1], motion[2])) \in BOOLEAN
      OBVIOUS
    <2>5. press' \in Press
      BY <2>1, <2>2, <2>3, <2>4 DEF Press
    <2>6. calls' \in [Clients -> Seq(Call)]
      BY <2>1, CallKinds, NotifyTypes
    <2>7. QED
      BY <1>6, <2>5, <2>6 DEF MovePen, TypeOK, setupVars, callbackVars
  <1>7. CASE ReleaseButton
    <2>1. press \in Press
      BY DEF TypeOK
    <2>2. press' \in Press
      BY <1>7, <2>1 DEF ReleaseButton, Press
    <2>4. calls' \in [Clients -> Seq(Call)]
      BY <1>7, ReleaseCall, NotifyTypes DEF ReleaseButton
    <2>5. QED
      BY <1>7, <2>2, <2>4 DEF ReleaseButton, TypeOK, setupVars, callbackVars
  <1>8. CASE SetMode
    <2>1. modes' \in 0..MaxModes
      <3>1. modes \in 0..MaxModes /\ modes < MaxModes /\ modes' = modes + 1
        BY <1>8 DEF SetMode, TypeOK
      <3>2. QED
        BY <3>1, BoundsType
    <2>2. QED
      BY <1>8, <2>1 DEF SetMode, TypeOK, setupVars, callbackVars
  <1>9. CASE UNCHANGED vars
    BY <1>9 DEF vars, TypeOK
  <1>10. QED
    BY <1>1, <1>2, <1>3, <1>4, <1>5, <1>6, <1>7, <1>8, <1>9, CallbackTypes DEF Next, Stack

-----------------------------------------------------------------------------
(* A callback runs                                                         *)

\* What all callbacks of c have in common.
Handling(c) ==
    /\ calls[c] # <<>> /\ Return(c)
    /\ UNCHANGED <<link, press, enabled>>
    /\ \A d \in Clients : notified[d] \subseteq notified'[d]
    /\ \A d \in Clients \ {c} :
          /\ op'[d] = op[d] /\ mButtonDownTime'[d] = mButtonDownTime[d]
          /\ mButtonHadGesture'[d] = mButtonHadGesture[d]
    /\ Head(calls[c]).kind \in SetupKinds \/ op'[c] = op[c]
    /\ mButtonDownTime'[c] = IF Head(calls[c]).kind = "down" THEN Head(calls[c]).press
                             ELSE mButtonDownTime[c]
    /\ mButtonHadGesture'[c] =
          IF Head(calls[c]).kind = "up" THEN FALSE
          ELSE (mButtonHadGesture[c] \/ (Head(calls[c]).kind = "move" /\ Far(Head(calls[c]))))

LEMMA SubscribeHandles ==
    ASSUME TypeOK, NEW c \in Clients, NEW char, NEW o, Subscribe(c, char, o)
    PROVE  /\ UNCHANGED <<link, press, enabled, mButtonDownTime, mButtonHadGesture, inject, keysDown>>
           /\ \A d \in Clients : notified[d] \subseteq notified'[d]
           /\ \A d \in Clients \ {c} : op'[d] = op[d]
           /\ o = "none" => refused' = refused
  BY DEF Subscribe, TypeOK, callbackVars, penVars

LEMMA Handled ==
    ASSUME TypeOK, NEW c \in Clients, Callback(c), ~sendEvent(c)
    PROVE  Handling(c)
  <1> DEFINE e == Head(calls[c])
  <1>1. CASE OnConnected(c)
    <2>1. e.kind = "connected" /\ calls[c] # <<>>
      BY <1>1, RunsFacts DEF OnConnected
    <2>2. \A d \in Clients \ {c} : op'[d] = op[d]
      BY <1>1 DEF OnConnected, TypeOK
    <2>3. mButtonHadGesture[c] \in BOOLEAN
      BY DEF TypeOK
    <2>4. QED
      BY <1>1, <2>1, <2>2, <2>3 DEF OnConnected, Handling, SetupKinds, callbackVars, penVars
  <1>2. CASE onServicesDiscovered(c)
    <2>1. e.kind = "discovered" /\ calls[c] # <<>> /\ Return(c)
      BY <1>2, RunsFacts DEF onServicesDiscovered
    <2>2. /\ UNCHANGED <<link, press, enabled, mButtonDownTime, mButtonHadGesture>>
          /\ \A d \in Clients : notified[d] \subseteq notified'[d]
          /\ \A d \in Clients \ {c} : op'[d] = op[d]
      <3>1. CASE e.service
        BY <1>2, <3>1, SubscribeHandles DEF onServicesDiscovered
      <3>2. CASE ~e.service
        BY <1>2, <3>2 DEF onServicesDiscovered, setupVars, callbackVars, penVars
      <3>3. QED
        BY <3>1, <3>2
    <2>3. mButtonHadGesture[c] \in BOOLEAN
      BY DEF TypeOK
    <2>4. QED
      BY <2>1, <2>2, <2>3 DEF Handling, SetupKinds
  <1>3. CASE onDescriptorWrite(c)
    <2>1. e.kind = "written" /\ calls[c] # <<>> /\ Return(c)
      BY <1>3, RunsFacts DEF onDescriptorWrite
    <2>2. /\ UNCHANGED <<link, press, enabled, mButtonDownTime, mButtonHadGesture>>
          /\ \A d \in Clients : notified[d] \subseteq notified'[d]
          /\ \A d \in Clients \ {c} : op'[d] = op[d]
      <3>1. CASE Subscribe(c, "BUTTON_EVENT", "none")
        BY <3>1, SubscribeHandles
      <3>2. CASE /\ op' = [op EXCEPT ![c] = "none"]
                 /\ UNCHANGED <<link, notified, enabled, missing, refused, failed, callbackVars,
                                keysDown, penVars>>
        BY <3>2 DEF callbackVars, penVars, TypeOK
      <3>3. QED
        BY <1>3, <3>1, <3>2 DEF onDescriptorWrite, mEnableCharacteristics
    <2>3. mButtonHadGesture[c] \in BOOLEAN
      BY DEF TypeOK
    <2>4. QED
      BY <2>1, <2>2, <2>3 DEF Handling, SetupKinds
  <1>4. CASE OnDown(c)
    <2>1. e.kind = "down" /\ calls[c] # <<>>
      BY <1>4, RunsFacts DEF OnDown
    <2>2. /\ mButtonDownTime'[c] = e.press
          /\ \A d \in Clients \ {c} : mButtonDownTime'[d] = mButtonDownTime[d]
          /\ mButtonHadGesture[c] \in BOOLEAN
      BY <1>4 DEF OnDown, TypeOK
    <2>3. QED
      BY <1>4, <2>1, <2>2 DEF OnDown, Handling, setupVars, penVars
  <1>5. CASE OnUp(c)
    <2>1. e.kind = "up" /\ calls[c] # <<>>
      BY <1>5, RunsFacts DEF OnUp
    <2>2. /\ mButtonHadGesture'[c] = FALSE
          /\ \A d \in Clients \ {c} : mButtonHadGesture'[d] = mButtonHadGesture[d]
      BY <1>5 DEF OnUp, TypeOK
    <2>3. QED
      BY <1>5, <2>1, <2>2 DEF OnUp, Handling, setupVars, penVars
  <1>6. CASE OnMove(c)
    <2>1. e.kind = "move" /\ calls[c] # <<>>
      BY <1>6, RunsFacts DEF OnMove
    <2>2. /\ mButtonHadGesture'[c] = (mButtonHadGesture[c] \/ Far(e))
          /\ \A d \in Clients \ {c} : mButtonHadGesture'[d] = mButtonHadGesture[d]
      <3>1. CASE IsGesture(dX(e.motion), dY(e.motion))
        BY <1>6, <3>1 DEF OnMove, TypeOK, Far
      <3>2. CASE ~IsGesture(dX(e.motion), dY(e.motion))
        BY <1>6, <3>2 DEF OnMove, TypeOK, Far
      <3>3. QED
        BY <3>1, <3>2
    <2>3. QED
      BY <1>6, <2>1, <2>2 DEF OnMove, Handling, setupVars, penVars
  <1>7. QED
    BY <1>1, <1>2, <1>3, <1>4, <1>5, <1>6 DEF Callback

LEMMA HandledTurn ==
    ASSUME TypeOK, \A d \in Clients : InTurn(calls[d], op[d]), NEW c \in Clients, Handling(c)
    PROVE  \A d \in Clients : InTurn(calls'[d], op'[d])
  <1>1. calls[c] \in Seq(Call) /\ calls[c] # <<>> /\ calls'[c] = Tail(calls[c])
    BY DEF TypeOK, Handling, Return
  <1>2. \A d \in Clients \ {c} : calls'[d] = calls[d] /\ op'[d] = op[d]
    BY DEF TypeOK, Handling, Return
  <1>3. InTurn(Tail(calls[c]), op'[c])
    BY <1>1, TailInTurn DEF Handling
  <1>4. QED
    BY <1>1, <1>2, <1>3

LEMMA HandledClick ==
    ASSUME TypeOK, \A d \in Clients : ClickOK(d), NEW c \in Clients, Handling(c)
    PROVE  \A d \in Clients : ClickOK(d)'
  <1>1. /\ calls[c] \in Seq(Call) /\ calls[c] # <<>> /\ calls'[c] = Tail(calls[c])
        /\ UNCHANGED <<link, press>>
        /\ \A d \in Clients : Receives(d) => Receives(d)'
    BY DEF TypeOK, Handling, Return, Receives
  <1>2. ASSUME NEW d \in Clients, d # c PROVE ClickOK(d)'
    <2>1. /\ calls'[d] = calls[d] /\ mButtonDownTime'[d] = mButtonDownTime[d]
          /\ mButtonHadGesture'[d] = mButtonHadGesture[d]
      BY <1>2 DEF TypeOK, Handling, Return
    <2>2. ClickOK(d)
      OBVIOUS
    <2>3. Heard(d) => Heard(d)'
      BY <1>1, <2>1 DEF Heard
    <2>4. Unheard(d) => Unheard(d)'
      BY <2>1 DEF Unheard
    <2>5. QED
      BY <1>1, <2>1, <2>2, <2>3, <2>4 DEF ClickOK
  <1>3. ClickOK(c)'
    <2>1. link[c] /\ Heard(c) /\ (Receives(c) \/ Unheard(c)) /\ link'[c]
      BY <1>1 DEF ClickOK
    <2>2. Heard(c)'
      BY <1>1, <2>1, LearnsTail DEF Heard, Handling
    <2>3. Unheard(c) => Unheard(c)'
      <3> SUFFICES ASSUME Unheard(c) PROVE Unheard(c)'
        OBVIOUS
      <3>1. /\ Head(calls[c]) = calls[c][1] /\ 1 \in DOMAIN calls[c]
            /\ \A i \in DOMAIN calls'[c] : i + 1 \in DOMAIN calls[c] /\ calls'[c][i] = calls[c][i + 1]
        BY <1>1, TailIs
      <3>2. Head(calls[c]).kind \notin Events
        BY <3>1 DEF Unheard
      <3>3. mButtonDownTime'[c] = 0 /\ ~mButtonHadGesture'[c]
        BY <3>2 DEF Handling, Unheard, Events
      <3>4. QED
        BY <3>1, <3>3 DEF Unheard
    <2>4. QED
      BY <1>1, <2>1, <2>2, <2>3 DEF ClickOK
  <1>4. QED
    BY <1>2, <1>3

-----------------------------------------------------------------------------
(* The invariant                                                           *)

LEMMA PressNext ==
    ASSUME TypeOK, PressOK, [Next]_vars
    PROVE  PressOK'
  <1>1. press.n \in Nat
    BY BoundsType DEF TypeOK, Press
  <1>2. CASE PressButton
    BY <1>1, <1>2 DEF PressButton, PressOK
  <1>3. CASE MovePen
    <2>1. press'.n = press.n
      BY <1>3 DEF MovePen, TypeOK, Press
    <2>2. QED
      BY <1>3, <2>1 DEF MovePen, PressOK
  <1>4. CASE ReleaseButton
    <2>1. ~press'.down
      BY <1>4 DEF ReleaseButton, TypeOK, Press
    <2>2. QED
      BY <2>1 DEF PressOK
  <1>5. CASE UNCHANGED press
    BY <1>5 DEF PressOK
  <1>6. ASSUME NEW c \in Clients, Callback(c) \/ Stack(c) \/ Connect(c) \/ Disconnect(c)
        PROVE  UNCHANGED press
    <2>1. CASE sendEvent(c)
      BY <2>1 DEF sendEvent, penVars
    <2>2. CASE Callback(c) /\ ~sendEvent(c)
      BY <2>2, Handled DEF Handling
    <2>3. CASE Stack(c)
      BY <2>3 DEF Stack, ServicesFound, DescriptorWritten, penVars
    <2>4. CASE Connect(c) \/ Disconnect(c)
      BY <2>4 DEF Connect, Disconnect, penVars
    <2>5. QED
      BY <1>6, <2>1, <2>2, <2>3, <2>4
  <1>7. CASE SetMode \/ UNCHANGED vars
    BY <1>5, <1>7 DEF SetMode, vars
  <1>8. QED
    BY <1>2, <1>3, <1>4, <1>5, <1>6, <1>7 DEF Next

\* The stack is asked to write a descriptor only when it is not busy.
LEMMA RefusedNext ==
    ASSUME TypeOK, \A d \in Clients : InTurn(calls[d], op[d]), [Next]_vars
    PROVE  UNCHANGED refused
  <1>1. ASSUME NEW c \in Clients, onServicesDiscovered(c) PROVE UNCHANGED refused
    <2>1. Head(calls[c]).kind = "discovered" /\ calls[c] \in Seq(Call) /\ calls[c] # <<>>
      BY <1>1, RunsFacts DEF onServicesDiscovered
    <2>2. op[c] = "none"
      BY <2>1, TailIs DEF InTurn, SetupKinds
    <2>3. QED
      BY <1>1, <2>2, SubscribeHandles DEF onServicesDiscovered, setupVars
  <1>2. ASSUME NEW c \in Clients, onDescriptorWrite(c) PROVE UNCHANGED refused
    BY <1>2, SubscribeHandles DEF onDescriptorWrite
  <1>3. ASSUME NEW c \in Clients, Callback(c) PROVE UNCHANGED refused
    BY <1>1, <1>2, <1>3 DEF Callback, OnConnected, OnDown, OnUp, OnMove, sendEvent, setupVars
  <1>4. ASSUME NEW c \in Clients, Stack(c) \/ Connect(c) \/ Disconnect(c) PROVE UNCHANGED refused
    BY <1>4 DEF Stack, ServicesFound, DescriptorWritten, Connect, Disconnect
  <1>5. CASE PressButton \/ MovePen \/ ReleaseButton \/ SetMode \/ UNCHANGED vars
    BY <1>5 DEF PressButton, MovePen, ReleaseButton, SetMode, setupVars, vars
  <1>6. QED
    BY <1>3, <1>4, <1>5 DEF Next

LEMMA NotifyTurn ==
    ASSUME TypeOK, \A d \in Clients : InTurn(calls[d], op[d]), NEW e \in Call,
           e.kind \notin SetupKinds, Notify(e), UNCHANGED op
    PROVE  \A d \in Clients : InTurn(calls'[d], op'[d])
  <1> SUFFICES ASSUME NEW d \in Clients PROVE InTurn(calls'[d], op'[d])
    OBVIOUS
  <1>1. calls[d] \in Seq(Call) /\ op'[d] = op[d]
    BY DEF TypeOK
  <1>2. calls'[d] = calls[d] \/ calls'[d] = Append(calls[d], e)
    BY DEF Notify
  <1>3. QED
    BY <1>1, <1>2, AppendInTurn

LEMMA TurnNext ==
    ASSUME TypeOK, PressOK, \A d \in Clients : InTurn(calls[d], op[d]), [Next]_vars
    PROVE  \A d \in Clients : InTurn(calls'[d], op'[d])
  <1>1. ASSUME NEW c \in Clients, ServicesFound(c)
        PROVE  \A d \in Clients : InTurn(calls'[d], op'[d])
    <2>1. PICK service \in BOOLEAN :
             calls' = [calls EXCEPT ![c] = Append(@, [kind |-> "discovered", service |-> service])]
      BY <1>1 DEF ServicesFound
    <2>2. PICK e \in Call : e = [kind |-> "discovered", service |-> service]
      BY CallKinds
    <2>3. calls[c] \in Seq(Call) /\ calls'[c] = Append(calls[c], e) /\ op'[c] = "none"
      BY <1>1, <2>1, <2>2 DEF ServicesFound, TypeOK
    <2>4. \A d \in Clients \ {c} : calls'[d] = calls[d] /\ op'[d] = op[d]
      BY <1>1, <2>1 DEF ServicesFound, TypeOK
    <2>5. op[c] = "discover" /\ "discover" \notin Characteristics
      BY <1>1 DEF ServicesFound, Characteristics
    <2>6. \A i \in DOMAIN calls[c] : calls[c][i].kind # "written"
      <3>1. \A i \in DOMAIN calls[c] : calls[c][i] \in Call
        BY <2>3
      <3>2. QED
        BY <2>5, <3>1, CallFields DEF InTurn, SetupKinds
    <2>7. \A i \in DOMAIN calls[c] : calls[c][i].kind \notin SetupKinds
      BY <2>3, <2>5, <2>6, NoneInTurn
    <2>8. InTurn(calls'[c], op'[c])
      BY <2>2, <2>3, <2>7, AppendInTurn
    <2>9. QED
      BY <2>4, <2>8
  <1>2. ASSUME NEW c \in Clients, DescriptorWritten(c)
        PROVE  \A d \in Clients : InTurn(calls'[d], op'[d])
    <2>1. PICK e \in Call : e = [kind |-> "written", characteristic |-> op[c]]
      BY <1>2, CallKinds DEF DescriptorWritten
    <2>2. calls[c] \in Seq(Call) /\ calls'[c] = Append(calls[c], e) /\ op' = op
      BY <1>2, <2>1 DEF DescriptorWritten, TypeOK
    <2>3. \A d \in Clients \ {c} : calls'[d] = calls[d]
      BY <1>2 DEF DescriptorWritten, TypeOK
    <2>4. op[c] # "none"
      BY <1>2 DEF DescriptorWritten, Characteristics
    <2>5. \A i \in DOMAIN calls[c] : calls[c][i].kind \notin SetupKinds
      <3>1. DOMAIN calls[c] = 1..Len(calls[c])
        BY <2>2
      <3>2. QED
        BY <1>2, <2>2, <2>4, <3>1, NoneInTurn DEF DescriptorWritten
    <2>6. InTurn(calls'[c], op'[c])
      BY <2>1, <2>2, <2>5, AppendInTurn
    <2>7. QED
      BY <2>2, <2>3, <2>6
  <1>3. ASSUME NEW c \in Clients, Connect(c) \/ Disconnect(c)
        PROVE  \A d \in Clients : InTurn(calls'[d], op'[d])
    <2>1. \A d \in Clients \ {c} : calls'[d] = calls[d] /\ op'[d] = op[d]
      BY <1>3 DEF Connect, Disconnect, TypeOK
    <2>2. CASE Connect(c)
      <3>1. calls'[c] = <<[kind |-> "connected"]>> /\ op'[c] = "none"
        BY <2>2 DEF Connect, TypeOK
      <3>2. QED
        BY <2>1, <3>1 DEF InTurn
    <2>3. CASE Disconnect(c)
      <3>1. calls'[c] = <<>>
        BY <2>3 DEF Disconnect, TypeOK
      <3>2. QED
        BY <2>1, <3>1 DEF InTurn
    <2>4. QED
      BY <1>3, <2>2, <2>3
  <1>4. CASE PressButton
    <2>1. press.n + 1 \in 1..MaxPresses
      <3>1. press.n \in 0..MaxPresses /\ press.n < MaxPresses
        BY <1>4 DEF PressButton, TypeOK, Press
      <3>2. QED
        BY <3>1, BoundsType
    <2>2. [kind |-> "down", press |-> press.n + 1] \in Call
      BY <2>1, CallKinds
    <2>3. QED
      BY <1>4, <2>2, NotifyTurn DEF PressButton, setupVars, SetupKinds
  <1>5. CASE MovePen
    <2>1. PICK motion \in Motions : Notify([kind |-> "move", motion |-> motion])
      BY <1>5 DEF MovePen
    <2>2. [kind |-> "move", motion |-> motion] \in Call
      BY CallKinds
    <2>3. QED
      BY <1>5, <2>1, <2>2, NotifyTurn DEF MovePen, setupVars, SetupKinds
  <1>6. CASE ReleaseButton
    <2>1. PICK e \in Call : e = [kind |-> "up", press |-> press.n, still |-> ~press.moved]
      BY <1>6, ReleaseCall DEF ReleaseButton
    <2>2. QED
      BY <1>6, <2>1, NotifyTurn DEF ReleaseButton, setupVars, SetupKinds
  <1>7. ASSUME NEW c \in Clients, Callback(c)
        PROVE  \A d \in Clients : InTurn(calls'[d], op'[d])
    <2>1. CASE sendEvent(c)
      BY <2>1 DEF sendEvent, setupVars
    <2>2. QED
      BY <1>7, <2>1, Handled, HandledTurn
  <1>8. CASE SetMode \/ UNCHANGED vars
    BY <1>8 DEF SetMode, setupVars, vars
  <1>9. QED
    BY <1>1, <1>2, <1>3, <1>4, <1>5, <1>6, <1>7, <1>8 DEF Next, Stack

\* A callback e about the setup is queued for c.
LEMMA SetupClick ==
    ASSUME TypeOK, \A d \in Clients : ClickOK(d), NEW c \in Clients, link[c],
           NEW e \in Call, e.kind \notin Events, calls' = [calls EXCEPT ![c] = Append(@, e)],
           UNCHANGED <<link, press, mButtonDownTime, mButtonHadGesture>>,
           \A d \in Clients : Receives(d) => Receives(d)'
    PROVE  \A d \in Clients : ClickOK(d)'
  <1>1. ASSUME NEW d \in Clients, d # c PROVE ClickOK(d)'
    <2>1. calls'[d] = calls[d]
      BY <1>1 DEF TypeOK
    <2>2. (Heard(d) => Heard(d)') /\ (Unheard(d) => Unheard(d)')
      BY <2>1 DEF Heard, Unheard
    <2>3. QED
      BY <2>1, <2>2 DEF ClickOK
  <1>2. ClickOK(c)'
    <2>1. calls[c] \in Seq(Call) /\ calls'[c] = Append(calls[c], e) /\ link'[c]
      BY DEF TypeOK
    <2>2. Heard(c)'
      <3>1. Learns(mButtonDownTime[c], mButtonHadGesture[c], calls[c], press)
        BY DEF ClickOK, Heard
      <3>2. \A t \in Nat, g \in BOOLEAN :
               UpToDate(press, t, g) =>
                  /\ e.kind = "up" /\ t = e.press => (e.still <=> ~g)
                  /\ UpToDate(press, IF e.kind = "down" THEN e.press ELSE t,
                                     IF e.kind = "up" THEN FALSE
                                     ELSE (g \/ (e.kind = "move" /\ Far(e))))
        <4>1. e.kind # "up" /\ e.kind # "down" /\ e.kind # "move"
          BY DEF Events
        <4>2. QED
          BY <4>1
      <3>3. Learns(mButtonDownTime[c], mButtonHadGesture[c], Append(calls[c], e), press)
        BY <2>1, <3>1, <3>2, LearnsAppend
      <3>4. QED
        BY <2>1, <3>3 DEF Heard
    <2>3. Unheard(c) => Unheard(c)'
      BY <2>1, AppendIs DEF Unheard
    <2>4. QED
      BY <2>1, <2>2, <2>3 DEF ClickOK
  <1>3. QED
    BY <1>1, <1>2

\* The pen sends e: who does not receive it was told of nothing.
LEMMA NotifyClick ==
    ASSUME TypeOK, PressOK', \A d \in Clients : ClickOK(d), NEW e \in Call, Notify(e),
           UNCHANGED <<link, enabled, notified, mButtonDownTime, mButtonHadGesture>>,
           \A t \in Nat, g \in BOOLEAN :
              UpToDate(press, t, g) =>
                 /\ e.kind = "up" /\ t = e.press => (e.still <=> ~g)
                 /\ UpToDate(press', IF e.kind = "down" THEN e.press ELSE t,
                                     IF e.kind = "up" THEN FALSE
                                     ELSE (g \/ (e.kind = "move" /\ Far(e))))
    PROVE  \A d \in Clients : ClickOK(d)'
  <1> SUFFICES ASSUME NEW d \in Clients PROVE ClickOK(d)'
    OBVIOUS
  <1>1. calls[d] \in Seq(Call) /\ ClickOK(d) /\ link'[d] = link[d] /\ (Receives(d)' <=> Receives(d))
    BY DEF TypeOK, Receives
  <1>2. CASE Receives(d)
    <2>1. calls'[d] = Append(calls[d], e)
      BY <1>2 DEF Notify, Receives
    <2>2. Learns(mButtonDownTime[d], mButtonHadGesture[d], calls[d], press)
      BY <1>1, <1>2 DEF ClickOK, Heard, Receives
    <2>3. PICK s : s = press'
      OBVIOUS
    <2>4. Learns(mButtonDownTime[d], mButtonHadGesture[d], Append(calls[d], e), s)
      BY <1>1, <2>2, <2>3, LearnsAppend
    <2>5. Heard(d)'
      BY <2>1, <2>3, <2>4 DEF Heard
    <2>6. QED
      BY <1>1, <1>2, <2>5 DEF ClickOK, Receives
  <1>3. CASE ~Receives(d)
    <2>1. calls'[d] = calls[d]
      BY <1>3 DEF Notify, Receives
    <2>2. Unheard(d) => Unheard(d)'
      BY <2>1 DEF Unheard
    <2>3. ASSUME Unheard(d) PROVE Heard(d)'
      <3>1. mButtonDownTime'[d] = 0 /\ mButtonHadGesture'[d] = FALSE
        BY <2>3 DEF Unheard, TypeOK
      <3>2. PICK s : s = press'
        OBVIOUS
      <3>3. Learns(0, FALSE, calls[d], s)
        BY <1>1, <2>3, <3>2, LearnsNothing DEF Unheard, PressOK
      <3>4. QED
        BY <2>1, <3>1, <3>2, <3>3 DEF Heard
    <2>4. QED
      BY <1>1, <1>3, <2>1, <2>2, <2>3 DEF ClickOK
  <1>4. QED
    BY <1>2, <1>3

LEMMA ClickStutter ==
    ASSUME \A d \in Clients : ClickOK(d),
           UNCHANGED <<link, enabled, notified, calls, press, mButtonDownTime, mButtonHadGesture>>
    PROVE  \A d \in Clients : ClickOK(d)'
  BY DEF ClickOK, Heard, Unheard, Receives

LEMMA ClickNext ==
    ASSUME TypeOK, PressOK, \A d \in Clients : ClickOK(d), [Next]_vars
    PROVE  \A d \in Clients : ClickOK(d)'
  <1>1. ASSUME NEW c \in Clients, Callback(c) PROVE \A d \in Clients : ClickOK(d)'
    <2>1. CASE sendEvent(c)
      <3>1. UNCHANGED <<link, enabled, notified, calls, press, mButtonDownTime, mButtonHadGesture>>
        BY <2>1 DEF sendEvent, setupVars, penVars
      <3>2. QED
        BY <3>1, ClickStutter
    <2>2. QED
      BY <1>1, <2>1, Handled, HandledClick
  <1>2. ASSUME NEW c \in Clients, ServicesFound(c) PROVE \A d \in Clients : ClickOK(d)'
    <2>1. PICK service \in BOOLEAN :
             calls' = [calls EXCEPT ![c] = Append(@, [kind |-> "discovered", service |-> service])]
      BY <1>2 DEF ServicesFound
    <2>2. PICK e \in Call : e = [kind |-> "discovered", service |-> service]
      BY CallKinds
    <2>3. /\ UNCHANGED <<link, press, mButtonDownTime, mButtonHadGesture>>
          /\ \A d \in Clients : Receives(d) => Receives(d)'
      BY <1>2 DEF ServicesFound, callbackVars, penVars, Receives
    <2>4. link[c] /\ e.kind \notin Events
      BY <1>2, <2>2 DEF ServicesFound, Events
    <2>5. QED
      BY <2>1, <2>2, <2>3, <2>4, SetupClick
  <1>3. ASSUME NEW c \in Clients, DescriptorWritten(c) PROVE \A d \in Clients : ClickOK(d)'
    <2>1. PICK e \in Call : e = [kind |-> "written", characteristic |-> op[c]]
      BY <1>3, CallKinds DEF DescriptorWritten
    <2>2. calls' = [calls EXCEPT ![c] = Append(@, e)]
      BY <1>3, <2>1 DEF DescriptorWritten
    <2>3. /\ UNCHANGED <<link, press, mButtonDownTime, mButtonHadGesture>>
          /\ \A d \in Clients : Receives(d) => Receives(d)'
      BY <1>3 DEF DescriptorWritten, callbackVars, penVars, Receives
    <2>4. link[c] /\ e.kind \notin Events
      BY <1>3, <2>1 DEF DescriptorWritten, Events
    <2>5. QED
      BY <2>2, <2>3, <2>4, SetupClick
  <1>4. ASSUME NEW c \in Clients, Connect(c) PROVE \A d \in Clients : ClickOK(d)'
    <2>1. ASSUME NEW d \in Clients, d # c PROVE ClickOK(d)'
      <3>1. /\ calls'[d] = calls[d] /\ link'[d] = link[d] /\ press' = press
            /\ mButtonDownTime'[d] = mButtonDownTime[d]
            /\ mButtonHadGesture'[d] = mButtonHadGesture[d]
            /\ (Receives(d)' <=> Receives(d))
        BY <1>4, <2>1 DEF Connect, TypeOK, Receives
      <3>2. (Heard(d) => Heard(d)') /\ (Unheard(d) => Unheard(d)')
        BY <3>1 DEF Heard, Unheard
      <3>3. QED
        BY <3>1, <3>2 DEF ClickOK
    <2>2. ClickOK(c)'
      <3>1. /\ calls'[c] = <<[kind |-> "connected"]>> /\ link'[c] /\ press' = press
            /\ mButtonDownTime'[c] = 0 /\ mButtonHadGesture'[c] = FALSE
        BY <1>4 DEF Connect, TypeOK
      <3>2. PICK q \in Seq(Call) : q = <<[kind |-> "connected"]>>
        <4>1. <<[kind |-> "connected"]>> \in Seq(Call)
          BY CallKinds
        <4>2. QED
          BY <4>1
      <3>3. \A i \in DOMAIN q : q[i].kind \notin Events
        BY <3>2 DEF Events
      <3>4. Unheard(c)'
        BY <3>1, <3>2, <3>3 DEF Unheard
      <3>5. Learns(0, FALSE, q, press)
        BY <3>3, LearnsNothing DEF PressOK
      <3>6. Heard(c)'
        BY <3>1, <3>2, <3>5 DEF Heard
      <3>7. QED
        BY <3>1, <3>4, <3>6 DEF ClickOK
    <2>3. QED
      BY <2>1, <2>2
  <1>5. ASSUME NEW c \in Clients, Disconnect(c) PROVE \A d \in Clients : ClickOK(d)'
    <2>1. ASSUME NEW d \in Clients, d # c PROVE ClickOK(d)'
      <3>1. /\ calls'[d] = calls[d] /\ link'[d] = link[d]
            /\ UNCHANGED <<press, notified, mButtonDownTime, mButtonHadGesture>>
            /\ link[d] => enabled' = enabled
        BY <1>5, <2>1 DEF Disconnect, TypeOK, callbackVars, penVars
      <3>2. (Heard(d) => Heard(d)') /\ (Unheard(d) => Unheard(d)') /\ (Receives(d) => Receives(d)')
        BY <3>1 DEF Heard, Unheard, Receives
      <3>3. QED
        BY <3>1, <3>2 DEF ClickOK
    <2>2. ~link'[c] /\ calls'[c] = <<>>
      BY <1>5 DEF Disconnect, TypeOK
    <2>3. QED
      BY <2>1, <2>2 DEF ClickOK
  <1>6. CASE PressButton
    <2>1. PICK n \in 1..MaxPresses : n = press.n + 1
      <3>1. press.n \in 0..MaxPresses /\ press.n < MaxPresses
        BY <1>6 DEF PressButton, TypeOK, Press
      <3>2. QED
        BY <3>1, BoundsType
    <2>2. PICK e \in Call : e = [kind |-> "down", press |-> n]
      BY CallKinds
    <2>3. /\ ~press.down /\ Notify(e)
          /\ press' = [n |-> n, down |-> TRUE, motions |-> 0, moved |-> FALSE]
          /\ UNCHANGED <<link, enabled, notified, mButtonDownTime, mButtonHadGesture>>
      BY <1>6, <2>1, <2>2 DEF PressButton, setupVars, callbackVars
    <2>4. \A t \in Nat, g \in BOOLEAN :
             UpToDate(press, t, g) =>
                /\ e.kind = "up" /\ t = e.press => (e.still <=> ~g)
                /\ UpToDate(press', IF e.kind = "down" THEN e.press ELSE t,
                                    IF e.kind = "up" THEN FALSE
                                    ELSE (g \/ (e.kind = "move" /\ Far(e))))
      BY <2>2, <2>3 DEF UpToDate
    <2>5. QED
      BY <2>3, <2>4, PressNext, NotifyClick
  <1>7. CASE MovePen
    <2>1. PICK motion \in Motions :
             /\ press' = [press EXCEPT !.motions = @ + 1,
                                       !.moved = @ \/ IsGesture(motion[1], motion[2])]
             /\ Notify([kind |-> "move", motion |-> motion])
      BY <1>7 DEF MovePen
    <2>2. PICK e \in Call : e = [kind |-> "move", motion |-> motion]
      BY CallKinds
    <2>3. PICK far \in BOOLEAN : far = Far(e)
      BY DEF Far, IsGesture
    <2>4. far = IsGesture(motion[1], motion[2])
      BY <2>2, <2>3, Decoded, BoundsType DEF Far
    <2>5. /\ press.down /\ press'.down /\ press'.n = press.n
          /\ press'.moved = (press.moved \/ far)
      BY <1>7, <2>1, <2>4 DEF MovePen, TypeOK, Press
    <2>6. UNCHANGED <<link, enabled, notified, mButtonDownTime, mButtonHadGesture>>
      BY <1>7 DEF MovePen, setupVars, callbackVars
    <2>7. \A t \in Nat, g \in BOOLEAN :
             UpToDate(press, t, g) =>
                /\ e.kind = "up" /\ t = e.press => (e.still <=> ~g)
                /\ UpToDate(press', IF e.kind = "down" THEN e.press ELSE t,
                                    IF e.kind = "up" THEN FALSE
                                    ELSE (g \/ (e.kind = "move" /\ Far(e))))
      BY <2>2, <2>3, <2>5 DEF UpToDate
    <2>8. QED
      BY <2>1, <2>2, <2>6, <2>7, PressNext, NotifyClick
  <1>8. CASE ReleaseButton
    <2>1. PICK e \in Call : e = [kind |-> "up", press |-> press.n, still |-> ~press.moved]
      BY <1>8, ReleaseCall DEF ReleaseButton
    <2>2. /\ press.down /\ ~press'.down /\ Notify(e) /\ press.moved \in BOOLEAN
          /\ UNCHANGED <<link, enabled, notified, mButtonDownTime, mButtonHadGesture>>
      BY <1>8, <2>1 DEF ReleaseButton, TypeOK, Press, setupVars, callbackVars
    <2>3. \A t \in Nat, g \in BOOLEAN :
             UpToDate(press, t, g) =>
                /\ e.kind = "up" /\ t = e.press => (e.still <=> ~g)
                /\ UpToDate(press', IF e.kind = "down" THEN e.press ELSE t,
                                    IF e.kind = "up" THEN FALSE
                                    ELSE (g \/ (e.kind = "move" /\ Far(e))))
      BY <2>1, <2>2 DEF UpToDate
    <2>4. QED
      BY <2>2, <2>3, PressNext, NotifyClick
  <1>9. CASE SetMode \/ UNCHANGED vars
    <2>1. UNCHANGED <<link, enabled, notified, calls, press, mButtonDownTime, mButtonHadGesture>>
      BY <1>9 DEF SetMode, setupVars, callbackVars, vars
    <2>2. QED
      BY <2>1, ClickStutter
  <1>10. QED
    BY <1>1, <1>2, <1>3, <1>4, <1>5, <1>6, <1>7, <1>8, <1>9 DEF Next, Stack

LEMMA KeysIdle ==
    ASSUME NEW c \in Clients, KeysOK(c), inject[c] = <<>>
    PROVE  keysDown[c] = {}
  BY StrokeIs DEF KeysOK

\* A callback that returns at once, or after it queued a stroke for itself.
LEMMA KeysCallback ==
    ASSUME TypeOK, \A d \in Clients : KeysOK(d), NEW c \in Clients, inject[c] = <<>>,
           NEW key \in Keys, keysDown' = keysDown,
           inject' = inject \/ inject' = [inject EXCEPT ![c] = <<>>]
                            \/ inject' = [inject EXCEPT ![c] = Stroke(key)]
    PROVE  \A d \in Clients : KeysOK(d)'
  <1>1. \A d \in Clients \ {c} : inject'[d] = inject[d]
    BY DEF TypeOK
  <1>2. inject'[c] = <<>> \/ inject'[c] = Stroke(key)
    BY DEF TypeOK
  <1>3. keysDown'[c] = {}
    BY KeysIdle
  <1>4. KeysOK(c)'
    BY <1>2, <1>3 DEF KeysOK
  <1>5. \A d \in Clients \ {c} : KeysOK(d)'
    BY <1>1 DEF KeysOK
  <1>6. QED
    BY <1>4, <1>5

LEMMA KeysNext ==
    ASSUME TypeOK, \A d \in Clients : KeysOK(d), [Next]_vars
    PROVE  \A d \in Clients : KeysOK(d)'
  <1>1. CASE UNCHANGED <<inject, keysDown>>
    BY <1>1 DEF KeysOK
  <1>2. ASSUME NEW c \in Clients, OnUp(c) PROVE \A d \in Clients : KeysOK(d)'
    <2>1. inject[c] = <<>> /\ keysDown' = keysDown
      BY <1>2 DEF OnUp, Runs
    <2>2. PICK key \in Keys : key = ButtonKey[mode]
      BY KeyFacts DEF TypeOK
    <2>3. \/ inject' = [inject EXCEPT ![c] = <<>>]
          \/ inject' = [inject EXCEPT ![c] = Stroke(key)]
      BY <1>2, <2>2 DEF OnUp
    <2>4. QED
      BY <2>1, <2>3, KeysCallback
  <1>3. ASSUME NEW c \in Clients, OnMove(c) PROVE \A d \in Clients : KeysOK(d)'
    <2> DEFINE m == Head(calls[c]).motion
    <2>1. inject[c] = <<>> /\ keysDown' = keysDown
      BY <1>3 DEF OnMove, Runs
    <2>2. PICK key \in Keys : key = GestureKey[mode][Direction(dX(m), dY(m))]
      <3>1. Direction(dX(m), dY(m)) \in Directions
        BY DEF Direction, Directions
      <3>2. QED
        BY <3>1, KeyFacts DEF TypeOK
    <2>3. inject' = inject \/ inject' = [inject EXCEPT ![c] = Stroke(key)]
      BY <1>3, <2>2 DEF OnMove
    <2>4. QED
      BY <2>1, <2>3, KeysCallback
  <1>4. ASSUME NEW c \in Clients, sendEvent(c) PROVE \A d \in Clients : KeysOK(d)'
    <2>1. inject[c] # <<>> /\ inject'[c] = Tail(inject[c])
      BY <1>4 DEF sendEvent, TypeOK
    <2>2. PICK ev : ev = Head(inject[c])
      OBVIOUS
    <2>3. keysDown'[c] = IF ev.action = "down" THEN keysDown[c] \cup {ev.key}
                         ELSE keysDown[c] \ {ev.key}
      BY <1>4, <2>2 DEF sendEvent, TypeOK
    <2>4. \A d \in Clients \ {c} : KeysOK(d)'
      <3>1. \A d \in Clients \ {c} : inject'[d] = inject[d] /\ keysDown'[d] = keysDown[d]
        BY <1>4 DEF sendEvent, TypeOK
      <3>2. QED
        BY <3>1 DEF KeysOK
    <2>5. KeysOK(c)'
      <3>1. PICK key \in Keys :
               \/ inject[c] = Stroke(key) /\ keysDown[c] = {}
               \/ inject[c] = <<[action |-> "up", key |-> key]>> /\ keysDown[c] = {key}
        BY <2>1 DEF KeysOK
      <3>2. CASE inject[c] = Stroke(key) /\ keysDown[c] = {}
        <4>1. inject'[c] = <<[action |-> "up", key |-> key]>> /\ keysDown'[c] = {key}
          BY <2>1, <2>2, <2>3, <3>2, StrokeIs
        <4>2. QED
          BY <4>1 DEF KeysOK
      <3>3. CASE inject[c] = <<[action |-> "up", key |-> key]>> /\ keysDown[c] = {key}
        <4>1. ev = [action |-> "up", key |-> key] /\ inject'[c] = <<>>
          BY <2>1, <2>2, <3>3
        <4>2. keysDown'[c] = {}
          BY <2>3, <3>3, <4>1
        <4>3. QED
          BY <4>1, <4>2 DEF KeysOK
      <3>4. QED
        BY <3>1, <3>2, <3>3
    <2>6. QED
      BY <2>4, <2>5
  <1>5. ASSUME NEW c \in Clients, onServicesDiscovered(c) \/ onDescriptorWrite(c)
        PROVE  UNCHANGED <<inject, keysDown>>
    BY <1>5, SubscribeHandles DEF onServicesDiscovered, onDescriptorWrite, callbackVars
  <1>6. ASSUME NEW c \in Clients, OnConnected(c) \/ OnDown(c)
        PROVE  UNCHANGED <<inject, keysDown>>
    BY <1>6 DEF OnConnected, OnDown, callbackVars
  <1>7. ASSUME NEW c \in Clients, Stack(c) \/ Connect(c) \/ Disconnect(c)
        PROVE  UNCHANGED <<inject, keysDown>>
    BY <1>7 DEF Stack, ServicesFound, DescriptorWritten, Connect, Disconnect, callbackVars
  <1>8. CASE PressButton \/ MovePen \/ ReleaseButton \/ SetMode \/ UNCHANGED vars
    <2>1. UNCHANGED <<inject, keysDown>>
      BY <1>8 DEF PressButton, MovePen, ReleaseButton, SetMode, callbackVars, vars
    <2>2. QED
      BY <1>1, <2>1
  <1>9. QED
    BY <1>1, <1>2, <1>3, <1>4, <1>5, <1>6, <1>7, <1>8 DEF Next, Callback

LEMMA GattInit ==
    ASSUME Init
    PROVE  GattInv
  <1>1. TypeOK
    <2>1. /\ 0 \in 0..MaxPresses /\ 0 \in 0..MaxMotions /\ 0 \in 0..MaxConnections
          /\ 0 \in 0..MaxModes
      BY BoundsType
    <2>2. /\ <<>> \in Seq(Call) /\ <<>> \in Seq(KeyEvent) /\ Len(<<>>) <= 2
      OBVIOUS
    <2>3. press \in Press
      BY <2>1 DEF Init, Press
    <2>4. \A c \in Clients : Len(inject[c]) <= 2
      BY <2>2 DEF Init
    <2>5. /\ calls \in [Clients -> Seq(Call)] /\ inject \in [Clients -> Seq(KeyEvent)]
      BY <2>2 DEF Init
    <2>6. QED
      BY <2>1, <2>3, <2>4, <2>5 DEF Init, TypeOK
  <1>2. PressOK /\ refused = {}
    BY DEF Init, PressOK
  <1>3. ASSUME NEW c \in Clients PROVE InTurn(calls[c], op[c]) /\ KeysOK(c) /\ ClickOK(c)
    <2>1. calls[c] = <<>> /\ inject[c] = <<>> /\ keysDown[c] = {} /\ ~link[c]
      BY DEF Init
    <2>2. QED
      BY <2>1 DEF InTurn, KeysOK, ClickOK
  <1>4. QED
    BY <1>1, <1>2, <1>3 DEF GattInv

LEMMA GattNext ==
    ASSUME GattInv, [Next]_vars
    PROVE  GattInv'
  <1>1. /\ TypeOK /\ PressOK /\ refused = {} /\ \A c \in Clients : InTurn(calls[c], op[c])
        /\ \A c \in Clients : KeysOK(c) /\ \A d \in Clients : ClickOK(d)
    BY DEF GattInv
  <1>2. TypeOK' /\ PressOK' /\ refused' = {}
    BY <1>1, TypesNext, PressNext, RefusedNext
  <1>3. \A c \in Clients : InTurn(calls'[c], op'[c])
    BY <1>1, TurnNext
  <1>4. \A c \in Clients : KeysOK(c)'
    BY <1>1, KeysNext
  <1>5. \A c \in Clients : ClickOK(c)'
    BY <1>1, ClickNext
  <1>6. QED
    BY <1>2, <1>3, <1>4, <1>5 DEF GattInv

LEMMA AlwaysGattInv == Spec => []GattInv
  <1>1. Init => GattInv
    BY GattInit
  <1>2. GattInv /\ [Next]_vars => GattInv'
    BY GattNext
  <1>3. QED
    BY <1>1, <1>2, PTL DEF Spec

-----------------------------------------------------------------------------
(* What a handler does                                                     *)

\* A queue that got longer, or stayed, did not lose its first callback.
LEMMA TailDiffers ==
    ASSUME NEW q \in Seq(Call), q # <<>>
    PROVE  /\ Tail(q) # q
           /\ \A e \in Call : Tail(q) # Append(q, e)
  <1>1. PICK n \in Nat, r \in Seq(Call) : n = Len(q) /\ r = Tail(q) /\ Len(r) = n - 1
    BY TailIs
  <1>2. n - 1 # n /\ n - 1 # n + 1
    BY <1>1
  <1>3. ASSUME NEW e \in Call PROVE r # Append(q, e)
    <2>1. Len(Append(q, e)) = n + 1
      BY <1>1, AppendIs
    <2>2. QED
      BY <1>1, <1>2, <2>1
  <1>4. QED
    BY <1>2, <1>3

\* A step takes the next callback of c, about the button, from its queue: the
\* callback runs, and nothing else happens.
LEMMA OnlyTheHandler ==
    ASSUME GattInv, [Next]_vars, NEW c \in Clients, NEW kind \in {"up", "move"},
           Handles(c, kind)
    PROVE  (kind = "up" /\ OnUp(c)) \/ (kind = "move" /\ OnMove(c))
  <1>1. /\ TypeOK /\ PressOK /\ ClickOK(c) /\ inject[c] = <<>>
        /\ calls[c] \in Seq(Call) /\ calls[c] # <<>> /\ Head(calls[c]).kind = kind
        /\ calls'[c] = Tail(calls[c]) /\ link'[c]
    BY DEF GattInv, Handles, Runs, TypeOK
  <1>2. calls'[c] # calls[c] /\ \A e \in Call : calls'[c] # Append(calls[c], e)
    BY <1>1, TailDiffers
  <1>3. ASSUME NEW d \in Clients, Callback(d)
        PROVE  (kind = "up" /\ OnUp(c)) \/ (kind = "move" /\ OnMove(c))
    <2>1. CASE sendEvent(d)
      BY <1>2, <2>1 DEF sendEvent
    <2>2. CASE ~sendEvent(d)
      <3>1. d = c
        <4>1. calls' = [calls EXCEPT ![d] = Tail(@)]
          BY <1>1, <1>3, <2>2, Handled DEF Handling, Return
        <4>2. QED
          BY <1>1, <1>2, <4>1 DEF TypeOK
      <3>2. QED
        BY <1>1, <1>3, <2>2, <3>1 DEF Callback, OnConnected, onServicesDiscovered,
           onDescriptorWrite, OnDown, OnUp, OnMove, Runs
    <2>3. QED
      BY <2>1, <2>2
  <1>4. ASSUME NEW d \in Clients, ServicesFound(d) PROVE FALSE
    <2>1. PICK service \in BOOLEAN :
             calls' = [calls EXCEPT ![d] = Append(@, [kind |-> "discovered", service |-> service])]
      BY <1>4 DEF ServicesFound
    <2>2. [kind |-> "discovered", service |-> service] \in Call
      BY CallKinds
    <2>3. QED
      BY <1>1, <1>2, <2>1, <2>2 DEF TypeOK
  <1>5. ASSUME NEW d \in Clients, DescriptorWritten(d) PROVE FALSE
    <2>1. /\ calls' = [calls EXCEPT ![d] = Append(@, [kind |-> "written", characteristic |-> op[d]])]
          /\ op[d] \in Characteristics
      BY <1>5 DEF DescriptorWritten
    <2>2. [kind |-> "written", characteristic |-> op[d]] \in Call
      BY <2>1, CallKinds
    <2>3. QED
      BY <1>1, <1>2, <2>1, <2>2 DEF TypeOK
  <1>6. ASSUME NEW d \in Clients, Connect(d) \/ Disconnect(d) PROVE FALSE
    <2>1. d = c
      BY <1>1, <1>2, <1>6 DEF Connect, Disconnect, TypeOK
    <2>2. link[c]
      BY <1>1 DEF ClickOK
    <2>3. ~link'[c]
      BY <1>1, <1>6, <2>1, <2>2 DEF Connect, Disconnect, TypeOK
    <2>4. QED
      BY <1>1, <2>3
  <1>7. ASSUME NEW e \in Call, Notify(e) PROVE FALSE
    BY <1>2, <1>7 DEF Notify
  <1>8. CASE PressButton
    <2>1. press.n + 1 \in 1..MaxPresses
      <3>1. press.n \in 0..MaxPresses /\ press.n < MaxPresses
        BY <1>1, <1>8 DEF PressButton, TypeOK, Press
      <3>2. QED
        BY <3>1, BoundsType
    <2>2. QED
      BY <1>7, <1>8, <2>1, CallKinds DEF PressButton
  <1>9. CASE MovePen
    BY <1>7, <1>9, CallKinds DEF MovePen
  <1>10. CASE ReleaseButton
    BY <1>1, <1>7, <1>10, ReleaseCall DEF ReleaseButton
  <1>11. CASE SetMode \/ UNCHANGED vars
    BY <1>2, <1>11 DEF SetMode, vars
  <1>12. QED
    BY <1>3, <1>4, <1>5, <1>6, <1>8, <1>9, <1>10, <1>11 DEF Next, Stack

LEMMA ClickStep ==
    ASSUME GattInv, [Next]_vars, NEW c \in Clients, Handles(c, "up"),
           mButtonDownTime[c] = Head(calls[c]).press
    PROVE  inject'[c] # <<>> <=> Head(calls[c]).still
  <1>1. OnUp(c)
    BY OnlyTheHandler
  <1>2. /\ TypeOK /\ ClickOK(c) /\ calls[c] \in Seq(Call) /\ calls[c] # <<>>
        /\ Head(calls[c]).kind = "up"
    BY DEF GattInv, Handles, Runs, TypeOK
  <1>3. inject'[c] = IF mButtonHadGesture[c] THEN <<>> ELSE Stroke(ButtonKey[mode])
    BY <1>1, <1>2 DEF OnUp, TypeOK
  <1>4. Stroke(ButtonKey[mode]) # <<>>
    BY <1>2, KeyFacts, StrokeIs DEF TypeOK
  <1>5. Head(calls[c]).still <=> ~mButtonHadGesture[c]
    <2>1. Heard(c)
      BY <1>2 DEF ClickOK
    <2>2. PICK t \in [Nat -> Nat], g \in [Nat -> BOOLEAN] :
             /\ t[0] = mButtonDownTime[c] /\ g[0] = mButtonHadGesture[c]
             /\ Plays(calls[c], t, g)
      BY <2>1 DEF Heard, Learns
    <2>3. Head(calls[c]) = calls[c][1] /\ 1 \in 1..Len(calls[c]) /\ 1 - 1 = 0
      BY <1>2, TailIs
    <2>4. calls[c][1].kind = "up" /\ t[0] = calls[c][1].press => (calls[c][1].still <=> ~g[0])
      BY <2>2, <2>3 DEF Plays
    <2>5. QED
      BY <1>2, <2>2, <2>3, <2>4
  <1>6. QED
    BY <1>3, <1>4, <1>5

\* The direction that a gesture key stands for, in the modes that have one.
LEMMA KeyDirection ==
    ASSUME NEW m \in Modes, NEW d \in Directions
    PROVE  /\ GestureKey[m][d] \in {"DPAD_RIGHT", "MEDIA_NEXT"} => d = "POSITIVE_X"
           /\ GestureKey[m][d] \in {"DPAD_LEFT", "MEDIA_PREVIOUS"} => d = "NEGATIVE_X"
           /\ GestureKey[m][d] \in {"DPAD_DOWN", "VOLUME_DOWN"} => d = "POSITIVE_Y"
           /\ GestureKey[m][d] \in {"DPAD_UP", "VOLUME_UP"} => d = "NEGATIVE_Y"
  BY DEF Modes, GestureKey, Directions

LEMMA LongerAxis ==
    ASSUME NEW x \in Int, NEW y \in Int
    PROVE  /\ Direction(x, y) \in Directions
           /\ Direction(x, y) = "POSITIVE_X" => x > Abs(y)
           /\ Direction(x, y) = "NEGATIVE_X" => (-x) > Abs(y)
           /\ Direction(x, y) = "POSITIVE_Y" => y >= Abs(x)
           /\ Direction(x, y) = "NEGATIVE_Y" => (-y) >= Abs(x)
  BY DEF Direction, Directions, Abs

LEMMA GestureStep ==
    ASSUME GattInv, [Next]_vars, NEW c \in Clients, Handles(c, "move"),
           NEW motion, motion = Head(calls[c]).motion
    PROVE  /\ inject'[c] # <<>> <=> \E i \in {1, 2} : Abs(motion[i]) > 500
           /\ \A i \in 1..Len(inject'[c]) : Toward(inject'[c][i].key, motion)
  <1>1. OnMove(c)
    BY OnlyTheHandler
  <1>2. /\ TypeOK /\ calls[c] \in Seq(Call) /\ calls[c] # <<>> /\ inject[c] = <<>>
        /\ Head(calls[c]).kind = "move"
    BY DEF GattInv, Handles, Runs, TypeOK
  <1>3. motion \in Short \X Short
    BY <1>2, TailIs, CallFields, BoundsType
  <1>4. PICK x \in Int, y \in Int : motion[1] = x /\ motion[2] = y
    BY <1>3, Decoded
  <1>5. dX(motion) = x /\ dY(motion) = y
    BY <1>3, <1>4, Decoded
  <1>6. IsGesture(x, y) <=> \E i \in {1, 2} : Abs(motion[i]) > 500
    BY <1>4 DEF IsGesture
  <1>7. CASE ~IsGesture(x, y)
    <2>1. inject'[c] = <<>>
      BY <1>1, <1>2, <1>5, <1>7 DEF OnMove
    <2>2. QED
      BY <1>6, <1>7, <2>1
  <1>8. CASE IsGesture(x, y)
    <2>1. Direction(x, y) \in Directions
      BY LongerAxis
    <2>2. PICK key \in Keys : key = GestureKey[mode][Direction(x, y)]
      BY <1>2, <2>1, KeyFacts DEF TypeOK
    <2>3. inject'[c] = Stroke(key)
      BY <1>1, <1>2, <1>5, <1>8, <2>2 DEF OnMove, TypeOK
    <2>4. Toward(key, motion)
      <3>1. /\ key \in {"DPAD_RIGHT", "MEDIA_NEXT"} => x > Abs(y)
            /\ key \in {"DPAD_LEFT", "MEDIA_PREVIOUS"} => (-x) > Abs(y)
            /\ key \in {"DPAD_DOWN", "VOLUME_DOWN"} => y >= Abs(x)
            /\ key \in {"DPAD_UP", "VOLUME_UP"} => (-y) >= Abs(x)
        BY <1>2, <2>1, <2>2, KeyDirection, LongerAxis DEF TypeOK
      <3>2. QED
        BY <1>4, <3>1 DEF Toward
    <2>5. \A i \in 1..Len(inject'[c]) : inject'[c][i].key = key
      BY <2>3 DEF Stroke
    <2>6. QED
      BY <1>6, <1>8, <2>3, <2>4, <2>5, StrokeIs
  <1>9. QED
    BY <1>7, <1>8

-----------------------------------------------------------------------------
(* The theorems                                                            *)

\* The fields of the callback objects, the queues of callbacks and the state of
\* the stack stay in their types, for every set of clients, motions and bounds.
THEOREM TypeCorrect == Spec => []TypeOK
  <1>1. GattInv => TypeOK
    BY DEF GattInv
  <1>2. QED
    BY <1>1, AlwaysGattInv, PTL

\* The chain of descriptors is one GATT operation after the other: the stack
\* never refuses one, because a callback about the setup is queued only while
\* none is under way and starts the next only when it runs.
THEOREM OneOperationAtATime == Spec => []NeverRefused
  <1>1. GattInv => NeverRefused
    BY DEF GattInv, NeverRefused
  <1>2. QED
    BY <1>1, AlwaysGattInv, PTL

\* A key that a callback sent down was sent up when the callback returns, in
\* whatever mode it ends.
THEOREM KeysAreReleased == Spec => []NoStuckKey
  <1>1. GattInv => NoStuckKey
    BY KeysIdle DEF GattInv, NoStuckKey
  <1>2. QED
    BY <1>1, AlwaysGattInv, PTL

\* A press that a callback object was told of from its beginning sends the key
\* of the button if and only if the pen made no gesture during it: whatever was
\* queued behind it, and however often the link went and came, the two fields
\* of the object are those of that press when its end is handled.
THEOREM PressesMeanOneThing == Spec => ClickIffStill
  <1>1. GattInv /\ [Next]_vars =>
           \A c \in Clients :
              Handles(c, "up") /\ mButtonDownTime[c] = Head(calls[c]).press
                  => (inject'[c] # <<>> <=> Head(calls[c]).still)
    BY ClickStep
  <1>2. QED
    BY <1>1, AlwaysGattInv, PTL DEF Spec, ClickIffStill

\* Every motion of two shorts: the bytes are put together to the numbers that
\* the pen sent, a key is sent if one is beyond the limit, and in every mode
\* that has gestures it is the key of the longer axis, with its sign.
THEOREM GesturesAreDecoded == Spec => GestureFollowsMotion
  <1>1. GattInv /\ [Next]_vars =>
           \A c \in Clients :
              Handles(c, "move") =>
                  LET motion == Head(calls[c]).motion
                  IN  /\ inject'[c] # <<>> <=> \E i \in {1, 2} : Abs(motion[i]) > 500
                      /\ \A i \in 1..Len(inject'[c]) : Toward(inject'[c][i].key, motion)
    BY GestureStep
  <1>2. QED
    BY <1>1, AlwaysGattInv, PTL DEF Spec, GestureFollowsMotion
=============================================================================
