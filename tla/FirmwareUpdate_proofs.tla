------------------------- MODULE FirmwareUpdate_proofs -------------------------
(***************************************************************************)
(* Proofs about FirmwareUpdate, for any packages, sizes of images and      *)
(* bounds: the contents of the partitions stay in their types; the revision *)
(* of the bootloader that runs does not go down, whatever updates that     *)
(* failed or were killed have left behind; a bota with the magic holds     *)
(* what it announces; and an update that reports success has written every *)
(* image that it has a command for where its reader finds it.              *)
(***************************************************************************)
EXTENDS FirmwareUpdate, SequenceTheorems, TLAPS

\* The partition that the bootloader takes its own image from.
BootBota == IF single THEN "bota" ELSE "bota0"

\* The commands of a script of pkg; ch if it has the firmware commands.
CommandOf(pkg, ch) ==
    {k \in Command :
        /\ k.op \in {"mark_header_bt", "write_data_bt"} => ch
        /\ k.op = "write_data_bt" => k.offset >= FirstOffset
        /\ k.op \in {"write_data_bt", "package_extract_file"} => Size[pkg][k.image] # Absent}

ScriptOK ==
    /\ script \in Seq(CommandOf(package, chosen))
    /\ status # "runs" => script = <<>>
    /\ status = "runs" /\ chosen => Binary[package] >= Binary[running]

\* What the bota can have is known: one image, or nothing lost, torn or ignored.
Kept == ~single \/ (cuts = 0 /\ ignores = 0)

\* The image that a reader of the partition comes to first is not older than the
\* bootloader that runs.
NotOlder(records) ==
    Kept => \A r \in records : r.offset = FirstOffset => Binary[r.package] >= Binary[running]

\* There is only one package that it can be of.
Alike(records) ==
    \A r, q \in records :
        r.offset = FirstOffset /\ q.offset = FirstOffset => r.package = q.package

FirmwareInv ==
    /\ TypeOK /\ ScriptOK
    /\ NotOlder(part[BootBota].records) /\ NotOlder(disk[BootBota].records)
    /\ \A p \in Botas : Alike(part[p].records) /\ Alike(disk[p].records)

Usable(c) == c.magic => Sound(c)

BotasUsable == cuts = 0 /\ ignores = 0 => \A p \in Botas : Usable(part[p])

-----------------------------------------------------------------------------
(* Partitions and their records                                            *)

LEMMA Bounds ==
    /\ Binary \in [Packages -> Nat] /\ Factory \in Packages
    /\ MaxInstalls \in Nat /\ MaxFailures \in Nat /\ MaxIgnored \in Nat /\ MaxCuts \in Nat
    /\ MaxFlushes \in Nat
    /\ Len(SingleNames) = 5 /\ Garbage = 6
  BY FirmwareAssumption DEF SingleNames, Garbage

LEMMA Sizes ==
    ASSUME NEW pkg \in Packages, NEW image \in Images
    PROVE  /\ Size[pkg][image] \in Nat \cup {Absent}
           /\ Returned(pkg, image) \in Nat
           /\ Size[pkg][image] # Absent => Size[pkg][image] \in Nat
  BY FirmwareAssumption DEF Returned

LEMMA BootBotaIs == BootBota \in Botas /\ Botas \subseteq Partitions
  BY DEF BootBota, Botas, Partitions

\* What a reader of records comes to after the record at offset a.
After(records, a) ==
    LET before == {r \in records : r.offset = a} IN
        IF before = {} THEN Absent ELSE End(CHOOSE r \in before : TRUE)

Announced(c) == IF single THEN c.num ELSE 1

\* The offsets of a reader, one after the other.  The function that Offsets
\* defines exists, because a header announces at most six images.
LEMMA OffsetsAre ==
    ASSUME NEW c \in Contents, NEW n \in 0..6, n = Announced(c)
    PROVE  \E at :
              /\ at = [i \in 1..n |-> IF i = 1 THEN 8 ELSE After(c.records, at[i - 1])]
              /\ Offsets(c) = {at[i] : i \in 1..n}
  <1> DEFINE F(f) == [i \in 1..n |-> IF i = 1 THEN 8 ELSE After(c.records, f[i - 1])]
             a2 == After(c.records, 8)
             a3 == After(c.records, a2)
             a4 == After(c.records, a3)
             a5 == After(c.records, a4)
             a6 == After(c.records, a5)
             h == [i \in 1..n |-> IF i = 1 THEN 8 ELSE IF i = 2 THEN a2 ELSE IF i = 3 THEN a3
                                  ELSE IF i = 4 THEN a4 ELSE IF i = 5 THEN a5 ELSE a6]
             G == CHOOSE f : f = F(f)
  <1>1. h = F(h)
    <2>1. ASSUME NEW i \in 1..n PROVE h[i] = F(h)[i]
      <3>1. i = 1 \/ i = 2 \/ i = 3 \/ i = 4 \/ i = 5 \/ i = 6
        BY <2>1
      <3>2. CASE i = 1
        BY <3>2
      <3>3. CASE i = 2
        <4>1. 1 \in 1..n /\ 2 - 1 = 1
          BY <3>3
        <4>2. QED
          BY <3>3, <4>1
      <3>4. CASE i = 3
        <4>1. 2 \in 1..n /\ 3 - 1 = 2
          BY <3>4
        <4>2. QED
          BY <3>4, <4>1
      <3>5. CASE i = 4
        <4>1. 3 \in 1..n /\ 4 - 1 = 3
          BY <3>5
        <4>2. QED
          BY <3>5, <4>1
      <3>6. CASE i = 5
        <4>1. 4 \in 1..n /\ 5 - 1 = 4
          BY <3>6
        <4>2. QED
          BY <3>6, <4>1
      <3>7. CASE i = 6
        <4>1. 5 \in 1..n /\ 6 - 1 = 5
          BY <3>7
        <4>2. QED
          BY <3>7, <4>1
      <3>8. QED
        BY <3>1, <3>2, <3>3, <3>4, <3>5, <3>6, <3>7
    <2>2. QED
      BY <2>1
  <1>2. G = F(G)
    <2> HIDE DEF F, h
    <2>1. QED
      BY <1>1
  <1>3. Offsets(c) = {G[i] : i \in 1..n}
    BY DEF Offsets, After, Announced
  <1>4. PICK g : g = G
    OBVIOUS
  <1> HIDE DEF G
  <1>5. g = F(g) /\ Offsets(c) = {g[i] : i \in 1..n}
    BY <1>2, <1>3, <1>4
  <1>6. QED
    BY <1>5

\* A bota that the bootloader takes is of the package of its first record.
LEMMA FirstFound ==
    ASSUME single \in BOOLEAN, NEW c \in Contents, Sound(c), NEW s \in Found(c)
    PROVE  /\ s \in c.records
           /\ \E r \in c.records : r.offset = FirstOffset /\ r.package = s.package
           /\ \A r \in c.records : r.offset = FirstOffset => r.package = s.package
  <1>1. PICK n \in 0..6 : n = Announced(c)
    BY Bounds DEF Announced, Contents
  <1>2. PICK at :
           /\ at = [i \in 1..n |-> IF i = 1 THEN 8 ELSE After(c.records, at[i - 1])]
           /\ Offsets(c) = {at[i] : i \in 1..n}
    BY <1>1, OffsetsAre
  <1>3. s \in c.records /\ s.offset \in Offsets(c)
    BY DEF Found
  <1>4. 1 \in 1..n
    <2>1. PICK i \in 1..n : s.offset = at[i]
      <3>1. Offsets(c) = {at[i] : i \in 1..n}
        BY <1>2
      <3>2. QED
        BY <1>3, <3>1
    <2>2. QED
      BY <2>1
  <1>5. 8 \in Offsets(c)
    <2>1. at[1] = 8
      BY <1>2, <1>4
    <2>2. QED
      BY <1>2, <1>4, <2>1
  <1>6. \A r \in c.records : r.offset = 8 => r \in Found(c)
    BY <1>5 DEF Found
  <1>7. \A r, q \in Found(c) : r.package = q.package
    BY DEF Sound
  <1>8. \E r \in Found(c) : r.offset = 8
    BY <1>5 DEF Sound
  <1>9. QED
    BY <1>3, <1>6, <1>7, <1>8 DEF Found, FirstOffset

LEMMA BootTyped ==
    ASSUME single \in BOOLEAN, running \in Packages, NEW contents \in [Partitions -> Contents],
           Boot(contents)
    PROVE  /\ part' \in [Partitions -> Contents] /\ running' \in Packages
           /\ \A p \in Partitions : part'[p].records = contents[p].records
           /\ \/ running' = running /\ part' = contents
              \/ /\ contents[BootBota].magic
                 /\ \E r \in Found(contents[BootBota]) : running' = r.package
                 /\ \E magic \in BOOLEAN : part' = [contents EXCEPT ![BootBota].magic = magic]
  <1>1. contents[BootBota] \in Contents /\ BootBota \in Partitions
    BY BootBotaIs
  <1>2. CASE running' = running /\ part' = contents
    BY <1>2
  <1>3. CASE \E r \in Bootable(contents[BootBota]), magic \in BOOLEAN :
                running' = r.package /\ part' = [contents EXCEPT ![BootBota].magic = magic]
    <2>1. PICK r \in Bootable(contents[BootBota]), magic \in BOOLEAN :
             running' = r.package /\ part' = [contents EXCEPT ![BootBota].magic = magic]
      BY <1>3
    <2>2. r \in Found(contents[BootBota]) /\ contents[BootBota].magic
      BY DEF Bootable
    <2>3. r \in contents[BootBota].records
      BY <2>2 DEF Found
    <2>4. running' \in Packages
      BY <1>1, <2>1, <2>3 DEF Contents, ImageRecord
    <2>5. part' \in [Partitions -> Contents] /\ \A p \in Partitions : part'[p].records = contents[p].records
      BY <1>1, <2>1 DEF Contents
    <2>6. QED
      BY <2>1, <2>2, <2>4, <2>5
  <1>4. QED
    BY <1>2, <1>3 DEF Boot, BootBota

\* With one image in a bota, the reader finds the first record.
LEMMA FoundFirst ==
    ASSUME ~single, NEW c \in Contents, NEW s \in Found(c)
    PROVE  s \in c.records /\ s.offset = FirstOffset
  <1>1. PICK n \in 0..6 : n = Announced(c) /\ n = 1
    BY DEF Announced
  <1>2. PICK at :
           /\ at = [i \in 1..n |-> IF i = 1 THEN 8 ELSE After(c.records, at[i - 1])]
           /\ Offsets(c) = {at[i] : i \in 1..n}
    BY <1>1, OffsetsAre
  <1>3. 1..n = {1}
    BY <1>1
  <1>4. at[1] = 8
    BY <1>2, <1>3
  <1>5. Offsets(c) = {8}
    BY <1>2, <1>3, <1>4
  <1>6. QED
    BY <1>5 DEF Found, FirstOffset

LEMMA BootNotOlder ==
    ASSUME single \in BOOLEAN, running \in Packages, NEW contents \in [Partitions -> Contents],
           Boot(contents), single => Usable(contents[BootBota]),
           Alike(contents[BootBota].records),
           \A r \in contents[BootBota].records :
              r.offset = FirstOffset => Binary[r.package] >= Binary[running]
    PROVE  /\ Binary[running'] >= Binary[running]
           /\ \A r \in contents[BootBota].records :
                 r.offset = FirstOffset => Binary[r.package] >= Binary[running']
  <1>1. PICK c \in Contents : c = contents[BootBota]
    BY BootBotaIs
  <1>2. CASE running' = running
    <2>1. Binary[running'] \in Nat
      BY <1>2, Bounds
    <2>2. QED
      BY <1>2, <2>1
  <1>3. CASE c.magic /\ \E s \in Found(c) : running' = s.package
    <2>1. PICK s \in Found(c) : running' = s.package
      BY <1>3
    <2>2. /\ \E r \in c.records : r.offset = FirstOffset /\ r.package = running'
          /\ \A r \in c.records : r.offset = FirstOffset => r.package = running'
      <3>1. CASE single
        <4>1. Sound(c)
          BY <1>1, <1>3, <3>1 DEF Usable
        <4>2. QED
          BY <2>1, <4>1, FirstFound
      <3>2. CASE ~single
        <4>1. s \in c.records /\ s.offset = FirstOffset
          BY <3>2, FoundFirst
        <4>2. QED
          BY <1>1, <2>1, <4>1 DEF Alike
      <3>3. QED
        BY <3>1, <3>2
    <2>3. running' \in Packages
      BY <1>1, <2>2 DEF Contents, ImageRecord
    <2>4. Binary[running'] \in Nat /\ Binary[running'] >= Binary[running]
      BY <1>1, <2>2, <2>3, Bounds
    <2>5. QED
      BY <1>1, <2>2, <2>4
  <1>4. QED
    BY <1>1, <1>2, <1>3, BootTyped

-----------------------------------------------------------------------------
(* The commands of a package                                               *)

LEMMA Joined ==
    ASSUME NEW S, NEW s \in Seq(S), NEW t \in Seq(S)
    PROVE  s \o t \in Seq(S)
  OBVIOUS

LEMMA Single ==
    ASSUME NEW S, NEW k \in S
    PROVE  <<k>> \in Seq(S)
  OBVIOUS

LEMMA Two ==
    ASSUME NEW S, NEW k \in S, NEW l \in S
    PROVE  <<k, l>> \in Seq(S)
  OBVIOUS

LEMMA Triple ==
    ASSUME NEW S, NEW k \in S, NEW l \in S, NEW m \in S
    PROVE  <<k, l, m>> \in Seq(S)
  OBVIOUS

LEMMA AddSimple ==
    ASSUME NEW pkg \in Packages, NEW ch, NEW image \in Images, NEW dest \in SimplePartitions,
           NEW offset
    PROVE  AddFirmwareImage(pkg, image, dest, TRUE, offset) \in Seq(CommandOf(pkg, ch))
  <1>1. CASE Size[pkg][image] = Absent
    BY <1>1 DEF AddFirmwareImage
  <1>2. CASE Size[pkg][image] # Absent
    <2>1. Extract(image, dest) \in CommandOf(pkg, ch)
      BY <1>2 DEF Extract, CommandOf, Command
    <2>2. AddFirmwareImage(pkg, image, dest, TRUE, offset) = <<Extract(image, dest)>>
      BY <1>2 DEF AddFirmwareImage
    <2>3. QED
      BY <2>1, <2>2, Single
  <1>3. QED
    BY <1>1, <1>2

LEMMA MarkIs ==
    ASSUME NEW pkg, NEW dest \in Botas, NEW num \in 0..5, NEW magic \in BOOLEAN
    PROVE  Mark(dest, num, magic) \in CommandOf(pkg, TRUE)
  BY Bounds DEF Mark, CommandOf, Command

LEMMA AddBota ==
    ASSUME NEW pkg \in Packages, NEW image \in BotaImages, NEW dest \in Botas,
           NEW offset \in Nat, offset >= FirstOffset
    PROVE  AddFirmwareImage(pkg, image, dest, FALSE, offset) \in Seq(CommandOf(pkg, TRUE))
  <1> DEFINE S == CommandOf(pkg, TRUE)
             w == WriteData(image, dest, offset)
  <1>1. CASE Size[pkg][image] = Absent
    BY <1>1 DEF AddFirmwareImage
  <1>2. CASE Size[pkg][image] # Absent
    <2>1. w \in S
      BY <1>2 DEF WriteData, CommandOf, Command
    <2>2. Mark(dest, 0, FALSE) \in S /\ Mark(dest, 0, TRUE) \in S
      <3>1. 0 \in 0..5
        OBVIOUS
      <3>2. QED
        BY <3>1, MarkIs
    <2>3. \/ AddFirmwareImage(pkg, image, dest, FALSE, offset) = <<w>>
          \/ AddFirmwareImage(pkg, image, dest, FALSE, offset) =
                <<Mark(dest, 0, FALSE), w, Mark(dest, 0, TRUE)>>
      BY <1>2 DEF AddFirmwareImage
    <2>4. <<w>> \in Seq(S) /\ <<Mark(dest, 0, FALSE), w, Mark(dest, 0, TRUE)>> \in Seq(S)
      <3> HIDE DEF S, w
      <3>1. QED
        BY <2>1, <2>2, Single, Triple
    <2>5. QED
      BY <2>3, <2>4
  <1>3. QED
    BY <1>1, <1>2

\* The loop over the images of the one bota partition, step by step.
LoopStep(pkg, prev, i) ==
    LET size == Returned(pkg, SingleNames[i])
        more == size > 0
    IN  [offset |-> IF more THEN Advance(prev.offset, size) ELSE prev.offset,
         num |-> IF more THEN prev.num + 1 ELSE prev.num,
         commands |-> prev.commands
             \o AddFirmwareImage(pkg, SingleNames[i], "bota", FALSE, prev.offset)]

Loop0 == [offset |-> FirstOffset, num |-> 0, commands |-> <<>>]
Loop1(pkg) == LoopStep(pkg, Loop0, 1)
Loop2(pkg) == LoopStep(pkg, Loop1(pkg), 2)
Loop3(pkg) == LoopStep(pkg, Loop2(pkg), 3)
Loop4(pkg) == LoopStep(pkg, Loop3(pkg), 4)
Loop5(pkg) == LoopStep(pkg, Loop4(pkg), 5)

LEMMA LoopIs ==
    ASSUME NEW pkg
    PROVE  SingleBotaLoop(pkg) = Loop5(pkg)
  <1> DEFINE F(f) == [i \in 0..Len(SingleNames) |-> IF i = 0 THEN Loop0 ELSE LoopStep(pkg, f[i - 1], i)]
             E(f) == [i \in 0..5 |-> IF i = 0 THEN Loop0 ELSE LoopStep(pkg, f[i - 1], i)]
             h == [i \in 0..5 |-> IF i = 0 THEN Loop0 ELSE IF i = 1 THEN Loop1(pkg)
                      ELSE IF i = 2 THEN Loop2(pkg) ELSE IF i = 3 THEN Loop3(pkg)
                      ELSE IF i = 4 THEN Loop4(pkg) ELSE Loop5(pkg)]
             G == CHOOSE f : f = F(f)
  <1>1. h = E(h)
    <2>1. ASSUME NEW i \in 0..5 PROVE h[i] = E(h)[i]
      <3>1. i = 0 \/ i = 1 \/ i = 2 \/ i = 3 \/ i = 4 \/ i = 5
        BY <2>1
      <3>2. CASE i = 0
        BY <3>2
      <3>3. CASE i = 1
        BY <3>3 DEF Loop1
      <3>4. CASE i = 2
        BY <3>4 DEF Loop2
      <3>5. CASE i = 3
        BY <3>5 DEF Loop3
      <3>6. CASE i = 4
        BY <3>6 DEF Loop4
      <3>7. CASE i = 5
        BY <3>7 DEF Loop5
      <3>8. QED
        BY <3>1, <3>2, <3>3, <3>4, <3>5, <3>6, <3>7
    <2>2. QED
      BY <2>1
  <1>2. \A f : F(f) = E(f)
    BY Bounds
  <1>3. G = E(G)
    <2> HIDE DEF F, E, h
    <2>1. G = F(G)
      BY <1>1, <1>2
    <2>2. QED
      BY <1>2, <2>1
  <1>4. SingleBotaLoop(pkg) = G[Len(SingleNames)]
    BY DEF SingleBotaLoop, LoopStep, Loop0
  <1>5. /\ G[0] = Loop0 /\ G[1] = LoopStep(pkg, G[0], 1) /\ G[2] = LoopStep(pkg, G[1], 2)
        /\ G[3] = LoopStep(pkg, G[2], 3) /\ G[4] = LoopStep(pkg, G[3], 4)
        /\ G[5] = LoopStep(pkg, G[4], 5)
    <2>1. PICK g : g = G /\ g = E(g)
      BY <1>3
    <2>2. /\ 0 \in 0..5 /\ 1 \in 0..5 /\ 2 \in 0..5 /\ 3 \in 0..5 /\ 4 \in 0..5 /\ 5 \in 0..5
          /\ 1 - 1 = 0 /\ 2 - 1 = 1 /\ 3 - 1 = 2 /\ 4 - 1 = 3 /\ 5 - 1 = 4
          /\ 1 # 0 /\ 2 # 0 /\ 3 # 0 /\ 4 # 0 /\ 5 # 0
      OBVIOUS
    <2>3. /\ g[0] = Loop0 /\ g[1] = LoopStep(pkg, g[0], 1) /\ g[2] = LoopStep(pkg, g[1], 2)
          /\ g[3] = LoopStep(pkg, g[2], 3) /\ g[4] = LoopStep(pkg, g[3], 4)
          /\ g[5] = LoopStep(pkg, g[4], 5)
      BY <2>1, <2>2
    <2>4. QED
      BY <2>1, <2>3
  <1>6. QED
    BY <1>4, <1>5, Bounds DEF Loop1, Loop2, Loop3, Loop4, Loop5

\* After i images.
LoopOK(pkg, l, i) ==
    /\ l.offset \in Nat /\ l.offset >= FirstOffset
    /\ l.num \in 0..i
    /\ l.commands \in Seq(CommandOf(pkg, TRUE))

LEMMA LoopStepOK ==
    ASSUME single, NEW pkg \in Packages, NEW i \in 1..5, NEW l, LoopOK(pkg, l, i - 1)
    PROVE  LoopOK(pkg, LoopStep(pkg, l, i), i)
  <1>1. SingleNames[i] \in BotaImages /\ "bota" \in Botas
    BY DEF SingleNames, BotaImages, Botas
  <1>2. PICK size \in Nat : size = Returned(pkg, SingleNames[i])
    BY <1>1, Sizes DEF Images
  <1>3. PICK a : a = AddFirmwareImage(pkg, SingleNames[i], "bota", FALSE, l.offset)
    OBVIOUS
  <1>4. a \in Seq(CommandOf(pkg, TRUE))
    BY <1>1, <1>3, AddBota DEF LoopOK
  <1>5. LoopStep(pkg, l, i) =
           [offset |-> IF size > 0 THEN l.offset + size + 36 ELSE l.offset,
            num |-> IF size > 0 THEN l.num + 1 ELSE l.num,
            commands |-> l.commands \o a]
    BY <1>2, <1>3 DEF LoopStep, Advance
  <1>6. l.commands \o a \in Seq(CommandOf(pkg, TRUE))
    BY <1>4, Joined DEF LoopOK
  <1>7. (IF size > 0 THEN l.num + 1 ELSE l.num) \in 0..i
    BY DEF LoopOK
  <1>8. /\ (IF size > 0 THEN l.offset + size + 36 ELSE l.offset) \in Nat
        /\ (IF size > 0 THEN l.offset + size + 36 ELSE l.offset) >= FirstOffset
    BY DEF LoopOK, FirstOffset
  <1>9. PICK o, n, k :
           /\ o = IF size > 0 THEN l.offset + size + 36 ELSE l.offset
           /\ n = IF size > 0 THEN l.num + 1 ELSE l.num
           /\ k = l.commands \o a
    OBVIOUS
  <1>10. LoopStep(pkg, l, i) = [offset |-> o, num |-> n, commands |-> k]
    BY <1>5, <1>9
  <1>11. /\ o \in Nat /\ o >= FirstOffset /\ n \in 0..i
         /\ k \in Seq(CommandOf(pkg, TRUE))
    BY <1>6, <1>7, <1>8, <1>9
  <1>12. PICK r : r = LoopStep(pkg, l, i)
    OBVIOUS
  <1>13. r.offset = o /\ r.num = n /\ r.commands = k
    BY <1>10, <1>12
  <1>14. LoopOK(pkg, r, i)
    BY <1>11, <1>13 DEF LoopOK
  <1>15. QED
    BY <1>12, <1>14

LEMMA LoopsOK ==
    ASSUME single, NEW pkg \in Packages
    PROVE  /\ LoopOK(pkg, Loop0, 0) /\ LoopOK(pkg, Loop1(pkg), 1) /\ LoopOK(pkg, Loop2(pkg), 2)
           /\ LoopOK(pkg, Loop3(pkg), 3) /\ LoopOK(pkg, Loop4(pkg), 4) /\ LoopOK(pkg, Loop5(pkg), 5)
  <1>1. LoopOK(pkg, Loop0, 0)
    BY DEF LoopOK, Loop0, FirstOffset
  <1>2. /\ 1 - 1 = 0 /\ 2 - 1 = 1 /\ 3 - 1 = 2 /\ 4 - 1 = 3 /\ 5 - 1 = 4
        /\ 1 \in 1..5 /\ 2 \in 1..5 /\ 3 \in 1..5 /\ 4 \in 1..5 /\ 5 \in 1..5
    OBVIOUS
  <1>3. LoopOK(pkg, Loop1(pkg), 1)
    BY <1>1, <1>2, LoopStepOK DEF Loop1
  <1>4. LoopOK(pkg, Loop2(pkg), 2)
    BY <1>2, <1>3, LoopStepOK DEF Loop2
  <1>5. LoopOK(pkg, Loop3(pkg), 3)
    BY <1>2, <1>4, LoopStepOK DEF Loop3
  <1>6. LoopOK(pkg, Loop4(pkg), 4)
    BY <1>2, <1>5, LoopStepOK DEF Loop4
  <1>7. LoopOK(pkg, Loop5(pkg), 5)
    BY <1>2, <1>6, LoopStepOK DEF Loop5
  <1>8. QED
    BY <1>1, <1>3, <1>4, <1>5, <1>6, <1>7

LEMMA BootloaderCommands ==
    ASSUME single \in BOOLEAN, NEW pkg \in Packages
    PROVE  Bootloader(pkg) \in Seq(CommandOf(pkg, TRUE))
  <1> DEFINE S == CommandOf(pkg, TRUE)
  <1>1. CASE single
    <2>1. PICK loop : loop = SingleBotaLoop(pkg)
      OBVIOUS
    <2>2. loop.num \in 0..5 /\ loop.commands \in Seq(S)
      BY <1>1, <2>1, LoopIs, LoopsOK DEF LoopOK
    <2>3. "bota" \in Botas /\ 0 \in 0..5
      BY <1>1 DEF Botas
    <2>4. Mark("bota", 0, FALSE) \in S /\ Mark("bota", loop.num, TRUE) \in S
      BY <2>2, <2>3, MarkIs
    <2>5. Bootloader(pkg) = (<<Mark("bota", 0, FALSE)>> \o loop.commands)
                            \o <<Mark("bota", loop.num, TRUE)>>
      BY <1>1, <2>1 DEF Bootloader
    <2> HIDE DEF S
    <2>6. <<Mark("bota", 0, FALSE)>> \in Seq(S) /\ <<Mark("bota", loop.num, TRUE)>> \in Seq(S)
      BY <2>4, Single
    <2>7. <<Mark("bota", 0, FALSE)>> \o loop.commands \in Seq(S)
      BY <2>2, <2>6, Joined
    <2>8. Bootloader(pkg) \in Seq(S)
      BY <2>5, <2>6, <2>7, Joined
    <2>9. QED
      BY <2>8 DEF S
  <1>2. CASE ~single
    <2> DEFINE a == AddFirmwareImage(pkg, "sboot", "bota0", FALSE, FirstOffset)
               b == AddFirmwareImage(pkg, "cm", "bota1", FALSE, FirstOffset)
               c == AddFirmwareImage(pkg, "up_param", "bota2", FALSE, FirstOffset)
               d == AddFirmwareImage(pkg, "keystorage", "keystorage", TRUE, FirstOffset)
               e == AddFirmwareImage(pkg, "uh", "uh", TRUE, FirstOffset)
    <2>1. {"bota0", "bota1", "bota2"} \subseteq Botas /\ {"keystorage", "uh"} \subseteq SimplePartitions
      BY <1>2 DEF Botas, SimplePartitions
    <2>2. FirstOffset \in Nat /\ FirstOffset >= FirstOffset
      BY DEF FirstOffset
    <2>3. a \in Seq(S) /\ b \in Seq(S) /\ c \in Seq(S)
      BY <2>1, <2>2, AddBota DEF BotaImages
    <2>4. d \in Seq(S) /\ e \in Seq(S)
      BY <2>1, AddSimple DEF Images, BotaImages
    <2>5. Bootloader(pkg) = (((a \o b) \o c) \o d) \o e
      BY <1>2 DEF Bootloader
    <2> HIDE DEF a, b, c, d, e, S
    <2>6. a \o b \in Seq(S)
      BY <2>3, Joined
    <2>7. (a \o b) \o c \in Seq(S)
      BY <2>3, <2>6, Joined
    <2>8. ((a \o b) \o c) \o d \in Seq(S)
      BY <2>4, <2>7, Joined
    <2>9. (((a \o b) \o c) \o d) \o e \in Seq(S)
      BY <2>4, <2>8, Joined
    <2>10. QED
      BY <2>5, <2>9 DEF S
  <1>3. QED
    BY <1>1, <1>2

LEMMA FirmwareCommands ==
    ASSUME single \in BOOLEAN, NEW pkg \in Packages
    PROVE  Firmware(pkg) \in Seq(CommandOf(pkg, TRUE))
  <1> DEFINE S == CommandOf(pkg, TRUE)
             a == Bootloader(pkg)
             b == AddFirmwareImage(pkg, "modem", "radio", TRUE, FirstOffset)
             c == AddFirmwareImage(pkg, "modem_5g", "radio2", TRUE, FirstOffset)
             d == AddFirmwareImage(pkg, "modem_debug", "cp_debug", TRUE, FirstOffset)
             e == AddFirmwareImage(pkg, "modem_debug_5g", "cp2_debug", TRUE, FirstOffset)
  <1>1. a \in Seq(S)
    BY BootloaderCommands
  <1>2. {"radio", "radio2", "cp_debug", "cp2_debug"} \subseteq SimplePartitions
    BY DEF SimplePartitions
  <1>3. b \in Seq(S) /\ c \in Seq(S) /\ d \in Seq(S) /\ e \in Seq(S)
    BY <1>2, AddSimple DEF Images, Modems
  <1>4. Firmware(pkg) = (((a \o b) \o c) \o d) \o e
    BY DEF Firmware
  <1> HIDE DEF a, b, c, d, e, S
  <1>5. a \o b \in Seq(S)
    BY <1>1, <1>3, Joined
  <1>6. (a \o b) \o c \in Seq(S)
    BY <1>3, <1>5, Joined
  <1>7. ((a \o b) \o c) \o d \in Seq(S)
    BY <1>3, <1>6, Joined
  <1>8. (((a \o b) \o c) \o d) \o e \in Seq(S)
    BY <1>3, <1>7, Joined
  <1>9. QED
    BY <1>4, <1>8 DEF S

\* The firmware commands are in the script only if the package was chosen.
LEMMA ScriptCommands ==
    ASSUME single \in BOOLEAN, NEW pkg \in Packages, NEW ch \in BOOLEAN, ch = Chosen(pkg)
    PROVE  OTA_InstallEnd(pkg) \in Seq(CommandOf(pkg, ch))
  <1> DEFINE S == CommandOf(pkg, ch)
             a == IF Size[pkg]["dtb"] = Absent THEN <<>> ELSE <<Extract("dtb", "dtb")>>
             b == <<Extract("dtbo", "dtbo"), Extract("vbmeta", "vbmeta")>>
             c == IF Chosen(pkg) THEN Firmware(pkg) ELSE <<>>
             d == IF Models[pkg] # {} /\ ~Supported(pkg) THEN <<Abort>> ELSE <<>>
  <1>1. <<>> \in Seq(S)
    OBVIOUS
  <1>2. a \in Seq(S)
    <2>1. CASE Size[pkg]["dtb"] # Absent
      <3>1. Extract("dtb", "dtb") \in S
        BY <2>1 DEF Extract, CommandOf, Command, SimplePartitions, Images, SystemImages
      <3>2. QED
        BY <2>1, <3>1, Single
    <2>2. QED
      BY <1>1, <2>1
  <1>3. b \in Seq(S)
    <2>1. Size[pkg]["dtbo"] # Absent /\ Size[pkg]["vbmeta"] # Absent
      BY FirmwareAssumption
    <2>2. Extract("dtbo", "dtbo") \in S
      BY <2>1 DEF Extract, CommandOf, Command, SimplePartitions, Images, SystemImages
    <2>3. Extract("vbmeta", "vbmeta") \in S
      BY <2>1 DEF Extract, CommandOf, Command, SimplePartitions, Images, SystemImages
    <2> HIDE DEF S
    <2>4. QED
      BY <2>2, <2>3, Two
  <1>4. c \in Seq(S)
    <2>1. CASE Chosen(pkg)
      <3>1. ch = TRUE
        BY <2>1
      <3>2. QED
        BY <2>1, <3>1, FirmwareCommands
    <2>2. QED
      BY <1>1, <2>1
  <1>5. d \in Seq(S)
    <2>1. Abort \in S
      BY DEF Abort, CommandOf, Command
    <2>2. QED
      BY <1>1, <2>1, Single
  <1>6. OTA_InstallEnd(pkg) = ((a \o b) \o c) \o d
    BY DEF OTA_InstallEnd
  <1> HIDE DEF a, b, c, d, S
  <1>7. a \o b \in Seq(S)
    BY <1>2, <1>3, Joined
  <1>8. (a \o b) \o c \in Seq(S)
    BY <1>4, <1>7, Joined
  <1>9. ((a \o b) \o c) \o d \in Seq(S)
    BY <1>5, <1>8, Joined
  <1>10. QED
    BY <1>6, <1>9 DEF S

-----------------------------------------------------------------------------
(* What a command leaves in the partitions                                 *)

\* The records of the botas are those that were there, or parts of them, and
\* those of a package that was chosen.
Flashed(old, new) ==
    /\ new \in [Partitions -> Contents]
    /\ \A p \in Botas : \A x \in new[p].records :
          \/ chosen /\ x.package = package /\ x.offset >= FirstOffset
          \/ \E o \in old[p].records : x.offset = o.offset /\ x.package = o.package
    /\ \A p \in Botas : Alike(old[p].records) => Alike(new[p].records)

LEMMA FlashSame ==
    ASSUME NEW contents \in [Partitions -> Contents]
    PROVE  Flashed(contents, contents)
  BY DEF Flashed

LEMMA CommandIs ==
    ASSUME NEW c \in CommandOf(package, chosen)
    PROVE  /\ c.op = "mark_header_bt" => chosen /\ c.dest \in Botas /\ c.num \in 0..5 /\ c.magic \in BOOLEAN
           /\ c.op = "write_data_bt" =>
                /\ chosen /\ c.dest \in Botas /\ c.image \in Images
                /\ c.offset \in Nat /\ c.offset >= FirstOffset /\ Size[package][c.image] # Absent
           /\ c.op = "package_extract_file" =>
                /\ c.dest \in SimplePartitions /\ c.image \in Images
                /\ Size[package][c.image] # Absent
  BY Bounds DEF CommandOf, Command, Mark, WriteData, Extract, Abort, Images

LEMMA FlashMark ==
    ASSUME TypeOK, NEW c \in CommandOf(package, chosen), c.op = "mark_header_bt"
    PROVE  /\ Flashed(part, WriteMagic(c)) /\ Flashed(part, WriteNum(c))
           /\ Flashed(part, WriteHeader(c))
  <1>1. c.dest \in Partitions /\ c.num \in 0..Garbage /\ c.magic \in BOOLEAN
    BY CommandIs, BootBotaIs, Bounds
  <1>2. part \in [Partitions -> Contents]
    BY DEF TypeOK
  <1>3. /\ WriteMagic(c) \in [Partitions -> Contents] /\ WriteNum(c) \in [Partitions -> Contents]
        /\ WriteHeader(c) \in [Partitions -> Contents]
        /\ \A p \in Partitions : /\ WriteMagic(c)[p].records = part[p].records
                                 /\ WriteNum(c)[p].records = part[p].records
                                 /\ WriteHeader(c)[p].records = part[p].records
    BY <1>1, <1>2 DEF WriteMagic, WriteNum, WriteHeader, Contents
  <1>4. QED
    BY <1>3, BootBotaIs DEF Flashed

LEMMA RecordIs ==
    ASSUME TypeOK, NEW image \in Images, Size[package][image] # Absent, NEW offset \in Nat,
           NEW whole \in BOOLEAN
    PROVE  /\ Record(image, offset, whole) \in ImageRecord
           /\ Record(image, offset, whole).package = package
           /\ Record(image, offset, whole).offset = offset
  <1>1. package \in Packages /\ Size[package][image] \in Nat
    BY Sizes DEF TypeOK
  <1>2. QED
    BY <1>1 DEF Record, ImageRecord

LEMMA OverwriteIs ==
    ASSUME NEW records \in SUBSET ImageRecord, NEW r \in ImageRecord
    PROVE  /\ Overwrite(records, r) \in SUBSET ImageRecord
           /\ \A x \in Overwrite(records, r) :
                 \/ x = r
                 \/ \E o \in records : x.offset = o.offset /\ x.package = o.package
  <1>1. ASSUME NEW o \in records
        PROVE  /\ [o EXCEPT !.whole = FALSE] \in ImageRecord
               /\ [o EXCEPT !.whole = FALSE].offset = o.offset
               /\ [o EXCEPT !.whole = FALSE].package = o.package
    BY DEF ImageRecord
  <1>2. ASSUME NEW x \in Overwrite(records, r)
        PROVE  \/ x = r \/ x \in records
               \/ \E o \in records : x = [o EXCEPT !.whole = FALSE]
    BY DEF Overwrite
  <1>3. QED
    BY <1>1, <1>2

\* What overwriting leaves.
LEMMA Overwritten ==
    ASSUME NEW records \in SUBSET ImageRecord, NEW r \in ImageRecord
    PROVE  /\ Overwrite(records, r) \in SUBSET ImageRecord
           /\ r \in Overwrite(records, r)
           /\ \A x \in Overwrite(records, r) : x.offset = r.offset => x = r
           /\ \A o \in records : End(o) <= r.offset => o \in Overwrite(records, r)
           /\ \A x \in Overwrite(records, r) :
                 \/ x = r \/ x \in records
                 \/ \E o \in records : o.offset = x.offset /\ r.offset < End(o)
  <1>1. ASSUME NEW o \in records
        PROVE  /\ o.offset \in Nat /\ o.size \in Nat /\ [o EXCEPT !.whole = FALSE].offset = o.offset
               /\ End(o) \in Nat /\ o.offset < End(o)
    BY DEF ImageRecord, End, FILENAME_MAX_LEN
  <1>2. r.offset \in Nat /\ End(r) \in Nat /\ r.offset < End(r)
    BY DEF ImageRecord, End, FILENAME_MAX_LEN
  <1>3. ASSUME NEW x \in Overwrite(records, r)
        PROVE  \/ x = r
               \/ x \in records /\ (End(x) <= r.offset \/ End(r) <= x.offset)
               \/ \E o \in records : /\ x = [o EXCEPT !.whole = FALSE] /\ o.offset < r.offset
                                     /\ r.offset < End(o)
    BY DEF Overwrite
  <1>4. ASSUME NEW x \in Overwrite(records, r), x.offset = r.offset PROVE x = r
    <2>1. CASE x \in records /\ (End(x) <= r.offset \/ End(r) <= x.offset)
      <3>1. x.offset \in Nat /\ End(x) \in Nat /\ x.offset < End(x)
        BY <1>1, <2>1
      <3>2. FALSE
        BY <1>2, <1>4, <2>1, <3>1
      <3>3. QED
        BY <3>2
    <2>2. CASE \E o \in records : /\ x = [o EXCEPT !.whole = FALSE] /\ o.offset < r.offset
                                   /\ r.offset < End(o)
      <3>1. PICK o \in records : x = [o EXCEPT !.whole = FALSE] /\ o.offset < r.offset
        BY <2>2
      <3>2. x.offset = o.offset /\ o.offset \in Nat
        BY <1>1, <3>1
      <3>3. QED
        BY <1>2, <1>4, <3>1, <3>2
    <2>3. QED
      BY <1>3, <2>1, <2>2
  <1>5. r \in Overwrite(records, r) /\ \A o \in records : End(o) <= r.offset => o \in Overwrite(records, r)
    BY DEF Overwrite
  <1>6. ASSUME NEW x \in Overwrite(records, r)
        PROVE  \/ x = r \/ x \in records
               \/ \E o \in records : o.offset = x.offset /\ r.offset < End(o)
    BY <1>1, <1>3
  <1>7. Overwrite(records, r) \in SUBSET ImageRecord
    BY OverwriteIs
  <1>8. QED
    BY <1>4, <1>5, <1>6, <1>7

LEMMA OverwriteAlike ==
    ASSUME NEW records \in SUBSET ImageRecord, NEW r \in ImageRecord, Alike(records)
    PROVE  Alike(Overwrite(records, r))
  <1>1. ASSUME NEW x \in Overwrite(records, r), NEW y \in Overwrite(records, r),
               x.offset = FirstOffset, y.offset = FirstOffset
        PROVE  x.package = y.package
    <2>1. CASE r.offset = FirstOffset
      BY <1>1, <2>1, Overwritten
    <2>2. CASE r.offset # FirstOffset
      <3>1. PICK o \in records : x.offset = o.offset /\ x.package = o.package
        BY <1>1, <2>2, OverwriteIs
      <3>2. PICK q \in records : y.offset = q.offset /\ y.package = q.package
        BY <1>1, <2>2, OverwriteIs
      <3>3. QED
        BY <1>1, <3>1, <3>2 DEF Alike
    <2>3. QED
      BY <2>1, <2>2
  <1>2. QED
    BY <1>1 DEF Alike

LEMMA FlashWith ==
    ASSUME TypeOK, NEW c \in CommandOf(package, chosen), c.op = "write_data_bt",
           NEW whole \in BOOLEAN
    PROVE  Flashed(part, With(c, whole))
  <1>1. /\ chosen /\ c.dest \in Botas /\ c.dest \in Partitions /\ c.image \in Images
        /\ c.offset \in Nat /\ c.offset >= FirstOffset /\ Size[package][c.image] # Absent
    BY CommandIs, BootBotaIs
  <1>2. PICK r \in ImageRecord :
           r = Record(c.image, c.offset, whole) /\ r.package = package /\ r.offset = c.offset
    BY <1>1, RecordIs
  <1>3. part \in [Partitions -> Contents] /\ part[c.dest].records \in SUBSET ImageRecord
    BY <1>1 DEF TypeOK, Contents
  <1>4. PICK new : new = Overwrite(part[c.dest].records, r)
    OBVIOUS
  <1>5. /\ new \in SUBSET ImageRecord
        /\ \A x \in new :
              \/ x = r
              \/ \E o \in part[c.dest].records : x.offset = o.offset /\ x.package = o.package
    BY <1>3, <1>4, OverwriteIs
  <1>6. With(c, whole) = [part EXCEPT ![c.dest].records = new]
    BY <1>2, <1>4 DEF With
  <1>7. /\ With(c, whole) \in [Partitions -> Contents]
        /\ With(c, whole)[c.dest].records = new
        /\ \A p \in Partitions \ {c.dest} : With(c, whole)[p].records = part[p].records
    BY <1>1, <1>3, <1>5, <1>6 DEF Contents
  <1>8. Alike(part[c.dest].records) => Alike(new)
    BY <1>3, <1>4, OverwriteAlike
  <1>9. QED
    BY <1>1, <1>2, <1>5, <1>7, <1>8, BootBotaIs DEF Flashed

LEMMA FlashMisplaced ==
    ASSUME TypeOK, NEW c \in CommandOf(package, chosen), c.op = "write_data_bt"
    PROVE  Flashed(part, Misplaced(c))
  <1>1. c.dest \in Botas /\ c.dest \in Partitions
    BY CommandIs, BootBotaIs
  <1>2. part \in [Partitions -> Contents] /\ part[c.dest].records \in SUBSET ImageRecord
    BY <1>1 DEF TypeOK, Contents
  <1>3. PICK new :
           new = {o \in part[c.dest].records : End(Record(c.image, 0, TRUE)) <= o.offset}
    OBVIOUS
  <1>4. Misplaced(c) = [part EXCEPT ![c.dest] = [magic |-> FALSE, num |-> Garbage, records |-> new]]
    BY <1>1, <1>2, <1>3 DEF Misplaced
  <1>5. new \subseteq part[c.dest].records
    BY <1>3
  <1>6. [magic |-> FALSE, num |-> Garbage, records |-> new] \in Contents
    BY <1>2, <1>5, Bounds DEF Contents
  <1>7. /\ Misplaced(c) \in [Partitions -> Contents]
        /\ Misplaced(c)[c.dest].records = new
        /\ \A p \in Partitions \ {c.dest} : Misplaced(c)[p] = part[p]
    BY <1>1, <1>2, <1>4, <1>6
  <1>8. Alike(part[c.dest].records) => Alike(new)
    BY <1>5 DEF Alike
  <1>9. QED
    BY <1>1, <1>5, <1>7, <1>8, BootBotaIs DEF Flashed

LEMMA FlashExtract ==
    ASSUME TypeOK, NEW c \in CommandOf(package, chosen), c.op = "package_extract_file",
           NEW whole \in BOOLEAN, NEW contents \in [Partitions -> Contents]
    PROVE  Flashed(contents, Extracted(contents, c, whole))
  <1>1. /\ c.dest \in SimplePartitions /\ c.dest \in Partitions /\ c.image \in Images
        /\ Size[package][c.image] # Absent /\ 0 \in Nat
    BY CommandIs DEF Partitions
  <1>2. c.dest \notin Botas
    BY <1>1 DEF SimplePartitions, Botas
  <1>3. PICK r \in ImageRecord : r = Record(c.image, 0, whole)
    BY <1>1, RecordIs
  <1>4. Extracted(contents, c, whole) = [contents EXCEPT ![c.dest].records = {r}]
    BY <1>3 DEF Extracted
  <1>5. /\ Extracted(contents, c, whole) \in [Partitions -> Contents]
        /\ \A p \in Partitions \ {c.dest} :
              Extracted(contents, c, whole)[p].records = contents[p].records
    BY <1>1, <1>4 DEF Contents
  <1>6. QED
    BY <1>2, <1>5, BootBotaIs DEF Flashed

-----------------------------------------------------------------------------
(* The invariant                                                           *)

LEMMA ScriptTyped ==
    ASSUME NEW pkg, NEW ch, NEW s \in Seq(CommandOf(pkg, ch))
    PROVE  /\ s \in Seq(Command)
           /\ s # <<>> => Head(s) \in CommandOf(pkg, ch) /\ Tail(s) \in Seq(CommandOf(pkg, ch))
  <1>1. CommandOf(pkg, ch) \subseteq Command
    BY DEF CommandOf
  <1>2. QED
    BY <1>1

\* A bota is not older than what runs after a command of the script.
LEMMA FlashedNotOlder ==
    ASSUME FirmwareInv, status = "runs", NEW old, NotOlder(old[BootBota].records),
           NEW new, Flashed(old, new)
    PROVE  NotOlder(new[BootBota].records)
  BY BootBotaIs DEF Flashed, NotOlder, FirmwareInv, ScriptOK

LEMMA FlashedBeyondHeader ==
    ASSUME NEW old, NEW new, Flashed(old, new),
           \A p \in Botas : \A r \in old[p].records : r.offset >= FirstOffset
    PROVE  \A p \in Botas : \A r \in new[p].records : r.offset >= FirstOffset
  BY DEF Flashed

\* A step of the installer script.
LEMMA ScriptStep ==
    ASSUME FirmwareInv, status = "runs", Flashed(part, part'), Flashed(disk, disk'),
           UNCHANGED <<single, package, chosen, running, installs, cuts, flushes>>,
           script' \in Seq(CommandOf(package, chosen)),
           status' = "runs" \/ (status' \in {"done", "aborted"} /\ script' = <<>>),
           ignored' \subseteq Partitions,
           failures' \in 0..MaxFailures, ignores' \in 0..MaxIgnored, ignores' = 0 => ignores = 0
    PROVE  FirmwareInv'
  <1>1. /\ BootBota' = BootBota /\ Botas' = Botas /\ Partitions' = Partitions
        /\ SimplePartitions' = SimplePartitions
    BY DEF BootBota, Botas, Partitions, SimplePartitions
  <1>2. PICK p, d : p = part' /\ d = disk'
    OBVIOUS
  <1>3. NotOlder(p[BootBota].records) /\ NotOlder(d[BootBota].records)
    BY <1>2, FlashedNotOlder DEF FirmwareInv
  <1>4. NotOlder(part[BootBota].records)' /\ NotOlder(disk[BootBota].records)'
    <2>1. Kept' => Kept
      BY DEF Kept
    <2>2. QED
      BY <1>1, <1>2, <1>3, <2>1 DEF NotOlder
  <1>5. Command' = Command /\ CommandOf(package, chosen)' = CommandOf(package, chosen)
    BY <1>1 DEF Command, CommandOf
  <1>6. ScriptOK'
    BY <1>5 DEF ScriptOK, FirmwareInv
  <1>7. TypeOK'
    <2>1. /\ \A q \in Botas : \A r \in p[q].records : r.offset >= FirstOffset
          /\ \A q \in Botas : \A r \in d[q].records : r.offset >= FirstOffset
      BY <1>2, FlashedBeyondHeader DEF FirmwareInv, TypeOK
    <2>2. script' \in Seq(Command)
      BY ScriptTyped
    <2>3. /\ part' \in [Partitions -> Contents] /\ disk' \in [Partitions -> Contents]
      BY DEF Flashed
    <2>4. QED
      BY <1>1, <1>2, <1>5, <2>1, <2>2, <2>3 DEF TypeOK, FirmwareInv
  <1>8. \A q \in Botas : Alike(p[q].records) /\ Alike(d[q].records)
    BY <1>2 DEF FirmwareInv, Flashed
  <1>9. (\A q \in Botas : Alike(part[q].records) /\ Alike(disk[q].records))'
    BY <1>1, <1>2, <1>8 DEF Alike
  <1>10. QED
    BY <1>4, <1>6, <1>7, <1>9 DEF FirmwareInv

\* The command that the script is at.
LEMMA AtCommand ==
    ASSUME FirmwareInv, NEW op, At(op)
    PROVE  /\ status = "runs" /\ script # <<>> /\ Head(script).op = op
           /\ Head(script) \in CommandOf(package, chosen)
           /\ Tail(script) \in Seq(CommandOf(package, chosen))
           /\ op = "mark_header_bt" => Head(script).dest \in Partitions
           /\ op = "package_extract_file" => Head(script).dest \in Partitions
  <1>1. /\ status = "runs" /\ script # <<>> /\ Head(script).op = op
        /\ Head(script) \in CommandOf(package, chosen)
        /\ Tail(script) \in Seq(CommandOf(package, chosen))
    BY ScriptTyped DEF At, FirmwareInv, ScriptOK
  <1>2. QED
    BY <1>1, CommandIs, BootBotaIs DEF Partitions

LEMMA Counted ==
    ASSUME FirmwareInv
    PROVE  /\ failures \in 0..MaxFailures /\ ignores \in 0..MaxIgnored
           /\ failures < MaxFailures => failures + 1 \in 0..MaxFailures
           /\ ignores < MaxIgnored => ignores + 1 \in 0..MaxIgnored
           /\ ignored \subseteq Partitions
           /\ part \in [Partitions -> Contents] /\ disk \in [Partitions -> Contents]
           /\ Flashed(part, part) /\ Flashed(disk, disk)
  <1>1. /\ failures \in 0..MaxFailures /\ ignores \in 0..MaxIgnored /\ ignored \subseteq Partitions
        /\ part \in [Partitions -> Contents] /\ disk \in [Partitions -> Contents]
    BY DEF FirmwareInv, TypeOK
  <1>2. /\ failures < MaxFailures => failures + 1 \in 0..MaxFailures
        /\ ignores < MaxIgnored => ignores + 1 \in 0..MaxIgnored
    BY <1>1, Bounds
  <1>3. QED
    BY <1>1, <1>2, FlashSame

LEMMA IgnoreKeeps ==
    ASSUME FirmwareInv, NEW p \in Partitions, Ignore(p)
    PROVE  /\ UNCHANGED <<single, running, installs, cuts, flushes>>
           /\ ignored' \subseteq Partitions
           /\ failures' \in 0..MaxFailures /\ ignores' \in 0..MaxIgnored
           /\ ignores' = 0 => ignores = 0
  BY Counted DEF Ignore

LEMMA MarkHeaderKeeps ==
    ASSUME FirmwareInv, MarkHeader
    PROVE  FirmwareInv'
  <1> DEFINE c == Head(script)
  <1>1. /\ status = "runs" /\ c \in CommandOf(package, chosen) /\ c.op = "mark_header_bt"
        /\ Tail(script) \in Seq(CommandOf(package, chosen)) /\ c.dest \in Partitions
    BY AtCommand DEF MarkHeader
  <1>2. /\ script' = Tail(script) /\ UNCHANGED <<status, package, chosen, disk>>
        /\ \/ part' = WriteHeader(c) /\ UNCHANGED <<ignored, running, boundVars>>
           \/ part' \in {part, WriteMagic(c), WriteNum(c)} /\ Ignore(c.dest)
    BY DEF MarkHeader, GoOn
  <1>3. Flashed(part, part') /\ Flashed(disk, disk')
    <2>1. TypeOK
      BY DEF FirmwareInv
    <2>2. /\ Flashed(part, WriteMagic(c)) /\ Flashed(part, WriteNum(c))
          /\ Flashed(part, WriteHeader(c)) /\ Flashed(part, part) /\ Flashed(disk, disk)
      BY <1>1, <2>1, FlashMark, Counted
    <2>3. part' = WriteHeader(c) \/ part' = part \/ part' = WriteMagic(c) \/ part' = WriteNum(c)
      BY <1>2
    <2>4. disk' = disk
      BY <1>2
    <2>5. QED
      BY <2>2, <2>3, <2>4
  <1>4. /\ UNCHANGED <<single, running, installs, cuts, flushes>> /\ ignored' \subseteq Partitions
        /\ failures' \in 0..MaxFailures /\ ignores' \in 0..MaxIgnored
        /\ ignores' = 0 => ignores = 0
    BY <1>1, <1>2, IgnoreKeeps, Counted DEF boundVars
  <1>5. QED
    BY <1>1, <1>2, <1>3, <1>4, ScriptStep

LEMMA WriteRecordKeeps ==
    ASSUME FirmwareInv, WriteRecord
    PROVE  FirmwareInv'
  <1> DEFINE c == Head(script)
  <1>1. /\ status = "runs" /\ c \in CommandOf(package, chosen) /\ c.op = "write_data_bt"
        /\ Tail(script) \in Seq(CommandOf(package, chosen))
    BY AtCommand DEF WriteRecord
  <1>2. /\ script' = Tail(script) /\ UNCHANGED <<status, package, chosen, disk>>
        /\ \/ part' = With(c, TRUE) /\ UNCHANGED <<ignored, running, boundVars>>
           \/ part' \in {With(c, FALSE), Misplaced(c), part} /\ Ignore(c.dest)
    BY DEF WriteRecord, GoOn
  <1>3. Flashed(part, part') /\ Flashed(disk, disk')
    <2>1. TypeOK
      BY DEF FirmwareInv
    <2>2. /\ Flashed(part, With(c, TRUE)) /\ Flashed(part, With(c, FALSE))
          /\ Flashed(part, Misplaced(c)) /\ Flashed(part, part) /\ Flashed(disk, disk)
      BY <1>1, <2>1, FlashWith, FlashMisplaced, Counted
    <2>3. part' = With(c, TRUE) \/ part' = With(c, FALSE) \/ part' = Misplaced(c) \/ part' = part
      BY <1>2
    <2>4. disk' = disk
      BY <1>2
    <2>5. QED
      BY <2>2, <2>3, <2>4
  <1>4. c.dest \in Partitions
    BY <1>1, CommandIs, BootBotaIs
  <1>5. /\ UNCHANGED <<single, running, installs, cuts, flushes>> /\ ignored' \subseteq Partitions
        /\ failures' \in 0..MaxFailures /\ ignores' \in 0..MaxIgnored
        /\ ignores' = 0 => ignores = 0
    BY <1>2, <1>4, IgnoreKeeps, Counted DEF boundVars
  <1>6. QED
    BY <1>1, <1>2, <1>3, <1>5, ScriptStep

LEMMA ExtractFileKeeps ==
    ASSUME FirmwareInv, ExtractFile
    PROVE  FirmwareInv'
  <1> DEFINE c == Head(script)
  <1>1. /\ status = "runs" /\ c \in CommandOf(package, chosen) /\ c.op = "package_extract_file"
        /\ Tail(script) \in Seq(CommandOf(package, chosen)) /\ c.dest \in Partitions
    BY AtCommand DEF ExtractFile
  <1>2. PICK whole \in BOOLEAN :
           /\ part' = Extracted(part, c, whole) /\ disk' = Extracted(disk, c, whole)
           /\ IF whole THEN UNCHANGED <<ignored, running, boundVars>> ELSE Ignore(c.dest)
    BY DEF ExtractFile
  <1>3. script' = Tail(script) /\ UNCHANGED <<status, package, chosen>>
    BY DEF ExtractFile, GoOn
  <1>4. Flashed(part, part') /\ Flashed(disk, disk')
    <2>1. TypeOK
      BY DEF FirmwareInv
    <2>2. part \in [Partitions -> Contents] /\ disk \in [Partitions -> Contents]
      BY Counted
    <2>3. Flashed(part, Extracted(part, c, whole)) /\ Flashed(disk, Extracted(disk, c, whole))
      BY <1>1, <2>1, <2>2, FlashExtract
    <2>4. QED
      BY <1>2, <2>3
  <1>5. /\ UNCHANGED <<single, running, installs, cuts, flushes>> /\ ignored' \subseteq Partitions
        /\ failures' \in 0..MaxFailures /\ ignores' \in 0..MaxIgnored
        /\ ignores' = 0 => ignores = 0
    BY <1>1, <1>2, IgnoreKeeps, Counted DEF boundVars
  <1>6. QED
    BY <1>1, <1>3, <1>4, <1>5, ScriptStep

\* The script ends early: part of the command it was at may have been done.
LEMMA GiveUpKeeps ==
    ASSUME FirmwareInv, status = "runs", GiveUp, Flashed(part, part'), disk' = disk,
           UNCHANGED <<single, running, installs, ignores, cuts, flushes>>, failures' \in 0..MaxFailures
    PROVE  FirmwareInv'
  <1>1. /\ script' = <<>> /\ status' = "aborted" /\ UNCHANGED <<package, chosen, ignored>>
    BY DEF GiveUp
  <1>2. script' \in Seq(CommandOf(package, chosen))
    BY <1>1
  <1>3. /\ ignored' \subseteq Partitions /\ ignores' \in 0..MaxIgnored /\ Flashed(disk, disk')
    BY <1>1, Counted
  <1>4. QED
    BY <1>1, <1>2, <1>3, ScriptStep

LEMMA CommandFailsKeeps ==
    ASSUME FirmwareInv, CommandFails
    PROVE  FirmwareInv'
  <1>1. status = "runs" /\ GiveUp /\ disk' = disk /\ failures' \in 0..MaxFailures
    BY Counted DEF CommandFails, At
  <1>2. Flashed(part, part')
    <2>1. CASE part' = part
      BY <2>1, Counted
    <2>2. CASE At("write_data_bt") /\ part' = With(Head(script), FALSE)
      BY <2>2, AtCommand, FlashWith DEF FirmwareInv
    <2>3. QED
      BY <2>1, <2>2 DEF CommandFails
  <1>3. UNCHANGED <<single, running, installs, ignores, cuts, flushes>>
    BY DEF CommandFails
  <1>4. QED
    BY <1>1, <1>2, <1>3, GiveUpKeeps

LEMMA KillKeeps ==
    ASSUME FirmwareInv, Kill
    PROVE  FirmwareInv'
  <1>1. status = "runs" /\ GiveUp /\ disk' = disk /\ failures' \in 0..MaxFailures
    BY Counted DEF Kill
  <1>2. Flashed(part, part')
    <2>1. CASE part' = part
      BY <2>1, Counted
    <2>2. CASE At("mark_header_bt") /\ part' = WriteMagic(Head(script))
      BY <2>2, AtCommand, FlashMark DEF FirmwareInv
    <2>3. CASE At("write_data_bt") /\ part' = With(Head(script), FALSE)
      BY <2>3, AtCommand, FlashWith DEF FirmwareInv
    <2>4. CASE At("package_extract_file") /\ part' = Extracted(part, Head(script), FALSE)
      BY <2>4, AtCommand, FlashExtract, Counted DEF FirmwareInv
    <2>5. QED
      BY <2>1, <2>2, <2>3, <2>4 DEF Kill
  <1>3. UNCHANGED <<single, running, installs, ignores, cuts, flushes>>
    BY DEF Kill
  <1>4. QED
    BY <1>1, <1>2, <1>3, GiveUpKeeps

LEMMA AbortCommandKeeps ==
    ASSUME FirmwareInv, AbortCommand
    PROVE  FirmwareInv'
  <1>1. /\ status = "runs" /\ GiveUp /\ disk' = disk /\ part' = part
        /\ UNCHANGED <<single, running, installs, ignores, cuts, flushes, failures>>
    BY DEF AbortCommand, At, flashVars, boundVars
  <1>2. QED
    BY <1>1, Counted, GiveUpKeeps

LEMMA DoneKeeps ==
    ASSUME FirmwareInv, Done
    PROVE  FirmwareInv'
  <1>1. /\ status = "runs" /\ script = <<>> /\ status' = "done"
        /\ UNCHANGED <<part, disk, script, package, chosen, ignored, running, single, installs,
                       failures, ignores, cuts, flushes>>
    BY DEF Done, flashVars, boundVars
  <1>2. script' \in Seq(CommandOf(package, chosen))
    BY <1>1
  <1>3. QED
    BY <1>1, <1>2, Counted, ScriptStep

\* A package is chosen only if its bootloader is not older.
LEMMA BeginKeeps ==
    ASSUME FirmwareInv, NEW pkg \in Packages, Begin(pkg)
    PROVE  FirmwareInv'
  <1>1. /\ UNCHANGED <<single, part, disk, running, failures, ignores, cuts, flushes>>
        /\ script' = OTA_InstallEnd(pkg) /\ status' = "runs" /\ package' = pkg
        /\ chosen' = Chosen(pkg) /\ ignored' = {}
    BY DEF Begin, flashVars
  <1>2. /\ BootBota' = BootBota /\ Botas' = Botas /\ Partitions' = Partitions
        /\ SimplePartitions' = SimplePartitions
    BY <1>1 DEF BootBota, Botas, Partitions, SimplePartitions
  <1>3. PICK ch \in BOOLEAN : ch = Chosen(pkg)
    BY DEF Chosen
  <1>4. script' \in Seq(CommandOf(pkg, ch)) /\ chosen' = ch
    BY <1>1, <1>3, ScriptCommands DEF FirmwareInv, TypeOK
  <1>5. ScriptOK'
    <2>1. Command' = Command /\ CommandOf(pkg, ch)' = CommandOf(pkg, ch)
      BY <1>2 DEF Command, CommandOf
    <2>2. ch => Binary[pkg] >= Binary[running]
      BY <1>3 DEF Chosen, VerifyNoDowngrade
    <2>3. QED
      BY <1>1, <1>4, <2>1, <2>2 DEF ScriptOK
  <1>6. installs' \in 0..MaxInstalls
    <2>1. installs \in 0..MaxInstalls /\ installs < MaxInstalls /\ installs' = installs + 1
      BY DEF FirmwareInv, TypeOK, Begin
    <2>2. QED
      BY <2>1, Bounds
  <1>7. TypeOK'
    <2>1. script' \in Seq(Command) /\ Command' = Command
      BY <1>2, <1>4, ScriptTyped DEF Command
    <2>2. QED
      BY <1>1, <1>2, <1>4, <1>6, <2>1 DEF FirmwareInv, TypeOK
  <1>8. NotOlder(part[BootBota].records)' /\ NotOlder(disk[BootBota].records)'
    BY <1>1, <1>2 DEF NotOlder, Kept, FirmwareInv
  <1>9. (\A p \in Botas : Alike(part[p].records) /\ Alike(disk[p].records))'
    BY <1>1, <1>2 DEF Alike, FirmwareInv
  <1>10. QED
    BY <1>5, <1>7, <1>8, <1>9 DEF FirmwareInv

\* What is written back was in the page cache or on the flash.
LEMMA FlushedIs ==
    ASSUME FirmwareInv, NEW p \in Partitions, NEW d \in Flushed(p)
    PROVE  /\ d \in Contents
           /\ \A x \in d.records :
                 \E o \in part[p].records \cup disk[p].records :
                    x.offset = o.offset /\ x.package = o.package
           /\ p \in Botas => Alike(d.records)
  <1>1. PICK new, old : new = part[p] /\ old = disk[p]
    OBVIOUS
  <1>2. new \in Contents /\ old \in Contents
    BY <1>1, Counted
  <1>3. /\ new.records \in SUBSET ImageRecord /\ old.records \in SUBSET ImageRecord
        /\ new.magic \in BOOLEAN /\ new.num \in 0..Garbage
    BY <1>2 DEF Contents
  <1>4. p \in Botas => Alike(new.records) /\ Alike(old.records)
    BY <1>1 DEF FirmwareInv
  <1>5. \/ d = new
        \/ d = [old EXCEPT !.magic = new.magic] \/ d = [old EXCEPT !.num = new.num]
        \/ \E r \in new.records \ old.records :
              d = [old EXCEPT !.records = Overwrite(@, r)]
        \/ \E r \in new.records \ old.records :
              d = [old EXCEPT !.records = Overwrite(@, [r EXCEPT !.whole = FALSE])]
        \/ \E r \in old.records \ new.records : d = [old EXCEPT !.records = @ \ {r}]
    <2>1. Flushed(p) =
             {new, [old EXCEPT !.magic = new.magic], [old EXCEPT !.num = new.num]}
             \cup {[old EXCEPT !.records = Overwrite(@, r)] :
                      r \in (new.records \ old.records)
                               \cup {[r EXCEPT !.whole = FALSE] : r \in new.records \ old.records}}
             \cup {[old EXCEPT !.records = @ \ {r}] : r \in old.records \ new.records}
      BY <1>1 DEF Flushed
    <2>2. PICK U, T : /\ U = new.records \ old.records
                      /\ T = {[r EXCEPT !.whole = FALSE] : r \in U}
      OBVIOUS
    <2>3. \/ d \in {new, [old EXCEPT !.magic = new.magic], [old EXCEPT !.num = new.num]}
          \/ \E r \in U \cup T : d = [old EXCEPT !.records = Overwrite(@, r)]
          \/ \E r \in old.records \ new.records : d = [old EXCEPT !.records = @ \ {r}]
      BY <2>1, <2>2
    <2>4. ASSUME NEW r \in T, d = [old EXCEPT !.records = Overwrite(@, r)]
          PROVE  \E q \in U : d = [old EXCEPT !.records = Overwrite(@, [q EXCEPT !.whole = FALSE])]
      <3>1. PICK q \in U : r = [q EXCEPT !.whole = FALSE]
        BY <2>2, <2>4
      <3>2. QED
        BY <2>4, <3>1
    <2>5. QED
      BY <2>2, <2>3, <2>4
  <1>6. CASE d = new
    BY <1>1, <1>2, <1>4, <1>6
  <1>7. CASE d = [old EXCEPT !.magic = new.magic] \/ d = [old EXCEPT !.num = new.num]
    <2>1. d.records = old.records /\ d \in Contents
      BY <1>2, <1>3, <1>7 DEF Contents
    <2>2. QED
      BY <1>1, <1>4, <2>1
  <1>8. ASSUME NEW r \in ImageRecord, NEW q \in new.records,
               r.offset = q.offset, r.package = q.package,
               d = [old EXCEPT !.records = Overwrite(@, r)]
        PROVE  /\ d \in Contents
               /\ \A x \in d.records :
                     \E o \in new.records \cup old.records :
                        x.offset = o.offset /\ x.package = o.package
               /\ p \in Botas => Alike(d.records)
    <2>1. PICK records : records = Overwrite(old.records, r)
      OBVIOUS
    <2>2. /\ records \in SUBSET ImageRecord
          /\ \A x \in records : \/ x = r
                                \/ \E o \in old.records : x.offset = o.offset /\ x.package = o.package
      BY <1>3, <2>1, OverwriteIs
    <2>3. d = [old EXCEPT !.records = records]
      BY <1>2, <1>8, <2>1
    <2>4. d.records = records /\ d \in Contents
      BY <1>2, <2>2, <2>3 DEF Contents
    <2>5. p \in Botas => Alike(records)
      BY <1>3, <1>4, <2>1, OverwriteAlike
    <2>6. QED
      BY <1>8, <2>2, <2>4, <2>5
  <1>9. CASE \E r \in new.records \ old.records : d = [old EXCEPT !.records = Overwrite(@, r)]
    <2>1. PICK r \in new.records : d = [old EXCEPT !.records = Overwrite(@, r)]
      BY <1>9
    <2>2. r \in ImageRecord
      BY <1>3
    <2>3. QED
      BY <1>1, <1>8, <2>1, <2>2
  <1>10. CASE \E r \in new.records \ old.records :
                 d = [old EXCEPT !.records = Overwrite(@, [r EXCEPT !.whole = FALSE])]
    <2>1. PICK r \in new.records :
             d = [old EXCEPT !.records = Overwrite(@, [r EXCEPT !.whole = FALSE])]
      BY <1>10
    <2>2. PICK t : t = [r EXCEPT !.whole = FALSE]
      OBVIOUS
    <2>3. t \in ImageRecord /\ t.offset = r.offset /\ t.package = r.package
      BY <1>3, <2>2 DEF ImageRecord
    <2>4. d = [old EXCEPT !.records = Overwrite(@, t)]
      BY <2>1, <2>2
    <2>5. QED
      BY <1>1, <1>8, <2>3, <2>4
  <1>11. CASE \E r \in old.records \ new.records : d = [old EXCEPT !.records = @ \ {r}]
    <2>1. PICK r \in old.records : d = [old EXCEPT !.records = @ \ {r}]
      BY <1>11
    <2>2. d.records \subseteq old.records /\ d \in Contents
      BY <1>2, <1>3, <2>1 DEF Contents
    <2>3. p \in Botas => Alike(d.records)
      BY <1>4, <2>2 DEF Alike
    <2>4. QED
      BY <1>1, <2>2, <2>3
  <1>12. QED
    BY <1>5, <1>6, <1>7, <1>9, <1>10, <1>11

LEMMA WriteBackKeeps ==
    ASSUME FirmwareInv, NEW p \in Partitions, WriteBack(p)
    PROVE  FirmwareInv'
  <1>1. UNCHANGED <<part, script, status, package, chosen, ignored, running, single, installs,
                    failures, ignores, cuts>>
    BY DEF WriteBack, scriptVars
  <1>2. PICK d \in Flushed(p) : disk' = [disk EXCEPT ![p] = d]
    BY DEF WriteBack
  <1>3. /\ BootBota' = BootBota /\ Botas' = Botas /\ Partitions' = Partitions
        /\ SimplePartitions' = SimplePartitions
    BY <1>1 DEF BootBota, Botas, Partitions, SimplePartitions
  <1>4. Command' = Command /\ CommandOf(package, chosen)' = CommandOf(package, chosen)
    BY <1>1, <1>3 DEF Command, CommandOf
  <1>5. /\ d \in Contents
        /\ \A x \in d.records :
              \E o \in part[p].records \cup disk[p].records :
                 x.offset = o.offset /\ x.package = o.package
        /\ p \in Botas => Alike(d.records)
    BY FlushedIs
  <1>6. /\ disk' \in [Partitions -> Contents]
        /\ disk'[p] = d /\ \A q \in Partitions \ {p} : disk'[q] = disk[q]
    BY <1>2, <1>5, Counted
  <1>7. \A q \in Partitions : \A x \in disk'[q].records :
           \E o \in part[q].records \cup disk[q].records :
              x.offset = o.offset /\ x.package = o.package
    BY <1>5, <1>6
  <1>8. ScriptOK'
    BY <1>1, <1>4 DEF ScriptOK, FirmwareInv
  <1>9. TypeOK'
    <2>1. \A q \in Botas : \A r \in part[q].records \cup disk'[q].records : r.offset >= FirstOffset
      BY <1>7, BootBotaIs DEF FirmwareInv, TypeOK
    <2>2. flushes' \in 0..MaxFlushes
      <3>1. flushes \in 0..MaxFlushes /\ flushes < MaxFlushes /\ flushes' = flushes + 1
        BY DEF FirmwareInv, TypeOK, WriteBack
      <3>2. QED
        BY <3>1, Bounds
    <2>3. QED
      BY <1>1, <1>3, <1>4, <1>6, <2>1, <2>2 DEF FirmwareInv, TypeOK
  <1>10. NotOlder(part[BootBota].records)' /\ NotOlder(disk[BootBota].records)'
    <2>1. BootBota \in Partitions
      BY BootBotaIs
    <2>2. Kept' <=> Kept
      BY <1>1 DEF Kept
    <2>3. QED
      BY <1>1, <1>3, <1>7, <2>1, <2>2 DEF NotOlder, FirmwareInv
  <1>11. (\A q \in Botas : Alike(part[q].records) /\ Alike(disk[q].records))'
    <2>1. \A q \in Botas : Alike(part[q].records) /\ Alike(disk'[q].records)
      BY <1>5, <1>6, BootBotaIs DEF FirmwareInv
    <2>2. QED
      BY <1>1, <1>3, <2>1 DEF Alike
  <1>12. QED
    BY <1>8, <1>9, <1>10, <1>11 DEF FirmwareInv

\* The device starts with contents that come from what it had.
LEMMA RestartKeeps ==
    ASSUME FirmwareInv, Restarted, NEW contents \in [Partitions -> Contents],
           contents = part \/ contents = disk,
           single /\ Kept' => Usable(contents[BootBota]), Kept' => Kept,
           Boot(contents), disk' = part', cuts' \in 0..MaxCuts,
           UNCHANGED <<single, installs, failures, ignores, flushes>>
    PROVE  FirmwareInv' /\ (Kept' => Binary[running'] >= Binary[running])
  <1>1. /\ script' = <<>> /\ status' = "idle" /\ UNCHANGED <<package, chosen, ignored>>
    BY DEF Restarted
  <1>2. /\ BootBota' = BootBota /\ Botas' = Botas /\ Partitions' = Partitions
        /\ SimplePartitions' = SimplePartitions
    BY DEF BootBota, Botas, Partitions, SimplePartitions
  <1>3. TypeOK /\ BootBota \in Partitions /\ BootBota \in Botas /\ Botas \subseteq Partitions
    BY BootBotaIs DEF FirmwareInv
  <1>4. NotOlder(contents[BootBota].records) /\ \A p \in Botas : Alike(contents[p].records)
    BY DEF FirmwareInv
  <1>5. /\ part' \in [Partitions -> Contents] /\ running' \in Packages
        /\ \A p \in Partitions : part'[p].records = contents[p].records
    BY <1>3, BootTyped DEF TypeOK
  <1>6. ASSUME Kept'
        PROVE  /\ Binary[running'] >= Binary[running]
               /\ \A r \in contents[BootBota].records :
                     r.offset = FirstOffset => Binary[r.package] >= Binary[running']
    <2>1. \A r \in contents[BootBota].records :
             r.offset = FirstOffset => Binary[r.package] >= Binary[running]
      BY <1>4, <1>6 DEF NotOlder
    <2>2. single \in BOOLEAN /\ running \in Packages
      BY <1>3 DEF TypeOK
    <2>3. QED
      BY <1>3, <1>4, <1>6, <2>1, <2>2, BootNotOlder
  <1>7. NotOlder(part[BootBota].records)' /\ NotOlder(disk[BootBota].records)'
    BY <1>2, <1>3, <1>5, <1>6 DEF NotOlder
  <1>8. ScriptOK'
    BY <1>1 DEF ScriptOK
  <1>9. TypeOK'
    <2>1. \A p \in Botas : \A r \in part'[p].records \cup disk'[p].records : r.offset >= FirstOffset
      BY <1>3, <1>5 DEF TypeOK
    <2>2. script' \in Seq(Command)'
      BY <1>1
    <2>3. QED
      BY <1>1, <1>2, <1>3, <1>5, <2>1, <2>2 DEF TypeOK
  <1>10. (\A p \in Botas : Alike(part[p].records) /\ Alike(disk[p].records))'
    <2>1. \A p \in Botas : Alike(part'[p].records) /\ Alike(disk'[p].records)
      BY <1>3, <1>4, <1>5
    <2>2. QED
      BY <1>2, <2>1 DEF Alike
  <1>11. QED
    BY <1>6, <1>7, <1>8, <1>9, <1>10 DEF FirmwareInv

LEMMA RebootKeeps ==
    ASSUME FirmwareInv, BotasUsable, Reboot
    PROVE  FirmwareInv' /\ (Kept' => Binary[running'] >= Binary[running])
  <1>1. PICK contents : contents = part
    OBVIOUS
  <1>2. contents \in [Partitions -> Contents] /\ cuts \in 0..MaxCuts
    BY <1>1 DEF FirmwareInv, TypeOK
  <1>3. /\ Restarted /\ Boot(contents) /\ disk' = part'
        /\ UNCHANGED <<single, installs, failures, ignores, cuts, flushes>>
    BY <1>1 DEF Reboot, boundVars
  <1>4. Kept' <=> Kept
    BY <1>3 DEF Kept
  <1>5. single /\ Kept' => Usable(contents[BootBota])
    BY <1>1, <1>4, BootBotaIs DEF BotasUsable, Kept
  <1>6. QED
    BY <1>1, <1>2, <1>3, <1>4, <1>5, RestartKeeps

LEMMA PowerCutKeeps ==
    ASSUME FirmwareInv, PowerCut
    PROVE  FirmwareInv' /\ (Kept' => Binary[running'] >= Binary[running])
  <1>1. PICK contents : contents = disk
    OBVIOUS
  <1>2. contents \in [Partitions -> Contents]
    BY <1>1, Counted
  <1>3. cuts' \in 0..MaxCuts /\ cuts' # 0
    <2>1. cuts \in 0..MaxCuts /\ cuts < MaxCuts /\ cuts' = cuts + 1
      BY DEF FirmwareInv, TypeOK, PowerCut
    <2>2. QED
      BY <2>1, Bounds
  <1>4. /\ Restarted /\ Boot(contents) /\ disk' = part'
        /\ UNCHANGED <<single, installs, failures, ignores, flushes>>
    BY <1>1 DEF PowerCut
  <1>5. Kept' => ~single
    BY <1>3, <1>4 DEF Kept
  <1>6. Kept' => Kept
    BY <1>5 DEF Kept
  <1>7. QED
    BY <1>1, <1>2, <1>3, <1>4, <1>5, <1>6, RestartKeeps

LEMMA FirmwareInit ==
    ASSUME Init
    PROVE  FirmwareInv
  <1>1. Empty \in Contents /\ Empty.records = {}
    BY Bounds DEF Empty, Contents
  <1>2. /\ part \in [Partitions -> Contents] /\ disk \in [Partitions -> Contents]
        /\ \A p \in Partitions : part[p].records = {} /\ disk[p].records = {}
    BY <1>1 DEF Init
  <1>3. /\ 0 \in 0..MaxInstalls /\ 0 \in 0..MaxFailures /\ 0 \in 0..MaxIgnored /\ 0 \in 0..MaxCuts
        /\ 0 \in 0..MaxFlushes
    BY Bounds
  <1>4. script \in Seq(Command) /\ script \in Seq(CommandOf(package, chosen))
    BY DEF Init
  <1>5. TypeOK
    BY <1>2, <1>3, <1>4, Bounds, BootBotaIs DEF Init, TypeOK
  <1>6. ScriptOK
    BY <1>4 DEF Init, ScriptOK
  <1>7. QED
    BY <1>2, <1>5, <1>6, BootBotaIs DEF FirmwareInv, NotOlder, Alike

LEMMA FirmwareStutter ==
    ASSUME FirmwareInv, UNCHANGED vars
    PROVE  FirmwareInv'
  <1>1. /\ BootBota' = BootBota /\ Botas' = Botas /\ Partitions' = Partitions
        /\ SimplePartitions' = SimplePartitions
    BY DEF BootBota, Botas, Partitions, SimplePartitions, vars
  <1>2. Command' = Command /\ CommandOf(package, chosen)' = CommandOf(package, chosen)
    BY <1>1 DEF Command, CommandOf, vars
  <1>3. TypeOK'
    BY <1>1, <1>2 DEF FirmwareInv, TypeOK, vars
  <1>4. ScriptOK'
    BY <1>2 DEF FirmwareInv, ScriptOK, vars
  <1>5. NotOlder(part[BootBota].records)' /\ NotOlder(disk[BootBota].records)'
    BY <1>1 DEF FirmwareInv, NotOlder, Kept, vars
  <1>6. (\A p \in Botas : Alike(part[p].records) /\ Alike(disk[p].records))'
    BY <1>1 DEF FirmwareInv, Alike, vars
  <1>7. QED
    BY <1>3, <1>4, <1>5, <1>6 DEF FirmwareInv

LEMMA FirmwareNext ==
    ASSUME FirmwareInv, BotasUsable, [Next]_vars
    PROVE  FirmwareInv' /\ (Kept' => Binary[running'] >= Binary[running])
  <1>1. Binary[running] \in Nat
    BY Bounds DEF FirmwareInv, TypeOK
  <1>2. CASE Reboot \/ PowerCut
    BY <1>2, RebootKeeps, PowerCutKeeps
  <1>3. CASE ~(Reboot \/ PowerCut)
    <2>1. FirmwareInv'
      BY <1>3, BeginKeeps, MarkHeaderKeeps, WriteRecordKeeps, CommandFailsKeeps,
         ExtractFileKeeps, AbortCommandKeeps, DoneKeeps, KillKeeps, WriteBackKeeps,
         FirmwareStutter DEF Next
    <2>2. running' = running
      BY <1>3 DEF Next, Begin, MarkHeader, WriteRecord, CommandFails, ExtractFile, AbortCommand,
         Done, Kill, WriteBack, Ignore, vars
    <2>3. QED
      BY <1>1, <2>1, <2>2
  <1>4. QED
    BY <1>2, <1>3

-----------------------------------------------------------------------------
(* What a script leads to                                                  *)

RecordOf(pkg, image, offset) ==
    [image |-> image, package |-> pkg, offset |-> offset, size |-> Size[pkg][image],
     whole |-> TRUE]

\* The contents c after a command of a script of pkg that does not fail.
Effect(pkg, k, c) ==
    IF k.op = "mark_header_bt" THEN [c EXCEPT !.magic = k.magic, !.num = k.num]
    ELSE IF k.op = "write_data_bt"
    THEN [c EXCEPT !.records = Overwrite(@, RecordOf(pkg, k.image, k.offset))]
    ELSE [c EXCEPT !.records = {RecordOf(pkg, k.image, 0)}]

\* The command may stop halfway: its image without the magic, its magic without
\* the number of images.
Safe(k, c, d) ==
    /\ k.op = "mark_header_bt" => Usable([c EXCEPT !.magic = k.magic]) /\ Usable(d)
    /\ k.op = "write_data_bt" => ~c.magic

\* Command k takes the contents of partition p from c to d.
Takes(pkg, p, k, c, d) ==
    IF k.op # "abort" /\ k.dest = p THEN d = Effect(pkg, k, c) /\ Safe(k, c, d) ELSE d = c

\* The commands s take the contents of partition p from c to d.
Leads(pkg, p, s, c, d) ==
    \E C \in [Nat -> Contents] :
        /\ C[0] = c /\ C[Len(s)] = d
        /\ \A i \in 1..Len(s) : Takes(pkg, p, s[i], C[i - 1], C[i])

\* The image of pkg is in partition p for a reader.
Has(pkg, p, c, image) ==
    /\ \E r \in IF p \in Botas THEN Found(c) ELSE c.records :
          r.image = image /\ r.package = pkg /\ r.whole
    /\ p \in Botas => c.magic

\* Of these images, those that belong to partition p are there.
Complete(pkg, p, c, images) ==
    \A image \in images : Size[pkg][image] > 0 /\ Home(image) = p => Has(pkg, p, c, image)

\* Partition p has got the images `before`: with the commands s it gets `after`.
Fills(pkg, p, s, before, after) ==
    \A c \in Contents :
        Complete(pkg, p, c, before) =>
            \E d \in Contents : Leads(pkg, p, s, c, d) /\ Complete(pkg, p, d, after)

LEMMA LeadsNothing ==
    ASSUME NEW pkg, NEW p, NEW c \in Contents
    PROVE  Leads(pkg, p, <<>>, c, c)
  <1>1. PICK C \in [Nat -> Contents] : C = [i \in Nat |-> c]
    OBVIOUS
  <1>2. C[0] = c /\ C[Len(<<>>)] = c /\ \A i \in 1..Len(<<>>) : FALSE
    BY <1>1
  <1>3. QED
    BY <1>2 DEF Leads

LEMMA LeadsOne ==
    ASSUME NEW pkg, NEW p, NEW c \in Contents, NEW d \in Contents, NEW k, Takes(pkg, p, k, c, d)
    PROVE  Leads(pkg, p, <<k>>, c, d)
  <1>1. PICK C \in [Nat -> Contents] : C = [i \in Nat |-> IF i = 0 THEN c ELSE d]
    OBVIOUS
  <1>2. PICK s : s = <<k>>
    OBVIOUS
  <1>3. Len(s) = 1 /\ s[1] = k /\ 1 \in Nat /\ 0 \in Nat /\ 1 - 1 = 0
    BY <1>2
  <1>4. C[0] = c /\ C[1] = d
    BY <1>1, <1>3
  <1>5. \A i \in 1..Len(s) : i = 1
    BY <1>3
  <1>6. QED
    BY <1>2, <1>3, <1>4, <1>5 DEF Leads

\* What follows the first command.
LEMMA LeadsTail ==
    ASSUME NEW pkg, NEW p, NEW S, NEW s \in Seq(S), s # <<>>, NEW c, NEW d, Leads(pkg, p, s, c, d)
    PROVE  \E e \in Contents : Takes(pkg, p, Head(s), c, e) /\ Leads(pkg, p, Tail(s), e, d)
  <1>1. PICK C \in [Nat -> Contents] :
           /\ C[0] = c /\ C[Len(s)] = d
           /\ \A i \in 1..Len(s) : Takes(pkg, p, s[i], C[i - 1], C[i])
    BY DEF Leads
  <1>2. PICK n \in Nat, t \in Seq(S) :
           /\ t = Tail(s) /\ Len(t) = n /\ Len(s) = n + 1 /\ Head(s) = s[1]
           /\ \A i \in 1..n : t[i] = s[i + 1]
    <2>1. Len(s) \in Nat /\ Len(s) # 0 /\ Head(s) = s[1]
      BY EmptySeq, LenProperties, HeadTailProperties
    <2>2. PICK n \in Nat : Len(s) = n + 1
      <3>1. Len(s) - 1 \in Nat /\ Len(s) = (Len(s) - 1) + 1
        BY <2>1
      <3>2. QED
        BY <3>1
    <2>3. PICK t \in Seq(S) : t = Tail(s)
      BY HeadTailProperties
    <2>4. Len(t) = n /\ \A i \in 1..n : t[i] = s[i + 1]
      <3>1. Len(Tail(s)) = Len(s) - 1 /\ \A i \in 1..Len(Tail(s)) : Tail(s)[i] = s[i + 1]
        BY HeadTailProperties
      <3>2. Len(Tail(s)) = n
        BY <2>2, <3>1
      <3>3. QED
        BY <2>3, <3>1, <3>2
    <2>5. QED
      BY <2>1, <2>2, <2>3, <2>4
  <1>3. PICK D : D = [i \in Nat |-> C[i + 1]]
    OBVIOUS
  <1>4. \A i \in Nat : i + 1 \in Nat
    OBVIOUS
  <1>5. D \in [Nat -> Contents]
    BY <1>3, <1>4
  <1>6. D[0] = C[1] /\ D[n] = d
    <2>1. 0 \in Nat /\ 0 + 1 = 1
      OBVIOUS
    <2>2. QED
      BY <1>1, <1>2, <1>3, <2>1
  <1>7. ASSUME NEW i \in 1..n PROVE Takes(pkg, p, t[i], D[i - 1], D[i])
    <2>1. i - 1 \in Nat /\ i \in Nat /\ (i - 1) + 1 = i /\ (i + 1) - 1 = i /\ i + 1 \in 1..(n + 1)
      BY <1>7
    <2>2. Takes(pkg, p, s[i + 1], C[(i + 1) - 1], C[i + 1])
      BY <1>1, <1>2, <2>1
    <2>3. D[i - 1] = C[i] /\ D[i] = C[i + 1]
      BY <1>3, <2>1
    <2>4. QED
      BY <1>2, <2>1, <2>2, <2>3
  <1>8. Takes(pkg, p, s[1], C[0], C[1]) /\ C[1] \in Contents
    <2>1. 1 \in 1..Len(s) /\ 1 - 1 = 0 /\ 1 \in Nat
      BY <1>2
    <2>2. QED
      BY <1>1, <2>1
  <1>9. Leads(pkg, p, t, C[1], d)
    BY <1>2, <1>5, <1>6, <1>7 DEF Leads
  <1>10. QED
    BY <1>1, <1>2, <1>8, <1>9

LEMMA LeadsJoined ==
    ASSUME NEW pkg, NEW p, NEW S, NEW s \in Seq(S), NEW t \in Seq(S), NEW c, NEW d, NEW e,
           Leads(pkg, p, s, c, d), Leads(pkg, p, t, d, e)
    PROVE  Leads(pkg, p, s \o t, c, e)
  <1>1. PICK C \in [Nat -> Contents] :
           /\ C[0] = c /\ C[Len(s)] = d
           /\ \A i \in 1..Len(s) : Takes(pkg, p, s[i], C[i - 1], C[i])
    BY DEF Leads
  <1>2. PICK D \in [Nat -> Contents] :
           /\ D[0] = d /\ D[Len(t)] = e
           /\ \A i \in 1..Len(t) : Takes(pkg, p, t[i], D[i - 1], D[i])
    BY DEF Leads
  <1>3. PICK m \in Nat, n \in Nat : m = Len(s) /\ n = Len(t)
    BY LenProperties
  <1>4. PICK u \in Seq(S) : u = s \o t
    BY Joined
  <1>5. /\ Len(u) = m + n
        /\ \A i \in 1..m : u[i] = s[i]
        /\ \A i \in (m + 1)..(m + n) : u[i] = t[i - m]
    BY <1>3, <1>4
  <1>6. PICK E : E = [i \in Nat |-> IF i <= m THEN C[i] ELSE D[i - m]]
    OBVIOUS
  <1>7. E \in [Nat -> Contents]
    <2>1. \A i \in Nat : i <= m \/ i - m \in Nat
      OBVIOUS
    <2>2. QED
      BY <1>6, <2>1
  <1>8. /\ \A i \in 0..m : E[i] = C[i]
        /\ \A i \in m..(m + n) : E[i] = D[i - m]
    <2>1. ASSUME NEW i \in 0..m PROVE E[i] = C[i]
      <3>1. i \in Nat /\ i <= m
        BY <2>1
      <3>2. QED
        BY <1>6, <3>1
    <2>2. ASSUME NEW i \in m..(m + n) PROVE E[i] = D[i - m]
      <3>1. i \in Nat /\ (i <= m => i = m) /\ i - m \in Nat
        BY <2>2
      <3>2. CASE i = m
        <4>1. i - m = 0
          BY <3>2
        <4>2. QED
          BY <1>1, <1>2, <1>3, <1>6, <3>1, <3>2, <4>1
      <3>3. CASE i # m
        BY <1>6, <3>1, <3>3
      <3>4. QED
        BY <3>2, <3>3
    <2>3. QED
      BY <2>1, <2>2
  <1>9. ASSUME NEW i \in 1..(m + n) PROVE Takes(pkg, p, u[i], E[i - 1], E[i])
    <2>1. CASE i <= m
      <3>1. i \in 1..m /\ i \in 0..m /\ i - 1 \in 0..m
        BY <1>9, <2>1
      <3>2. QED
        BY <1>1, <1>3, <1>5, <1>8, <3>1
    <2>2. CASE ~(i <= m)
      <3>1. PICK j \in 1..n : j = i - m
        BY <1>9, <2>2
      <3>2. /\ i \in (m + 1)..(m + n) /\ i \in m..(m + n) /\ i - 1 \in m..(m + n)
            /\ (i - 1) - m = j - 1
        BY <1>9, <2>2, <3>1
      <3>3. u[i] = t[j] /\ E[i - 1] = D[j - 1] /\ E[i] = D[j]
        BY <1>5, <1>8, <3>1, <3>2
      <3>4. QED
        BY <1>2, <1>3, <3>1, <3>3
    <2>3. QED
      BY <2>1, <2>2
  <1>10. E[0] = c /\ E[m + n] = e
    <2>1. 0 \in 0..m /\ m + n \in m..(m + n) /\ (m + n) - m = n
      OBVIOUS
    <2>2. QED
      BY <1>1, <1>2, <1>3, <1>8, <2>1
  <1>11. QED
    BY <1>4, <1>5, <1>7, <1>9, <1>10 DEF Leads

LEMMA FillsJoined ==
    ASSUME NEW pkg, NEW p, NEW S, NEW s \in Seq(S), NEW t \in Seq(S), NEW i, NEW j, NEW k,
           Fills(pkg, p, s, i, j), Fills(pkg, p, t, j, k)
    PROVE  Fills(pkg, p, s \o t, i, k)
  <1> SUFFICES ASSUME NEW c \in Contents, Complete(pkg, p, c, i)
               PROVE  \E e \in Contents : Leads(pkg, p, s \o t, c, e) /\ Complete(pkg, p, e, k)
    BY DEF Fills
  <1>1. PICK d \in Contents : Leads(pkg, p, s, c, d) /\ Complete(pkg, p, d, j)
    BY DEF Fills
  <1>2. PICK e \in Contents : Leads(pkg, p, t, d, e) /\ Complete(pkg, p, e, k)
    BY <1>1 DEF Fills
  <1>3. Leads(pkg, p, s \o t, c, e)
    BY <1>1, <1>2, LeadsJoined
  <1>4. QED
    BY <1>2, <1>3


-----------------------------------------------------------------------------
(* One image after the other                                               *)

\* The images that a script has a command for, if the package has them.
Named == Images \ Misnamed

LEMMA HomeOfSystem ==
    Home("dtb") = "dtb" /\ Home("dtbo") = "dtbo" /\ Home("vbmeta") = "vbmeta"
  BY Zenon DEF Home, SystemImages, BotaImages

LEMMA HomeOfModems ==
    /\ Home("modem") = "radio" /\ Home("modem_5g") = "radio2"
    /\ Home("modem_debug") = "cp_debug" /\ Home("modem_debug_5g") = "cp2_debug"
  BY Zenon DEF Home, SystemImages, BotaImages

LEMMA HomeInOneBota ==
    ASSUME single, NEW image \in BotaImages
    PROVE  Home(image) = "bota"
  BY Zenon DEF Home, SystemImages, BotaImages

LEMMA HomeInManyBotas ==
    ASSUME ~single
    PROVE  /\ Home("sboot") = "bota0" /\ Home("cm") = "bota1" /\ Home("up_param") = "bota2"
           /\ Home("keystorage") = "keystorage" /\ Home("uh") = "uh"
  BY Zenon DEF Home, SystemImages, BotaImages

LEMMA HomesAre ==
    ASSUME single \in BOOLEAN, NEW image \in Named
    PROVE  Home(image) \in Partitions
  <1>1. CASE image \in SystemImages
    BY <1>1, HomeOfSystem DEF SystemImages, Partitions, SimplePartitions
  <1>2. CASE image \in Modems
    BY <1>2, HomeOfModems DEF Modems, Partitions, SimplePartitions
  <1>3. CASE image \in BotaImages /\ single
    BY <1>3, HomeInOneBota DEF Partitions, Botas
  <1>4. CASE image \in BotaImages /\ ~single
    BY <1>4, HomeInManyBotas DEF BotaImages, Partitions, Botas, SimplePartitions
  <1>5. QED
    BY <1>1, <1>2, <1>3, <1>4 DEF Images, Named

LEMMA RecordOfIs ==
    ASSUME NEW pkg \in Packages, NEW image \in Images, Size[pkg][image] # Absent,
           NEW offset \in Nat
    PROVE  \E r \in ImageRecord :
              /\ r = RecordOf(pkg, image, offset) /\ r.image = image /\ r.package = pkg
              /\ r.offset = offset /\ r.size = Size[pkg][image] /\ r.whole
  <1>1. Size[pkg][image] \in Nat
    BY Sizes
  <1>2. PICK r : r = RecordOf(pkg, image, offset)
    OBVIOUS
  <1>3. /\ r.image = image /\ r.package = pkg /\ r.offset = offset /\ r.size = Size[pkg][image]
        /\ r.whole = TRUE
    BY <1>2 DEF RecordOf
  <1>4. r \in ImageRecord
    BY <1>1, <1>2 DEF RecordOf, ImageRecord
  <1>5. QED
    BY <1>2, <1>3, <1>4

\* An image that goes into a partition of its own.
LEMMA FillsSimple ==
    ASSUME NEW pkg \in Packages, NEW p, NEW image \in Images, NEW dest \in SimplePartitions,
           NEW offset, Home(image) = dest, NEW before, \A i \in before : Home(i) # dest
    PROVE  Fills(pkg, p, AddFirmwareImage(pkg, image, dest, TRUE, offset), before,
                 before \cup {image})
  <1> SUFFICES ASSUME NEW c \in Contents, Complete(pkg, p, c, before)
               PROVE  \E d \in Contents :
                         /\ Leads(pkg, p, AddFirmwareImage(pkg, image, dest, TRUE, offset), c, d)
                         /\ Complete(pkg, p, d, before \cup {image})
    BY DEF Fills
  <1>1. CASE Size[pkg][image] = Absent
    <2>1. AddFirmwareImage(pkg, image, dest, TRUE, offset) = <<>>
      BY <1>1 DEF AddFirmwareImage
    <2>2. Complete(pkg, p, c, before \cup {image})
      <3>1. ~(Size[pkg][image] > 0)
        BY <1>1 DEF Absent
      <3>2. QED
        BY <3>1 DEF Complete
    <2>3. QED
      BY <2>1, <2>2, LeadsNothing
  <1>2. CASE Size[pkg][image] # Absent
    <2>1. PICK k : k = Extract(image, dest)
      OBVIOUS
    <2>2. AddFirmwareImage(pkg, image, dest, TRUE, offset) = <<k>>
      BY <1>2, <2>1 DEF AddFirmwareImage
    <2>3. k.op = "package_extract_file" /\ k.dest = dest /\ k.image = image
      BY <2>1 DEF Extract
    <2>4. CASE p = dest
      <3>1. PICK r \in ImageRecord :
               r = RecordOf(pkg, image, 0) /\ r.image = image /\ r.package = pkg /\ r.whole
        <4>1. 0 \in Nat
          OBVIOUS
        <4>2. QED
          BY <1>2, <4>1, RecordOfIs
      <3>2. PICK d \in Contents : d = [c EXCEPT !.records = {r}] /\ d.records = {r}
        <4>1. PICK d : d = [c EXCEPT !.records = {r}]
          OBVIOUS
        <4>2. d \in Contents /\ d.records = {r}
          BY <4>1 DEF Contents
        <4>3. QED
          BY <4>1, <4>2
      <3>3. Effect(pkg, k, c) = d
        BY <2>3, <3>1, <3>2 DEF Effect
      <3>4. Takes(pkg, p, k, c, d)
        BY <2>3, <2>4, <3>3 DEF Takes, Safe
      <3>5. Complete(pkg, p, d, before \cup {image})
        <4>1. p \notin Botas
          BY <2>4 DEF SimplePartitions, Botas
        <4>2. QED
          BY <2>4, <3>1, <3>2, <4>1 DEF Complete, Has
      <3>6. QED
        BY <2>2, <3>4, <3>5, LeadsOne
    <2>5. CASE p # dest
      <3>1. Takes(pkg, p, k, c, c)
        BY <2>3, <2>5 DEF Takes
      <3>2. Complete(pkg, p, c, before \cup {image})
        BY <2>5 DEF Complete
      <3>3. QED
        BY <2>2, <3>1, <3>2, LeadsOne
    <2>6. QED
      BY <2>4, <2>5
  <1>3. QED
    BY <1>1, <1>2

\* The package has no such image.
LEMMA FillsNothing ==
    ASSUME NEW pkg \in Packages, NEW p, NEW image \in Images, Size[pkg][image] = Absent, NEW before
    PROVE  Fills(pkg, p, <<>>, before, before \cup {image})
  <1>1. ~(Size[pkg][image] > 0)
    BY DEF Absent
  <1>2. ASSUME NEW c \in Contents, Complete(pkg, p, c, before)
        PROVE  Complete(pkg, p, c, before \cup {image})
    BY <1>1, <1>2 DEF Complete
  <1>3. QED
    BY <1>2, LeadsNothing DEF Fills

LEMMA LeadsThree ==
    ASSUME NEW pkg, NEW p, NEW c \in Contents, NEW d \in Contents, NEW e \in Contents,
           NEW f \in Contents, NEW k, NEW l, NEW m, Takes(pkg, p, k, c, d),
           Takes(pkg, p, l, d, e), Takes(pkg, p, m, e, f)
    PROVE  Leads(pkg, p, <<k, l, m>>, c, f)
  <1>1. PICK C \in [Nat -> Contents] :
           C = [i \in Nat |-> IF i = 0 THEN c ELSE IF i = 1 THEN d ELSE IF i = 2 THEN e ELSE f]
    OBVIOUS
  <1>2. PICK s : s = <<k, l, m>>
    OBVIOUS
  <1>3. Len(s) = 3 /\ s[1] = k /\ s[2] = l /\ s[3] = m
    BY <1>2
  <1>4. 0 \in Nat /\ 1 \in Nat /\ 2 \in Nat /\ 3 \in Nat
    OBVIOUS
  <1>5. C[0] = c /\ C[1] = d /\ C[2] = e /\ C[3] = f
    BY <1>1, <1>4
  <1>6. ASSUME NEW i \in 1..Len(s) PROVE Takes(pkg, p, s[i], C[i - 1], C[i])
    <2>1. i = 1 \/ i = 2 \/ i = 3
      BY <1>3
    <2>2. 1 - 1 = 0 /\ 2 - 1 = 1 /\ 3 - 1 = 2
      OBVIOUS
    <2>3. QED
      BY <1>3, <1>5, <2>1, <2>2
  <1>7. QED
    BY <1>2, <1>3, <1>5, <1>6 DEF Leads

\* A bota of its own image: what a reader finds.
LEMMA SeenAlone ==
    ASSUME ~single, NEW c \in Contents, NEW r \in c.records, r.offset = FirstOffset, r.whole,
           \A x \in c.records : x.offset = FirstOffset => x = r
    PROVE  Sound(c) /\ Found(c) = {r}
  <1>1. PICK n \in 0..6 : n = Announced(c) /\ n = 1
    BY DEF Announced
  <1>2. PICK at :
           /\ at = [i \in 1..n |-> IF i = 1 THEN 8 ELSE After(c.records, at[i - 1])]
           /\ Offsets(c) = {at[i] : i \in 1..n}
    BY <1>1, OffsetsAre
  <1>3. 1..n = {1}
    BY <1>1
  <1>4. at[1] = 8
    BY <1>2, <1>3
  <1>5. Offsets(c) = {8}
    BY <1>2, <1>3, <1>4
  <1>6. Found(c) = {r}
    BY <1>5 DEF Found, FirstOffset
  <1>7. Sound(c)
    BY <1>5, <1>6 DEF Sound, FirstOffset
  <1>8. QED
    BY <1>6, <1>7

LEMMA FillsBota ==
    ASSUME ~single, NEW pkg \in Packages, NEW p, NEW image \in BotaImages, NEW dest \in Botas,
           Home(image) = dest, NEW before, \A i \in before : Home(i) # dest
    PROVE  Fills(pkg, p, AddFirmwareImage(pkg, image, dest, FALSE, FirstOffset), before,
                 before \cup {image})
  <1>1. image \in Images /\ dest # "bota"
    BY DEF Images, Botas
  <1>2. CASE Size[pkg][image] = Absent
    <2>1. AddFirmwareImage(pkg, image, dest, FALSE, FirstOffset) = <<>>
      BY <1>2 DEF AddFirmwareImage
    <2>2. QED
      BY <1>1, <1>2, <2>1, FillsNothing
  <1>3. CASE Size[pkg][image] # Absent
    <2>1. PICK k, l, m :
             /\ k = Mark(dest, 0, FALSE) /\ l = WriteData(image, dest, FirstOffset)
             /\ m = Mark(dest, 0, TRUE)
      OBVIOUS
    <2>2. AddFirmwareImage(pkg, image, dest, FALSE, FirstOffset) = <<k, l, m>>
      BY <1>1, <1>3, <2>1 DEF AddFirmwareImage
    <2>3. /\ k.op = "mark_header_bt" /\ k.dest = dest /\ k.num = 0 /\ k.magic = FALSE
          /\ l.op = "write_data_bt" /\ l.dest = dest /\ l.image = image /\ l.offset = FirstOffset
          /\ m.op = "mark_header_bt" /\ m.dest = dest /\ m.num = 0 /\ m.magic = TRUE
      BY <2>1 DEF Mark, WriteData
    <2>4. SUFFICES ASSUME NEW c \in Contents, Complete(pkg, p, c, before)
                   PROVE  \E d \in Contents :
                             /\ Leads(pkg, p, <<k, l, m>>, c, d)
                             /\ Complete(pkg, p, d, before \cup {image})
      BY <2>2 DEF Fills
    <2>5. CASE p = dest
      <3>1. PICK r \in ImageRecord :
               /\ r = RecordOf(pkg, image, FirstOffset) /\ r.image = image /\ r.package = pkg
               /\ r.offset = FirstOffset /\ r.whole
        <4>1. FirstOffset \in Nat
          BY DEF FirstOffset
        <4>2. QED
          BY <1>1, <1>3, <4>1, RecordOfIs
      <3>2. PICK new : new = Overwrite(c.records, r)
        OBVIOUS
      <3>3. /\ new \in SUBSET ImageRecord /\ r \in new
            /\ \A x \in new : x.offset = FirstOffset => x = r
        <4>1. c.records \in SUBSET ImageRecord
          BY DEF Contents
        <4>2. QED
          BY <3>1, <3>2, <4>1, Overwritten
      <3>4. PICK d, e, f :
               /\ d = [c EXCEPT !.magic = FALSE, !.num = 0]
               /\ e = [d EXCEPT !.records = new]
               /\ f = [e EXCEPT !.magic = TRUE, !.num = 0]
        OBVIOUS
      <3>5. /\ d \in Contents /\ d.records = c.records /\ d.magic = FALSE
            /\ e \in Contents /\ e.records = new
            /\ f \in Contents /\ f.records = new /\ f.magic = TRUE
        <4>1. 0 \in 0..Garbage
          BY Bounds
        <4>2. d \in Contents /\ d.records = c.records /\ d.magic = FALSE
          BY <3>4, <4>1 DEF Contents
        <4>3. e \in Contents /\ e.records = new
          BY <3>3, <3>4, <4>2 DEF Contents
        <4>4. f \in Contents /\ f.records = new /\ f.magic = TRUE
          BY <3>4, <4>1, <4>3 DEF Contents
        <4>5. QED
          BY <4>2, <4>3, <4>4
      <3>6. Takes(pkg, p, k, c, d)
        <4>1. Effect(pkg, k, c) = d
          BY <2>3, <3>4 DEF Effect
        <4>2. [c EXCEPT !.magic = FALSE].magic = FALSE
          BY DEF Contents
        <4>3. Safe(k, c, d)
          BY <2>3, <3>5, <4>2 DEF Safe, Usable
        <4>4. QED
          BY <2>3, <2>5, <4>1, <4>3 DEF Takes
      <3>7. Takes(pkg, p, l, d, e)
        <4>1. Effect(pkg, l, d) = e
          BY <2>3, <3>1, <3>2, <3>4, <3>5 DEF Effect
        <4>2. Safe(l, d, e)
          BY <2>3, <3>5 DEF Safe
        <4>3. QED
          BY <2>3, <2>5, <4>1, <4>2 DEF Takes
      <3>8. Takes(pkg, p, m, e, f)
        <4>1. Effect(pkg, m, e) = f
          BY <2>3, <3>4 DEF Effect
        <4>2. PICK g : g = [e EXCEPT !.magic = TRUE]
          OBVIOUS
        <4>3. g \in Contents /\ g.records = new
          BY <3>5, <4>2 DEF Contents
        <4>4. Sound(g) /\ Sound(f)
          BY <3>1, <3>3, <3>5, <4>3, SeenAlone
        <4>5. Safe(m, e, f)
          BY <2>3, <4>2, <4>4 DEF Safe, Usable
        <4>6. QED
          BY <2>3, <2>5, <4>1, <4>5 DEF Takes
      <3>9. Complete(pkg, p, f, before \cup {image})
        <4>1. r \in Found(f)
          BY <3>1, <3>3, <3>5, SeenAlone
        <4>2. Has(pkg, p, f, image)
          BY <2>5, <3>1, <3>5, <4>1 DEF Has
        <4>3. QED
          BY <2>5, <4>2 DEF Complete
      <3>10. Leads(pkg, p, <<k, l, m>>, c, f)
        BY <3>5, <3>6, <3>7, <3>8, LeadsThree
      <3>11. QED
        BY <3>5, <3>9, <3>10
    <2>6. CASE p # dest
      <3>1. Takes(pkg, p, k, c, c) /\ Takes(pkg, p, l, c, c) /\ Takes(pkg, p, m, c, c)
        BY <2>3, <2>6 DEF Takes
      <3>2. Complete(pkg, p, c, before \cup {image})
        BY <2>4, <2>6 DEF Complete
      <3>3. QED
        BY <3>1, <3>2, LeadsThree
    <2>7. QED
      BY <2>5, <2>6
  <1>4. QED
    BY <1>2, <1>3

-----------------------------------------------------------------------------
(* The images of the one bota partition                                    *)

\* The records at the offsets that a reader of n images comes to are those of the
\* package, one after the other, the next one would be at o; among them are
\* these images.
Laid(pkg, records, n, o, images) ==
    \E R \in [1..n -> ImageRecord] :
        /\ \A i \in 1..n : R[i].offset = (IF i = 1 THEN FirstOffset ELSE End(R[i - 1]))
        /\ o = (IF n = 0 THEN FirstOffset ELSE End(R[n]))
        /\ \A i \in 1..n :
              /\ R[i].whole /\ R[i].package = pkg
              /\ End(R[i]) <= o
              /\ R[i] \in records /\ \A x \in records : x.offset = R[i].offset => x = R[i]
        /\ \A image \in images : Size[pkg][image] > 0 => \E i \in 1..n : R[i].image = image

\* An image that is written at the end leaves those before it alone.
LEMMA LaidWritten ==
    ASSUME NEW pkg \in Packages, NEW records \in SUBSET ImageRecord, NEW n \in Nat, NEW o \in Nat,
           NEW images, Laid(pkg, records, n, o, images), NEW r \in ImageRecord, r.offset = o,
           NEW new, new = Overwrite(records, r)
    PROVE  /\ Laid(pkg, new, n, o, images)
           /\ r.whole /\ r.package = pkg => Laid(pkg, new, n + 1, End(r), images \cup {r.image})
  <1>1. PICK R \in [1..n -> ImageRecord] :
           /\ \A i \in 1..n : R[i].offset = (IF i = 1 THEN FirstOffset ELSE End(R[i - 1]))
           /\ o = (IF n = 0 THEN FirstOffset ELSE End(R[n]))
           /\ \A i \in 1..n :
                 /\ R[i].whole /\ R[i].package = pkg
                 /\ End(R[i]) <= o
                 /\ R[i] \in records /\ \A x \in records : x.offset = R[i].offset => x = R[i]
           /\ \A image \in images : Size[pkg][image] > 0 => \E i \in 1..n : R[i].image = image
    BY DEF Laid
  <1>2. /\ new \in SUBSET ImageRecord /\ r \in new
        /\ \A x \in new : x.offset = o => x = r
        /\ \A x \in records : End(x) <= o => x \in new
        /\ \A x \in new : \/ x = r \/ x \in records
                          \/ \E y \in records : y.offset = x.offset /\ o < End(y)
    BY Overwritten
  <1>3. \A x \in ImageRecord : x.offset \in Nat /\ End(x) \in Nat /\ x.offset < End(x)
    BY DEF ImageRecord, End, FILENAME_MAX_LEN
  <1>4. ASSUME NEW i \in 1..n
        PROVE  R[i] \in new /\ \A x \in new : x.offset = R[i].offset => x = R[i]
    <2>1. /\ R[i] \in ImageRecord /\ R[i] \in records /\ End(R[i]) <= o
          /\ \A x \in records : x.offset = R[i].offset => x = R[i]
      BY <1>1, <1>4
    <2>2. R[i].offset \in Nat /\ End(R[i]) \in Nat /\ R[i].offset < o
      <3>1. R[i].offset \in Nat /\ End(R[i]) \in Nat /\ R[i].offset < End(R[i])
        BY <1>3, <2>1
      <3>2. QED
        BY <2>1, <3>1
    <2>3. ASSUME NEW x \in new, x.offset = R[i].offset PROVE x = R[i]
      <3>1. x # r
        BY <2>2, <2>3
      <3>2. CASE x \in records
        BY <2>1, <2>3, <3>2
      <3>3. ASSUME NEW y \in records, y.offset = x.offset, o < End(y) PROVE FALSE
        <4>1. y = R[i]
          BY <2>1, <2>3, <3>3
        <4>2. QED
          BY <2>1, <2>2, <3>3, <4>1
      <3>4. QED
        BY <1>2, <2>3, <3>1, <3>2, <3>3
    <2>4. QED
      BY <1>2, <2>1, <2>3
  <1>5. Laid(pkg, new, n, o, images)
    BY <1>1, <1>4 DEF Laid
  <1>6. ASSUME r.whole, r.package = pkg
        PROVE  Laid(pkg, new, n + 1, End(r), images \cup {r.image})
    <2>1. PICK Q \in [1..(n + 1) -> ImageRecord] :
             Q = [i \in 1..(n + 1) |-> IF i <= n THEN R[i] ELSE r]
      <3>1. \A i \in 1..(n + 1) : i <= n => i \in 1..n
        OBVIOUS
      <3>2. QED
        BY <3>1
    <2>2. /\ \A i \in 1..n : Q[i] = R[i]
          /\ Q[n + 1] = r
      <3>1. n + 1 \in 1..(n + 1) /\ ~(n + 1 <= n) /\ \A i \in 1..n : i \in 1..(n + 1) /\ i <= n
        OBVIOUS
      <3>2. QED
        BY <2>1, <3>1
    <2>3. End(r) \in Nat /\ o < End(r)
      BY <1>3
    <2>4. ASSUME NEW i \in 1..(n + 1)
          PROVE  Q[i].offset = (IF i = 1 THEN FirstOffset ELSE End(Q[i - 1]))
      <3>1. CASE i \in 1..n
        <4>1. i = 1 \/ i - 1 \in 1..n
          BY <3>1
        <4>2. QED
          BY <1>1, <2>2, <3>1, <4>1
      <3>2. CASE i = n + 1
        <4>1. CASE n = 0
          BY <1>1, <2>2, <3>2, <4>1
        <4>2. CASE n # 0
          <5>1. i # 1 /\ i - 1 = n /\ n \in 1..n
            BY <3>2, <4>2
          <5>2. QED
            BY <1>1, <2>2, <3>2, <4>2, <5>1
        <4>3. QED
          BY <4>1, <4>2
      <3>3. QED
        BY <3>1, <3>2
    <2>5. n + 1 # 0 /\ End(r) = End(Q[n + 1])
      BY <2>2
    <2>6. ASSUME NEW i \in 1..(n + 1)
          PROVE  /\ Q[i].whole /\ Q[i].package = pkg
                 /\ End(Q[i]) <= End(r)
                 /\ Q[i] \in new /\ \A x \in new : x.offset = Q[i].offset => x = Q[i]
      <3>1. CASE i \in 1..n
        <4>1. Q[i] = R[i] /\ R[i] \in ImageRecord
          BY <2>2, <3>1
        <4>2. End(R[i]) \in Nat /\ End(R[i]) <= o
          BY <1>1, <1>3, <3>1, <4>1
        <4>3. End(Q[i]) <= End(r)
          BY <2>3, <4>1, <4>2
        <4>4. QED
          BY <1>1, <1>4, <3>1, <4>1, <4>3
      <3>2. CASE i = n + 1
        <4>1. Q[i] = r
          BY <2>2, <3>2
        <4>2. QED
          BY <1>2, <1>6, <2>3, <4>1
      <3>3. QED
        BY <3>1, <3>2
    <2>7. ASSUME NEW image \in images \cup {r.image}, Size[pkg][image] > 0
          PROVE  \E i \in 1..(n + 1) : Q[i].image = image
      <3>1. CASE image = r.image
        <4>1. n + 1 \in 1..(n + 1)
          OBVIOUS
        <4>2. QED
          BY <2>2, <3>1, <4>1
      <3>2. CASE image \in images
        <4>1. PICK i \in 1..n : R[i].image = image
          BY <1>1, <2>7, <3>2
        <4>2. i \in 1..(n + 1)
          OBVIOUS
        <4>3. QED
          BY <2>2, <4>1, <4>2
      <3>3. QED
        BY <2>7, <3>1, <3>2
    <2>8. QED
      BY <2>4, <2>5, <2>6, <2>7 DEF Laid
  <1>7. QED
    BY <1>5, <1>6

\* An image of no size need not be there.
LEMMA LaidMore ==
    ASSUME NEW pkg, NEW records, NEW n, NEW o, NEW images, Laid(pkg, records, n, o, images),
           NEW image, ~(Size[pkg][image] > 0)
    PROVE  Laid(pkg, records, n, o, images \cup {image})
  <1>1. PICK R \in [1..n -> ImageRecord] :
           /\ \A i \in 1..n : R[i].offset = (IF i = 1 THEN FirstOffset ELSE End(R[i - 1]))
           /\ o = (IF n = 0 THEN FirstOffset ELSE End(R[n]))
           /\ \A i \in 1..n :
                 /\ R[i].whole /\ R[i].package = pkg
                 /\ End(R[i]) <= o
                 /\ R[i] \in records /\ \A x \in records : x.offset = R[i].offset => x = R[i]
           /\ \A q \in images : Size[pkg][q] > 0 => \E i \in 1..n : R[i].image = q
    BY DEF Laid
  <1>2. \A q \in images \cup {image} : Size[pkg][q] > 0 => \E i \in 1..n : R[i].image = q
    BY <1>1
  <1>3. QED
    BY <1>1, <1>2 DEF Laid

\* A reader from the header on finds the image of pkg.
Reads(pkg, c, image) == \E r \in Found(c) : r.image = image /\ r.package = pkg /\ r.whole

\* A header with their number announces them.
LEMMA LaidSeen ==
    ASSUME single, NEW pkg \in Packages, NEW c \in Contents, NEW o, NEW images,
           Laid(pkg, c.records, c.num, o, images)
    PROVE  /\ Sound(c)
           /\ \A image \in images : Size[pkg][image] > 0 => Reads(pkg, c, image)
  <1>1. PICK n \in 0..6 : n = c.num /\ n = Announced(c)
    BY Bounds DEF Announced, Contents
  <1>2. PICK at :
           /\ at = [i \in 1..n |-> IF i = 1 THEN 8 ELSE After(c.records, at[i - 1])]
           /\ Offsets(c) = {at[i] : i \in 1..n}
    BY <1>1, OffsetsAre
  <1>3. PICK R \in [1..n -> ImageRecord] :
           /\ \A i \in 1..n : R[i].offset = (IF i = 1 THEN FirstOffset ELSE End(R[i - 1]))
           /\ \A i \in 1..n :
                 /\ R[i].whole /\ R[i].package = pkg
                 /\ R[i] \in c.records /\ \A x \in c.records : x.offset = R[i].offset => x = R[i]
           /\ \A image \in images : Size[pkg][image] > 0 => \E i \in 1..n : R[i].image = image
    BY <1>1 DEF Laid
  <1>4. ASSUME NEW i \in 1..n PROVE After(c.records, R[i].offset) = End(R[i])
    <2>1. {x \in c.records : x.offset = R[i].offset} = {R[i]}
      BY <1>3
    <2>2. QED
      BY <2>1 DEF After
  <1>5. ASSUME NEW i \in 1..n, i # 1, at[i - 1] = R[i - 1].offset PROVE at[i] = R[i].offset
    <2>1. i - 1 \in 1..n
      BY <1>5
    <2>2. at[i] = After(c.records, at[i - 1])
      BY <1>2, <1>5
    <2>3. QED
      BY <1>3, <1>4, <1>5, <2>1, <2>2
  <1>6. ASSUME 1 \in 1..n PROVE at[1] = R[1].offset
    BY <1>2, <1>3, <1>6 DEF FirstOffset
  <1>7. \A i \in 1..n : at[i] = R[i].offset
    <2>1. 2 - 1 = 1 /\ 3 - 1 = 2 /\ 4 - 1 = 3 /\ 5 - 1 = 4 /\ 6 - 1 = 5
      OBVIOUS
    <2>2. /\ 2 \in 1..n => 1 \in 1..n
          /\ 3 \in 1..n => 2 \in 1..n
          /\ 4 \in 1..n => 3 \in 1..n
          /\ 5 \in 1..n => 4 \in 1..n
          /\ 6 \in 1..n => 5 \in 1..n
      OBVIOUS
    <2>3. 2 \in 1..n => at[2] = R[2].offset
      BY <1>5, <1>6, <2>1, <2>2
    <2>4. 3 \in 1..n => at[3] = R[3].offset
      BY <1>5, <2>1, <2>2, <2>3
    <2>5. 4 \in 1..n => at[4] = R[4].offset
      BY <1>5, <2>1, <2>2, <2>4
    <2>6. 5 \in 1..n => at[5] = R[5].offset
      BY <1>5, <2>1, <2>2, <2>5
    <2>7. 6 \in 1..n => at[6] = R[6].offset
      BY <1>5, <2>1, <2>2, <2>6
    <2>8. \A i \in 1..n : i = 1 \/ i = 2 \/ i = 3 \/ i = 4 \/ i = 5 \/ i = 6
      OBVIOUS
    <2>9. QED
      BY <1>6, <2>3, <2>4, <2>5, <2>6, <2>7, <2>8
  <1>8. Offsets(c) = {R[i].offset : i \in 1..n}
    BY <1>2, <1>7
  <1>9. Found(c) = {R[i] : i \in 1..n}
    <2>1. ASSUME NEW r \in Found(c) PROVE r \in {R[i] : i \in 1..n}
      <3>1. r \in c.records /\ r.offset \in Offsets(c)
        BY DEF Found
      <3>2. PICK i \in 1..n : r.offset = R[i].offset
        BY <1>8, <3>1
      <3>3. QED
        BY <1>3, <3>1, <3>2
    <2>2. ASSUME NEW i \in 1..n PROVE R[i] \in Found(c)
      <3>1. R[i].offset \in Offsets(c)
        BY <1>8
      <3>2. QED
        BY <1>3, <3>1 DEF Found
    <2>3. QED
      BY <2>1, <2>2
  <1>10. Sound(c)
    <2>1. {r.offset : r \in Found(c)} = {R[i].offset : i \in 1..n}
      BY <1>9
    <2>2. \A r \in Found(c) : r.whole /\ r.package = pkg
      BY <1>3, <1>9
    <2>3. QED
      BY <1>8, <2>1, <2>2 DEF Sound
  <1>11. ASSUME NEW image \in images, Size[pkg][image] > 0
         PROVE  Reads(pkg, c, image)
    <2>1. PICK i \in 1..n : R[i].image = image
      BY <1>3, <1>11
    <2>2. QED
      BY <1>3, <1>9, <2>1 DEF Reads
  <1>12. QED
    BY <1>10, <1>11

\* The commands s, which go on with a bota without the magic, write n images, the
\* next one would be at o; among them are these images.
Lays(pkg, s, n, o, images) ==
    /\ \A p \in Partitions \ {"bota"} : \A c \in Contents : Leads(pkg, p, s, c, c)
    /\ \A c \in Contents :
          c.magic = FALSE /\ c.num = 0 =>
             \E d \in Contents :
                /\ Leads(pkg, "bota", s, c, d)
                /\ d.magic = FALSE /\ d.num = 0 /\ Laid(pkg, d.records, n, o, images)

LEMMA LaysStep ==
    ASSUME single, NEW pkg \in Packages, NEW i \in 1..5, NEW l, LoopOK(pkg, l, i - 1), NEW images,
           Lays(pkg, l.commands, l.num, l.offset, images), NEW m, m = LoopStep(pkg, l, i)
    PROVE  Lays(pkg, m.commands, m.num, m.offset, images \cup {SingleNames[i]})
  <1>1. PICK image \in Images : image = SingleNames[i]
    BY DEF SingleNames, BotaImages, Images
  <1>2. l.offset \in Nat /\ l.num \in Nat /\ l.commands \in Seq(CommandOf(pkg, TRUE))
    <2>1. l.offset \in Nat /\ l.num \in 0..(i - 1) /\ l.commands \in Seq(CommandOf(pkg, TRUE))
      BY DEF LoopOK
    <2>2. l.num \in Nat
      BY <2>1
    <2>3. QED
      BY <2>1, <2>2
  <1>3. CASE Size[pkg][image] = Absent
    <2>1. ~(Size[pkg][image] > 0) /\ Returned(pkg, image) = 0 /\ ~(0 > 0)
      BY <1>3 DEF Absent, Returned
    <2>2. AddFirmwareImage(pkg, image, "bota", FALSE, l.offset) = <<>>
      BY <1>3 DEF AddFirmwareImage
    <2>3. l.commands \o <<>> = l.commands
      BY <1>2, ConcatEmptySeq
    <2>4. m.offset = l.offset /\ m.num = l.num /\ m.commands = l.commands
      BY <1>1, <2>1, <2>2, <2>3 DEF LoopStep
    <2>5. \A records : Laid(pkg, records, l.num, l.offset, images)
                          => Laid(pkg, records, l.num, l.offset, images \cup {image})
      BY <2>1, LaidMore
    <2>6. QED
      BY <1>1, <2>4, <2>5 DEF Lays
  <1>4. CASE Size[pkg][image] # Absent
    <2>1. PICK size \in Nat : size = Size[pkg][image] /\ size = Returned(pkg, image)
      BY <1>4, Sizes DEF Returned
    <2>2. PICK k : k = WriteData(image, "bota", l.offset)
      OBVIOUS
    <2>3. k.op = "write_data_bt" /\ k.dest = "bota" /\ k.image = image /\ k.offset = l.offset
      BY <2>2 DEF WriteData
    <2>4. AddFirmwareImage(pkg, image, "bota", FALSE, l.offset) = <<k>>
      BY <1>4, <2>2 DEF AddFirmwareImage
    <2>5. /\ m.offset = (IF size > 0 THEN l.offset + size + 36 ELSE l.offset)
          /\ m.num = (IF size > 0 THEN l.num + 1 ELSE l.num)
          /\ m.commands = l.commands \o <<k>>
      BY <1>1, <2>1, <2>4 DEF LoopStep, Advance
    <2>6. PICK S : l.commands \in Seq(S) /\ <<k>> \in Seq(S)
      <3>1. CommandOf(pkg, TRUE) \subseteq CommandOf(pkg, TRUE) \cup {k}
        OBVIOUS
      <3>2. l.commands \in Seq(CommandOf(pkg, TRUE) \cup {k})
        BY <1>2, <3>1, SeqMonotonic
      <3>3. <<k>> \in Seq(CommandOf(pkg, TRUE) \cup {k})
        BY Single
      <3>4. QED
        BY <3>2, <3>3
    <2>7. PICK r \in ImageRecord :
             /\ r = RecordOf(pkg, image, l.offset) /\ r.image = image /\ r.package = pkg
             /\ r.offset = l.offset /\ r.size = size /\ r.whole
      <3>1. PICK o \in Nat : o = l.offset
        BY <1>2
      <3>2. PICK r \in ImageRecord :
               /\ r = RecordOf(pkg, image, o) /\ r.image = image /\ r.package = pkg
               /\ r.offset = o /\ r.size = Size[pkg][image] /\ r.whole
        BY <1>4, RecordOfIs
      <3>3. QED
        BY <2>1, <3>1, <3>2
    <2>8. End(r) = l.offset + size + 36
      BY <1>2, <2>7 DEF End, FILENAME_MAX_LEN
    <2>9. ASSUME NEW p \in Partitions \ {"bota"}, NEW c \in Contents
          PROVE  Leads(pkg, p, m.commands, c, c)
      <3>1. Takes(pkg, p, k, c, c)
        BY <2>3 DEF Takes
      <3>2. Leads(pkg, p, <<k>>, c, c)
        BY <3>1, LeadsOne
      <3>3. Leads(pkg, p, l.commands, c, c)
        BY DEF Lays
      <3>4. QED
        BY <2>5, <2>6, <3>2, <3>3, LeadsJoined
    <2>10. ASSUME NEW c \in Contents, c.magic = FALSE, c.num = 0
           PROVE  \E e \in Contents :
                     /\ Leads(pkg, "bota", m.commands, c, e)
                     /\ e.magic = FALSE /\ e.num = 0
                     /\ Laid(pkg, e.records, m.num, m.offset, images \cup {image})
      <3>1. PICK d \in Contents :
               /\ Leads(pkg, "bota", l.commands, c, d)
               /\ d.magic = FALSE /\ d.num = 0 /\ Laid(pkg, d.records, l.num, l.offset, images)
        BY <2>10 DEF Lays
      <3>2. PICK new : new = Overwrite(d.records, r)
        OBVIOUS
      <3>3. d.records \in SUBSET ImageRecord
        BY DEF Contents
      <3>4. new \in SUBSET ImageRecord
        BY <3>2, <3>3, OverwriteIs
      <3>5. PICK e : e = [d EXCEPT !.records = new]
        OBVIOUS
      <3>6. e \in Contents /\ e.records = new /\ e.magic = FALSE /\ e.num = 0
        BY <3>1, <3>4, <3>5 DEF Contents
      <3>7. Takes(pkg, "bota", k, d, e)
        <4>1. Effect(pkg, k, d) = e
          BY <2>3, <2>7, <3>2, <3>5 DEF Effect
        <4>2. Safe(k, d, e)
          BY <2>3, <3>1 DEF Safe
        <4>3. QED
          BY <2>3, <4>1, <4>2 DEF Takes
      <3>8. Leads(pkg, "bota", <<k>>, d, e)
        BY <3>6, <3>7, LeadsOne
      <3>9. Leads(pkg, "bota", m.commands, c, e)
        BY <2>5, <2>6, <3>1, <3>8, LeadsJoined
      <3>10. /\ Laid(pkg, new, l.num, l.offset, images)
             /\ Laid(pkg, new, l.num + 1, End(r), images \cup {image})
        <4>1. PICK n \in Nat, o \in Nat : n = l.num /\ o = l.offset
          BY <1>2
        <4>2. Laid(pkg, d.records, n, o, images) /\ r.offset = o
          BY <2>7, <3>1, <4>1
        <4>3. Laid(pkg, new, n, o, images) /\ Laid(pkg, new, n + 1, End(r), images \cup {r.image})
          BY <2>7, <3>2, <3>3, <4>2, LaidWritten
        <4>4. QED
          BY <2>7, <4>1, <4>3
      <3>11. CASE size > 0
        <4>1. m.num = l.num + 1 /\ m.offset = End(r)
          BY <2>5, <2>8, <3>11
        <4>2. QED
          BY <3>6, <3>9, <3>10, <4>1
      <3>12. CASE ~(size > 0)
        <4>1. m.num = l.num /\ m.offset = l.offset
          BY <2>5, <3>12
        <4>2. Laid(pkg, new, l.num, l.offset, images \cup {image})
          BY <2>1, <3>10, <3>12, LaidMore
        <4>3. QED
          BY <3>6, <3>9, <4>1, <4>2
      <3>13. QED
        BY <3>11, <3>12
    <2>11. QED
      BY <1>1, <2>9, <2>10 DEF Lays
  <1>5. QED
    BY <1>3, <1>4

LEMMA LoopsLay ==
    ASSUME single, NEW pkg \in Packages
    PROVE  \E l : /\ l = SingleBotaLoop(pkg) /\ LoopOK(pkg, l, 5)
                  /\ Lays(pkg, l.commands, l.num, l.offset, BotaImages)
  <1>1. PICK l0, l1, l2, l3, l4, l5 :
           /\ l0 = Loop0 /\ l1 = Loop1(pkg) /\ l2 = Loop2(pkg) /\ l3 = Loop3(pkg)
           /\ l4 = Loop4(pkg) /\ l5 = Loop5(pkg)
    OBVIOUS
  <1>2. /\ l1 = LoopStep(pkg, l0, 1) /\ l2 = LoopStep(pkg, l1, 2) /\ l3 = LoopStep(pkg, l2, 3)
        /\ l4 = LoopStep(pkg, l3, 4) /\ l5 = LoopStep(pkg, l4, 5)
    BY <1>1 DEF Loop1, Loop2, Loop3, Loop4, Loop5
  <1>3. /\ 1 - 1 = 0 /\ 2 - 1 = 1 /\ 3 - 1 = 2 /\ 4 - 1 = 3 /\ 5 - 1 = 4
        /\ 1 \in 1..5 /\ 2 \in 1..5 /\ 3 \in 1..5 /\ 4 \in 1..5 /\ 5 \in 1..5
    OBVIOUS
  <1>4. /\ LoopOK(pkg, l0, 0) /\ LoopOK(pkg, l1, 1) /\ LoopOK(pkg, l2, 2)
        /\ LoopOK(pkg, l3, 3) /\ LoopOK(pkg, l4, 4) /\ LoopOK(pkg, l5, 5)
    BY <1>1, LoopsOK
  <1>5. Lays(pkg, l0.commands, l0.num, l0.offset, {})
    <2>1. l0.commands = <<>> /\ l0.num = 0 /\ l0.offset = FirstOffset
      BY <1>1 DEF Loop0
    <2>2. \A p : \A c \in Contents : Leads(pkg, p, <<>>, c, c)
      BY LeadsNothing
    <2>3. ASSUME NEW records PROVE Laid(pkg, records, 0, FirstOffset, {})
      <3>1. PICK R \in [1..0 -> ImageRecord] : TRUE
        <4>1. [i \in 1..0 |-> i] \in [1..0 -> ImageRecord]
          OBVIOUS
        <4>2. QED
          BY <4>1
      <3>2. \A i \in 1..0 : FALSE
        OBVIOUS
      <3>3. QED
        BY <3>1, <3>2 DEF Laid
    <2>4. QED
      BY <2>1, <2>2, <2>3 DEF Lays
  <1> DEFINE I1 == {} \cup {SingleNames[1]}
             I2 == I1 \cup {SingleNames[2]}
             I3 == I2 \cup {SingleNames[3]}
             I4 == I3 \cup {SingleNames[4]}
             I5 == I4 \cup {SingleNames[5]}
  <1>6. I5 = BotaImages
    BY DEF SingleNames, BotaImages
  <1>7. Lays(pkg, l1.commands, l1.num, l1.offset, I1)
    BY <1>2, <1>3, <1>4, <1>5, LaysStep
  <1> HIDE DEF I1
  <1>8. Lays(pkg, l2.commands, l2.num, l2.offset, I2)
    BY <1>2, <1>3, <1>4, <1>7, LaysStep
  <1> HIDE DEF I2
  <1>9. Lays(pkg, l3.commands, l3.num, l3.offset, I3)
    BY <1>2, <1>3, <1>4, <1>8, LaysStep
  <1> HIDE DEF I3
  <1>10. Lays(pkg, l4.commands, l4.num, l4.offset, I4)
    BY <1>2, <1>3, <1>4, <1>9, LaysStep
  <1> HIDE DEF I4
  <1>11. Lays(pkg, l5.commands, l5.num, l5.offset, I5)
    BY <1>2, <1>3, <1>4, <1>10, LaysStep
  <1> HIDE DEF I5
  <1>12. QED
    BY <1>1, <1>4, <1>6, <1>11, LoopIs

\* The header is cleared, the images are written, and the header announces them.
LEMMA FillsOneBota ==
    ASSUME single, NEW pkg \in Packages, NEW p \in Partitions, NEW before,
           \A i \in before : Home(i) # "bota"
    PROVE  Fills(pkg, p, Bootloader(pkg), before, before \cup BotaImages)
  <1>1. PICK l : /\ l = SingleBotaLoop(pkg) /\ LoopOK(pkg, l, 5)
                 /\ Lays(pkg, l.commands, l.num, l.offset, BotaImages)
    BY LoopsLay
  <1>2. PICK n \in 0..5 : n = l.num
    BY <1>1 DEF LoopOK
  <1>3. PICK k, m : k = Mark("bota", 0, FALSE) /\ m = Mark("bota", n, TRUE)
    OBVIOUS
  <1>4. /\ k.op = "mark_header_bt" /\ k.dest = "bota" /\ k.num = 0 /\ k.magic = FALSE
        /\ m.op = "mark_header_bt" /\ m.dest = "bota" /\ m.num = n /\ m.magic = TRUE
    BY <1>3 DEF Mark
  <1> DEFINE S == CommandOf(pkg, TRUE)
  <1>5. Bootloader(pkg) = (<<k>> \o l.commands) \o <<m>>
    BY <1>1, <1>2, <1>3 DEF Bootloader
  <1>6. k \in S /\ m \in S /\ l.commands \in Seq(S)
    <2>1. "bota" \in Botas /\ 0 \in 0..5
      BY DEF Botas
    <2>2. QED
      BY <1>1, <1>2, <1>3, <2>1, MarkIs DEF LoopOK
  <1> HIDE DEF S
  <1>7. <<k>> \in Seq(S) /\ <<m>> \in Seq(S) /\ <<k>> \o l.commands \in Seq(S)
    BY <1>6, Single, Joined
  <1>8. \A c, d, e, f \in Contents :
           Leads(pkg, p, <<k>>, c, d) /\ Leads(pkg, p, l.commands, d, e) /\ Leads(pkg, p, <<m>>, e, f)
              => Leads(pkg, p, Bootloader(pkg), c, f)
    <2>1. ASSUME NEW c \in Contents, NEW d \in Contents, NEW e \in Contents, NEW f \in Contents,
                 Leads(pkg, p, <<k>>, c, d), Leads(pkg, p, l.commands, d, e),
                 Leads(pkg, p, <<m>>, e, f)
          PROVE  Leads(pkg, p, Bootloader(pkg), c, f)
      <3>1. Leads(pkg, p, <<k>> \o l.commands, c, e)
        BY <1>6, <1>7, <2>1, LeadsJoined
      <3>2. QED
        BY <1>5, <1>7, <2>1, <3>1, LeadsJoined
    <2>2. QED
      BY <2>1
  <1>9. SUFFICES ASSUME NEW c \in Contents, Complete(pkg, p, c, before)
                 PROVE  \E d \in Contents :
                           /\ Leads(pkg, p, Bootloader(pkg), c, d)
                           /\ Complete(pkg, p, d, before \cup BotaImages)
    BY DEF Fills
  <1>10. CASE p = "bota"
    <2>1. PICK d : d = [c EXCEPT !.magic = FALSE, !.num = 0]
      OBVIOUS
    <2>2. d \in Contents /\ d.magic = FALSE /\ d.num = 0
      <3>1. 0 \in 0..Garbage
        BY Bounds
      <3>2. QED
        BY <2>1, <3>1 DEF Contents
    <2>3. Leads(pkg, p, <<k>>, c, d)
      <3>1. Effect(pkg, k, c) = d
        BY <1>4, <2>1 DEF Effect
      <3>2. [c EXCEPT !.magic = FALSE].magic = FALSE
        BY DEF Contents
      <3>3. Safe(k, c, d)
        BY <1>4, <2>2, <3>2 DEF Safe, Usable
      <3>4. Takes(pkg, p, k, c, d)
        BY <1>4, <1>10, <3>1, <3>3 DEF Takes
      <3>5. QED
        BY <2>2, <3>4, LeadsOne
    <2>4. PICK e \in Contents :
             /\ Leads(pkg, p, l.commands, d, e)
             /\ e.magic = FALSE /\ e.num = 0 /\ Laid(pkg, e.records, n, l.offset, BotaImages)
      BY <1>1, <1>2, <1>10, <2>2 DEF Lays
    <2>5. PICK f, g : f = [e EXCEPT !.magic = TRUE, !.num = n] /\ g = [e EXCEPT !.magic = TRUE]
      OBVIOUS
    <2>6. /\ f \in Contents /\ f.magic = TRUE /\ f.num = n /\ f.records = e.records
          /\ g \in Contents /\ g.num = 0
      <3>1. n \in 0..Garbage
        BY Bounds
      <3>2. f \in Contents /\ f.magic = TRUE /\ f.num = n /\ f.records = e.records
        BY <2>5, <3>1 DEF Contents
      <3>3. g \in Contents /\ g.num = 0
        BY <2>4, <2>5 DEF Contents
      <3>4. QED
        BY <3>2, <3>3
    <2>7. /\ Sound(f)
          /\ \A image \in BotaImages : Size[pkg][image] > 0 => Reads(pkg, f, image)
      <3>1. PICK o : o = l.offset
        OBVIOUS
      <3>2. Laid(pkg, f.records, f.num, o, BotaImages)
        BY <2>4, <2>6, <3>1
      <3>3. f \in Contents
        BY <2>6
      <3>4. QED
        BY <3>2, <3>3, LaidSeen
    <2>8. Sound(g)
      <3>1. Laid(pkg, g.records, g.num, FirstOffset, {})
        <4>1. [i \in 1..0 |-> i] \in [1..0 -> ImageRecord] /\ \A i \in 1..0 : FALSE
          OBVIOUS
        <4>2. QED
          BY <2>6, <4>1 DEF Laid
      <3>2. QED
        BY <2>6, <3>1, LaidSeen
    <2>9. Leads(pkg, p, <<m>>, e, f)
      <3>1. Effect(pkg, m, e) = f
        BY <1>4, <2>5 DEF Effect
      <3>2. Safe(m, e, f)
        BY <1>4, <2>5, <2>7, <2>8 DEF Safe, Usable
      <3>3. Takes(pkg, p, m, e, f)
        BY <1>4, <1>10, <3>1, <3>2 DEF Takes
      <3>4. QED
        BY <2>6, <3>3, LeadsOne
    <2>10. Leads(pkg, p, Bootloader(pkg), c, f)
      BY <1>8, <2>2, <2>3, <2>4, <2>6, <2>9
    <2>11. Complete(pkg, p, f, before \cup BotaImages)
      <3>1. ASSUME NEW image \in BotaImages, Size[pkg][image] > 0 PROVE Has(pkg, p, f, image)
        <4>1. p \in Botas
          BY <1>10 DEF Botas
        <4>2. QED
          BY <2>6, <2>7, <3>1, <4>1 DEF Has, Reads
      <3>2. QED
        BY <1>10, <3>1 DEF Complete
    <2>12. QED
      BY <2>6, <2>10, <2>11
  <1>11. CASE p # "bota"
    <2>1. Takes(pkg, p, k, c, c) /\ Takes(pkg, p, m, c, c)
      BY <1>4, <1>11 DEF Takes
    <2>2. Leads(pkg, p, <<k>>, c, c) /\ Leads(pkg, p, <<m>>, c, c)
      BY <2>1, LeadsOne
    <2>3. Leads(pkg, p, l.commands, c, c)
      BY <1>1, <1>11 DEF Lays
    <2>4. Leads(pkg, p, Bootloader(pkg), c, c)
      BY <1>8, <2>2, <2>3
    <2>5. Complete(pkg, p, c, before \cup BotaImages)
      BY <1>9, <1>11, HomeInOneBota DEF Complete
    <2>6. QED
      BY <2>4, <2>5
  <1>12. QED
    BY <1>10, <1>11

LEMMA FillsBootloader ==
    ASSUME single \in BOOLEAN, NEW pkg \in Packages, NEW p \in Partitions
    PROVE  Fills(pkg, p, Bootloader(pkg), SystemImages, SystemImages \cup BotaImages)
  <1>1. CASE single
    <2>1. \A i \in SystemImages : Home(i) # "bota"
      BY HomeOfSystem DEF SystemImages
    <2>2. QED
      BY <1>1, <2>1, FillsOneBota
  <1>2. CASE ~single
    <2> DEFINE S == CommandOf(pkg, TRUE)
               a == AddFirmwareImage(pkg, "sboot", "bota0", FALSE, FirstOffset)
               b == AddFirmwareImage(pkg, "cm", "bota1", FALSE, FirstOffset)
               c == AddFirmwareImage(pkg, "up_param", "bota2", FALSE, FirstOffset)
               d == AddFirmwareImage(pkg, "keystorage", "keystorage", TRUE, FirstOffset)
               e == AddFirmwareImage(pkg, "uh", "uh", TRUE, FirstOffset)
               I1 == SystemImages \cup {"sboot"}
               I2 == I1 \cup {"cm"}
               I3 == I2 \cup {"up_param"}
               I4 == I3 \cup {"keystorage"}
               I5 == I4 \cup {"uh"}
    <2>1. /\ "bota0" \in Botas /\ "bota1" \in Botas /\ "bota2" \in Botas
          /\ "keystorage" \in SimplePartitions /\ "uh" \in SimplePartitions
          /\ "sboot" \in BotaImages /\ "cm" \in BotaImages /\ "up_param" \in BotaImages
          /\ "keystorage" \in BotaImages /\ "uh" \in BotaImages
          /\ "keystorage" \in Images /\ "uh" \in Images
      BY <1>2 DEF Botas, SimplePartitions, BotaImages, Images
    <2>2. FirstOffset \in Nat /\ FirstOffset >= FirstOffset
      BY DEF FirstOffset
    <2>3. a \in Seq(S) /\ b \in Seq(S) /\ c \in Seq(S)
      BY <2>1, <2>2, AddBota
    <2>4. d \in Seq(S) /\ e \in Seq(S)
      BY <2>1, AddSimple
    <2>5. Bootloader(pkg) = (((a \o b) \o c) \o d) \o e
      BY <1>2 DEF Bootloader
    <2>6. /\ Home("sboot") = "bota0" /\ Home("cm") = "bota1" /\ Home("up_param") = "bota2"
          /\ Home("keystorage") = "keystorage" /\ Home("uh") = "uh"
          /\ Home("dtb") = "dtb" /\ Home("dtbo") = "dtbo" /\ Home("vbmeta") = "vbmeta"
      BY <1>2, HomeInManyBotas, HomeOfSystem
    <2>7. Fills(pkg, p, a, SystemImages, I1)
      <3>1. \A i \in SystemImages : Home(i) # "bota0"
        BY <2>6 DEF SystemImages
      <3>2. QED
        BY <1>2, <2>1, <2>6, <3>1, FillsBota
    <2>8. Fills(pkg, p, b, I1, I2)
      <3>1. \A i \in I1 : Home(i) # "bota1"
        BY <2>6 DEF SystemImages
      <3> HIDE DEF I1
      <3>2. QED
        BY <1>2, <2>1, <2>6, <3>1, FillsBota
    <2>9. Fills(pkg, p, c, I2, I3)
      <3>1. \A i \in I2 : Home(i) # "bota2"
        BY <2>6 DEF SystemImages
      <3> HIDE DEF I2
      <3>2. QED
        BY <1>2, <2>1, <2>6, <3>1, FillsBota
    <2>10. Fills(pkg, p, d, I3, I4)
      <3>1. \A i \in I3 : Home(i) # "keystorage"
        BY <2>6 DEF SystemImages
      <3> HIDE DEF I3
      <3>2. QED
        BY <2>1, <2>6, <3>1, FillsSimple
    <2>11. Fills(pkg, p, e, I4, I5)
      <3>1. \A i \in I4 : Home(i) # "uh"
        BY <2>6 DEF SystemImages
      <3> HIDE DEF I4
      <3>2. QED
        BY <2>1, <2>6, <3>1, FillsSimple
    <2>12. I5 = SystemImages \cup BotaImages
      BY DEF SystemImages, BotaImages
    <2> HIDE DEF a, b, c, d, e, S, I1, I2, I3, I4, I5
    <2>13. a \o b \in Seq(S)
      BY <2>3, Joined
    <2>14. (a \o b) \o c \in Seq(S)
      BY <2>3, <2>13, Joined
    <2>15. ((a \o b) \o c) \o d \in Seq(S)
      BY <2>4, <2>14, Joined
    <2>16. Fills(pkg, p, a \o b, SystemImages, I2)
      BY <2>3, <2>7, <2>8, FillsJoined
    <2>17. Fills(pkg, p, (a \o b) \o c, SystemImages, I3)
      BY <2>3, <2>9, <2>13, <2>16, FillsJoined
    <2>18. Fills(pkg, p, ((a \o b) \o c) \o d, SystemImages, I4)
      BY <2>4, <2>10, <2>14, <2>17, FillsJoined
    <2>19. Fills(pkg, p, (((a \o b) \o c) \o d) \o e, SystemImages, I5)
      BY <2>4, <2>11, <2>15, <2>18, FillsJoined
    <2>20. QED
      BY <2>5, <2>12, <2>19
  <1>3. QED
    BY <1>1, <1>2

LEMMA FillsFirmware ==
    ASSUME single \in BOOLEAN, NEW pkg \in Packages, NEW p \in Partitions
    PROVE  Fills(pkg, p, Firmware(pkg), SystemImages, Named)
  <1> DEFINE S == CommandOf(pkg, TRUE)
             a == Bootloader(pkg)
             b == AddFirmwareImage(pkg, "modem", "radio", TRUE, FirstOffset)
             c == AddFirmwareImage(pkg, "modem_5g", "radio2", TRUE, FirstOffset)
             d == AddFirmwareImage(pkg, "modem_debug", "cp_debug", TRUE, FirstOffset)
             e == AddFirmwareImage(pkg, "modem_debug_5g", "cp2_debug", TRUE, FirstOffset)
             I1 == SystemImages \cup BotaImages
             I2 == I1 \cup {"modem"}
             I3 == I2 \cup {"modem_5g"}
             I4 == I3 \cup {"modem_debug"}
             I5 == I4 \cup {"modem_debug_5g"}
  <1>1. /\ {"radio", "radio2", "cp_debug", "cp2_debug"} \subseteq SimplePartitions
        /\ {"modem", "modem_5g", "modem_debug", "modem_debug_5g"} \subseteq Images
    BY DEF SimplePartitions, Images, Modems
  <1>2. a \in Seq(S) /\ b \in Seq(S) /\ c \in Seq(S) /\ d \in Seq(S) /\ e \in Seq(S)
    BY <1>1, BootloaderCommands, AddSimple
  <1>3. Firmware(pkg) = (((a \o b) \o c) \o d) \o e
    BY DEF Firmware
  <1>4. /\ Home("modem") = "radio" /\ Home("modem_5g") = "radio2"
        /\ Home("modem_debug") = "cp_debug" /\ Home("modem_debug_5g") = "cp2_debug"
    BY HomeOfModems
  <1>5. \A i \in I1 : Home(i) \notin {"radio", "radio2", "cp_debug", "cp2_debug"}
    <2>1. \A i \in SystemImages : Home(i) \notin {"radio", "radio2", "cp_debug", "cp2_debug"}
      BY HomeOfSystem DEF SystemImages
    <2>2. CASE single
      BY <2>1, <2>2, HomeInOneBota
    <2>3. CASE ~single
      <3>1. \A i \in BotaImages : Home(i) \notin {"radio", "radio2", "cp_debug", "cp2_debug"}
        BY <2>3, HomeInManyBotas DEF BotaImages
      <3>2. QED
        BY <2>1, <3>1
    <2>4. QED
      BY <2>2, <2>3
  <1> HIDE DEF I1
  <1>6. Fills(pkg, p, a, SystemImages, I1)
    BY FillsBootloader DEF I1
  <1>7. Fills(pkg, p, b, I1, I2)
    <2>1. \A i \in I1 : Home(i) # "radio"
      BY <1>5
    <2>2. QED
      BY <1>1, <1>4, <2>1, FillsSimple
  <1>8. Fills(pkg, p, c, I2, I3)
    <2>1. \A i \in I2 : Home(i) # "radio2"
      BY <1>4, <1>5
    <2> HIDE DEF I2
    <2>2. QED
      BY <1>1, <1>4, <2>1, FillsSimple
  <1>9. Fills(pkg, p, d, I3, I4)
    <2>1. \A i \in I3 : Home(i) # "cp_debug"
      BY <1>4, <1>5
    <2> HIDE DEF I3
    <2>2. QED
      BY <1>1, <1>4, <2>1, FillsSimple
  <1>10. Fills(pkg, p, e, I4, I5)
    <2>1. \A i \in I4 : Home(i) # "cp2_debug"
      BY <1>4, <1>5
    <2> HIDE DEF I4
    <2>2. QED
      BY <1>1, <1>4, <2>1, FillsSimple
  <1>11. I5 = Named
    BY DEF I1, SystemImages, BotaImages, Modems, Images, Misnamed, Named
  <1> HIDE DEF a, b, c, d, e, S, I2, I3, I4, I5
  <1>12. a \o b \in Seq(S)
    BY <1>2, Joined
  <1>13. (a \o b) \o c \in Seq(S)
    BY <1>2, <1>12, Joined
  <1>14. ((a \o b) \o c) \o d \in Seq(S)
    BY <1>2, <1>13, Joined
  <1>15. Fills(pkg, p, a \o b, SystemImages, I2)
    BY <1>2, <1>6, <1>7, FillsJoined
  <1>16. Fills(pkg, p, (a \o b) \o c, SystemImages, I3)
    BY <1>2, <1>8, <1>12, <1>15, FillsJoined
  <1>17. Fills(pkg, p, ((a \o b) \o c) \o d, SystemImages, I4)
    BY <1>2, <1>9, <1>13, <1>16, FillsJoined
  <1>18. Fills(pkg, p, (((a \o b) \o c) \o d) \o e, SystemImages, I5)
    BY <1>2, <1>10, <1>14, <1>17, FillsJoined
  <1>19. QED
    BY <1>3, <1>11, <1>18

LEMMA Paired ==
    ASSUME NEW x, NEW y
    PROVE  <<x>> \o <<y>> = <<x, y>>
  <1>1. PICK a, b, s : a = <<x>> /\ b = <<y>> /\ s = a \o b
    OBVIOUS
  <1>2. a \in Seq({x, y}) /\ b \in Seq({x, y}) /\ Len(a) = 1 /\ Len(b) = 1 /\ a[1] = x /\ b[1] = y
    BY <1>1
  <1>3. s \in Seq({x, y}) /\ Len(s) = 1 + 1 /\ s[1] = x /\ s[2] = y
    <2>1. /\ s \in Seq({x, y}) /\ Len(s) = Len(a) + Len(b)
          /\ \A i \in 1..(Len(a) + Len(b)) :
                s[i] = IF i <= Len(a) THEN a[i] ELSE b[i - Len(a)]
      BY <1>1, <1>2, ConcatProperties
    <2>2. 1 \in 1..(1 + 1) /\ 2 \in 1..(1 + 1) /\ 1 <= 1 /\ ~(2 <= 1) /\ 2 - 1 = 1
      OBVIOUS
    <2>3. QED
      BY <1>2, <2>1, <2>2
  <1>4. PICK t : t = <<x, y>>
    OBVIOUS
  <1>5. t \in Seq({x, y}) /\ Len(t) = 2 /\ t[1] = x /\ t[2] = y
    BY <1>4
  <1>6. \A i \in 1..Len(s) : s[i] = t[i]
    <2>1. \A i \in 1..Len(s) : i = 1 \/ i = 2
      BY <1>3
    <2>2. QED
      BY <1>3, <1>5, <2>1
  <1>7. s = t
    <2>1. Len(s) = Len(t)
      BY <1>3, <1>5
    <2>2. QED
      BY <1>3, <1>5, <1>6, <2>1, SeqEqual
  <1>8. QED
    BY <1>1, <1>4, <1>7

\* The script of a chosen package writes all of its images.
LEMMA FillsScript ==
    ASSUME single \in BOOLEAN, NEW pkg \in Packages, Chosen(pkg), NEW p \in Partitions
    PROVE  Fills(pkg, p, OTA_InstallEnd(pkg), {}, Named)
  <1> DEFINE S == CommandOf(pkg, TRUE)
             a == AddFirmwareImage(pkg, "dtb", "dtb", TRUE, FirstOffset)
             b == AddFirmwareImage(pkg, "dtbo", "dtbo", TRUE, FirstOffset)
             c == AddFirmwareImage(pkg, "vbmeta", "vbmeta", TRUE, FirstOffset)
             f == Firmware(pkg)
             I1 == {} \cup {"dtb"}
             I2 == I1 \cup {"dtbo"}
             I3 == I2 \cup {"vbmeta"}
  <1>1. /\ "dtb" \in SimplePartitions /\ "dtbo" \in SimplePartitions /\ "vbmeta" \in SimplePartitions
        /\ "dtb" \in Images /\ "dtbo" \in Images /\ "vbmeta" \in Images
    BY DEF SimplePartitions, Images, SystemImages
  <1>2. a \in Seq(S) /\ b \in Seq(S) /\ c \in Seq(S) /\ f \in Seq(S)
    BY <1>1, FirmwareCommands, AddSimple
  <1>3. OTA_InstallEnd(pkg) = (a \o (b \o c)) \o f
    <2>1. b = <<Extract("dtbo", "dtbo")>> /\ c = <<Extract("vbmeta", "vbmeta")>>
      BY FirmwareAssumption DEF AddFirmwareImage
    <2>2. PICK x, y : x = Extract("dtbo", "dtbo") /\ y = Extract("vbmeta", "vbmeta")
      OBVIOUS
    <2>3. <<x>> \o <<y>> = <<x, y>>
      BY Paired
    <2>4. a = IF Size[pkg]["dtb"] = Absent THEN <<>> ELSE <<Extract("dtb", "dtb")>>
      BY DEF AddFirmwareImage
    <2>5. Supported(pkg)
      BY DEF Chosen
    <2>6. PICK u : u = (a \o (b \o c)) \o f
      OBVIOUS
    <2>7. OTA_InstallEnd(pkg) = u \o <<>>
      <3>1. b \o c = <<Extract("dtbo", "dtbo"), Extract("vbmeta", "vbmeta")>>
        BY <2>1, <2>2, <2>3
      <3> HIDE DEF a, b, c, f
      <3>2. OTA_InstallEnd(pkg) = ((a \o (b \o c)) \o f) \o <<>>
        BY <2>4, <2>5, <3>1 DEF OTA_InstallEnd, f
      <3>3. QED
        BY <2>6, <3>2
    <2> HIDE DEF a, b, c, f, S
    <2>8. b \o c \in Seq(S)
      BY <1>2, Joined
    <2>9. a \o (b \o c) \in Seq(S)
      BY <1>2, <2>8, Joined
    <2>10. u \in Seq(S)
      BY <1>2, <2>6, <2>9, Joined
    <2>11. u \o <<>> = u
      BY <2>10, ConcatEmptySeq
    <2>12. QED
      BY <2>6, <2>7, <2>11
  <1>4. Home("dtb") = "dtb" /\ Home("dtbo") = "dtbo" /\ Home("vbmeta") = "vbmeta"
    BY HomeOfSystem
  <1>5. Fills(pkg, p, a, {}, I1)
    BY <1>1, <1>4, FillsSimple
  <1>6. Fills(pkg, p, b, I1, I2)
    <2>1. \A i \in I1 : Home(i) # "dtbo"
      BY <1>4
    <2> HIDE DEF I1
    <2>2. QED
      BY <1>1, <1>4, <2>1, FillsSimple
  <1>7. Fills(pkg, p, c, I2, I3)
    <2>1. \A i \in I2 : Home(i) # "vbmeta"
      BY <1>4
    <2> HIDE DEF I2
    <2>2. QED
      BY <1>1, <1>4, <2>1, FillsSimple
  <1>8. I3 = SystemImages
    BY DEF SystemImages
  <1>9. Fills(pkg, p, f, I3, Named)
    BY <1>8, FillsFirmware
  <1> HIDE DEF a, b, c, f, S, I1, I2, I3
  <1>10. b \o c \in Seq(S)
    BY <1>2, Joined
  <1>11. a \o (b \o c) \in Seq(S)
    BY <1>2, <1>10, Joined
  <1>12. Fills(pkg, p, b \o c, I1, I3)
    BY <1>2, <1>6, <1>7, FillsJoined
  <1>13. Fills(pkg, p, a \o (b \o c), {}, I3)
    BY <1>2, <1>5, <1>10, <1>12, FillsJoined
  <1>14. Fills(pkg, p, (a \o (b \o c)) \o f, {}, Named)
    BY <1>2, <1>9, <1>11, <1>13, FillsJoined
  <1>15. QED
    BY <1>3, <1>14

-----------------------------------------------------------------------------
(* The invariant of the updates                                            *)

\* The commands s still to be carried out complete the partition.
Planned(pkg, p, s, c) ==
    \E d \in Contents : Leads(pkg, p, s, c, d) /\ Complete(pkg, p, d, Named)

NothingIgnored == ignores = 0 => ignored = {}

ScriptPlanned ==
    status = "runs" /\ chosen =>
        \A p \in Partitions \ ignored : Planned(package, p, script, part[p])

DoneComplete ==
    status = "done" /\ chosen =>
        \A p \in Partitions \ ignored : Complete(package, p, part[p], Named)

PlanInv == FirmwareInv /\ BotasUsable /\ NothingIgnored /\ ScriptPlanned /\ DoneComplete

\* What a reader finds depends on the platform only.
LEMMA SamePlatform ==
    ASSUME UNCHANGED single
    PROVE  /\ \A c : Usable(c)' <=> Usable(c)
           /\ \A pkg, p, c, images : Complete(pkg, p, c, images)' <=> Complete(pkg, p, c, images)
           /\ \A pkg, p, s, c : Planned(pkg, p, s, c)' <=> Planned(pkg, p, s, c)
           /\ Botas' = Botas /\ Partitions' = Partitions
  <1>1. \A c : Found(c)' = Found(c) /\ Offsets(c)' = Offsets(c)
    BY DEF Found, Offsets
  <1>2. \A c : Sound(c)' <=> Sound(c)
    BY <1>1 DEF Sound
  <1>3. Botas' = Botas /\ Partitions' = Partitions
    BY DEF Botas, Partitions, SimplePartitions
  <1>4. \A image : Home(image)' = Home(image)
    BY DEF Home
  <1>5. \A c : Usable(c)' <=> Usable(c)
    BY <1>2 DEF Usable
  <1>6. \A pkg, p, c, image : Has(pkg, p, c, image)' <=> Has(pkg, p, c, image)
    BY <1>1, <1>3 DEF Has
  <1>7. \A pkg, p, c, images : Complete(pkg, p, c, images)' <=> Complete(pkg, p, c, images)
    BY <1>4, <1>6 DEF Complete
  <1>8. \A k, c, d : Safe(k, c, d)' <=> Safe(k, c, d)
    BY <1>5 DEF Safe
  <1>9. \A pkg, p, k, c, d : Takes(pkg, p, k, c, d)' <=> Takes(pkg, p, k, c, d)
    BY <1>8 DEF Takes, Effect
  <1>10. \A pkg, p, s, c, d : Leads(pkg, p, s, c, d)' <=> Leads(pkg, p, s, c, d)
    BY <1>9 DEF Leads
  <1>11. \A pkg, p, s, c : Planned(pkg, p, s, c)' <=> Planned(pkg, p, s, c)
    BY <1>7, <1>10 DEF Planned
  <1>12. QED
    BY <1>3, <1>5, <1>7, <1>11

\* The parts of the invariant after a step, in terms of the platform before it.
LEMMA PlanStep ==
    ASSUME PlanInv, FirmwareInv', UNCHANGED single,
           cuts' = 0 /\ ignores' = 0 => \A p \in Botas : Usable(part'[p]),
           ignores' = 0 => ignored' = {},
           status' = "runs" /\ chosen' =>
              \A p \in Partitions \ ignored' : Planned(package', p, script', part'[p]),
           status' = "done" /\ chosen' =>
              \A p \in Partitions \ ignored' : Complete(package', p, part'[p], Named)
    PROVE  PlanInv'
  <1>1. BotasUsable'
    BY SamePlatform DEF BotasUsable
  <1>2. ScriptPlanned'
    BY SamePlatform DEF ScriptPlanned
  <1>3. DoneComplete'
    BY SamePlatform DEF DoneComplete
  <1>4. NothingIgnored'
    BY DEF NothingIgnored
  <1>5. QED
    BY <1>1, <1>2, <1>3, <1>4 DEF PlanInv

\* The command that the script is at, and what comes after it.
LEMMA PlanHead ==
    ASSUME PlanInv, status = "runs", script # <<>>, chosen, NEW p \in Partitions \ ignored
    PROVE  /\ part[p] \in Contents
           /\ \E e \in Contents :
                 /\ Takes(package, p, Head(script), part[p], e)
                 /\ Planned(package, p, Tail(script), e)
  <1>1. script \in Seq(CommandOf(package, chosen)) /\ part[p] \in Contents
    BY DEF PlanInv, FirmwareInv, ScriptOK, TypeOK
  <1>2. PICK d \in Contents : Leads(package, p, script, part[p], d) /\ Complete(package, p, d, Named)
    BY DEF PlanInv, ScriptPlanned, Planned
  <1>3. PICK e \in Contents :
           Takes(package, p, Head(script), part[p], e) /\ Leads(package, p, Tail(script), e, d)
    BY <1>1, <1>2, LeadsTail
  <1>4. QED
    BY <1>1, <1>2, <1>3 DEF Planned

LEMMA BeginPlans ==
    ASSUME PlanInv, NEW pkg \in Packages, Begin(pkg)
    PROVE  PlanInv'
  <1>1. /\ UNCHANGED <<single, part, disk, running, failures, ignores, cuts, flushes>>
        /\ script' = OTA_InstallEnd(pkg) /\ status' = "runs" /\ package' = pkg
        /\ chosen' = Chosen(pkg) /\ ignored' = {}
    BY DEF Begin, flashVars
  <1>2. FirmwareInv'
    BY BeginKeeps DEF PlanInv
  <1>3. ASSUME chosen', NEW p \in Partitions PROVE Planned(package', p, script', part'[p])
    <2>1. Chosen(pkg) /\ single \in BOOLEAN /\ part[p] \in Contents
      BY <1>1, <1>3 DEF PlanInv, FirmwareInv, TypeOK
    <2>2. Fills(pkg, p, OTA_InstallEnd(pkg), {}, Named)
      BY <2>1, FillsScript
    <2>3. Complete(pkg, p, part[p], {})
      BY DEF Complete
    <2>4. Planned(pkg, p, OTA_InstallEnd(pkg), part[p])
      BY <2>1, <2>2, <2>3 DEF Fills, Planned
    <2>5. QED
      BY <1>1, <2>4
  <1>4. cuts' = 0 /\ ignores' = 0 => \A p \in Botas : Usable(part'[p])
    BY <1>1 DEF PlanInv, BotasUsable
  <1>5. QED
    BY <1>1, <1>2, <1>3, <1>4, PlanStep


\* A command that is carried out as it should takes every partition on; one whose
\* failure is ignored leaves the others alone.
LEMMA CommandPlans ==
    ASSUME PlanInv, FirmwareInv', status = "runs", script # <<>>, NEW k, k = Head(script),
           k.op # "abort", k.dest \in Partitions,
           k.dest \in Botas => chosen /\ k.op \in {"mark_header_bt", "write_data_bt"},
           UNCHANGED <<single, status, package, chosen, cuts>>, script' = Tail(script),
           \A p \in Partitions \ {k.dest} : part'[p] = part[p],
           \/ /\ UNCHANGED <<ignored, ignores>>
              /\ part'[k.dest] = Effect(package, k, part[k.dest])
           \/ ignored' = ignored \cup {k.dest} /\ ignores' # 0
    PROVE  PlanInv'
  <1>1. Botas \subseteq Partitions
    BY BootBotaIs
  <1>2. ASSUME chosen, NEW p \in Partitions \ ignored'
        PROVE  Planned(package', p, script', part'[p])
    <2>1. p \in Partitions \ ignored
      BY <1>2
    <2>2. PICK e \in Contents :
             Takes(package, p, k, part[p], e) /\ Planned(package, p, Tail(script), e)
      BY <1>2, <2>1, PlanHead
    <2>3. part'[p] = e
      <3>1. CASE p # k.dest
        BY <2>2, <3>1 DEF Takes
      <3>2. CASE p = k.dest
        <4>1. part'[p] = Effect(package, k, part[p])
          BY <1>2, <3>2
        <4>2. QED
          BY <2>2, <3>2, <4>1 DEF Takes
      <3>3. QED
        BY <3>1, <3>2
    <2>4. QED
      BY <2>2, <2>3
  <1>3. ASSUME cuts' = 0, ignores' = 0, NEW p \in Botas PROVE Usable(part'[p])
    <2>1. /\ cuts = 0 /\ ignores = 0 /\ part'[k.dest] = Effect(package, k, part[k.dest])
          /\ ignored = {} /\ Usable(part[p])
      BY <1>3 DEF PlanInv, BotasUsable, NothingIgnored
    <2>2. CASE p # k.dest
      BY <1>1, <2>1, <2>2
    <2>3. CASE p = k.dest
      <3>1. chosen /\ p \in Partitions \ ignored /\ k.op \in {"mark_header_bt", "write_data_bt"}
        BY <1>1, <2>1, <2>3
      <3>2. part[p] \in Contents
        BY <3>1, PlanHead
      <3>3. PICK e \in Contents : Takes(package, p, k, part[p], e)
        BY <3>1, PlanHead
      <3>4. e = Effect(package, k, part[p]) /\ Safe(k, part[p], e) /\ part'[p] = e
        BY <2>1, <2>3, <3>3 DEF Takes
      <3>5. CASE k.op = "mark_header_bt"
        BY <3>4, <3>5 DEF Safe
      <3>6. CASE k.op = "write_data_bt"
        <4>1. ~part[p].magic
          BY <3>4, <3>6 DEF Safe
        <4>2. e.magic = part[p].magic
          BY <3>2, <3>4, <3>6 DEF Effect, Contents
        <4>3. QED
          BY <3>4, <4>1, <4>2 DEF Usable
      <3>7. QED
        BY <3>1, <3>5, <3>6
    <2>4. QED
      BY <2>2, <2>3
  <1>4. ignores' = 0 => ignored' = {}
    BY DEF PlanInv, NothingIgnored
  <1>5. QED
    BY <1>2, <1>3, <1>4, PlanStep

LEMMA MarkHeaderPlans ==
    ASSUME PlanInv, MarkHeader
    PROVE  PlanInv'
  <1>1. PICK k : k = Head(script)
    OBVIOUS
  <1>2. FirmwareInv
    BY DEF PlanInv
  <1>3. /\ status = "runs" /\ script # <<>> /\ k \in CommandOf(package, chosen)
        /\ k.op = "mark_header_bt" /\ k.dest \in Partitions
    BY <1>1, <1>2, AtCommand DEF MarkHeader
  <1>4. chosen
    BY <1>3, CommandIs
  <1>5. part \in [Partitions -> Contents] /\ part[k.dest] \in Contents
    BY <1>2, <1>3, Counted
  <1>6. /\ script' = Tail(script) /\ UNCHANGED <<status, package, chosen, disk>>
        /\ \/ part' = WriteHeader(k) /\ UNCHANGED <<ignored, running, boundVars>>
           \/ part' \in {part, WriteMagic(k), WriteNum(k)} /\ Ignore(k.dest)
    BY <1>1 DEF MarkHeader, GoOn
  <1>7. \A p \in Partitions \ {k.dest} : part'[p] = part[p]
    <2>1. \A p \in Partitions \ {k.dest} :
             WriteHeader(k)[p] = part[p] /\ WriteMagic(k)[p] = part[p] /\ WriteNum(k)[p] = part[p]
      BY <1>3, <1>5 DEF WriteHeader, WriteMagic, WriteNum
    <2>2. QED
      BY <1>6, <2>1
  <1>8. WriteHeader(k)[k.dest] = Effect(package, k, part[k.dest])
    BY <1>3, <1>5 DEF WriteHeader, Effect
  <1>9. \/ UNCHANGED <<ignored, ignores>> /\ part'[k.dest] = Effect(package, k, part[k.dest])
        \/ ignored' = ignored \cup {k.dest} /\ ignores' # 0
    <2>1. ignores \in Nat
      BY <1>2, Counted
    <2>2. QED
      BY <1>6, <1>8, <2>1 DEF Ignore, boundVars
  <1>10. UNCHANGED <<single, cuts>>
    BY <1>6 DEF Ignore, boundVars
  <1>11. FirmwareInv'
    BY <1>2, MarkHeaderKeeps
  <1>12. QED
    BY <1>1, <1>3, <1>4, <1>6, <1>7, <1>9, <1>10, <1>11, CommandPlans

LEMMA WriteRecordPlans ==
    ASSUME PlanInv, WriteRecord
    PROVE  PlanInv'
  <1>1. PICK k : k = Head(script)
    OBVIOUS
  <1>2. FirmwareInv
    BY DEF PlanInv
  <1>3. /\ status = "runs" /\ script # <<>> /\ k \in CommandOf(package, chosen)
        /\ k.op = "write_data_bt"
    BY <1>1, <1>2, AtCommand DEF WriteRecord
  <1>4. chosen /\ k.dest \in Partitions
    BY <1>3, CommandIs, BootBotaIs
  <1>5. part \in [Partitions -> Contents] /\ part[k.dest] \in Contents
    BY <1>2, <1>4, Counted
  <1>6. /\ script' = Tail(script) /\ UNCHANGED <<status, package, chosen, disk>>
        /\ \/ part' = With(k, TRUE) /\ UNCHANGED <<ignored, running, boundVars>>
           \/ part' \in {With(k, FALSE), Misplaced(k), part} /\ Ignore(k.dest)
    BY <1>1 DEF WriteRecord, GoOn
  <1>7. PICK r : r = RecordOf(package, k.image, k.offset) /\ r = Record(k.image, k.offset, TRUE)
    BY DEF RecordOf, Record
  <1>8. PICK new : new = Overwrite(part[k.dest].records, r)
    OBVIOUS
  <1>9. With(k, TRUE) = [part EXCEPT ![k.dest].records = new]
    BY <1>7, <1>8 DEF With
  <1>10. \A p \in Partitions \ {k.dest} : part'[p] = part[p]
    <2>1. \A p \in Partitions \ {k.dest} :
             With(k, TRUE)[p] = part[p] /\ With(k, FALSE)[p] = part[p] /\ Misplaced(k)[p] = part[p]
      BY <1>4, <1>5 DEF With, Misplaced
    <2>2. QED
      BY <1>6, <2>1
  <1>11. With(k, TRUE)[k.dest] = Effect(package, k, part[k.dest])
    <2>1. With(k, TRUE)[k.dest] = [part[k.dest] EXCEPT !.records = new]
      BY <1>4, <1>5, <1>9
    <2>2. QED
      BY <1>3, <1>7, <1>8, <2>1 DEF Effect
  <1>12. \/ UNCHANGED <<ignored, ignores>> /\ part'[k.dest] = Effect(package, k, part[k.dest])
         \/ ignored' = ignored \cup {k.dest} /\ ignores' # 0
    <2>1. ignores \in Nat
      BY <1>2, Counted
    <2>2. CASE part' = With(k, TRUE) /\ UNCHANGED <<ignored, running, boundVars>>
      BY <1>11, <2>2 DEF boundVars
    <2>3. CASE Ignore(k.dest)
      BY <2>1, <2>3 DEF Ignore
    <2>4. QED
      BY <1>6, <2>2, <2>3
  <1>13. UNCHANGED <<single, cuts>>
    BY <1>6 DEF Ignore, boundVars
  <1>14. FirmwareInv'
    BY <1>2, WriteRecordKeeps
  <1>15. QED
    BY <1>1, <1>3, <1>4, <1>6, <1>10, <1>12, <1>13, <1>14, CommandPlans

LEMMA ExtractFilePlans ==
    ASSUME PlanInv, ExtractFile
    PROVE  PlanInv'
  <1>1. PICK k : k = Head(script)
    OBVIOUS
  <1>2. FirmwareInv
    BY DEF PlanInv
  <1>3. /\ status = "runs" /\ script # <<>> /\ k \in CommandOf(package, chosen)
        /\ k.op = "package_extract_file"
    BY <1>1, <1>2, AtCommand DEF ExtractFile
  <1>4. k.dest \in Partitions /\ k.dest \notin Botas
    BY <1>3, CommandIs DEF Partitions, SimplePartitions, Botas
  <1>5. part \in [Partitions -> Contents] /\ part[k.dest] \in Contents
    BY <1>2, <1>4, Counted
  <1>6. PICK whole \in BOOLEAN :
           /\ part' = Extracted(part, k, whole)
           /\ IF whole THEN UNCHANGED <<ignored, running, boundVars>> ELSE Ignore(k.dest)
    BY <1>1 DEF ExtractFile
  <1>7. script' = Tail(script) /\ UNCHANGED <<status, package, chosen>>
    BY DEF ExtractFile, GoOn
  <1>8. PICK r : r = Record(k.image, 0, whole)
    OBVIOUS
  <1>9. part' = [part EXCEPT ![k.dest].records = {r}]
    BY <1>6, <1>8 DEF Extracted
  <1>10. \A p \in Partitions \ {k.dest} : part'[p] = part[p]
    BY <1>4, <1>5, <1>9
  <1>11. \/ UNCHANGED <<ignored, ignores>> /\ part'[k.dest] = Effect(package, k, part[k.dest])
         \/ ignored' = ignored \cup {k.dest} /\ ignores' # 0
    <2>1. CASE whole
      <3>1. r = RecordOf(package, k.image, 0)
        BY <1>8, <2>1 DEF RecordOf, Record
      <3>2. part'[k.dest] = [part[k.dest] EXCEPT !.records = {r}]
        BY <1>4, <1>5, <1>9
      <3>3. part'[k.dest] = Effect(package, k, part[k.dest])
        BY <1>3, <3>1, <3>2 DEF Effect
      <3>4. QED
        BY <1>6, <2>1, <3>3 DEF boundVars
    <2>2. CASE ~whole
      <3>1. ignores \in Nat
        BY <1>2, Counted
      <3>2. QED
        BY <1>6, <2>2, <3>1 DEF Ignore
    <2>3. QED
      BY <2>1, <2>2
  <1>12. UNCHANGED <<single, cuts>>
    BY <1>6 DEF Ignore, boundVars
  <1>13. FirmwareInv'
    BY <1>2, ExtractFileKeeps
  <1>14. QED
    BY <1>1, <1>3, <1>4, <1>7, <1>10, <1>11, <1>12, <1>13, CommandPlans

\* The script stops: the command it was at may have been carried out in part.
LEMMA StopPlans ==
    ASSUME PlanInv, FirmwareInv', GiveUp, UNCHANGED <<single, ignores, cuts>>,
           \A p \in Botas : cuts = 0 /\ ignores = 0 => Usable(part'[p])
    PROVE  PlanInv'
  <1>1. status' = "aborted" /\ ignored' = ignored
    BY DEF GiveUp
  <1>2. ignores' = 0 => ignored' = {}
    BY <1>1 DEF PlanInv, NothingIgnored
  <1>3. QED
    BY <1>1, <1>2, PlanStep

LEMMA HalfMarked ==
    ASSUME PlanInv, At("mark_header_bt"), cuts = 0, ignores = 0, NEW p \in Botas
    PROVE  Usable(WriteMagic(Head(script))[p])
  <1>1. PICK k : k = Head(script)
    OBVIOUS
  <1>2. FirmwareInv /\ ignored = {} /\ Usable(part[p]) /\ p \in Partitions
    BY BootBotaIs DEF PlanInv, BotasUsable, NothingIgnored
  <1>3. /\ status = "runs" /\ script # <<>> /\ k \in CommandOf(package, chosen)
        /\ k.op = "mark_header_bt" /\ k.dest \in Partitions
    BY <1>1, <1>2, AtCommand
  <1>4. chosen
    BY <1>3, CommandIs
  <1>5. part \in [Partitions -> Contents]
    BY <1>2, Counted
  <1>6. CASE p # k.dest
    <2>1. WriteMagic(k)[p] = part[p]
      BY <1>2, <1>3, <1>5, <1>6 DEF WriteMagic
    <2>2. QED
      BY <1>1, <1>2, <2>1
  <1>7. CASE p = k.dest
    <2>1. PICK e \in Contents : Takes(package, p, k, part[p], e)
      BY <1>1, <1>2, <1>3, <1>4, PlanHead
    <2>2. Usable([part[p] EXCEPT !.magic = k.magic])
      BY <1>3, <1>7, <2>1 DEF Takes, Safe
    <2>3. WriteMagic(k)[p] = [part[p] EXCEPT !.magic = k.magic]
      BY <1>2, <1>5, <1>7 DEF WriteMagic
    <2>4. QED
      BY <1>1, <2>2, <2>3
  <1>8. QED
    BY <1>6, <1>7

LEMMA HalfWritten ==
    ASSUME PlanInv, At("write_data_bt"), cuts = 0, ignores = 0, NEW p \in Botas
    PROVE  Usable(With(Head(script), FALSE)[p])
  <1>1. PICK k : k = Head(script)
    OBVIOUS
  <1>2. FirmwareInv /\ ignored = {} /\ Usable(part[p]) /\ p \in Partitions
    BY BootBotaIs DEF PlanInv, BotasUsable, NothingIgnored
  <1>3. /\ status = "runs" /\ script # <<>> /\ k \in CommandOf(package, chosen)
        /\ k.op = "write_data_bt"
    BY <1>1, <1>2, AtCommand
  <1>4. chosen /\ k.dest \in Partitions
    BY <1>3, CommandIs, BootBotaIs
  <1>5. part \in [Partitions -> Contents] /\ part[p] \in Contents
    BY <1>2, Counted
  <1>6. PICK new : new = Overwrite(part[k.dest].records, Record(k.image, k.offset, FALSE))
    OBVIOUS
  <1>7. With(k, FALSE) = [part EXCEPT ![k.dest].records = new]
    BY <1>6 DEF With
  <1>8. CASE p # k.dest
    <2>1. With(k, FALSE)[p] = part[p]
      BY <1>2, <1>4, <1>5, <1>7, <1>8
    <2>2. QED
      BY <1>1, <1>2, <2>1
  <1>9. CASE p = k.dest
    <2>1. PICK e \in Contents : Takes(package, p, k, part[p], e)
      BY <1>1, <1>2, <1>3, <1>4, PlanHead
    <2>2. ~part[p].magic
      BY <1>3, <1>9, <2>1 DEF Takes, Safe
    <2>3. With(k, FALSE)[p].magic = part[p].magic
      <3>1. With(k, FALSE)[p] = [part[p] EXCEPT !.records = new]
        BY <1>2, <1>5, <1>7, <1>9
      <3>2. QED
        BY <1>5, <3>1 DEF Contents
    <2>4. QED
      BY <1>1, <2>2, <2>3 DEF Usable
  <1>10. QED
    BY <1>8, <1>9

LEMMA CommandFailsPlans ==
    ASSUME PlanInv, CommandFails
    PROVE  PlanInv'
  <1>1. GiveUp /\ UNCHANGED <<single, ignores, cuts>>
    BY DEF CommandFails
  <1>2. FirmwareInv'
    BY CommandFailsKeeps DEF PlanInv
  <1>3. ASSUME NEW p \in Botas, cuts = 0, ignores = 0 PROVE Usable(part'[p])
    <2>1. CASE part' = part
      BY <1>3, <2>1 DEF PlanInv, BotasUsable
    <2>2. CASE At("write_data_bt") /\ part' = With(Head(script), FALSE)
      BY <1>3, <2>2, HalfWritten
    <2>3. QED
      BY <2>1, <2>2 DEF CommandFails
  <1>4. QED
    BY <1>1, <1>2, <1>3, StopPlans

LEMMA KillPlans ==
    ASSUME PlanInv, Kill
    PROVE  PlanInv'
  <1>1. GiveUp /\ UNCHANGED <<single, ignores, cuts>>
    BY DEF Kill
  <1>2. FirmwareInv'
    BY KillKeeps DEF PlanInv
  <1>3. ASSUME NEW p \in Botas, cuts = 0, ignores = 0 PROVE Usable(part'[p])
    <2>1. CASE part' = part
      BY <1>3, <2>1 DEF PlanInv, BotasUsable
    <2>2. CASE At("mark_header_bt") /\ part' = WriteMagic(Head(script))
      BY <1>3, <2>2, HalfMarked
    <2>3. CASE At("write_data_bt") /\ part' = With(Head(script), FALSE)
      BY <1>3, <2>3, HalfWritten
    <2>4. CASE At("package_extract_file") /\ part' = Extracted(part, Head(script), FALSE)
      <3>1. PICK k : k = Head(script)
        OBVIOUS
      <3>2. FirmwareInv
        BY DEF PlanInv
      <3>3. k \in CommandOf(package, chosen) /\ k.op = "package_extract_file"
        BY <2>4, <3>1, <3>2, AtCommand
      <3>4. k.dest \notin Botas /\ p \in Partitions
        BY <3>3, CommandIs DEF Partitions, SimplePartitions, Botas
      <3>5. part \in [Partitions -> Contents]
        BY <3>2, Counted
      <3>6. part'[p] = part[p]
        BY <2>4, <3>1, <3>4, <3>5 DEF Extracted
      <3>7. QED
        BY <1>3, <3>6 DEF PlanInv, BotasUsable
    <2>5. QED
      BY <2>1, <2>2, <2>3, <2>4 DEF Kill
  <1>4. QED
    BY <1>1, <1>2, <1>3, StopPlans

LEMMA AbortCommandPlans ==
    ASSUME PlanInv, AbortCommand
    PROVE  PlanInv'
  <1>1. GiveUp /\ UNCHANGED <<part, single, ignores, cuts>>
    BY DEF AbortCommand, flashVars, boundVars
  <1>2. FirmwareInv'
    BY AbortCommandKeeps DEF PlanInv
  <1>3. \A p \in Botas : cuts = 0 /\ ignores = 0 => Usable(part'[p])
    BY <1>1 DEF PlanInv, BotasUsable
  <1>4. QED
    BY <1>1, <1>2, <1>3, StopPlans

\* The plan has come to its end.
LEMMA DonePlans ==
    ASSUME PlanInv, Done
    PROVE  PlanInv'
  <1>1. /\ status = "runs" /\ script = <<>> /\ status' = "done"
        /\ UNCHANGED <<part, package, chosen, ignored, single, ignores, cuts>>
    BY DEF Done, flashVars, boundVars
  <1>2. FirmwareInv'
    BY DoneKeeps DEF PlanInv
  <1>3. ASSUME chosen', NEW p \in Partitions \ ignored'
        PROVE  Complete(package', p, part'[p], Named)
    <2>1. Planned(package, p, script, part[p])
      BY <1>1, <1>3 DEF PlanInv, ScriptPlanned
    <2>2. PICK d \in Contents :
             Leads(package, p, <<>>, part[p], d) /\ Complete(package, p, d, Named)
      BY <1>1, <2>1 DEF Planned
    <2>3. d = part[p]
      BY <2>2 DEF Leads
    <2>4. QED
      BY <1>1, <2>2, <2>3
  <1>4. cuts' = 0 /\ ignores' = 0 => \A p \in Botas : Usable(part'[p])
    BY <1>1 DEF PlanInv, BotasUsable
  <1>5. ignores' = 0 => ignored' = {}
    BY <1>1 DEF PlanInv, NothingIgnored
  <1>6. QED
    BY <1>1, <1>2, <1>3, <1>4, <1>5, PlanStep

\* Nothing changes in what recovery reads back.
LEMMA UnreadPlans ==
    ASSUME PlanInv, FirmwareInv',
           UNCHANGED <<part, script, status, package, chosen, ignored, single, ignores, cuts>>
    PROVE  PlanInv'
  <1>1. /\ cuts' = 0 /\ ignores' = 0 => \A p \in Botas : Usable(part'[p])
        /\ ignores' = 0 => ignored' = {}
    BY DEF PlanInv, BotasUsable, NothingIgnored
  <1>2. status' = "runs" /\ chosen' =>
           \A p \in Partitions \ ignored' : Planned(package', p, script', part'[p])
    BY DEF PlanInv, ScriptPlanned
  <1>3. status' = "done" /\ chosen' =>
           \A p \in Partitions \ ignored' : Complete(package', p, part'[p], Named)
    BY DEF PlanInv, DoneComplete
  <1>4. QED
    BY <1>1, <1>2, <1>3, PlanStep

\* The bootloader takes no notice of the magic when it looks for the images.
LEMMA MagicAside ==
    ASSUME NEW c \in Contents, NEW magic, NEW d, d = [c EXCEPT !.magic = magic], Sound(c)
    PROVE  Sound(d)
  <1>1. d.num = c.num /\ d.records = c.records
    BY DEF Contents
  <1>2. Offsets(d) = Offsets(c)
    BY <1>1 DEF Offsets
  <1>3. Found(d) = Found(c)
    BY <1>1, <1>2 DEF Found
  <1>4. QED
    BY <1>2, <1>3 DEF Sound

LEMMA RebootPlans ==
    ASSUME PlanInv, Reboot
    PROVE  PlanInv'
  <1>1. /\ status' = "idle" /\ UNCHANGED <<ignored, single, ignores, cuts>> /\ Boot(part)
    BY DEF Reboot, Restarted, boundVars
  <1>2. FirmwareInv'
    BY RebootKeeps DEF PlanInv
  <1>3. ASSUME NEW p \in Botas, cuts = 0, ignores = 0 PROVE Usable(part'[p])
    <2>1. Usable(part[p])
      BY <1>3 DEF PlanInv, BotasUsable
    <2>2. CASE part' = part
      BY <2>1, <2>2
    <2>3. CASE /\ part[BootBota].magic
               /\ \E magic \in BOOLEAN : part' = [part EXCEPT ![BootBota].magic = magic]
      <3>1. PICK magic \in BOOLEAN : part' = [part EXCEPT ![BootBota].magic = magic]
        BY <2>3
      <3>2. part \in [Partitions -> Contents] /\ p \in Partitions /\ BootBota \in Partitions
        BY BootBotaIs DEF PlanInv, FirmwareInv, TypeOK
      <3>3. CASE p # BootBota
        <4>1. part'[p] = part[p]
          BY <3>1, <3>2, <3>3
        <4>2. QED
          BY <2>1, <4>1
      <3>4. CASE p = BootBota
        <4>1. PICK c \in Contents : c = part[p]
          BY <3>2
        <4>2. PICK d : d = part'[p] /\ d = [c EXCEPT !.magic = magic]
          BY <3>1, <3>2, <3>4, <4>1
        <4>3. Sound(d)
          BY <2>1, <2>3, <3>4, <4>1, <4>2, MagicAside DEF Usable
        <4>4. QED
          BY <4>2, <4>3 DEF Usable
      <3>5. QED
        BY <3>3, <3>4
    <2>4. single \in BOOLEAN /\ running \in Packages /\ part \in [Partitions -> Contents]
      BY DEF PlanInv, FirmwareInv, TypeOK
    <2>5. PICK contents : contents = part
      OBVIOUS
    <2>6. QED
      BY <1>1, <2>2, <2>3, <2>4, <2>5, BootTyped
  <1>4. ignores' = 0 => ignored' = {}
    BY <1>1 DEF PlanInv, NothingIgnored
  <1>5. QED
    BY <1>1, <1>2, <1>3, <1>4, PlanStep

LEMMA PowerCutPlans ==
    ASSUME PlanInv, PowerCut
    PROVE  PlanInv'
  <1>1. /\ status' = "idle" /\ UNCHANGED <<ignored, single, ignores>> /\ cuts' = cuts + 1
    BY DEF PowerCut, Restarted
  <1>2. cuts' # 0
    BY <1>1 DEF PlanInv, FirmwareInv, TypeOK
  <1>3. FirmwareInv'
    BY PowerCutKeeps DEF PlanInv
  <1>4. ignores' = 0 => ignored' = {}
    BY <1>1 DEF PlanInv, NothingIgnored
  <1>5. QED
    BY <1>1, <1>2, <1>3, <1>4, PlanStep

LEMMA PlanInit ==
    ASSUME Init
    PROVE  PlanInv
  <1>1. FirmwareInv
    BY FirmwareInit
  <1>2. \A p \in Botas : Usable(part[p])
    BY BootBotaIs DEF Init, Empty, Usable
  <1>3. QED
    BY <1>1, <1>2 DEF Init, PlanInv, BotasUsable, NothingIgnored, ScriptPlanned, DoneComplete

LEMMA PlanNext ==
    ASSUME PlanInv, [Next]_vars
    PROVE  PlanInv'
  <1>1. CASE UNCHANGED vars \/ \E p \in Partitions : WriteBack(p)
    <2>1. FirmwareInv'
      BY FirmwareNext DEF PlanInv
    <2>2. UNCHANGED <<part, script, status, package, chosen, ignored, single, ignores, cuts>>
      BY <1>1 DEF vars, WriteBack, scriptVars, boundVars
    <2>3. QED
      BY <2>1, <2>2, UnreadPlans
  <1>2. CASE ~(UNCHANGED vars \/ \E p \in Partitions : WriteBack(p))
    BY <1>2, BeginPlans, MarkHeaderPlans, WriteRecordPlans, CommandFailsPlans, ExtractFilePlans,
       AbortCommandPlans, DonePlans, KillPlans, RebootPlans, PowerCutPlans DEF Next
  <1>3. QED
    BY <1>1, <1>2

LEMMA AlwaysPlanInv == Spec => []PlanInv
  <1>1. Init => PlanInv
    BY PlanInit
  <1>2. PlanInv /\ [Next]_vars => PlanInv'
    BY PlanNext
  <1>3. QED
    BY <1>1, <1>2, PTL DEF Spec

-----------------------------------------------------------------------------
(* The theorems                                                            *)

\* The partitions hold a header and records of packages, and no record of a bota
\* runs into its header, whatever is written, torn, misplaced or left by a power
\* cut; a script is made of commands for partitions that the platform has.
THEOREM TypeCorrect == Spec => []TypeOK
  <1>1. PlanInv => TypeOK
    BY DEF PlanInv, FirmwareInv
  <1>2. QED
    BY <1>1, AlwaysPlanInv, PTL

\* No sequence of updates, failures, kills and orderly reboots makes the revision
\* of the bootloader go down, although the bootloader cannot tell which package
\* an image is of: verify_no_downgrade looks only at what runs, but what earlier
\* updates left at the beginning of the bota was compared with the same bootloader
\* or an older one, and with one bota a magic stands for records of one package.
\* With a bota for each image, power cuts and ignored failures change nothing.
THEOREM NeverOlder == Spec => NoDowngrade
  <1>1. ASSUME PlanInv, [Next]_vars
        PROVE  ~single \/ (cuts' = 0 /\ ignores' = 0) => Binary[running'] >= Binary[running]
    <2>1. FirmwareInv /\ BotasUsable
      BY <1>1 DEF PlanInv
    <2>2. Kept' => Binary[running'] >= Binary[running]
      BY <1>1, <2>1, FirmwareNext
    <2>3. single' = single
      BY <1>1 DEF Next, Begin, MarkHeader, WriteRecord, CommandFails, ExtractFile, AbortCommand,
         Done, Kill, WriteBack, Reboot, PowerCut, Ignore, boundVars, vars
    <2>4. QED
      BY <2>2, <2>3 DEF Kept
  <1>2. QED
    BY <1>1, AlwaysPlanInv, PTL DEF Spec, NoDowngrade

\* Wherever the updater fails or is killed, and however often an update is begun
\* again, a bota with the magic holds the records that its header announces,
\* whole and of one package: releasetools.py clears the magic first, writes the
\* images, and sets it last.
THEOREM BotasAreSound == Spec => []BotaSound
  <1>1. PlanInv => BotaSound
    BY DEF PlanInv, BotasUsable, BotaSound, Usable
  <1>2. QED
    BY <1>1, AlwaysPlanInv, PTL

\* A script that reports success has written every image of its package where
\* its reader looks for it, for any sizes of the images, but for the partitions on
\* which it ignored a failure, and for the two images that no script has a command
\* for: the offsets and the number that releasetools.py works out are those of the
\* bootloader.
THEOREM SuccessIsComplete == Spec => []DoneMeansWritten
  <1>1. ASSUME PlanInv, status = "done", chosen, NEW image \in Named,
               Size[package][image] > 0, Home(image) \notin ignored
        PROVE  Holds(Home(image), image)
    <2>1. single \in BOOLEAN
      BY <1>1 DEF PlanInv, FirmwareInv, TypeOK
    <2>2. PICK p \in Partitions : p = Home(image)
      BY <2>1, HomesAre
    <2>3. Complete(package, p, part[p], Named)
      BY <1>1, <2>2 DEF PlanInv, DoneComplete
    <2>4. Has(package, p, part[p], image)
      BY <1>1, <2>2, <2>3 DEF Complete
    <2>5. Holds(p, image)
      BY <2>4 DEF Has, Holds
    <2>6. QED
      BY <2>2, <2>5
  <1>2. PlanInv => DoneMeansWritten
    BY <1>1 DEF DoneMeansWritten, Named
  <1>3. QED
    BY <1>2, AlwaysPlanInv, PTL
=============================================================================
