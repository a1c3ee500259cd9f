--------------------------- MODULE FirmwareUpdate ---------------------------
(***************************************************************************)
(* The device's part of an OTA package: releasetools.py appends commands to *)
(* the installer script, and recovery_updater.cpp carries out those that   *)
(* fill the bootloader's OTA partitions ("bota").                          *)
(*                                                                         *)
(* A bota partition begins with a header, a magic and a number of images,  *)
(* and holds one record per image: name, size and data.  The bootloader,   *)
(* which is external, takes the images at the next boot if the header has  *)
(* the magic; it cannot tell which package a record is from.  Recovery     *)
(* writes through the page cache: `part` is what it reads back, `disk` what *)
(* a power cut leaves.                                                     *)
(***************************************************************************)
EXTENDS Integers, Sequences

CONSTANTS
    Packages,       \* packages, each with a version of the firmware
    Factory,        \* the version the device was delivered with
    Model,          \* the device's model
    Models,         \* Models[pkg]: the models it lists and has a version for
    Long,           \* Long[pkg]: its version is long enough to have a binary
    Binary,         \* Binary[pkg]: the revision of its bootloader ("binary")
    Size,           \* Size[pkg]: size of every image, or Absent
    MaxInstalls,    \* bound: runs of an installer script
    MaxFailures,    \* bound: commands that fail, or are killed
    MaxIgnored,     \* bound: failures the script takes no notice of
    MaxCuts,        \* bound: power cuts
    MaxFlushes,     \* bound: times that something is written back
    MaxFaults       \* bound: failures, ignored or not, and cuts together; a
                    \* cut, which leaves many states behind, counts twice

BotaImages == {"sboot", "cm", "up_param", "keystorage", "uh"}
Modems == {"modem", "modem_5g", "modem_debug", "modem_debug_5g"}
SystemImages == {"dtb", "dtbo", "vbmeta"}
Misnamed == {"dqmdbg", "param"}
Images == BotaImages \cup Modems \cup SystemImages \cup Misnamed

Absent == -1

\* No package is built without a dtbo and a vbmeta.
ASSUME FirmwareAssumption ==
    /\ Factory \in Packages
    /\ Long \in [Packages -> BOOLEAN]
    /\ Binary \in [Packages -> Nat]
    /\ Size \in [Packages -> [Images -> Nat \cup {Absent}]]
    /\ \A pkg \in Packages : Size[pkg]["dtbo"] # Absent /\ Size[pkg]["vbmeta"] # Absent
    /\ {MaxInstalls, MaxFailures, MaxIgnored, MaxCuts, MaxFlushes, MaxFaults} \subseteq Nat

VARIABLES
    single,     \* the platform is universal9825_r, with one bota; never changes
    part,       \* part[p]: contents of the partition as the kernel has them
    disk,       \* disk[p]: contents that a power cut leaves
    script,     \* commands of the installer script not yet carried out
    status,     \* of the installer script
    package,    \* the package of the script
    chosen,     \* history: the script has the firmware commands
    ignored,    \* history: partitions on which this script ignored a failure
    running,    \* the version of the bootloader that runs
    installs, failures, ignores, cuts, flushes \* counters of what the bounds limit

flashVars == <<part, disk>>
scriptVars == <<script, status, package, chosen, ignored>>
boundVars == <<single, installs, failures, ignores, cuts, flushes>>
vars == <<single, part, disk, script, status, package, chosen, ignored, running, installs,
          failures, ignores, cuts, flushes>>

\* The bounds leave room for a fault that counts as n.
Room(n) == failures + ignores + 2 * cuts + n <= MaxFaults

Botas == IF single THEN {"bota"} ELSE {"bota0", "bota1", "bota2"}
SimplePartitions ==
    {"radio", "radio2", "cp_debug", "cp2_debug", "dtb", "dtbo", "vbmeta"}
        \cup (IF single THEN {} ELSE {"keystorage", "uh"})
Partitions == Botas \cup SimplePartitions

-----------------------------------------------------------------------------
(* releasetools.py: the commands of a package                              *)

Mark(dest, num, magic) == [op |-> "mark_header_bt", dest |-> dest, num |-> num, magic |-> magic]
WriteData(image, dest, offset) ==
    [op |-> "write_data_bt", dest |-> dest, image |-> image, offset |-> offset]
Extract(image, dest) == [op |-> "package_extract_file", dest |-> dest, image |-> image]
Abort == [op |-> "abort"]

\* The size that AddFirmwareImage returns: 0 if the package has no such image.
Returned(pkg, image) == IF Size[pkg][image] = Absent THEN 0 ELSE Size[pkg][image]

\* Mutant: the magic is set before the image is written.
AddFirmwareImageMarked(pkg, image, dest, simple, offset) ==
    IF Size[pkg][image] = Absent THEN <<>>
    ELSE IF simple THEN <<Extract(image, dest)>>
    ELSE IF dest = "bota" THEN <<WriteData(image, dest, offset)>>
    ELSE <<Mark(dest, 0, TRUE), WriteData(image, dest, offset)>>

AddFirmwareImage(pkg, image, dest, simple, offset) ==
    IF Size[pkg][image] = Absent THEN <<>>
    ELSE IF simple THEN <<Extract(image, dest)>>
    ELSE IF dest = "bota" THEN <<WriteData(image, dest, offset)>>
    ELSE <<Mark(dest, 0, FALSE), WriteData(image, dest, offset), Mark(dest, 0, TRUE)>>

Advance(offset, size) == offset + size + 36

FirstOffset == 8

\* Mutant: an image is left out of the list.
SingleNamesShort == <<"cm", "keystorage", "sboot", "uh">>

SingleNames == <<"cm", "keystorage", "sboot", "uh", "up_param">>

\* The loop over the images of the one bota partition: where the next image goes,
\* how many there are, and their commands.
SingleBotaLoop(pkg) ==
    LET loop[i \in 0..Len(SingleNames)] ==
            IF i = 0 THEN [offset |-> FirstOffset, num |-> 0, commands |-> <<>>]
            ELSE LET size == Returned(pkg, SingleNames[i])
                     more == size > 0
                     prev == loop[i - 1]
                 IN  [offset |-> IF more THEN Advance(prev.offset, size) ELSE prev.offset,
                      num |-> IF more THEN prev.num + 1 ELSE prev.num,
                      commands |-> prev.commands
                          \o AddFirmwareImage(pkg, SingleNames[i], "bota", FALSE, prev.offset)]
    IN  loop[Len(SingleNames)]

Bootloader(pkg) ==
    IF single
    THEN LET loop == SingleBotaLoop(pkg) IN
         <<Mark("bota", 0, FALSE)>> \o loop.commands \o <<Mark("bota", loop.num, TRUE)>>
    ELSE AddFirmwareImage(pkg, "sboot", "bota0", FALSE, FirstOffset)
         \o AddFirmwareImage(pkg, "cm", "bota1", FALSE, FirstOffset)
         \o AddFirmwareImage(pkg, "up_param", "bota2", FALSE, FirstOffset)
         \o AddFirmwareImage(pkg, "keystorage", "keystorage", TRUE, FirstOffset)
         \o AddFirmwareImage(pkg, "uh", "uh", TRUE, FirstOffset)

\* The names of the misnamed images, which come after these, run into their
\* destinations for want of a comma: no package has an image of such a name, and
\* nothing is added for the two, whatever the package has.
Firmware(pkg) ==
    Bootloader(pkg)
    \o AddFirmwareImage(pkg, "modem", "radio", TRUE, FirstOffset)
    \o AddFirmwareImage(pkg, "modem_5g", "radio2", TRUE, FirstOffset)
    \o AddFirmwareImage(pkg, "modem_debug", "cp_debug", TRUE, FirstOffset)
    \o AddFirmwareImage(pkg, "modem_debug_5g", "cp2_debug", TRUE, FirstOffset)

\* Mutant: any version will do.
VerifyAnything(pkg) == TRUE

VerifyNoDowngrade(pkg) == Long[running] /\ Long[pkg] /\ Binary[pkg] >= Binary[running]

Supported(pkg) == Model \in Models[pkg]

Chosen(pkg) == Supported(pkg) /\ VerifyNoDowngrade(pkg) /\ pkg # running

OTA_InstallEnd(pkg) ==
    (IF Size[pkg]["dtb"] = Absent THEN <<>> ELSE <<Extract("dtb", "dtb")>>)
    \o <<Extract("dtbo", "dtbo"), Extract("vbmeta", "vbmeta")>>
    \o (IF Chosen(pkg) THEN Firmware(pkg) ELSE <<>>)
    \o (IF Models[pkg] # {} /\ ~Supported(pkg) THEN <<Abort>> ELSE <<>>)

-----------------------------------------------------------------------------
(* Contents of a partition                                                 *)

FILENAME_MAX_LEN == 32

\* A record takes its name, its size and its data.
End(r) == r.offset + FILENAME_MAX_LEN + 4 + r.size

\* Writing record r: what it runs over is lost, or torn if its beginning is left.
Overwrite(records, r) ==
    {r}
    \cup {o \in records : End(o) <= r.offset \/ End(r) <= o.offset}
    \cup {[o EXCEPT !.whole = FALSE] : o \in {x \in records : x.offset < r.offset /\ r.offset < End(x)}}

\* The offsets at which a reader finds the records that the header announces, one
\* after the other; Absent where there is none.
Offsets(c) ==
    LET n == IF single THEN c.num ELSE 1
        at[i \in 1..n] ==
            IF i = 1 THEN 8
            ELSE LET before == {r \in c.records : r.offset = at[i - 1]} IN
                 IF before = {} THEN Absent ELSE End(CHOOSE r \in before : TRUE)
    IN  {at[i] : i \in 1..n}

Found(c) == LET offsets == Offsets(c) IN {r \in c.records : r.offset \in offsets}

\* Every record announced is there, is whole, and they are of one package.
Sound(c) ==
    LET found == Found(c)
    IN  /\ Offsets(c) = {r.offset : r \in found}
        /\ \A r, q \in found : r.whole /\ r.package = q.package

Record(image, offset, whole) ==
    [image |-> image, package |-> package, offset |-> offset, size |-> Size[package][image],
     whole |-> whole]

Empty == [magic |-> FALSE, num |-> 0, records |-> {}]

\* A number that is not one of images: the bytes of a name.
Garbage == Len(SingleNames) + 1

-----------------------------------------------------------------------------
(* Types and initial states                                                *)

\* A record of a partition, and the contents of one.
ImageRecord ==
    [image : Images, package : Packages, offset : Nat, size : Nat, whole : BOOLEAN]
Contents ==
    [magic : BOOLEAN, num : 0..Garbage, records : SUBSET ImageRecord]

Command ==
    [op : {"mark_header_bt"}, dest : Botas, num : 0..Len(SingleNames), magic : BOOLEAN]
    \cup [op : {"write_data_bt"}, dest : Botas, image : BotaImages, offset : Nat]
    \cup [op : {"package_extract_file"}, dest : SimplePartitions, image : Images]
    \cup {Abort}

TypeOK ==
    /\ single \in BOOLEAN
    /\ part \in [Partitions -> Contents]
    /\ disk \in [Partitions -> Contents]
    /\ \A p \in Botas : \A r \in part[p].records \cup disk[p].records : r.offset >= FirstOffset
    /\ script \in Seq(Command)
    /\ status \in {"idle", "runs", "done", "aborted"}
    /\ package \in Packages
    /\ chosen \in BOOLEAN
    /\ ignored \subseteq Partitions
    /\ running \in Packages
    /\ installs \in 0..MaxInstalls /\ failures \in 0..MaxFailures
    /\ ignores \in 0..MaxIgnored /\ cuts \in 0..MaxCuts /\ flushes \in 0..MaxFlushes

Init ==
    /\ single \in BOOLEAN
    /\ part = [p \in Partitions |-> Empty]
    /\ disk = part
    /\ script = <<>>
    /\ status = "idle"
    /\ package = Factory
    /\ chosen = FALSE
    /\ ignored = {}
    /\ running = Factory
    /\ installs = 0 /\ failures = 0 /\ ignores = 0 /\ cuts = 0 /\ flushes = 0

-----------------------------------------------------------------------------
(* The installer script                                                    *)

Begin(pkg) ==
    /\ status # "runs"
    /\ installs < MaxInstalls
    /\ installs' = installs + 1
    /\ script' = OTA_InstallEnd(pkg)
    /\ status' = "runs"
    /\ package' = pkg
    /\ chosen' = Chosen(pkg)
    /\ ignored' = {}
    /\ UNCHANGED <<single, flashVars, running, failures, ignores, cuts, flushes>>

\* The script is at this command.
At(op) == status = "runs" /\ script # <<>> /\ Head(script).op = op

GoOn == script' = Tail(script) /\ UNCHANGED <<status, package, chosen>>
GiveUp == script' = <<>> /\ status' = "aborted" /\ UNCHANGED <<package, chosen, ignored>>

\* A failure on partition p that the script takes no notice of.
Ignore(p) ==
    /\ ignores < MaxIgnored /\ Room(1)
    /\ ignores' = ignores + 1
    /\ ignored' = ignored \cup {p}
    /\ UNCHANGED <<single, running, installs, failures, cuts, flushes>>

\* The magic and the number are written by a write() each.
WriteMagic(c) == [part EXCEPT ![c.dest].magic = c.magic]
WriteNum(c) == [part EXCEPT ![c.dest].num = c.num]
WriteHeader(c) == [part EXCEPT ![c.dest].magic = c.magic, ![c.dest].num = c.num]

\* What write() returns is not looked at: either may fail.
MarkHeader ==
    /\ At("mark_header_bt")
    /\ GoOn
    /\ LET c == Head(script) IN
          \/ part' = WriteHeader(c) /\ UNCHANGED <<ignored, running, boundVars>>
          \/ part' \in {part, WriteMagic(c), WriteNum(c)} /\ Ignore(c.dest)
    /\ UNCHANGED disk

\* The partition with the record of command c, whole or torn.
With(c, whole) ==
    [part EXCEPT ![c.dest].records = Overwrite(@, Record(c.image, c.offset, whole))]

\* The partition when lseek() has failed: the record lies at its beginning, over
\* the header and the records there.
Misplaced(c) ==
    [part EXCEPT ![c.dest] =
        [magic |-> FALSE, num |-> Garbage,
         records |-> {o \in @.records : End(Record(c.image, 0, TRUE)) <= o.offset}]]

\* What lseek() and the two write()s return is not looked at either.  Without its
\* name or its size a record is of no use, and what was there is run over by the
\* data, if there are any.
WriteRecord ==
    /\ At("write_data_bt")
    /\ GoOn
    /\ LET c == Head(script) IN
          \/ part' = With(c, TRUE) /\ UNCHANGED <<ignored, running, boundVars>>
          \/ part' \in {With(c, FALSE), Misplaced(c)} /\ Ignore(c.dest)
          \/ Size[package][c.image] = 0 /\ UNCHANGED part /\ Ignore(c.dest)
    /\ UNCHANGED disk

\* ErrorAbort: the partition cannot be opened, or the image not be extracted.
CommandFails ==
    /\ At("mark_header_bt") \/ At("write_data_bt")
    /\ failures < MaxFailures /\ Room(1)
    /\ failures' = failures + 1
    /\ GiveUp
    /\ \/ UNCHANGED part
       \/ At("write_data_bt") /\ part' = With(Head(script), FALSE)
    /\ UNCHANGED <<single, disk, running, installs, ignores, cuts, flushes>>

\* The partition becomes one record, whole or torn.
Extracted(contents, c, whole) ==
    [contents EXCEPT ![c.dest].records = {Record(c.image, 0, whole)}]

\* The image is extracted and synced.  The script has no assert around
\* package_extract_file: it ignores a failure.
ExtractFile ==
    /\ At("package_extract_file")
    /\ GoOn
    /\ \E whole \in BOOLEAN :
          /\ part' = Extracted(part, Head(script), whole)
          /\ disk' = Extracted(disk, Head(script), whole)
          /\ IF whole THEN UNCHANGED <<ignored, running, boundVars>> ELSE Ignore(Head(script).dest)

AbortCommand ==
    /\ At("abort")
    /\ GiveUp
    /\ UNCHANGED <<flashVars, running, boundVars>>

Done ==
    /\ status = "runs" /\ script = <<>>
    /\ status' = "done"
    /\ UNCHANGED <<flashVars, script, package, chosen, ignored, running, boundVars>>

\* The updater dies in the middle of a command, recovery stays.
Kill ==
    /\ status = "runs"
    /\ failures < MaxFailures /\ Room(1)
    /\ failures' = failures + 1
    /\ GiveUp
    /\ \/ UNCHANGED part
       \/ At("mark_header_bt") /\ part' = WriteMagic(Head(script))
       \/ At("write_data_bt") /\ part' = With(Head(script), FALSE)
       \/ At("package_extract_file") /\ part' = Extracted(part, Head(script), FALSE)
    /\ UNCHANGED <<single, disk, running, installs, ignores, cuts, flushes>>

-----------------------------------------------------------------------------
(* The kernel, the power and the bootloader                                *)

\* The partition on disk after all of it or one more block of it: the magic, the
\* number, a record or a part of it, or what runs over a record that recovery sees
\* no more.
Flushed(p) ==
    LET new == part[p]
        old == disk[p]
        unwritten == new.records \ old.records
    IN  {new, [old EXCEPT !.magic = new.magic], [old EXCEPT !.num = new.num]}
        \cup {[old EXCEPT !.records = Overwrite(@, r)] :
                 r \in unwritten \cup {[r EXCEPT !.whole = FALSE] : r \in unwritten}}
        \cup {[old EXCEPT !.records = @ \ {r}] : r \in old.records \ new.records}

\* The kernel writes blocks back in any order.  It tells only if a power cut
\* follows.
WriteBack(p) ==
    /\ disk[p] # part[p] /\ cuts < MaxCuts /\ Room(2)
    /\ flushes < MaxFlushes
    /\ flushes' = flushes + 1
    /\ \E contents \in Flushed(p) \ {disk[p]} : disk' = [disk EXCEPT ![p] = contents]
    /\ UNCHANGED <<single, part, scriptVars, running, installs, failures, ignores, cuts>>

\* The images that the bootloader may take its own from.  It refuses one that is
\* torn, by its signature.
Bootable(c) == {r \in Found(c) : c.magic /\ r.image = "sboot" /\ r.whole}

\* The bootloader takes its image from a bota that has the magic, which it then
\* perhaps clears, or finds something wrong with it.
Boot(contents) ==
    LET b == IF single THEN "bota" ELSE "bota0" IN
    \/ running' = running /\ part' = contents
    \/ \E r \in Bootable(contents[b]), magic \in BOOLEAN :
          running' = r.package /\ part' = [contents EXCEPT ![b].magic = magic]

Restarted == status' = "idle" /\ script' = <<>> /\ UNCHANGED <<package, chosen, ignored>>

\* An orderly reboot syncs the disk.
Reboot ==
    /\ status \in {"done", "aborted"}
    /\ Restarted
    /\ Boot(part)
    /\ disk' = part'
    /\ UNCHANGED boundVars

PowerCut ==
    /\ cuts < MaxCuts /\ Room(2)
    /\ cuts' = cuts + 1
    /\ Restarted
    /\ Boot(disk)
    /\ disk' = part'
    /\ UNCHANGED <<single, installs, failures, ignores, flushes>>

-----------------------------------------------------------------------------
Next ==
    \/ \E pkg \in Packages \ {Factory} : Begin(pkg)
    \/ MarkHeader \/ WriteRecord \/ CommandFails \/ ExtractFile \/ AbortCommand \/ Done
    \/ Kill
    \/ \E p \in Partitions : WriteBack(p)
    \/ Reboot \/ PowerCut

Spec == Init /\ [][Next]_vars

-----------------------------------------------------------------------------
(* Properties                                                              *)

\* The magic stands for images that can be used: wherever the updater stops, and
\* however often an update is begun again, a bota with the magic holds the
\* records its header announces, whole, and of one package.  The code does not
\* promise it across a power cut, which may leave the header and lose records,
\* nor when the write() of a header failed.
BotaSound ==
    cuts = 0 /\ ignores = 0 => \A p \in Botas : part[p].magic => Sound(part[p])

\* Where the image belongs.
Home(image) ==
    CASE image \in SystemImages -> image
      [] image = "modem" -> "radio" [] image = "modem_5g" -> "radio2"
      [] image = "modem_debug" -> "cp_debug" [] image = "modem_debug_5g" -> "cp2_debug"
      [] single /\ image \in BotaImages -> "bota"
      [] OTHER -> CASE image = "sboot" -> "bota0" [] image = "cm" -> "bota1"
                    [] image = "up_param" -> "bota2" [] OTHER -> image

\* A bota holds an image if one who reads it from the header on finds it.
Holds(p, image) ==
    LET seen == IF p \in Botas THEN Found(part[p]) ELSE part[p].records
    IN  /\ \E r \in seen : r.image = image /\ r.package = package /\ r.whole
        /\ p \in Botas => part[p].magic

\* A script that reports success has written every image of its package where it
\* belongs, whatever failures, kills and power cuts came before: the offsets and
\* the number of images are those a reader of the partition goes by.  The misnamed
\* images, which no script has a command for, are not meant.
DoneMeansWritten ==
    status = "done" /\ chosen =>
        \A image \in Images \ Misnamed :
            Size[package][image] > 0 /\ Home(image) \notin ignored => Holds(Home(image), image)

\* The bootloader's binary never goes down, whatever is left in the partitions by
\* the updates that were begun.  With one bota it is promised as long as no cut
\* and no ignored failure may have left records of several packages in it.
NoDowngrade ==
    [][~single \/ (cuts' = 0 /\ ignores' = 0) => Binary[running'] >= Binary[running]]_vars
=============================================================================
