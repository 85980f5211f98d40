------------------------------ MODULE FlashAll ------------------------------
(***************************************************************************)
(* An installation: the confirm handler of app.js, update()/flashAll()     *)
(* (webfastboot/src/flashall.js) and the reconnect of usb-transport.js, on *)
(* top of the driver calls FastbootDriver answers.                         *)
(*                                                                         *)
(* The code is one chain of awaits; "todo" is what is left of it.  A step  *)
(* is one driver call, with the getvars that lead to it as one lookup: a   *)
(* variable that goes unanswered does so for the whole lookup.  Phones     *)
(* leave, come back and are unplugged between any two steps.               *)
(***************************************************************************)
EXTENDS Naturals, FiniteSets, SequencesExt

CONSTANTS
    Phones, Ours,  \* the phones the page may open; the one the user chose
    HasSerial,     \* phones report a serial number
    Twin,          \* they are of one product
    OtherModes,    \* modes the other phones may be in
    Logical,       \* the partitions inside super
    Sources,       \* what a factory image may contain
    Scripts,       \* the fastboot-info.txt it may have; <<>>: none
    Options,       \* choices of the user: [wipe, skipSecondary, lock, force, slot]
    Starts,        \* how the chosen phone may be found: [mode, active, locked]
    MaxFaults,     \* bound: unanswered variables, refused commands, failed boots
    MaxUnplugs     \* bound: times the cable is pulled

Slots == {"a", "b"}
Places == ({"boot", "system", "vendor"} \X Slots) \cup {<<"userdata", "">>}
Modes == {"bootloader", "fastbootd", "recovery", "android", "away"}
Images == {"boot", "system", "vendor", "system_other"}
\* The partitions a script may name, one that no phone has among them, and the
\* modes its "reboot" lines may.
Names == {"boot", "system", "vendor", "userdata", "unknown"}
Targets == {"bootloader", "recovery", "android"}

Do(op) == [op |-> op]

\* What the lines of fastboot-info.txt are parsed to; "malformed" are those that
\* parseFastbootInfo() throws at.
ScriptTasks ==
    {Do("fastbootd"), Do("super"), Do("erase"), Do("malformed")}
      \cup [op : {"rebootLine"}, target : Targets \cup {"nowhere"}]
      \cup [op : {"flash"}, img : Images, name : Names, optional : BOOLEAN, other : BOOLEAN]

ASSUME OursAssumption == Ours \in Phones
ASSUME OtherModesAssumption == OtherModes \subseteq Modes \ {"away"}
ASSUME ScriptAssumption ==
    \A lines \in Scripts : lines \in Seq([ifWipe : BOOLEAN, task : ScriptTasks])
ASSUME OptionAssumption ==
    \A option \in Options :
        option \in [wipe : BOOLEAN, skipSecondary : BOOLEAN, lock : BOOLEAN, force : BOOLEAN,
                   slot : Slots \cup {"", "all"}]
ASSUME StartAssumption ==
    \A start \in Starts : start \in [mode : Modes \ {"away"}, active : Slots, locked : BOOLEAN]
ASSUME BoundAssumption == {MaxFaults, MaxUnplugs} \subseteq Nat

VARIABLES
    source, script, opts,
    \* the page
    todo, shown,
    expecting,      \* isExpectingReboot
    \* flashAll()
    required, current, secondary, dynamic, updatedSuper,
    \* driver.transport
    dev, open,
    \* the phones: state, content and size of the partitions
    phone, part, room,
    \* bounds
    faults, unplugs

planVars == <<source, script, opts>>
localVars == <<required, current, secondary, dynamic, updatedSuper>>
linkVars == <<dev, open>>
phoneVars == <<phone, part, room>>
fvars == <<planVars, todo, shown, expecting, localVars, linkVars, phoneVars, faults, unplugs>>

Image(img, name, optional) ==
    [op |-> "flash", img |-> img, name |-> name, optional |-> optional, other |-> FALSE]
OtherImage(img, name, optional) == [Image(img, name, optional) EXCEPT !.other = TRUE]

\* IMAGES: boot-critical, normal, and the secondary ones among the normal.
BootImages == <<Image("boot", "boot", FALSE)>>
OsImages == <<Image("system", "system", FALSE), Image("vendor", "vendor", TRUE)>>
OtherImages == <<OtherImage("system_other", "system", TRUE)>>

Stages == <<Do("unlock"), Do("require"), Do("activate"), Do("slots"), Do("snapshot"),
            Do("flashing"), Do("wipe"), Do("activateAgain"), Do("updated"), Do("lock"),
            Do("reboot")>>

\* What comes before that if adb holds the phone.
FromAdb == <<Do("adbReboot"), Do("choose"), Do("identify")>>

Init ==
    /\ source \in Sources /\ script \in Scripts /\ opts \in Options
    /\ todo = <<>> /\ shown = "idle" /\ expecting = FALSE
    /\ required = {} /\ current = "" /\ secondary = "" /\ dynamic = {} /\ updatedSuper = FALSE
    /\ dev = Ours /\ open = TRUE
    /\ \E start \in Starts, mode \in [Phones -> OtherModes] :
          phone = [p \in Phones |->
              [mode |-> IF p = Ours THEN start.mode ELSE mode[p],
               goto |-> "", plugged |-> TRUE, active |-> start.active, booted |-> start.active,
               locked |-> start.locked]]
    /\ part = [p \in Phones |-> [x \in Places |-> "old"]]
    /\ room = [p \in Phones |-> [x \in Places |-> "old"]]
    /\ faults = 0 /\ unplugs = 0

-----------------------------------------------------------------------------
(* The chain of awaits                                                     *)

Task(op) == todo # <<>> /\ Head(todo).op = op

Goes(next) == todo' = next /\ shown' = "progress"
Proceed == Goes(Tail(todo))
ProceedWith(more) == Goes(more \o Tail(todo))

Throw_unseen == todo' = <<>> /\ UNCHANGED shown

\* A rejected await ends in the catch block of the handler.
Throw == todo' = <<>> /\ shown' = "error"

\* A step with no effect on the phones and none on flashAll()'s variables.
Quietly == UNCHANGED <<planVars, expecting, localVars, linkVars, phoneVars, unplugs>>

\* The dialog stays open when the phone is unplugged.
Install ==
    /\ shown = "idle" /\ shown' = "progress"
    /\ IF phone[Ours].mode # "android" THEN todo' = Stages /\ UNCHANGED expecting
       ELSE todo' = FromAdb \o Stages /\ expecting' = TRUE
    /\ UNCHANGED <<planVars, localVars, linkVars, phoneVars, faults, unplugs>>

-----------------------------------------------------------------------------
(* Driver calls                                                            *)

Mode == phone[dev].mode

\* getVarSafe(): the names among those looked up that are not answered.
Lookup(names, missed) ==
    /\ faults' = IF open THEN faults + Cardinality(missed) ELSE faults
    /\ faults' <= MaxFaults
    /\ open \/ missed = names

\* A command that could succeed is answered, or refused.
Answered == open /\ UNCHANGED faults
Fails == (~open /\ UNCHANGED faults) \/ (open /\ faults < MaxFaults /\ faults' = faults + 1)

Enumerated == {p \in Phones : phone[p].plugged /\ phone[p].mode # "away"}

Current(missed) ==
    IF "current-slot" \in missed THEN ""
    ELSE IF Mode = "fastbootd" THEN phone[dev].booted ELSE phone[dev].active

Other(slot) == CHOOSE s \in Slots : s # slot

SlotOr(slot, default) == IF slot # "" THEN slot ELSE default

\* What the bootloader and fastbootd know: the first does not read super.
Exists(place) == place \in Places /\ (place[1] \in Logical => Mode = "fastbootd")

IsLogical(place) == Exists(place) /\ place[1] \in Logical

\* The bootloader's answer to has-slot.
Slotted(name) == \E s \in Slots : <<name, s>> \in Places

HasSlot_alone(name, slot, missed) == "has-slot" \notin missed /\ Slotted(name)

\* resolvePartitionName(): a device that does not answer yes to has-slot is
\* asked for the size of the slotted name.
HasSlot(name, slot, missed) ==
    \/ "has-slot" \notin missed /\ Slotted(name)
    \/ /\ {"slot-count", "partition-size"} \cap missed = {}
       /\ LET place == <<name, SlotOr(slot, Current(missed))>> IN
             Exists(place) /\ room[dev][place] # "none"

\* The partition a name and a slot stand for; without a current slot there is none.
Resolved(name, slot, missed) ==
    IF HasSlot(name, slot, missed) THEN <<name, SlotOr(slot, Current(missed))>>
                                   ELSE <<name, "">>

SetActive(slot) == phone' = [phone EXCEPT ![dev].active = slot]

-----------------------------------------------------------------------------
(* From adb to the bootloader                                              *)

\* The page's reboot over adb: an error is taken for the phone leaving.
AdbReboot ==
    /\ Task("adbReboot") /\ Proceed
    /\ \/ Answered /\ phone' = [phone EXCEPT ![dev].goto = "bootloader"]
       \/ Fails /\ UNCHANGED phone
    /\ UNCHANGED <<planVars, expecting, localVars, linkVars, part, room, unplugs>>

\* The chooser, in which users find the phone they mean, and transport.open();
\* or it is dismissed.
Choose ==
    /\ Task("choose")
    /\ \/ /\ Ours \in Enumerated /\ phone[Ours].mode \in {"bootloader", "fastbootd"}
          /\ expecting' = FALSE
          /\ \/ Proceed /\ dev' = Ours /\ open' = TRUE
             \/ Throw /\ UNCHANGED linkVars
       \/ Throw /\ UNCHANGED <<expecting, linkVars>>
    /\ UNCHANGED <<planVars, localVars, phoneVars, faults, unplugs>>

\* The product name; until it is read the page takes the adb device for its own.
Identify ==
    /\ Task("identify") /\ Proceed
    /\ \E missed \in SUBSET {"product"} : Lookup({"product"}, missed)
    /\ Quietly

-----------------------------------------------------------------------------
(* Stages of the handler and of flashAll()                                 *)

Unlock ==
    /\ Task("unlock")
    /\ \/ /\ \E missed \in SUBSET {"unlocked"} :
                Lookup({"unlocked"}, missed) /\ (missed = {} => ~phone[dev].locked)
          /\ Proceed /\ UNCHANGED phoneVars
       \/ /\ open /\ phone[dev].locked /\ Answered
          /\ phone' = [phone EXCEPT ![dev].locked = FALSE]
          /\ part' = [part EXCEPT ![dev][<<"userdata", "">>] = "none"]
          /\ Proceed /\ UNCHANGED room
       \/ open /\ phone[dev].locked /\ Fails /\ Throw /\ UNCHANGED phoneVars
    /\ UNCHANGED <<planVars, expecting, localVars, linkVars, unplugs>>

\* "partition-exists": an image the list may then not do without.
Demanded(missed) ==
    IF "partition-exists" \in source /\ ("has-slot" \notin missed \/ opts.force) THEN {"vendor"} ELSE {}

\* checkRequirements(): one on the product, and a partition that must exist.  A
\* requirement is not met, not answered, or names an unknown partition.
Require ==
    /\ Task("require")
    /\ \/ "android-info" \notin source /\ Proceed /\ UNCHANGED <<faults, required>>
       \/ /\ "android-info" \in source
          /\ \E missed \in SUBSET {"product", "has-slot"} :
                /\ Lookup({"product", "has-slot"}, missed)
                /\ \/ ("product" \notin missed \/ opts.force) /\ Proceed /\ required' = Demanded(missed)
                   \/ ~opts.force /\ Throw /\ UNCHANGED required
    /\ UNCHANGED <<planVars, expecting, current, secondary, dynamic, updatedSuper, linkVars,
                   phoneVars, unplugs>>

\* Step 2 of flashAll(): the slot a reboot must come up in.
Activate ==
    /\ Task("activate")
    /\ \E missed \in SUBSET {"slot-count", "current-slot"} :
          LET slot == IF opts.slot = "all" THEN "a" ELSE SlotOr(opts.slot, Current(missed)) IN
          \/ /\ Lookup({"slot-count", "current-slot"}, missed)
             /\ "slot-count" \in missed \/ slot = ""
             /\ Proceed /\ UNCHANGED phone
          \/ /\ missed \subseteq {"current-slot"} /\ slot # "" /\ open
             /\ \/ Lookup({"slot-count", "current-slot"}, missed) /\ Proceed /\ SetActive(slot)
                \/ missed = {} /\ Fails /\ Throw /\ UNCHANGED phone
    /\ UNCHANGED <<planVars, expecting, localVars, linkVars, part, room, unplugs>>

\* Step 3: the slot of the images, "all" among them, and that of the secondary ones.
DetermineSlots ==
    /\ Task("slots")
    /\ \E missed \in SUBSET {"slot-count", "current-slot"} :
          LET one == IF opts.slot \in Slots THEN opts.slot ELSE Current(missed) IN
          /\ Lookup({"slot-count", "current-slot"}, missed)
          /\ current' = SlotOr(opts.slot, Current(missed))
          /\ secondary' = IF opts.skipSecondary \/ "slot-count" \in missed \/ one = ""
                          THEN "" ELSE Other(one)
    /\ Proceed
    /\ UNCHANGED <<planVars, expecting, required, dynamic, updatedSuper, linkVars, phoneVars, unplugs>>

\* cancelSnapshotIfNeeded(): a refused or unanswered cancel is passed over.
CancelSnapshot ==
    /\ Task("snapshot") /\ Proceed
    /\ Answered \/ Fails
    /\ Quietly

\* parseFastbootInfo(): "if-wipe" lines only count for a wipe.
ParseFastbootInfo ==
    LET tasks[n \in 0..Len(script)] ==
          IF n = 0 THEN <<>>
          ELSE IF script[n].ifWipe => opts.wipe THEN Append(tasks[n - 1], script[n].task)
          ELSE tasks[n - 1]
    IN  tasks[Len(script)]

Malformed == \E i \in DOMAIN ParseFastbootInfo : ParseFastbootInfo[i].op = "malformed"

Demand_asListed(images) == images

\* The images with those that "partition-exists" lines name no longer optional.
Demand(images) ==
    [i \in DOMAIN images |-> [images[i] EXCEPT !.optional = @ /\ images[i].name \notin required]]

ListTasks ==
    BootImages \o <<Do("super")>> \o Demand(OsImages)
      \o (IF secondary = "" THEN <<>> ELSE OtherImages)

\* The device's own script if there is one, which is parsed before any of it
\* runs; the built-in list if not.
CollectTasks ==
    /\ Task("flashing")
    /\ IF Malformed THEN Throw
       ELSE ProceedWith(IF script # <<>> THEN Append(ParseFastbootInfo, Do("resizeAll")) ELSE ListTasks)
    /\ Quietly /\ UNCHANGED faults

Wipe ==
    /\ Task("wipe")
    /\ ProceedWith(IF opts.wipe THEN <<Do("erase")>> ELSE <<>>)
    /\ Quietly /\ UNCHANGED faults

SlotToActivate == SlotOr(current, "a")

\* Step 7.6: the same slot again; a refusal is only reported, that of the slot
\* "all" too.
ActivateAgain ==
    /\ Task("activateAgain")
    /\ \/ /\ \E missed \in SUBSET {"slot-count"} :
                Lookup({"slot-count"}, missed) /\ missed # {}
          /\ UNCHANGED phone
       \/ Answered /\ SlotToActivate \in Slots /\ SetActive(SlotToActivate)
       \/ Answered /\ SlotToActivate \notin Slots /\ UNCHANGED phone
       \/ open /\ Fails /\ UNCHANGED phone
    /\ Proceed
    /\ UNCHANGED <<planVars, expecting, localVars, linkVars, part, room, unplugs>>

\* update() has returned: a reboot is no longer expected.
Updated ==
    /\ Task("updated") /\ Proceed
    /\ expecting' = FALSE
    /\ UNCHANGED <<planVars, localVars, linkVars, phoneVars, faults, unplugs>>

Lock ==
    /\ Task("lock")
    /\ \/ ~opts.lock /\ Proceed /\ UNCHANGED <<phone, faults>>
       \/ opts.lock /\ Answered /\ Proceed /\ phone' = [phone EXCEPT ![dev].locked = TRUE]
       \/ opts.lock /\ Fails /\ Throw /\ UNCHANGED phone
    /\ UNCHANGED <<planVars, expecting, localVars, linkVars, part, room, unplugs>>

Reboot ==
    /\ Task("reboot")
    /\ \/ /\ Answered
          /\ phone' = [phone EXCEPT ![dev].goto = "android"]
          /\ todo' = <<>> /\ shown' = "complete"
       \/ Fails /\ Throw /\ UNCHANGED phone
    /\ UNCHANGED <<planVars, expecting, localVars, linkVars, part, room, unplugs>>

-----------------------------------------------------------------------------
(* Tasks of a flashing script                                              *)

\* runFlashInfoTask(), flashImageList(): "" stands for the current slot.
SlotOf(task) == IF task.other THEN secondary ELSE opts.slot

\* The commands for one partition of a task.
PartitionTask(op, task, place) ==
    [op |-> op, img |-> task.img, place |-> place, name |-> task.name, optional |-> task.optional]
WriteTask(task, place) == PartitionTask("write", task, place)
ResizeTask(place, size) == [op |-> "resize", place |-> place, size |-> size]

SizeThenWrite_swapped(task, place) ==
    <<WriteTask(task, place), ResizeTask(place, "image")>>

SizeThenWrite(task, place) == <<ResizeTask(place, "image"), WriteTask(task, place)>>

\* resolvePartitionNames(): one of each slot for "all", or none if their number
\* goes unanswered.
ResolvedNames(name, slot, missed) ==
    IF slot # "all" THEN <<Resolved(name, slot, missed)>>
    ELSE IF ~HasSlot(name, "", missed) THEN <<<<name, "">>>>
    ELSE IF "slot-count" \in missed THEN <<>>
    ELSE <<Resolved(name, "a", missed), Resolved(name, "b", missed)>>

\* No name for a partition with slots without the current one.
Unresolved(name, slot, missed) ==
    slot = "" /\ HasSlot(name, slot, missed) /\ "current-slot" \in missed

\* flashImageEntry(): the image, and the partitions it is for.
FlashImage ==
    /\ Task("flash")
    /\ LET task == Head(todo)  slot == SlotOf(task)
           names == {"has-slot", "slot-count", "current-slot", "partition-size"} IN
       \/ /\ task.img \notin source /\ UNCHANGED faults
          /\ IF task.optional THEN Proceed ELSE Throw
       \/ /\ task.img \in source
          /\ \E missed \in SUBSET names :
                LET places == ResolvedNames(task.name, slot, missed) IN
                /\ Lookup(names, missed)
                /\ IF Unresolved(task.name, slot, missed) THEN Throw
                   ELSE ProceedWith([i \in DOMAIN places |->
                                        PartitionTask("partition", task, places[i])])
    /\ Quietly

\* ... and for each of them, up to the first command.  logicalImageSize() reads
\* the header of a sparse image alone, and parseSparse() throws for want of the
\* chunks.
FlashPartition ==
    /\ Task("partition")
    /\ LET task == Head(todo) IN
       \E missed \in SUBSET {"is-logical"} :
          /\ Lookup({"is-logical"}, missed)
          /\ IF missed # {} \/ ~IsLogical(task.place)
             THEN ProceedWith(<<WriteTask(task, task.place)>>)
             ELSE IF "sparse" \in source THEN Throw
             ELSE ProceedWith(SizeThenWrite(task, task.place))
    /\ Quietly

Content(place, what) == part' = [part EXCEPT ![dev][place] = what]

Resize ==
    /\ Task("resize")
    /\ LET task == Head(todo) IN
       \/ /\ Answered /\ Exists(task.place)
          /\ Content(task.place, "none")
          /\ room' = [room EXCEPT ![dev][task.place] = task.size]
          /\ dynamic' = IF task.size = "image" THEN dynamic \cup {task.place} ELSE dynamic
          /\ Proceed
       \/ /\ Fails \/ (Answered /\ ~Exists(task.place))
          /\ Throw /\ UNCHANGED <<part, room, dynamic>>
    /\ UNCHANGED <<planVars, expecting, required, current, secondary, updatedSuper, linkVars,
                   phone, unplugs>>

Skippable(task) == task.optional \/ task.name \notin {"boot", "system"}

\* flashBlob(), and the errors flashImageEntry() takes for a missing partition.
Write ==
    /\ Task("write")
    /\ LET task == Head(todo) IN
       \/ /\ Answered /\ Exists(task.place) /\ ~phone[dev].locked
          /\ room[dev][task.place] # "none"
          /\ Content(task.place, task.img) /\ Proceed
       \/ /\ Answered /\ ~Exists(task.place) /\ UNCHANGED part
          /\ IF Skippable(task) THEN Proceed ELSE Throw
       \/ /\ Exists(task.place) /\ open /\ Fails
          /\ Content(task.place, "none") /\ Throw
       \/ /\ Answered /\ Exists(task.place)
          /\ phone[dev].locked \/ room[dev][task.place] # "image"
          /\ Throw /\ UNCHANGED part
       \/ ~open /\ Fails /\ Throw /\ UNCHANGED part
    /\ UNCHANGED <<planVars, expecting, localVars, linkVars, phone, room, unplugs>>

\* updateSuper() needs the layout of the image and a phone in fastbootd.
UpdateSuper ==
    /\ Task("super")
    /\ ProceedWith(IF "super_empty" \in source THEN <<Do("fastbootd"), Do("merge")>> ELSE <<>>)
    /\ Quietly /\ UNCHANGED faults

LogicalPlaces == {x \in Places : x[1] \in Logical}

Merge ==
    /\ Task("merge")
    /\ \/ /\ Answered /\ Mode = "fastbootd"
          /\ part' = [part EXCEPT ![dev] = [x \in Places |->
                 IF opts.wipe /\ x \in LogicalPlaces THEN "none" ELSE @[x]]]
          /\ room' = [room EXCEPT ![dev] = [x \in Places |->
                 IF opts.wipe /\ x \in LogicalPlaces THEN "none" ELSE @[x]]]
          /\ updatedSuper' = TRUE /\ Proceed
       \/ /\ Fails \/ (Answered /\ Mode # "fastbootd")
          /\ Throw /\ UNCHANGED <<part, room, updatedSuper>>
    /\ UNCHANGED <<planVars, expecting, required, current, secondary, dynamic, linkVars,
                   phone, unplugs>>

\* resizeDynamicPartitionsToZero() at the end of a script.
ResizeAll ==
    /\ Task("resizeAll")
    /\ LET zero == IF updatedSuper THEN SetToSeq(dynamic) ELSE <<>> IN
       ProceedWith([i \in DOMAIN zero |-> ResizeTask(zero[i], "none")])
    /\ Quietly /\ UNCHANGED faults

\* erasePartitionIfExists(): no type, no erase; a failure is only reported.
Erase ==
    /\ Task("erase")
    /\ \/ Answered /\ ~phone[dev].locked /\ Content(<<"userdata", "">>, "none")
       \/ Answered /\ phone[dev].locked /\ UNCHANGED part
       \/ Fails /\ UNCHANGED part
    /\ Proceed
    /\ UNCHANGED <<planVars, expecting, localVars, linkVars, phone, room, unplugs>>

RebootTask(mode) == [op |-> "rebootTo", mode |-> mode]
RebootLine(target) == [op |-> "rebootLine", target |-> target]

\* A "reboot" line of a script, but for "reboot fastboot": nothing is opened
\* again afterwards.
RebootAway ==
    /\ Task("rebootLine")
    /\ LET target == Head(todo).target IN
       IF target \in Targets THEN ProceedWith(<<RebootTask(target), Do("waitForDisconnect")>>)
                          ELSE Throw
    /\ Quietly /\ UNCHANGED faults

-----------------------------------------------------------------------------
(* rebootToUserspaceFastboot()                                             *)

AfterReconnect_unchecked == <<>>

AfterReconnect == <<Do("checkUserspace")>>

RebootToUserspace ==
    /\ Task("fastbootd")
    /\ \E missed \in SUBSET {"is-userspace"} :
          /\ Lookup({"is-userspace"}, missed)
          /\ IF missed = {} /\ Mode = "fastbootd" THEN Proceed /\ UNCHANGED expecting
             ELSE /\ ProceedWith(<<RebootTask("fastbootd"), Do("waitForDisconnect"), Do("waitForReconnect")>>
                                   \o AfterReconnect)
                  /\ expecting' = TRUE
    /\ UNCHANGED <<planVars, localVars, linkVars, phoneVars, unplugs>>

RebootTo ==
    /\ Task("rebootTo")
    /\ \/ Answered /\ Proceed /\ phone' = [phone EXCEPT ![dev].goto = Head(todo).mode]
       \/ Fails /\ Throw /\ UNCHANGED phone
    /\ UNCHANGED <<planVars, expecting, localVars, linkVars, part, room, unplugs>>

\* The handler is registered in the turn that reads the answer to the reboot:
\* the phone has not left before.
WaitForDisconnect ==
    /\ Task("waitForDisconnect") /\ ~open
    /\ Proceed /\ Quietly /\ UNCHANGED faults

\* findMatchingDevice(): by serial number, by product, or any phone at all.
FindMatchingDevice(found) ==
    IF dev \in found /\ (HasSerial \/ ~Twin) THEN {dev} ELSE found

WaitForReconnect_forever ==
    /\ Task("waitForReconnect")
    /\ \E p \in FindMatchingDevice(Enumerated) :
          phone[p].mode \in {"bootloader", "fastbootd"} /\ dev' = p
    /\ open' = TRUE /\ Proceed
    /\ UNCHANGED <<planVars, expecting, localVars, phoneVars, faults, unplugs>>

\* One poll that opens a phone, or the deadline.
WaitForReconnect ==
    /\ Task("waitForReconnect")
    /\ \/ /\ \E p \in FindMatchingDevice(Enumerated) :
                phone[p].mode \in {"bootloader", "fastbootd"} /\ dev' = p
          /\ open' = TRUE /\ Proceed
       \/ Throw /\ UNCHANGED linkVars
    /\ UNCHANGED <<planVars, expecting, localVars, phoneVars, faults, unplugs>>

CheckUserspace ==
    /\ Task("checkUserspace")
    /\ \E missed \in SUBSET {"is-userspace"} :
          /\ Lookup({"is-userspace"}, missed)
          /\ IF missed = {} /\ Mode = "fastbootd" THEN Proceed ELSE Throw
    /\ Quietly

-----------------------------------------------------------------------------
(* The phones (external), and the disconnect listener of the page          *)

Installing == todo # <<>>

\* disconnectListener(): silent while a reboot is expected, or the phone is not
\* yet taken for the page's own.  A phone that is back is another USBDevice object.
Disconnected(p) ==
    /\ open' = (open /\ p # dev)
    /\ shown' = IF Installing /\ ~expecting /\ ~Task("identify") /\ open /\ p = dev THEN "error" ELSE shown
    /\ UNCHANGED <<planVars, todo, expecting, localVars, dev, part, room>>

Leave(p) ==
    /\ phone[p].goto # ""
    /\ phone' = [phone EXCEPT ![p].mode = "away"]
    /\ phone[p].mode # "away"
    /\ Disconnected(p)
    /\ UNCHANGED <<faults, unplugs>>

\* fastbootd may fail to boot.
Arrive(p) ==
    /\ phone[p].mode = "away"
    /\ \/ UNCHANGED faults /\ phone' = [phone EXCEPT ![p].mode = phone[p].goto,
                                          ![p].goto = "", ![p].booted = phone[p].active]
       \/ /\ faults < MaxFaults /\ faults' = faults + 1
          /\ phone' = [phone EXCEPT ![p].mode = "bootloader", ![p].goto = ""]
    /\ UNCHANGED <<planVars, todo, shown, expecting, localVars, linkVars, part, room, unplugs>>

Unplug(p) ==
    /\ unplugs < MaxUnplugs /\ unplugs' = unplugs + 1
    /\ phone[p].plugged /\ phone' = [phone EXCEPT ![p].plugged = FALSE]
    /\ Disconnected(p)
    /\ UNCHANGED faults

Replug(p) ==
    /\ ~phone[p].plugged /\ phone' = [phone EXCEPT ![p].plugged = TRUE]
    /\ UNCHANGED <<planVars, todo, shown, expecting, localVars, linkVars, part, room,
                   faults, unplugs>>

-----------------------------------------------------------------------------
HostStep ==
    \/ AdbReboot \/ Choose \/ Identify
    \/ Unlock \/ Require \/ Activate \/ DetermineSlots \/ CancelSnapshot \/ CollectTasks \/ Wipe
    \/ ActivateAgain \/ Updated \/ Lock \/ Reboot
    \/ FlashImage \/ FlashPartition \/ Resize \/ Write \/ UpdateSuper \/ Merge \/ ResizeAll \/ Erase
    \/ RebootAway \/ RebootToUserspace \/ RebootTo \/ WaitForDisconnect \/ WaitForReconnect
    \/ CheckUserspace

Next ==
    \/ Install \/ HostStep
    \/ \E p \in Phones : Leave(p) \/ Arrive(p) \/ Unplug(p) \/ Replug(p)

Spec == Init /\ [][Next]_fvars

\* The event loop runs, and a phone told to reboot leaves the bus.
FairSpec == Spec /\ WF_fvars(HostStep) /\ \A p \in Phones : WF_fvars(Leave(p))

-----------------------------------------------------------------------------
(* Properties                                                              *)

Ops == {"adbReboot", "choose", "identify", "unlock", "require", "activate", "slots", "snapshot",
        "flashing", "wipe", "activateAgain", "updated", "lock", "reboot", "flash", "partition",
        "write", "resize", "resizeAll", "super", "merge", "erase", "rebootLine", "fastbootd",
        "rebootTo", "waitForDisconnect", "waitForReconnect", "checkUserspace"}

\* Every variable keeps its type.
TypeOK ==
    /\ source \in Sources /\ script \in Scripts /\ opts \in Options
    /\ \A i \in DOMAIN todo : todo[i].op \in Ops
    /\ shown \in {"idle", "progress", "error", "complete"} /\ expecting \in BOOLEAN
    /\ required \subseteq {"vendor"}
    /\ current \in Slots \cup {"", "all"} /\ secondary \in Slots \cup {""}
    /\ dynamic \subseteq Places /\ updatedSuper \in BOOLEAN
    /\ dev \in Phones /\ open \in BOOLEAN
    /\ phone \in [Phones -> [mode : Modes, goto : Modes \cup {""}, plugged : BOOLEAN,
                             active : Slots, booted : Slots, locked : BOOLEAN]]
    /\ part \in [Phones -> [Places -> Images \cup {"old", "none"}]]
    /\ room \in [Phones -> [Places -> {"old", "none", "image"}]]
    /\ faults \in 0..MaxFaults /\ unplugs \in 0..MaxUnplugs

\* The images an installation is to leave behind: those a list or a script
\* cannot do without, and the optional ones the factory image has or must have.
Planned(optional) ==
    LET tasks == IF script = <<>> THEN BootImages \o OsImages
                 ELSE SelectSeq(ParseFastbootInfo, LAMBDA t : t.op = "flash" /\ ~t.other)
    IN  {tasks[i] : i \in {j \in DOMAIN tasks :
            tasks[j].optional =>
               /\ optional
               /\ tasks[j].img \in source \/ (script = <<>> /\ tasks[j].name \in required)}}

\* The phone would start nothing but the new system.
Whole(optional) ==
    \A task \in Planned(optional) : part[Ours][<<task.name, phone[Ours].active>>] = task.img

\* A missing optional partition is passed over; with the layout of super
\* rebuilt, a partition whose has-slot goes unanswered cannot be told from one.
NothingPassedOver == faults = 0 \/ ~opts.wipe

\* Where no current slot was reported flashAll() activates 'a' regardless; for
\* the slot "all", an image whose slot-count goes unanswered is flashed nowhere.
SlotsKnown == current # "" /\ (opts.slot = "all" => faults = 0)

\* The page says "Installation complete!", and the bootloader is locked again,
\* only with every image of the plan in the slot the phone starts next, at
\* whatever point it was unplugged, refused a command or left a variable
\* unanswered (app.js updateProgress, lockBootloader; flashall.js flashAll).
CommitsWhole ==
    [][(SlotsKnown /\ (shown' = "complete" \/ (phone'[Ours].locked /\ ~phone[Ours].locked)))
          => Whole(NothingPassedOver)]_fvars

\* No phone but the one the user chose is written to, made to start another
\* slot, or locked (usb-transport.js findMatchingDevice, flashall.js
\* rebootToUserspaceFastboot).
OnlyOurs ==
    [][\A p \in Phones \ {Ours} :
          /\ part'[p] = part[p] /\ room'[p] = room[p]
          /\ phone'[p].active = phone[p].active /\ phone'[p].locked = phone[p].locked]_fvars

\* resize-logical-partition and update-super go to a phone in fastbootd only
\* (flashall.js isLogicalPartition, rebootToUserspaceFastboot), although the
\* mode was looked at some steps earlier and the link may have changed.
UserspaceOnly ==
    (open /\ todo # <<>> /\ Head(todo).op \in {"merge", "resize"}) => Mode = "fastbootd"

\* An installation ends, whatever the phone refuses and whenever it is
\* unplugged: completed or with an error (app.js confirm handler).
InstallSettles == todo # <<>> ~> (todo = <<>> /\ shown \in {"complete", "error"})

Reconnecting == Head(todo).op \in {"adbReboot", "choose", "waitForDisconnect", "waitForReconnect"}

\* A phone lost outside a reboot is reported, although getvars that go
\* unanswered and refused erases are passed over (flashall.js getVarSafe,
\* erasePartitionIfExists).
UnplugIsReported ==
    (todo # <<>> /\ ~open /\ ~Reconnecting) ~> (todo = <<>> /\ shown = "error")
=============================================================================
