--------------------------- MODULE FastbootDriver ---------------------------
(***************************************************************************)
(* FastbootDriver (webfastboot/src/fastboot-driver.js) on the read() and   *)
(* write() of WebUsbTransport (webfastboot/src/usb-transport.js), with the *)
(* bootloader at the other end of the cable as environment.                *)
(*                                                                         *)
(* The application awaits one job at a time; a job is one driver call, or  *)
(* the calls flashBlob() and flashPartition() make.  Answers carry no      *)
(* command number: whatever the next transferIn delivers is taken as the   *)
(* answer.  A response is awaited in a race with a timer, and the          *)
(* transferIn that loses the race stays pending in the browser, ahead of   *)
(* every later one ("abandoned").                                          *)
(*                                                                         *)
(* The host is fast compared with RESP_TIMEOUT_MS (ten minutes): time only *)
(* passes while nothing can be delivered.  A transferOut resolves in the   *)
(* step in which the bootloader takes it.                                  *)
(***************************************************************************)
EXTENDS Naturals, SequencesExt

CONSTANTS
    Pieces,     \* number of pieces prepareForFlashing() makes of an image
    Chunks,     \* bulk transfers per data phase
    Timeout,    \* RESP_TIMEOUT_MS, in ticks
    MaxInfo,    \* bound: INFO or TEXT packets per command
    MaxJobs,    \* bound: jobs of the application
    Capacity,   \* packets the bootloader can queue without a pending transferIn
    MayRefuse,  \* fetch may offer more than MAX_DOWNLOAD_SIZE
    MayUnplug   \* the cable may be pulled

ASSUME SizeAssumption == {Pieces, Chunks, Timeout, Capacity} \subseteq Nat \ {0}
ASSUME BoundAssumption == {MaxInfo, MaxJobs} \subseteq Nat
ASSUME FlagAssumption == {MayRefuse, MayUnplug} \subseteq BOOLEAN

VARIABLES
    \* the application
    job, jobs,      \* the job it awaits, and how many it has started
    piece,          \* flashBlob: pieceIdx
    outcome,        \* how the latest job ended
    \* the driver
    call,           \* the command it is executing
    no,             \* how many commands it has written
    pc, moved,      \* where the call is, chunks moved in its data phase
    left,           \* ticks to timeoutAt
    \* the transport
    reading,        \* the call has a transferIn pending
    abandoned,      \* transferIns pending that nobody awaits any more
    toHost, linkUp,
    \* the bootloader
    dev,            \* [mode, of: the number of its command, kind, n: chunks, infos]
    quiet,          \* ticks since it last sent or took something
    staged,         \* what the last download left in its buffer
    content,        \* per piece, the job that wrote it; 0: anything else
    \* auxiliary
    prompt,         \* the bootloader is never silent for Timeout ticks
    gaveUp,         \* the driver has left a command before its final answer,
                    \* and no job has found driver and bootloader at rest since
    crossed         \* since then: another command's answer was taken as the call's own

jobVars == <<job, jobs, piece, outcome>>
callVars == <<call, no, pc, moved, left>>
usbVars == <<reading, abandoned>>
devVars == <<dev, quiet, staged, content>>
auxVars == <<prompt, gaveUp, crossed>>
dvars == <<jobVars, callVars, usbVars, toHost, linkUp, devVars, auxVars>>

Idle == [mode |-> "idle", kind |-> "none", of |-> 0, n |-> 0, infos |-> 0]
Empty == [piece |-> 0, job |-> 0]

Init ==
    /\ job = "none" /\ jobs = 0 /\ piece = 0 /\ outcome = "none"
    /\ call = "none" /\ no = 0 /\ pc = "idle" /\ moved = 0 /\ left = 0
    /\ reading = FALSE /\ abandoned = 0 /\ toHost = <<>> /\ linkUp = TRUE
    /\ dev = Idle /\ quiet = 0 /\ staged = Empty
    /\ content = [p \in 1..Pieces |-> 0]
    /\ prompt \in BOOLEAN /\ gaveUp = FALSE /\ crossed = FALSE

-----------------------------------------------------------------------------
(* Jobs                                                                    *)

\* The driver starts a call: its command is handed to transferOut.
Begin(kind) == call' = kind /\ pc' = "command"

EndJob(how) ==
    /\ job' = "none" /\ outcome' = how
    /\ call' = "none" /\ pc' = "idle"
    /\ UNCHANGED piece

JobKinds == {"command", "fetch", "blob", "part"}
FirstCall == [command |-> "command", fetch |-> "fetch", blob |-> "getvar", part |-> "download"]

\* Nothing is on its way, and the bootloader waits for a command.
AtRest == abandoned = 0 /\ toHost = <<>> /\ dev.mode = "idle"

StartJob(kind) ==
    /\ job = "none" /\ jobs < MaxJobs
    /\ job' = kind /\ jobs' = jobs + 1
    /\ piece' = IF kind = "part" THEN 1 ELSE 0
    /\ outcome' = "none"
    /\ Begin(FirstCall[kind])
    /\ gaveUp' = (gaveUp /\ ~AtRest) /\ crossed' = (crossed /\ ~AtRest)
    /\ UNCHANGED <<no, moved, left, usbVars, toHost, linkUp, devVars, prompt>>

LastPiece_offByOne(kind) == IF kind = "part" THEN 1 ELSE Pieces + 1

LastPiece(kind) == IF kind = "part" THEN 1 ELSE Pieces

\* flashBlob(): max-download-size, then download and flash for every piece;
\* flashPartition(): one download and one flash.
CallResolves ==
    \/ /\ call = "getvar"
       /\ Begin("download") /\ piece' = 1 /\ UNCHANGED <<job, outcome>>
    \/ /\ call = "download"
       /\ Begin("flash") /\ UNCHANGED <<job, piece, outcome>>
    \/ /\ call = "flash" /\ piece < LastPiece(job)
       /\ Begin("download") /\ piece' = piece + 1 /\ UNCHANGED <<job, outcome>>
    \/ /\ call \notin {"getvar", "download"}
       /\ call = "flash" => piece >= LastPiece(job)
       /\ EndJob("resolved")

CallRejects_carriesOn ==
    IF call = "download" THEN Begin("flash") /\ UNCHANGED <<job, piece, outcome>>
                         ELSE EndJob("rejected")

\* flashBlob() falls back to a default when max-download-size cannot be read.
CallRejects ==
    IF call = "getvar" THEN Begin("download") /\ piece' = 1 /\ UNCHANGED <<job, outcome>>
                       ELSE EndJob("rejected")

-----------------------------------------------------------------------------
(* Responses                                                               *)

Timing == pc \in {"response", "final"}

Deliverable == toHost # <<>> /\ (reading \/ abandoned > 0)

\* A transferIn whose response timed out swallows the next packet.
Swallow ==
    /\ abandoned > 0 /\ toHost # <<>>
    /\ abandoned' = abandoned - 1 /\ toHost' = Tail(toHost)
    /\ UNCHANGED <<jobVars, callVars, reading, linkUp, devVars, auxVars>>

AwaitResponse(where) == pc' = where /\ reading' = TRUE /\ left' = Timeout

AfterData_unread == CallResolves /\ UNCHANGED <<left, reading>>

\* download() awaits a second response once everything is written.
AfterData == AwaitResponse("final") /\ UNCHANGED <<job, piece, outcome, call>>

\* The pending transferIn of the call delivers a packet.
Arrives(statuses) ==
    /\ reading /\ abandoned = 0 /\ toHost # <<>> /\ Head(toHost).status \in statuses
    /\ toHost' = Tail(toHost)
    /\ crossed' = (crossed \/ Head(toHost).of # no)
    /\ UNCHANGED <<jobs, no, abandoned, linkUp, devVars, prompt>>

Restart_never == UNCHANGED left

\* INFO and TEXT move the deadline.
Restart == left' = Timeout

OnProgress ==
    /\ Timing /\ Arrives({"INFO"})
    /\ Restart
    /\ UNCHANGED <<job, piece, outcome, call, pc, moved, reading, gaveUp>>

DataCall == call \in {"download", "fetch"}

Accepted_unchecked(status) == DataCall /\ pc = "response" => status = "DATA"

\* The answers the call goes on with: DATA to announce a data phase, OKAY
\* after one; a call without data phase only looks for FAIL.
Accepted(status) ==
    CASE DataCall /\ pc = "response" -> status = "DATA"
      [] DataCall /\ pc = "final"    -> status = "OKAY"
      [] OTHER                       -> status \in {"OKAY", "DATA"}

\* _handleResponse returns OKAY, FAIL or DATA.
OnAnswer ==
    /\ Timing /\ Arrives({"OKAY", "FAIL", "DATA"})
    /\ LET status == Head(toHost).status IN
       \/ /\ ~Accepted(status)
          /\ CallRejects
          /\ reading' = FALSE
       \/ /\ Accepted(status) /\ DataCall /\ pc = "response"
          /\ pc' = "data" /\ reading' = (call = "fetch")
          /\ UNCHANGED <<job, piece, outcome, call>>
       \/ /\ Accepted(status) /\ ~(DataCall /\ pc = "response")
          /\ CallResolves
          /\ reading' = FALSE
    /\ moved' = 0 /\ left' = 0
    /\ UNCHANGED gaveUp

\* _handleResponse throws: DATA beyond MAX_DOWNLOAD_SIZE, or no status at all.
OnNonsense ==
    /\ Timing /\ Arrives({"TOOBIG", "chunk"})
    /\ CallRejects
    /\ moved' = 0 /\ left' = 0 /\ reading' = FALSE /\ gaveUp' = TRUE

\* _runAndReadBuffer: read() without a timer until the announced size is there.
OnChunk ==
    /\ pc = "data" /\ Arrives({"INFO", "OKAY", "FAIL", "DATA", "TOOBIG", "chunk"})
    /\ moved' = moved + 1
    /\ \/ moved + 1 < Chunks /\ UNCHANGED <<pc, left>>
       \/ moved + 1 >= Chunks /\ pc' = "final" /\ left' = Timeout
    /\ UNCHANGED <<job, piece, outcome, call, reading, gaveUp>>

\* The loser of Promise.race keeps its place in the queue of transferIns.
Abandon == reading' = FALSE /\ abandoned' = abandoned + 1

Expired_never == FALSE

Expired == left = 0

TimesOut ==
    /\ Timing /\ Expired /\ ~Deliverable
    /\ CallRejects
    /\ Abandon
    /\ moved' = 0 /\ gaveUp' = TRUE
    /\ UNCHANGED <<jobs, no, left, toHost, linkUp, devVars, prompt, crossed>>

Rejects_whileReading == ~linkUp /\ reading

\* Every transfer rejects once the device is gone, the next ones at once.
Rejects == ~linkUp /\ pc # "idle"

TransferRejects ==
    /\ Rejects
    /\ CallRejects
    /\ moved' = 0 /\ left' = 0 /\ reading' = FALSE /\ gaveUp' = TRUE
    /\ UNCHANGED <<jobs, no, abandoned, toHost, linkUp, devVars, prompt, crossed>>

Answering == dev.mode \in {"busy", "sending", "sent", "stored"}

Tick ==
    /\ Timing /\ left > 0 /\ ~Deliverable /\ linkUp
    /\ prompt /\ Answering => quiet < Timeout - 1
    /\ left' = left - 1
    /\ quiet' = IF quiet < Timeout THEN quiet + 1 ELSE quiet
    /\ UNCHANGED <<jobVars, call, no, pc, moved, usbVars, toHost, linkUp,
                   dev, staged, content, auxVars>>

-----------------------------------------------------------------------------
(* The bootloader (external)                                               *)

Sends(status) ==
    /\ linkUp /\ Len(toHost) < Capacity
    /\ toHost' = Append(toHost, [status |-> status, of |-> dev.of])
    /\ quiet' = 0
    /\ UNCHANGED <<jobVars, callVars, usbVars, linkUp, auxVars>>

\* It takes the command that is waiting in transferOut.
DevTakeCommand ==
    /\ linkUp /\ pc = "command" /\ dev.mode = "idle"
    /\ no' = no + 1
    /\ dev' = [mode |-> "busy", kind |-> call, of |-> no + 1, n |-> 0, infos |-> 0]
    /\ quiet' = 0
    /\ AwaitResponse("response")
    /\ UNCHANGED <<jobVars, call, moved, abandoned, toHost, linkUp, staged, content, auxVars>>

\* In the data phase of an earlier download a command is taken for data.
DevMistakeCommand ==
    /\ linkUp /\ pc = "command" /\ dev.mode = "receiving"
    /\ no' = no + 1
    /\ \E n \in {dev.n, dev.n - 1} :
          dev' = [dev EXCEPT !.n = n, !.mode = IF n = 0 THEN "stored" ELSE @]
    /\ quiet' = 0
    /\ AwaitResponse("response")
    /\ UNCHANGED <<jobVars, call, moved, abandoned, toHost, linkUp, staged, content, auxVars>>

\* One transfer of writeChunked(), in the data phase or mistaken for a command.
DevTakeChunk ==
    /\ linkUp /\ pc = "data" /\ call = "download"
    /\ \/ /\ dev.mode = "receiving"
          /\ dev' = [dev EXCEPT !.n = @ - 1, !.mode = IF dev.n = 1 THEN "stored" ELSE @]
          /\ staged' = IF dev.n = 1 /\ dev.of = no THEN [piece |-> piece, job |-> jobs] ELSE staged
       \/ /\ dev.mode = "idle"
          /\ dev' = [mode |-> "busy", kind |-> "unknown", of |-> no, n |-> 0, infos |-> 0]
          /\ UNCHANGED staged
    /\ quiet' = 0
    /\ moved' = moved + 1
    /\ IF moved + 1 < Chunks THEN UNCHANGED <<job, piece, outcome, call, pc, left, reading>>
                             ELSE AfterData
    /\ UNCHANGED <<jobs, no, abandoned, toHost, linkUp, content, auxVars>>

DevInfo ==
    /\ Answering /\ dev.mode # "sending" /\ dev.infos < MaxInfo
    /\ Sends("INFO")
    /\ dev' = [dev EXCEPT !.infos = @ + 1]
    /\ UNCHANGED <<staged, content>>

DevFail ==
    /\ dev.mode \in {"busy", "stored", "sent"}
    /\ Sends("FAIL")
    /\ dev' = Idle
    /\ content' = IF dev.kind = "flash" /\ staged.piece # 0
                  THEN [content EXCEPT ![staged.piece] = 0] ELSE content
    /\ UNCHANGED staged

DevOkay ==
    /\ \/ dev.mode = "busy" /\ dev.kind \notin {"download", "fetch", "unknown"}
       \/ dev.mode \in {"stored", "sent"}
    /\ Sends("OKAY")
    /\ dev' = Idle
    /\ content' = IF dev.kind = "flash" /\ staged.piece # 0
                  THEN [content EXCEPT ![staged.piece] = staged.job] ELSE content
    /\ UNCHANGED staged

DevOffer ==
    /\ dev.mode = "busy"
    /\ \/ /\ dev.kind = "download" /\ Sends("DATA")
          /\ dev' = [dev EXCEPT !.n = Chunks, !.mode = "receiving"]
          /\ staged' = Empty
       \/ /\ dev.kind = "fetch"
          /\ Sends("DATA") \/ (MayRefuse /\ Sends("TOOBIG"))
          /\ dev' = [dev EXCEPT !.n = Chunks, !.mode = "sending"]
          /\ UNCHANGED staged
    /\ UNCHANGED content

DevSendChunk ==
    /\ dev.mode = "sending" /\ Sends("chunk")
    /\ dev' = [dev EXCEPT !.n = @ - 1, !.mode = IF dev.n = 1 THEN "sent" ELSE @]
    /\ UNCHANGED <<staged, content>>

\* Pending transferIns reject; nobody hears of the abandoned ones.
Unplug ==
    /\ MayUnplug /\ linkUp /\ linkUp' = FALSE
    /\ toHost' = <<>> /\ abandoned' = 0
    /\ UNCHANGED <<jobVars, callVars, reading, devVars, auxVars>>

-----------------------------------------------------------------------------
HostStep ==
    \/ Swallow \/ OnProgress \/ OnAnswer \/ OnNonsense \/ OnChunk
    \/ TimesOut \/ TransferRejects

DevStep ==
    \/ DevTakeCommand \/ DevMistakeCommand \/ DevTakeChunk \/ DevInfo
    \/ DevFail \/ DevOkay \/ DevOffer \/ DevSendChunk

Next ==
    \/ \E kind \in JobKinds : StartJob(kind)
    \/ HostStep \/ Tick \/ DevStep \/ Unplug

Spec == Init /\ [][Next]_dvars

\* The event loop and its timers run.
FairSpec == Spec /\ WF_dvars(HostStep) /\ WF_dvars(Tick)

-----------------------------------------------------------------------------
Statuses == {"OKAY", "FAIL", "DATA", "INFO", "TOOBIG", "chunk"}
Calls == {"none", "getvar", "command", "download", "flash", "fetch"}

\* Every variable has the type its field has in the driver, the transport and
\* the bootloader.
TypeOK ==
    /\ job \in {"none"} \cup JobKinds /\ jobs \in 0..MaxJobs
    /\ piece \in 0..Pieces /\ outcome \in {"none", "resolved", "rejected"}
    /\ call \in Calls /\ no \in Nat
    /\ pc \in {"idle", "command", "response", "data", "final"}
    /\ moved \in 0..Chunks /\ left \in 0..Timeout
    /\ {reading, linkUp, prompt, gaveUp, crossed} \subseteq BOOLEAN
    /\ abandoned \in Nat
    /\ toHost \in Seq([status : Statuses, of : Nat])
    /\ dev \in [mode : {"idle", "busy", "receiving", "stored", "sending", "sent"},
                kind : Calls \cup {"unknown"}, of : Nat, n : 0..Chunks, infos : 0..MaxInfo]
    /\ quiet \in 0..Timeout
    /\ staged \in [piece : 0..Pieces, job : 0..MaxJobs]
    /\ content \in [1..Pieces -> 0..MaxJobs]

\* "Sends a raw command string and returns the final response"
\* (fastboot-driver.js): a call only takes answers to its own command.
AnswersAreOwn == ~crossed

\* The same, as long as the driver has left no command half way (no deadline
\* passed, no DATA refused, no device lost), and again for every job that finds
\* driver and bootloader at rest.
AnswersMatch == crossed => gaveUp

\* "The timeout-reset-on-progress behavior that keeps slow NAND erases from
\* spuriously timing out" (fastboot-driver.js): a bootloader that is never
\* silent for RESP_TIMEOUT_MS is never timed out, however long it takes.
SlowIsNotDead == prompt /\ ~gaveUp /\ Timing => left > 0

\* The pieces of an image reach the partition in order: a piece of the current
\* job is only there when all the pieces before it are.  Behind a command that
\* was left half way the answers of two downloads may be taken for one.
PiecesInOrder ==
    ~gaveUp => \A p \in 1..Pieces : content[p] = jobs /\ jobs > 0 =>
        \A q \in 1..(p - 1) : content[q] = jobs

\* When flashBlob() or flashPartition() resolves, the bootloader has written
\* every piece of this image and nothing else in its place.
ResolvedIsWritten ==
    [][job' = "none" /\ outcome' = "resolved" /\ job \in {"blob", "part"} /\ ~gaveUp =>
         \A p \in 1..LastPiece(job) : content'[p] = jobs]_dvars

\* However silent the bootloader is, a response is not awaited for ever.
DeadlineHolds == ~prompt /\ Timing ~> ~Timing

\* With a bootloader that goes on by itself every job settles, unless an
\* earlier command was left half way.
JobsSettle == WF_dvars(DevStep) => (job # "none" ~> job = "none" \/ gaveUp)
=============================================================================
