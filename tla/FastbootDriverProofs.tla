------------------------ MODULE FastbootDriverProofs ------------------------
(* Theorems about FastbootDriver, for every number of pieces, chunks, jobs   *)
(* and INFO packets, every deadline and every capacity: its types; and that  *)
(* driver and bootloader are in step, as long as no command has been left    *)
(* half way: every packet on its way belongs to the command the driver is    *)
(* executing, and what the driver awaits next is what comes next.  From this *)
(* follow that answers match, that a bootloader that shows progress is never *)
(* given up, and that pieces are written in order and completely.            *)
EXTENDS FastbootDriver, TLAPS

\* What types need beyond TypeOK: the counters a step decrements are positive,
\* those it increments are below their bounds.
Counts ==
    /\ dev.mode \in {"receiving", "sending"} => dev.n > 0
    /\ pc = "data" => moved < Chunks
    /\ call = "getvar" => job = "blob"
    /\ call \in {"download", "flash"} => job \in {"blob", "part"}

TInv == TypeOK /\ Counts

Packet == [status : Statuses, of : Nat]

\* Sequences of packets stay sequences of packets when one is taken or added.
LEMMA QueueType ==
    ASSUME NEW q \in Seq(Packet)
    PROVE  /\ q # <<>> => Head(q) \in Packet /\ Tail(q) \in Seq(Packet)
           /\ \A p \in Packet : Append(q, p) \in Seq(Packet)
  OBVIOUS

\* The initial state has the types.
LEMMA InitTypes == Init => TInv
  <1> SUFFICES ASSUME Init PROVE TInv
    OBVIOUS
  <1>1. /\ job \in {"none"} \cup JobKinds /\ jobs \in 0..MaxJobs
        /\ piece \in 0..Pieces /\ outcome \in {"none", "resolved", "rejected"}
        /\ call = "none" /\ no \in Nat /\ pc = "idle" /\ abandoned \in Nat
        /\ moved \in 0..Chunks /\ left \in 0..Timeout /\ quiet \in 0..Timeout
    BY SizeAssumption, BoundAssumption DEF Init
  <1>6. {reading, linkUp, prompt, gaveUp, crossed} \subseteq BOOLEAN
    BY DEF Init
  <1>2. toHost \in Seq(Packet)
    BY DEF Init
  <1>3. /\ dev \in [mode : {"idle", "busy", "receiving", "stored", "sending", "sent"},
                   kind : Calls \cup {"unknown"}, of : Nat, n : 0..Chunks, infos : 0..MaxInfo]
        /\ dev.mode = "idle"
    BY SizeAssumption, BoundAssumption DEF Init, Idle, Calls
  <1>4. staged \in [piece : 0..Pieces, job : 0..MaxJobs]
    BY SizeAssumption, BoundAssumption DEF Init, Empty
  <1>5. content \in [1..Pieces -> 0..MaxJobs]
    BY BoundAssumption DEF Init
  <1> QED
    BY <1>1, <1>2, <1>3, <1>4, <1>5, <1>6 DEF TInv, TypeOK, Counts, Packet, Calls

\* How a call ends keeps the types: the next call of the job, or no job.
LEMMA CallEndTypes ==
    ASSUME TInv, CallResolves \/ CallRejects
    PROVE  /\ job' \in {"none"} \cup JobKinds
           /\ piece' \in 0..Pieces /\ outcome' \in {"none", "resolved", "rejected"}
           /\ call' \in Calls /\ pc' \in {"idle", "command"}
           /\ call' = "getvar" => job' = "blob"
           /\ call' \in {"download", "flash"} => job' \in {"blob", "part"}
  <1>1. /\ job \in {"none"} \cup JobKinds /\ piece \in 0..Pieces /\ call \in Calls
        /\ outcome \in {"none", "resolved", "rejected"}
        /\ call = "getvar" => job = "blob"
        /\ call \in {"download", "flash"} => job \in {"blob", "part"}
    BY DEF TInv, TypeOK, Counts
  <1>2. Pieces \in Nat /\ Pieces > 0
    BY SizeAssumption
  <1>3. CASE CallRejects
    BY <1>1, <1>2, <1>3 DEF CallRejects, EndJob, Begin, JobKinds, Calls
  <1>4. CASE CallResolves
    BY <1>1, <1>2, <1>4 DEF CallResolves, EndJob, Begin, LastPiece, JobKinds, Calls
  <1> QED BY <1>3, <1>4

\* A packet taken from the queue of the transport keeps the types.
LEMMA ArrivesTypes ==
    ASSUME TInv, NEW statuses, Arrives(statuses)
    PROVE  /\ toHost' \in Seq(Packet) /\ crossed' \in BOOLEAN
           /\ Head(toHost) \in Packet /\ Head(toHost).status \in statuses
           /\ UNCHANGED <<jobs, no, abandoned, linkUp, devVars, prompt>>
  <1>1. toHost \in Seq(Packet) /\ toHost # <<>>
    BY DEF TInv, TypeOK, Packet, Arrives
  <1>2. Head(toHost) \in Packet /\ Tail(toHost) \in Seq(Packet)
    BY <1>1, QueueType
  <1> QED
    BY <1>2 DEF Arrives

\* A packet the bootloader sends keeps the types.
LEMMA SendsTypes ==
    ASSUME TInv, NEW status \in Statuses, Sends(status)
    PROVE  /\ toHost' \in Seq(Packet) /\ quiet' = 0
           /\ UNCHANGED <<jobVars, callVars, usbVars, linkUp, auxVars>>
  <1>1. toHost \in Seq(Packet) /\ dev.of \in Nat
    BY DEF TInv, TypeOK, Packet
  <1>2. [status |-> status, of |-> dev.of] \in Packet
    BY <1>1 DEF Packet
  <1> QED
    BY <1>1, <1>2, QueueType DEF Sends

\* The part of the types each kind of step touches.
AppTypes ==
    /\ job \in {"none"} \cup JobKinds /\ jobs \in 0..MaxJobs
    /\ piece \in 0..Pieces /\ outcome \in {"none", "resolved", "rejected"}
CallTypes ==
    /\ call \in Calls /\ no \in Nat
    /\ pc \in {"idle", "command", "response", "data", "final"}
    /\ moved \in 0..Chunks /\ left \in 0..Timeout
    /\ pc = "data" => moved < Chunks
    /\ call = "getvar" => job = "blob"
    /\ call \in {"download", "flash"} => job \in {"blob", "part"}
UsbTypes ==
    /\ reading \in BOOLEAN /\ linkUp \in BOOLEAN /\ abandoned \in Nat
    /\ toHost \in Seq(Packet)
AuxTypes == prompt \in BOOLEAN /\ gaveUp \in BOOLEAN /\ crossed \in BOOLEAN
DevTypes ==
    /\ dev \in [mode : {"idle", "busy", "receiving", "stored", "sending", "sent"},
                kind : Calls \cup {"unknown"}, of : Nat, n : 0..Chunks, infos : 0..MaxInfo]
    /\ dev.mode \in {"receiving", "sending"} => dev.n > 0
    /\ quiet \in 0..Timeout
    /\ staged \in [piece : 0..Pieces, job : 0..MaxJobs]
    /\ content \in [1..Pieces -> 0..MaxJobs]

\* The parts together are the whole.
LEMMA Parts == TInv <=> AppTypes /\ CallTypes /\ UsbTypes /\ AuxTypes /\ DevTypes
  BY DEF TInv, TypeOK, Counts, AppTypes, CallTypes, UsbTypes, AuxTypes, DevTypes, Packet

\* The same of the state a step leads to.
LEMMA PartsNext == (AppTypes /\ CallTypes /\ UsbTypes /\ AuxTypes /\ DevTypes)' => TInv'
  BY DEF TInv, TypeOK, Counts, AppTypes, CallTypes, UsbTypes, AuxTypes, DevTypes, Packet

\* The constants are numbers of the right kind.
LEMMA Sizes ==
    /\ Pieces \in Nat /\ Pieces > 0 /\ Chunks \in Nat /\ Chunks > 0
    /\ Timeout \in Nat /\ Timeout > 0 /\ MaxInfo \in Nat /\ MaxJobs \in Nat
  BY SizeAssumption, BoundAssumption

\* A step of the application, of the event loop or of a timer keeps the types.
LEMMA HostKeepsTypes ==
    ASSUME TInv, (\E kind \in JobKinds : StartJob(kind)) \/ HostStep \/ Tick \/ Unplug
    PROVE  TInv'
  <1>0. AppTypes /\ CallTypes /\ UsbTypes /\ AuxTypes /\ DevTypes
    BY Parts
  <1>1. ASSUME NEW kind \in JobKinds, StartJob(kind) PROVE TInv'
    <2>1. FirstCall[kind] \in Calls /\ (FirstCall[kind] = "getvar" => kind = "blob")
          /\ (FirstCall[kind] \in {"download", "flash"} => kind = "part")
      BY DEF JobKinds, FirstCall, Calls
    <2>2. AppTypes' /\ CallTypes'
      BY <1>0, <1>1, <2>1, Sizes DEF StartJob, Begin, AppTypes, CallTypes, usbVars
    <2>4. UsbTypes' /\ DevTypes' /\ prompt' = prompt
      BY <1>0, <1>1 DEF StartJob, UsbTypes, DevTypes, usbVars, devVars
    <2>5. gaveUp' \in BOOLEAN /\ crossed' \in BOOLEAN
      BY <1>0, <1>1, Zenon DEF StartJob, AuxTypes
    <2>3. UsbTypes' /\ AuxTypes' /\ DevTypes'
      BY <1>0, <2>4, <2>5 DEF AuxTypes
    <2> QED BY <2>2, <2>3, PartsNext
  <1>2. CASE Swallow
    <2>1. toHost' \in Seq(Packet)
      BY <1>0, <1>2, QueueType DEF Swallow, UsbTypes
    <2>2. UsbTypes'
      BY <1>0, <1>2, <2>1 DEF Swallow, UsbTypes
    <2>3. AppTypes' /\ CallTypes' /\ AuxTypes' /\ DevTypes'
      BY <1>0, <1>2 DEF Swallow, AppTypes, CallTypes, AuxTypes, DevTypes, jobVars, callVars, devVars, auxVars
    <2> QED BY <2>2, <2>3, PartsNext
  <1>3. CASE OnProgress
    <2>1. Arrives({"INFO"})
      BY <1>3 DEF OnProgress
    <2>2. UsbTypes' /\ AuxTypes' /\ DevTypes'
      BY <1>0, <1>3, <2>1, ArrivesTypes DEF OnProgress, UsbTypes, AuxTypes, DevTypes, devVars
    <2>3. AppTypes' /\ CallTypes'
      BY <1>0, <1>3, <2>1, ArrivesTypes, Sizes DEF OnProgress, Restart, AppTypes, CallTypes
    <2> QED BY <2>2, <2>3, PartsNext
  <1>4. CASE OnAnswer
    <2>1. Arrives({"OKAY", "FAIL", "DATA"})
      BY <1>4 DEF OnAnswer
    <2>2. UsbTypes' /\ AuxTypes' /\ DevTypes'
      BY <1>0, <1>4, <2>1, ArrivesTypes DEF OnAnswer, UsbTypes, AuxTypes, DevTypes, devVars
    <2>3. moved' = 0 /\ left' = 0 /\ jobs' = jobs /\ no' = no
      BY <1>4, <2>1, ArrivesTypes DEF OnAnswer
    <2>4. CASE CallRejects \/ CallResolves
      <3>1. AppTypes' /\ CallTypes'
        BY <1>0, <2>3, <2>4, CallEndTypes, Sizes DEF AppTypes, CallTypes
      <3> QED BY <2>2, <3>1, PartsNext
    <2>5. CASE pc' = "data" /\ UNCHANGED <<job, piece, outcome, call>>
      <3>1. AppTypes' /\ CallTypes'
        BY <1>0, <2>3, <2>5, Sizes DEF AppTypes, CallTypes
      <3> QED BY <2>2, <3>1, PartsNext
    <2> QED BY <1>4, <2>4, <2>5 DEF OnAnswer
  <1>5. CASE OnNonsense
    <2>1. Arrives({"TOOBIG", "chunk"}) /\ CallRejects
      BY <1>5 DEF OnNonsense
    <2>2. UsbTypes' /\ AuxTypes' /\ DevTypes'
      BY <1>0, <1>5, <2>1, ArrivesTypes DEF OnNonsense, UsbTypes, AuxTypes, DevTypes, devVars
    <2>3. AppTypes' /\ CallTypes'
      BY <1>0, <1>5, <2>1, ArrivesTypes, CallEndTypes, Sizes DEF OnNonsense, AppTypes, CallTypes
    <2> QED BY <2>2, <2>3, PartsNext
  <1>6. CASE OnChunk
    <2>1. Arrives({"INFO", "OKAY", "FAIL", "DATA", "TOOBIG", "chunk"})
      BY <1>6 DEF OnChunk
    <2>2. UsbTypes' /\ AuxTypes' /\ DevTypes'
      BY <1>0, <1>6, <2>1, ArrivesTypes DEF OnChunk, UsbTypes, AuxTypes, DevTypes, devVars
    <2>3. AppTypes' /\ CallTypes'
      BY <1>0, <1>6, <2>1, ArrivesTypes, Sizes DEF OnChunk, AppTypes, CallTypes
    <2> QED BY <2>2, <2>3, PartsNext
  <1>7. CASE TimesOut
    <2>1. CallRejects
      BY <1>7 DEF TimesOut
    <2>4. abandoned' = abandoned + 1 /\ reading' = FALSE
      BY <1>7 DEF TimesOut, Abandon
    <2>5. UsbTypes'
      <3>1. abandoned' \in Nat
        BY <1>0, <2>4 DEF UsbTypes
      <3>2. toHost' = toHost /\ linkUp' = linkUp
        BY <1>7 DEF TimesOut
      <3> QED BY <1>0, <2>4, <3>1, <3>2 DEF UsbTypes
    <2>6. AuxTypes' /\ DevTypes'
      BY <1>0, <1>7 DEF TimesOut, AuxTypes, DevTypes, devVars
    <2>2. UsbTypes' /\ AuxTypes' /\ DevTypes'
      BY <2>5, <2>6
    <2>3. AppTypes' /\ CallTypes'
      BY <1>0, <1>7, <2>1, CallEndTypes, Sizes DEF TimesOut, AppTypes, CallTypes
    <2> QED BY <2>2, <2>3, PartsNext
  <1>8. CASE TransferRejects
    <2>1. CallRejects
      BY <1>8 DEF TransferRejects
    <2>2. UsbTypes' /\ AuxTypes' /\ DevTypes'
      BY <1>0, <1>8 DEF TransferRejects, UsbTypes, AuxTypes, DevTypes, devVars
    <2>3. AppTypes' /\ CallTypes'
      BY <1>0, <1>8, <2>1, CallEndTypes, Sizes DEF TransferRejects, AppTypes, CallTypes
    <2> QED BY <2>2, <2>3, PartsNext
  <1>9. CASE Tick
    <2>1. AppTypes' /\ CallTypes' /\ UsbTypes' /\ AuxTypes'
      BY <1>0, <1>9, Sizes DEF Tick, AppTypes, CallTypes, UsbTypes, AuxTypes, jobVars, usbVars, auxVars
    <2>2. DevTypes'
      BY <1>0, <1>9, Sizes DEF Tick, DevTypes
    <2> QED BY <2>1, <2>2, PartsNext
  <1>10. CASE Unplug
    <2>1. <<>> \in Seq(Packet)
      OBVIOUS
    <2>2. UsbTypes'
      BY <1>0, <1>10, <2>1 DEF Unplug, UsbTypes
    <2>3. AppTypes' /\ CallTypes' /\ AuxTypes' /\ DevTypes'
      BY <1>0, <1>10 DEF Unplug, AppTypes, CallTypes, AuxTypes, DevTypes, jobVars, callVars, devVars, auxVars
    <2> QED BY <2>2, <2>3, PartsNext
  <1> QED
    BY <1>1, <1>2, <1>3, <1>4, <1>5, <1>6, <1>7, <1>8, <1>9, <1>10 DEF HostStep

DevRecord ==
    [mode : {"idle", "busy", "receiving", "stored", "sending", "sent"},
     kind : Calls \cup {"unknown"}, of : Nat, n : 0..Chunks, infos : 0..MaxInfo]

Modes == {"idle", "busy", "receiving", "stored", "sending", "sent"}

\* A step from mode to mode keeps the record of the bootloader.
LEMMA ModeChanges ==
    ASSUME dev \in DevRecord, NEW n \in 0..Chunks, NEW m \in Modes,
           dev' = [dev EXCEPT !.n = n, !.mode = m],
           m \in {"receiving", "sending"} => n > 0
    PROVE  dev' \in DevRecord /\ (dev'.mode \in {"receiving", "sending"} => dev'.n > 0)
  <1>1. /\ [dev EXCEPT !.n = n, !.mode = m] \in DevRecord
        /\ [dev EXCEPT !.n = n, !.mode = m].n = n
        /\ [dev EXCEPT !.n = n, !.mode = m].mode = m
    BY DEF DevRecord, Modes
  <1>2. dev' \in DevRecord /\ dev'.n = n /\ dev'.mode = m
    BY <1>1, Zenon
  <1> QED
    BY <1>2

\* What a step in which the bootloader only sends must add to its packet.
LEMMA SendKeepsTypes ==
    ASSUME TInv, NEW status \in Statuses, Sends(status),
           dev' \in DevRecord, dev'.mode \in {"receiving", "sending"} => dev'.n > 0,
           staged' \in [piece : 0..Pieces, job : 0..MaxJobs],
           content' \in [1..Pieces -> 0..MaxJobs]
    PROVE  TInv'
  <1>0. AppTypes /\ CallTypes /\ UsbTypes /\ AuxTypes /\ DevTypes
    BY Parts
  <1>1. AppTypes' /\ CallTypes' /\ AuxTypes'
    BY <1>0, SendsTypes DEF AppTypes, CallTypes, AuxTypes, jobVars, callVars, auxVars
  <1>2. UsbTypes'
    BY <1>0, SendsTypes DEF UsbTypes, usbVars
  <1>3. DevTypes'
    BY SendsTypes, Sizes DEF DevTypes, DevRecord
  <1> QED BY <1>1, <1>2, <1>3, PartsNext

\* A step of the bootloader keeps the types.
LEMMA DevKeepsTypes ==
    ASSUME TInv, DevStep
    PROVE  TInv'
  <1>0. AppTypes /\ CallTypes /\ UsbTypes /\ AuxTypes /\ DevTypes
    BY Parts
  <1>a. /\ dev \in DevRecord /\ staged \in [piece : 0..Pieces, job : 0..MaxJobs]
        /\ content \in [1..Pieces -> 0..MaxJobs]
        /\ dev.mode \in {"receiving", "sending"} => dev.n > 0
    BY <1>0 DEF DevTypes, DevRecord
  <1>b. Idle \in DevRecord /\ Idle.mode = "idle" /\ Empty \in [piece : 0..Pieces, job : 0..MaxJobs]
    BY Sizes DEF Idle, Empty, DevRecord, Calls
  <1>1. CASE DevTakeCommand
    <2>1. DevTypes'
      BY <1>0, <1>1, Sizes DEF DevTakeCommand, DevTypes, CallTypes
    <2>2. UsbTypes' /\ AuxTypes'
      BY <1>0, <1>1 DEF DevTakeCommand, AwaitResponse, UsbTypes, AuxTypes, auxVars
    <2>3. AppTypes' /\ CallTypes'
      BY <1>0, <1>1, Sizes DEF DevTakeCommand, AwaitResponse, AppTypes, CallTypes, jobVars
    <2> QED BY <2>1, <2>2, <2>3, PartsNext
  <1>2. CASE DevMistakeCommand
    <2>1. dev' \in DevRecord /\ (dev'.mode \in {"receiving", "sending"} => dev'.n > 0)
      <3>1. PICK n \in {dev.n, dev.n - 1} :
              dev' = [dev EXCEPT !.n = n, !.mode = IF n = 0 THEN "stored" ELSE @]
        BY <1>2 DEF DevMistakeCommand
      <3>2. dev.n \in 0..Chunks /\ dev.n > 0 /\ dev.mode = "receiving"
        BY <1>2, <1>a, Sizes DEF DevMistakeCommand, DevRecord
      <3>3. n \in 0..Chunks
        BY <3>2, Sizes
      <3>4. CASE n = 0
        BY <3>1, <3>3, <3>4, <1>a, ModeChanges DEF Modes
      <3>5. CASE n # 0
        <4>1. dev' = [dev EXCEPT !.n = n, !.mode = "receiving"]
          BY <3>1, <3>2, <3>5, <1>a DEF DevRecord
        <4>2. n > 0
          BY <3>3, <3>5, Sizes
        <4> QED BY <4>1, <4>2, <3>3, <1>a, ModeChanges DEF Modes
      <3> QED BY <3>4, <3>5
    <2>2. DevTypes'
      BY <1>0, <1>2, <2>1, Sizes DEF DevMistakeCommand, DevTypes, DevRecord
    <2>3. UsbTypes' /\ AuxTypes'
      BY <1>0, <1>2 DEF DevMistakeCommand, AwaitResponse, UsbTypes, AuxTypes, auxVars
    <2>4. AppTypes' /\ CallTypes'
      BY <1>0, <1>2, Sizes DEF DevMistakeCommand, AwaitResponse, AppTypes, CallTypes, jobVars
    <2> QED BY <2>2, <2>3, <2>4, PartsNext
  <1>3. CASE DevTakeChunk
    <2>1. dev' \in DevRecord /\ (dev'.mode \in {"receiving", "sending"} => dev'.n > 0)
      <3>1. CASE /\ dev.mode = "receiving"
                 /\ dev' = [dev EXCEPT !.n = @ - 1, !.mode = IF dev.n = 1 THEN "stored" ELSE @]
        <4>1. dev.n \in 0..Chunks /\ dev.n > 0
          BY <3>1, <1>a DEF DevRecord
        <4>2. dev.n - 1 \in 0..Chunks
          BY <4>1, Sizes
        <4>3. CASE dev.n = 1
          BY <3>1, <4>2, <4>3, <1>a, ModeChanges DEF Modes
        <4>4. CASE dev.n # 1
          <5>1. dev' = [dev EXCEPT !.n = dev.n - 1, !.mode = "receiving"] /\ dev.n - 1 > 0
            BY <3>1, <4>1, <4>4, <1>a DEF DevRecord
          <5> QED BY <5>1, <4>2, <1>a, ModeChanges DEF Modes
        <4> QED BY <4>3, <4>4
      <3>2. CASE dev' = [mode |-> "busy", kind |-> "unknown", of |-> no, n |-> 0, infos |-> 0]
        BY <3>2, <1>0, Sizes DEF DevRecord, CallTypes
      <3> QED BY <1>3, <3>1, <3>2 DEF DevTakeChunk
    <2>2. staged' \in [piece : 0..Pieces, job : 0..MaxJobs]
      BY <1>0, <1>a, <1>3 DEF DevTakeChunk, AppTypes
    <2>3. DevTypes'
      BY <1>0, <1>3, <2>1, <2>2, Sizes DEF DevTakeChunk, DevTypes, DevRecord
    <2>4. AuxTypes' /\ UsbTypes'
      BY <1>0, <1>3 DEF DevTakeChunk, AfterData, AwaitResponse, AuxTypes, UsbTypes, auxVars
    <2>5. AppTypes' /\ CallTypes'
      BY <1>0, <1>3, Sizes DEF DevTakeChunk, AfterData, AwaitResponse, AppTypes, CallTypes
    <2> QED BY <2>3, <2>4, <2>5, PartsNext
  <1>4. CASE DevInfo
    <2>1. dev' \in DevRecord /\ (dev'.mode \in {"receiving", "sending"} => dev'.n > 0)
      <3>1. dev.infos + 1 \in 0..MaxInfo
        BY <1>4, <1>a, Sizes DEF DevInfo, DevRecord
      <3>2. dev' = [dev EXCEPT !.infos = dev.infos + 1]
        BY <1>4 DEF DevInfo
      <3> QED BY <3>1, <3>2, <1>a DEF DevRecord
    <2> QED BY <1>4, <2>1, <1>a, SendKeepsTypes DEF DevInfo, Statuses
  <1>5. CASE DevFail
    <2>1. content' \in [1..Pieces -> 0..MaxJobs]
      BY <1>5, <1>a, Sizes DEF DevFail
    <2> QED BY <1>5, <2>1, <1>a, <1>b, SendKeepsTypes DEF DevFail, Statuses
  <1>6. CASE DevOkay
    <2>1. content' \in [1..Pieces -> 0..MaxJobs]
      BY <1>6, <1>a, Sizes DEF DevOkay
    <2> QED BY <1>6, <2>1, <1>a, <1>b, SendKeepsTypes DEF DevOkay, Statuses
  <1>7. CASE DevOffer
    <2>1. dev' \in DevRecord /\ (dev'.mode \in {"receiving", "sending"} => dev'.n > 0)
      <3>1. Chunks \in 0..Chunks /\ Chunks > 0
        BY Sizes
      <3>2. \/ dev' = [dev EXCEPT !.n = Chunks, !.mode = "receiving"]
            \/ dev' = [dev EXCEPT !.n = Chunks, !.mode = "sending"]
        BY <1>7 DEF DevOffer
      <3> QED BY <3>1, <3>2, <1>a, ModeChanges DEF Modes
    <2>2. staged' \in [piece : 0..Pieces, job : 0..MaxJobs] /\ content' = content
      BY <1>7, <1>a, <1>b DEF DevOffer
    <2>3. \E status \in Statuses : Sends(status)
      BY <1>7 DEF DevOffer, Statuses
    <2> QED BY <2>1, <2>2, <2>3, <1>a, SendKeepsTypes
  <1>8. CASE DevSendChunk
    <2>1. dev' \in DevRecord /\ (dev'.mode \in {"receiving", "sending"} => dev'.n > 0)
      <3>1. dev.n \in 0..Chunks /\ dev.n > 0 /\ dev.mode = "sending"
        BY <1>8, <1>a DEF DevSendChunk, DevRecord
      <3>2. dev.n - 1 \in 0..Chunks
        BY <3>1, Sizes
      <3>3. CASE dev.n = 1
        BY <1>8, <3>2, <3>3, <1>a, ModeChanges DEF DevSendChunk, Modes
      <3>4. CASE dev.n # 1
        <4>1. dev' = [dev EXCEPT !.n = dev.n - 1, !.mode = "sending"] /\ dev.n - 1 > 0
          BY <1>8, <3>1, <3>4, <1>a DEF DevSendChunk, DevRecord
        <4> QED BY <4>1, <3>2, <1>a, ModeChanges DEF Modes
      <3> QED BY <3>3, <3>4
    <2> QED BY <1>8, <2>1, <1>a, SendKeepsTypes DEF DevSendChunk, Statuses
  <1> QED
    BY <1>1, <1>2, <1>3, <1>4, <1>5, <1>6, <1>7, <1>8 DEF DevStep

\* Every step keeps the types.
LEMMA NextTypes == TInv /\ [Next]_dvars => TInv'
  <1> SUFFICES ASSUME TInv, [Next]_dvars PROVE TInv'
    OBVIOUS
  <1>1. CASE Next
    BY <1>1, HostKeepsTypes, DevKeepsTypes DEF Next
  <1>2. CASE UNCHANGED dvars
    <2>1. AppTypes /\ CallTypes /\ UsbTypes /\ AuxTypes /\ DevTypes
      BY Parts
    <2>2. AppTypes' /\ CallTypes' /\ UsbTypes' /\ AuxTypes' /\ DevTypes'
      BY <1>2, <2>1 DEF dvars, jobVars, callVars, usbVars, devVars, auxVars, AppTypes, CallTypes,
                        UsbTypes, AuxTypes, DevTypes
    <2> QED BY <2>2, PartsNext
  <1> QED BY <1>1, <1>2

\* Every variable of the driver, the transport and the bootloader keeps its
\* type, whatever the application calls and however the bootloader answers.
THEOREM DriverTypeCorrect == Spec => []TypeOK
  <1>1. TInv => TypeOK
    BY DEF TInv
  <1> QED
    BY InitTypes, NextTypes, <1>1, PTL DEF Spec

-----------------------------------------------------------------------------
(* Driver and bootloader in step                                             *)

Finals == {"OKAY", "FAIL"}
Offers == {"DATA", "TOOBIG"}

Waiting == 1..Len(toHost)
At(i, statuses) == toHost[i].status \in statuses
Has(statuses) == \E i \in Waiting : At(i, statuses)

\* Behind position d there are m chunks, as far as they have been sent.
Burst(d, m) ==
    \/ /\ dev.mode = "sending" /\ Len(toHost) + dev.n = d + m
       /\ \A i \in Waiting : i > d => At(i, {"chunk"})
    \/ /\ dev.mode \in {"sent", "idle"} /\ Len(toHost) >= d + m
       /\ \A i \in Waiting : i > d /\ i <= d + m => At(i, {"chunk"})

-----------------------------------------------------------------------------
(* What holds even behind a command that was left half way                  *)

Plain ==
    /\ job = "none" <=> pc = "idle"
    /\ pc = "idle" => call = "none"
    /\ Timing => reading
    /\ job \in {"blob", "part"} => call \in {"getvar", "download", "flash"}
    /\ call \in {"download", "flash"} => job \in {"blob", "part"} /\ piece \in 1..LastPiece(job)
    /\ job # "none" => jobs > 0
    /\ staged.job <= jobs
    /\ \A p \in 1..Pieces : content[p] <= jobs
    /\ ~linkUp => toHost = <<>>
    /\ pc \notin {"data", "final"} => moved = 0

-----------------------------------------------------------------------------
(* In step                                                                  *)

\* Nobody else waits for a packet, and every packet is the call's own.
Own == abandoned = 0 /\ \A i \in Waiting : toHost[i].of = no

\* The bootloader executes the call, in the mode the call is in.
DevOwn ==
    /\ dev.mode # "idle" => dev.of = no /\ dev.kind = call
    /\ dev.mode \in {"receiving", "stored"} => call = "download"
    /\ dev.mode \in {"sending", "sent"} => call = "fetch"
    /\ pc \in {"data", "final"} => DataCall
    /\ pc = "final" => dev.mode # "receiving"

\* Between two commands both are at rest.
AtEase == pc \in {"idle", "command"} => toHost = <<>> /\ dev.mode = "idle"

\* A final answer is the last packet of its command, and there is one.
FinalLast ==
    /\ \A i \in Waiting : At(i, Finals) => i = Len(toHost) /\ dev.mode = "idle"
    /\ dev.mode = "idle" /\ pc \notin {"idle", "command"} => Has(Finals)

\* Before its first answer a command has only sent INFO.
Busy ==
    /\ dev.mode = "busy" => pc = "response" /\ \A i \in Waiting : At(i, {"INFO"})
    /\ pc = "response" /\ dev.mode # "busy" => Has(Finals \cup Offers)

\* A data phase is announced once, and what follows is the data.
Offered ==
    \A i \in Waiting : At(i, Offers) =>
        /\ pc = "response" /\ DataCall /\ dev.mode # "busy"
        /\ \A j \in Waiting : At(j, Offers) => j = i
        /\ call = "download" => i = Len(toHost) /\ dev.mode = "receiving" /\ dev.n = Chunks
        /\ call = "fetch" => Burst(i, Chunks)

\* In a data phase the two agree on how much is left.
InData ==
    pc = "data" =>
        /\ call = "download" => toHost = <<>> /\ dev.mode = "receiving" /\ dev.n + moved = Chunks
        /\ call = "fetch" => Burst(0, Chunks - moved)

InStep == Own /\ DevOwn /\ AtEase /\ FinalLast /\ Busy /\ Offered /\ InData

\* As long as no command was left half way, nor the cable pulled.
Sync == ~gaveUp /\ linkUp => InStep

-----------------------------------------------------------------------------
(* The queue                                                                *)

\* A sequence without positions is empty.
LEMMA NoPackets == ASSUME NEW q \in Seq(Packet) PROVE q = <<>> <=> Len(q) = 0
  OBVIOUS

\* What a delivered packet leaves in the queue.
LEMMA TakenQueue ==
    ASSUME TInv, NEW statuses, Arrives(statuses)
    PROVE  /\ Len(toHost) \in Nat /\ Len(toHost) >= 1 /\ Len(toHost') = Len(toHost) - 1
           /\ \A i \in 1..(Len(toHost) - 1) : toHost'[i] = toHost[i + 1]
           /\ toHost[1].status \in statuses /\ toHost[1] = Head(toHost)
           /\ toHost' = <<>> <=> Len(toHost) = 1
  <1>1. toHost \in Seq(Packet) /\ toHost # <<>> /\ toHost' = Tail(toHost)
        /\ Head(toHost).status \in statuses
    BY DEF TInv, TypeOK, Packet, Arrives
  <1>2. Len(toHost) \in Nat /\ Len(toHost) >= 1 /\ toHost[1] = Head(toHost)
    BY <1>1
  <1>3. Len(toHost') = Len(toHost) - 1 /\ toHost' \in Seq(Packet)
    BY <1>1
  <1>4. \A i \in 1..(Len(toHost) - 1) : toHost'[i] = toHost[i + 1]
    BY <1>1
  <1>5. toHost' = <<>> <=> Len(toHost') = 0
    BY <1>3, NoPackets
  <1> QED BY <1>1, <1>2, <1>3, <1>4, <1>5

\* What a packet the bootloader sends makes of the queue.
LEMMA SentQueue ==
    ASSUME TInv, NEW status, Sends(status)
    PROVE  /\ Len(toHost) \in Nat /\ Len(toHost') = Len(toHost) + 1 /\ toHost' # <<>>
           /\ \A i \in 1..Len(toHost) : toHost'[i] = toHost[i]
           /\ toHost'[Len(toHost) + 1].status = status /\ toHost'[Len(toHost) + 1].of = dev.of
  <1>1. toHost \in Seq(Packet) /\ toHost' = Append(toHost, [status |-> status, of |-> dev.of])
    BY DEF TInv, TypeOK, Packet, Sends
  <1> QED BY <1>1

\* An empty queue has no positions.
LEMMA EmptyQueue == TInv => (toHost = <<>> <=> Len(toHost) = 0) /\ Len(toHost) \in Nat
  <1> SUFFICES ASSUME TInv PROVE (toHost = <<>> <=> Len(toHost) = 0) /\ Len(toHost) \in Nat
    OBVIOUS
  <1>1. toHost \in Seq(Packet)
    BY DEF TInv, TypeOK, Packet
  <1> QED BY <1>1

-----------------------------------------------------------------------------
\* The initial state is plain.
LEMMA InitPlain == Init => Plain
  BY SizeAssumption DEF Init, Plain, Timing, Empty, Idle

\* How a call ends: the next one of the same job, or none.
LEMMA CallEndPlain ==
    ASSUME TInv, Plain, pc # "idle", CallResolves \/ CallRejects
    PROVE  /\ job' = "none" <=> pc' = "idle"
           /\ pc' = "idle" => call' = "none"
           /\ pc' \in {"idle", "command"}
           /\ job' \in {"blob", "part"} => call' \in {"getvar", "download", "flash"}
           /\ call' \in {"download", "flash"} => job' \in {"blob", "part"} /\ piece' \in 1..LastPiece(job')
           /\ job' # "none" => job' = job
           /\ call' # "getvar"
  <1>1. /\ job \in {"none"} \cup JobKinds /\ piece \in 0..Pieces /\ job # "none"
        /\ job \in {"blob", "part"} => call \in {"getvar", "download", "flash"}
        /\ call = "getvar" => job = "blob"
        /\ call \in {"download", "flash"} => job \in {"blob", "part"} /\ piece \in 1..LastPiece(job)
    BY DEF TInv, TypeOK, Counts, Plain
  <1>2. Pieces \in Nat /\ Pieces > 0
    BY SizeAssumption
  <1>3. CASE CallRejects
    BY <1>1, <1>2, <1>3 DEF CallRejects, EndJob, Begin, LastPiece
  <1>4. CASE CallResolves
    <2>1. CASE call = "getvar" /\ Begin("download") /\ piece' = 1 /\ UNCHANGED <<job, outcome>>
      BY <1>1, <1>2, <2>1 DEF Begin, LastPiece
    <2>2. CASE call = "download" /\ Begin("flash") /\ UNCHANGED <<job, piece, outcome>>
      BY <1>1, <2>2 DEF Begin, LastPiece
    <2>3. CASE call = "flash" /\ piece < LastPiece(job) /\ Begin("download") /\ piece' = piece + 1
               /\ UNCHANGED <<job, outcome>>
      BY <1>1, <1>2, <2>3 DEF Begin, LastPiece
    <2>4. CASE EndJob("resolved")
      BY <2>4 DEF EndJob
    <2> QED BY <1>4, <2>1, <2>2, <2>3, <2>4 DEF CallResolves
  <1> QED BY <1>3, <1>4

\* What Plain needs to know of the types.
LEMMA PlainTypes ==
    TInv => /\ job \in {"none"} \cup JobKinds /\ jobs \in Nat /\ moved \in Nat /\ no \in Nat
            /\ piece \in Nat /\ Pieces \in Nat /\ Pieces > 0
            /\ staged.job \in Nat /\ staged.piece \in 0..Pieces
            /\ \A p \in 1..Pieces : content[p] \in Nat
            /\ content \in [1..Pieces -> 0..MaxJobs]
            /\ call \in Calls /\ left \in Nat /\ Timeout \in Nat /\ Timeout > 0 /\ quiet \in Nat
            /\ pc \in {"idle", "command", "response", "data", "final"}
  <1> SUFFICES ASSUME TInv PROVE
            /\ job \in {"none"} \cup JobKinds /\ jobs \in Nat /\ moved \in Nat /\ no \in Nat
            /\ piece \in Nat /\ Pieces \in Nat /\ Pieces > 0
            /\ staged.job \in Nat /\ staged.piece \in 0..Pieces
            /\ \A p \in 1..Pieces : content[p] \in Nat
            /\ content \in [1..Pieces -> 0..MaxJobs]
            /\ call \in Calls /\ left \in Nat /\ Timeout \in Nat /\ Timeout > 0 /\ quiet \in Nat
            /\ pc \in {"idle", "command", "response", "data", "final"}
    OBVIOUS
  <1>1. /\ job \in {"none"} \cup JobKinds /\ jobs \in 0..MaxJobs /\ moved \in 0..Chunks
        /\ no \in Nat /\ piece \in 0..Pieces /\ call \in Calls /\ left \in 0..Timeout
        /\ pc \in {"idle", "command", "response", "data", "final"}
    BY DEF TInv, TypeOK
  <1>2. /\ quiet \in 0..Timeout /\ staged \in [piece : 0..Pieces, job : 0..MaxJobs]
        /\ content \in [1..Pieces -> 0..MaxJobs]
    BY DEF TInv, TypeOK
  <1>3. staged.job \in 0..MaxJobs /\ staged.piece \in 0..Pieces
    BY <1>2
  <1> QED BY <1>1, <1>2, <1>3, Sizes

\* A step of the application, of the event loop or of a timer keeps Plain.
LEMMA HostKeepsPlain ==
    ASSUME TInv, Plain, (\E kind \in JobKinds : StartJob(kind)) \/ HostStep \/ Tick \/ Unplug
    PROVE  Plain'
  <1>1. ASSUME NEW kind \in JobKinds, StartJob(kind) PROVE Plain'
    <2>1. /\ job' = kind /\ jobs' = jobs + 1 /\ pc' = "command" /\ call' = FirstCall[kind]
          /\ piece' = IF kind = "part" THEN 1 ELSE 0
          /\ job = "none" /\ UNCHANGED <<moved, reading, toHost, linkUp, staged, content>>
      BY <1>1 DEF StartJob, Begin, usbVars, devVars
    <2>2. FirstCall[kind] \in Calls /\ (kind = "blob" => FirstCall[kind] = "getvar")
          /\ (kind = "part" => FirstCall[kind] = "download") /\ kind # "none"
          /\ (FirstCall[kind] \in {"download", "flash"} => kind = "part")
      BY DEF JobKinds, FirstCall, Calls
    <2>3. staged.job <= jobs' /\ \A p \in 1..Pieces : content[p] <= jobs'
      BY <2>1, PlainTypes DEF Plain
    <2> QED BY <2>1, <2>2, <2>3, PlainTypes DEF Plain, Timing, LastPiece
  <1>2. CASE Swallow
    BY <1>2 DEF Swallow, Plain, Timing, jobVars, callVars, devVars
  <1>3. CASE OnProgress
    <2>1. toHost # <<>> /\ UNCHANGED <<jobs, linkUp, staged, content>>
      BY <1>3 DEF OnProgress, Arrives, devVars
    <2> QED BY <1>3, <2>1 DEF OnProgress, Plain, Timing
  <1>4. CASE OnAnswer
    <2>1. toHost # <<>> /\ reading /\ UNCHANGED <<jobs, linkUp, staged, content>>
      BY <1>4 DEF OnAnswer, Arrives, devVars
    <2>2. moved' = 0 /\ Timing
      BY <1>4 DEF OnAnswer
    <2>3. CASE CallRejects \/ CallResolves
      BY <2>1, <2>2, <2>3, CallEndPlain DEF Plain, Timing
    <2>4. CASE pc' = "data" /\ UNCHANGED <<job, piece, outcome, call>>
      BY <2>1, <2>2, <2>4 DEF Plain, Timing
    <2> QED BY <1>4, <2>3, <2>4 DEF OnAnswer
  <1>5. CASE OnNonsense
    <2>1. toHost # <<>> /\ CallRejects /\ UNCHANGED <<jobs, linkUp, staged, content>>
      BY <1>5 DEF OnNonsense, Arrives, devVars
    <2>2. moved' = 0 /\ Timing
      BY <1>5 DEF OnNonsense
    <2> QED BY <2>1, <2>2, CallEndPlain DEF Plain, Timing
  <1>6. CASE OnChunk
    <2>1. toHost # <<>> /\ reading /\ pc = "data" /\ pc' \in {"data", "final"}
          /\ UNCHANGED <<job, piece, call, reading, jobs, linkUp, staged, content>>
      BY <1>6 DEF OnChunk, Arrives, devVars
    <2> QED BY <2>1 DEF Plain, Timing
  <1>7. CASE TimesOut
    <2>1. CallRejects /\ Timing /\ moved' = 0 /\ UNCHANGED <<jobs, toHost, linkUp, staged, content>>
      BY <1>7 DEF TimesOut, devVars
    <2> QED BY <2>1, CallEndPlain DEF Plain, Timing
  <1>8. CASE TransferRejects
    <2>1. CallRejects /\ pc # "idle" /\ moved' = 0 /\ UNCHANGED <<jobs, toHost, linkUp, staged, content>>
      BY <1>8 DEF TransferRejects, Rejects, devVars
    <2> QED BY <2>1, CallEndPlain DEF Plain, Timing
  <1>9. CASE Tick
    BY <1>9 DEF Tick, Plain, Timing, jobVars, usbVars
  <1>10. CASE Unplug
    BY <1>10 DEF Unplug, Plain, Timing, jobVars, callVars, devVars
  <1> QED
    BY <1>1, <1>2, <1>3, <1>4, <1>5, <1>6, <1>7, <1>8, <1>9, <1>10 DEF HostStep

\* So does a step of the bootloader.
LEMMA DevKeepsPlain ==
    ASSUME TInv, Plain, DevStep
    PROVE  Plain'
  <1>1. CASE DevTakeCommand \/ DevMistakeCommand
    <2>1. /\ pc = "command" /\ pc' = "response" /\ reading' /\ linkUp
          /\ UNCHANGED <<job, jobs, piece, call, moved, linkUp, staged, content>>
      BY <1>1, Zenon DEF DevTakeCommand, DevMistakeCommand, AwaitResponse, jobVars
    <2> QED BY <2>1 DEF Plain, Timing
  <1>2. CASE DevTakeChunk
    <2>1. /\ pc = "data" /\ linkUp /\ UNCHANGED <<job, jobs, piece, call, linkUp, content>>
          /\ staged' \in {staged, [piece |-> piece, job |-> jobs]}
          /\ (pc' = "data" \/ (pc' = "final" /\ reading'))
      BY <1>2 DEF DevTakeChunk, AfterData, AwaitResponse
    <2>2. staged'.job <= jobs
      BY <2>1, PlainTypes DEF Plain
    <2> QED BY <2>1, <2>2 DEF Plain, Timing
  <1>3. CASE DevInfo \/ DevOffer \/ DevSendChunk
    <2>1. linkUp /\ UNCHANGED <<jobVars, callVars, usbVars, linkUp>> /\ content' = content
          /\ staged' \in {staged, Empty}
      BY <1>3, Zenon DEF DevInfo, DevOffer, DevSendChunk, Sends
    <2>2. staged'.job <= jobs
      BY <2>1, PlainTypes DEF Plain, Empty
    <2> QED BY <2>1, <2>2 DEF Plain, Timing, jobVars, callVars, usbVars
  <1>4. CASE DevFail \/ DevOkay
    <2>1. linkUp /\ UNCHANGED <<jobVars, callVars, usbVars, linkUp>> /\ staged' = staged
      BY <1>4, Zenon DEF DevFail, DevOkay, Sends
    <2>2. \/ content' = content
          \/ content' = [content EXCEPT ![staged.piece] = 0]
          \/ content' = [content EXCEPT ![staged.piece] = staged.job]
      BY <1>4, Zenon DEF DevFail, DevOkay
    <2>3. \A p \in 1..Pieces : content'[p] <= jobs
      <3>1. /\ content \in [1..Pieces -> 0..MaxJobs] /\ staged.job <= jobs /\ 0 <= jobs
            /\ \A p \in 1..Pieces : content[p] <= jobs
        BY PlainTypes DEF Plain
      <3>2. ASSUME NEW p \in 1..Pieces PROVE content'[p] \in {content[p], 0, staged.job}
        BY <2>2, <3>1
      <3> QED BY <3>1, <3>2
    <2> QED BY <2>1, <2>3 DEF Plain, Timing, jobVars, callVars, usbVars
  <1> QED BY <1>1, <1>2, <1>3, <1>4 DEF DevStep

\* Every step keeps Plain.
LEMMA NextPlain == TInv /\ Plain /\ [Next]_dvars => Plain'
  <1> SUFFICES ASSUME TInv, Plain, [Next]_dvars PROVE Plain'
    OBVIOUS
  <1>1. CASE Next
    BY <1>1, HostKeepsPlain, DevKeepsPlain DEF Next
  <1>2. CASE UNCHANGED dvars
    BY <1>2 DEF dvars, jobVars, callVars, usbVars, devVars, Plain, Timing
  <1> QED BY <1>1, <1>2

-----------------------------------------------------------------------------
(* The bootloader keeps the two in step                                     *)

\* The record of the bootloader has its fields.
LEMMA DevIsRecord ==
    TInv => /\ dev \in DevRecord /\ dev.mode \in Modes /\ dev.n \in Nat /\ dev.of \in Nat
            /\ dev.mode \in {"receiving", "sending"} => dev.n > 0
            /\ Len(toHost) \in Nat /\ Chunks \in Nat /\ Chunks > 0 /\ moved \in Nat
            /\ (pc = "data" => moved < Chunks) /\ abandoned \in Nat /\ no \in Nat
  <1> SUFFICES ASSUME TInv PROVE
            /\ dev \in DevRecord /\ dev.mode \in Modes /\ dev.n \in Nat /\ dev.of \in Nat
            /\ dev.mode \in {"receiving", "sending"} => dev.n > 0
            /\ Len(toHost) \in Nat /\ Chunks \in Nat /\ Chunks > 0 /\ moved \in Nat
            /\ (pc = "data" => moved < Chunks) /\ abandoned \in Nat /\ no \in Nat
    OBVIOUS
  <1>1. dev \in DevRecord /\ (dev.mode \in {"receiving", "sending"} => dev.n > 0)
    BY DEF TInv, TypeOK, Counts, DevRecord
  <1>2. dev.mode \in Modes /\ dev.n \in 0..Chunks /\ dev.of \in Nat
    BY <1>1 DEF DevRecord, Modes
  <1>3. moved \in 0..Chunks /\ abandoned \in Nat /\ no \in Nat /\ (pc = "data" => moved < Chunks)
    BY DEF TInv, TypeOK, Counts
  <1> QED BY <1>1, <1>2, <1>3, EmptyQueue, Sizes

\* INFO changes nothing but the queue.
LEMMA InfoInStep ==
    ASSUME TInv, InStep, DevInfo
    PROVE  InStep'
  <1> DEFINE n == Len(toHost)
  <1>1. /\ dev.mode \in {"busy", "sent", "stored"} /\ dev'.mode = dev.mode /\ dev'.of = dev.of
        /\ dev'.kind = dev.kind /\ dev'.n = dev.n /\ dev.of = no
    BY DevIsRecord DEF DevInfo, Answering, DevRecord, InStep, DevOwn
  <1>2. UNCHANGED <<pc, call, no, moved, abandoned>> /\ pc \notin {"idle", "command"}
    BY <1>1 DEF DevInfo, Sends, jobVars, callVars, usbVars, InStep, AtEase
  <1>3. /\ n \in Nat /\ Len(toHost') = n + 1 /\ toHost' # <<>>
        /\ \A i \in 1..n : toHost'[i] = toHost[i]
        /\ toHost'[n + 1].status = "INFO" /\ toHost'[n + 1].of = no
    <2>1. Sends("INFO")
      BY DEF DevInfo
    <2> QED BY <2>1, <1>1, SentQueue
  <1> HIDE DEF n
  <1>n. n = Len(toHost)
    BY DEF n
  <1>4. Own' /\ DevOwn'
    BY <1>1, <1>2, <1>3, <1>n DEF InStep, Own, DevOwn, Waiting, DataCall
  <1>5. AtEase'
    BY <1>2 DEF AtEase
  <1>6. FinalLast'
    BY <1>1, <1>2, <1>3, <1>n DEF InStep, FinalLast, Waiting, At, Finals, Has
  <1>7. Busy'
    BY <1>1, <1>2, <1>3, <1>n DEF InStep, Busy, Waiting, At, Finals, Offers, Has
  <1>8. Offered'
    <2> SUFFICES ASSUME NEW i \in Waiting', At(i, Offers)'
                 PROVE  /\ pc' = "response" /\ DataCall' /\ dev'.mode # "busy"
                        /\ \A j \in Waiting' : At(j, Offers)' => j = i
                        /\ call' = "download" => i = Len(toHost') /\ dev'.mode = "receiving" /\ dev'.n = Chunks
                        /\ call' = "fetch" => Burst(i, Chunks)'
      BY DEF Offered
    <2>1. \A j \in Waiting' : At(j, Offers)' => j \in 1..n /\ At(j, Offers)
      BY <1>3, <1>n DEF Waiting, At, Offers, Finals
    <2>2. /\ i \in 1..n /\ pc = "response" /\ DataCall /\ dev.mode # "busy"
          /\ \A j \in 1..n : At(j, Offers) => j = i
          /\ call = "download" => dev.mode = "receiving"
          /\ call = "fetch" => Burst(i, Chunks)
      BY <2>1, <1>n DEF InStep, Offered, Waiting
    <2>3. call # "download" /\ (call = "fetch" => dev.mode = "sent" /\ n >= i + Chunks
                                 /\ \A j \in 1..n : j > i /\ j <= i + Chunks => At(j, {"chunk"}))
      BY <1>1, <2>2, <1>n DEF Burst, Waiting
    <2>4. call = "fetch" => Burst(i, Chunks)'
      <3>1. \A j \in 1..n : At(j, {"chunk"}) => At(j, {"chunk"})'
        BY <1>3 DEF At
      <3>2. call = "fetch" => /\ Len(toHost') >= i + Chunks
                              /\ \A j \in Waiting' : j > i /\ j <= i + Chunks => j \in 1..n
        BY <1>3, <1>n, <2>2, <2>3, DevIsRecord DEF Waiting
      <3>3. call = "fetch" => dev'.mode \in {"sent", "idle"}
        BY <1>1, <2>3
      <3> QED BY <2>3, <3>1, <3>2, <3>3 DEF Burst
    <2> QED BY <1>1, <1>2, <2>1, <2>2, <2>3, <2>4 DEF DataCall
  <1>9. InData'
    BY <1>1, <1>2, <1>3, <1>n, DevIsRecord DEF InStep, InData, Burst, Waiting, At
  <1> QED BY <1>4, <1>5, <1>6, <1>7, <1>8, <1>9 DEF InStep

\* The final answer, OKAY or FAIL, leaves the bootloader idle.
LEMMA FinalInStep ==
    ASSUME TInv, InStep, NEW status \in Finals, Sends(status), dev' = Idle,
           dev.mode \in {"busy", "stored", "sent"}
    PROVE  InStep'
  <1> DEFINE n == Len(toHost)
  <1>1. dev'.mode = "idle" /\ dev.of = no
    BY DEF Idle, InStep, DevOwn
  <1>2. UNCHANGED <<pc, call, no, moved, abandoned>> /\ pc \notin {"idle", "command"}
    BY DEF Sends, jobVars, callVars, usbVars, InStep, AtEase
  <1>3. /\ n \in Nat /\ Len(toHost') = n + 1 /\ toHost' # <<>>
        /\ \A i \in 1..n : toHost'[i] = toHost[i]
        /\ toHost'[n + 1].status \in Finals /\ toHost'[n + 1].of = no
    BY <1>1, SentQueue
  <1> HIDE DEF n
  <1>n. n = Len(toHost)
    BY DEF n
  <1>4. Own' /\ DevOwn'
    BY <1>1, <1>2, <1>3, <1>n DEF InStep, Own, DevOwn, Waiting, DataCall
  <1>5. AtEase'
    BY <1>2 DEF AtEase
  <1>6. FinalLast'
    BY <1>1, <1>2, <1>3, <1>n DEF InStep, FinalLast, Waiting, At, Finals, Has
  <1>7. Busy'
    BY <1>1, <1>2, <1>3, <1>n DEF InStep, Busy, Waiting, At, Finals, Offers, Has
  <1>8. Offered'
    <2> SUFFICES ASSUME NEW i \in Waiting', At(i, Offers)'
                 PROVE  /\ pc' = "response" /\ DataCall' /\ dev'.mode # "busy"
                        /\ \A j \in Waiting' : At(j, Offers)' => j = i
                        /\ call' = "download" => i = Len(toHost') /\ dev'.mode = "receiving" /\ dev'.n = Chunks
                        /\ call' = "fetch" => Burst(i, Chunks)'
      BY DEF Offered
    <2>1. \A j \in Waiting' : At(j, Offers)' => j \in 1..n /\ At(j, Offers)
      BY <1>3, <1>n DEF Waiting, At, Offers, Finals
    <2>2. /\ i \in 1..n /\ pc = "response" /\ DataCall /\ dev.mode # "busy"
          /\ \A j \in 1..n : At(j, Offers) => j = i
          /\ call = "download" => dev.mode = "receiving"
          /\ call = "fetch" => Burst(i, Chunks)
      BY <2>1, <1>n DEF InStep, Offered, Waiting
    <2>3. call # "download" /\ (call = "fetch" => dev.mode = "sent" /\ n >= i + Chunks
                                 /\ \A j \in 1..n : j > i /\ j <= i + Chunks => At(j, {"chunk"}))
      BY <1>1, <2>2, <1>n DEF Burst, Waiting
    <2>4. call = "fetch" => Burst(i, Chunks)'
      <3>1. \A j \in 1..n : At(j, {"chunk"}) => At(j, {"chunk"})'
        BY <1>3 DEF At
      <3>2. call = "fetch" => /\ Len(toHost') >= i + Chunks
                              /\ \A j \in Waiting' : j > i /\ j <= i + Chunks => j \in 1..n
        BY <1>3, <1>n, <2>2, <2>3, DevIsRecord DEF Waiting
      <3>3. call = "fetch" => dev'.mode \in {"sent", "idle"}
        BY <1>1, <2>3
      <3> QED BY <2>3, <3>1, <3>2, <3>3 DEF Burst
    <2> QED BY <1>1, <1>2, <2>1, <2>2, <2>3, <2>4 DEF DataCall
  <1>9. InData'
    BY <1>1, <1>2, <1>3, <1>n, DevIsRecord DEF InStep, InData, Busy, Burst, Waiting, At
  <1> QED BY <1>4, <1>5, <1>6, <1>7, <1>8, <1>9 DEF InStep

\* DATA, or a size the driver refuses, begins a data phase.
LEMMA OfferInStep ==
    ASSUME TInv, InStep, NEW status \in Offers, Sends(status), dev.mode = "busy",
           \/ dev.kind = "download" /\ status = "DATA" /\ dev'.mode = "receiving"
           \/ dev.kind = "fetch" /\ dev'.mode = "sending",
           dev'.n = Chunks, dev'.of = dev.of, dev'.kind = dev.kind
    PROVE  InStep'
  <1> DEFINE n == Len(toHost)
  <1>1. dev.of = no /\ dev.kind = call /\ pc = "response" /\ \A i \in 1..n : At(i, {"INFO"})
    BY DEF InStep, DevOwn, Busy, Waiting
  <1>2. UNCHANGED <<pc, call, no, moved, abandoned>>
    BY DEF Sends, jobVars, callVars, usbVars
  <1>3. /\ n \in Nat /\ Len(toHost') = n + 1 /\ toHost' # <<>>
        /\ \A i \in 1..n : toHost'[i] = toHost[i]
        /\ toHost'[n + 1].status \in Offers /\ toHost'[n + 1].of = no
    BY <1>1, SentQueue
  <1> HIDE DEF n
  <1>n. n = Len(toHost)
    BY DEF n
  <1>4. Own' /\ DevOwn'
    BY <1>1, <1>2, <1>3, <1>n DEF InStep, Own, DevOwn, Waiting, DataCall
  <1>5. AtEase'
    BY <1>1, <1>2 DEF AtEase
  <1>6. FinalLast'
    BY <1>1, <1>2, <1>3, <1>n DEF FinalLast, Waiting, At, Finals, Offers, Has
  <1>7. Busy'
    BY <1>1, <1>2, <1>3, <1>n DEF Busy, Waiting, At, Finals, Offers, Has
  <1>8. Offered'
    BY <1>1, <1>2, <1>3, <1>n, DevIsRecord DEF Offered, Burst, Waiting, At, Offers, DataCall
  <1>9. InData'
    BY <1>1, <1>2 DEF InData
  <1> QED BY <1>4, <1>5, <1>6, <1>7, <1>8, <1>9 DEF InStep

\* One transfer of the data phase of a fetch.
LEMMA SendChunkInStep ==
    ASSUME TInv, InStep, Sends("chunk"), dev.mode = "sending",
           dev'.mode = IF dev.n = 1 THEN "sent" ELSE "sending",
           dev'.n = dev.n - 1, dev'.of = dev.of, dev'.kind = dev.kind
    PROVE  InStep'
  <1> DEFINE n == Len(toHost)
  <1>1. dev.of = no /\ call = "fetch" /\ pc \notin {"idle", "command"}
    BY DEF InStep, DevOwn, AtEase
  <1>2. UNCHANGED <<pc, call, no, moved, abandoned>>
    BY DEF Sends, jobVars, callVars, usbVars
  <1>3. /\ n \in Nat /\ Len(toHost') = n + 1 /\ toHost' # <<>>
        /\ \A i \in 1..n : toHost'[i] = toHost[i]
        /\ toHost'[n + 1].status = "chunk" /\ toHost'[n + 1].of = no
    BY <1>1, SentQueue
  <1> HIDE DEF n
  <1>n. n = Len(toHost)
    BY DEF n
  <1>4. Own' /\ DevOwn'
    BY <1>1, <1>2, <1>3, <1>n DEF InStep, Own, DevOwn, Waiting, DataCall
  <1>5. AtEase'
    BY <1>1, <1>2 DEF AtEase
  <1>6. FinalLast'
    BY <1>1, <1>2, <1>3, <1>n DEF InStep, FinalLast, Waiting, At, Finals, Has
  <1>7. Busy'
    BY <1>1, <1>2, <1>3, <1>n DEF InStep, Busy, Waiting, At, Finals, Offers, Has
  <1>b. ASSUME NEW d \in Nat, NEW m \in Nat, Burst(d, m) PROVE Burst(d, m)'
    <2>1. /\ n + dev.n = d + m /\ dev.n \in Nat /\ dev.n > 0
          /\ \A i \in 1..n : i > d => At(i, {"chunk"})
      BY <1>b, <1>n, DevIsRecord DEF Burst, Waiting
    <2>2. \A i \in 1..(n + 1) : i > d => At(i, {"chunk"})'
      BY <2>1, <1>3 DEF At
    <2>3. CASE dev.n = 1
      BY <2>1, <2>2, <2>3, <1>3 DEF Burst, Waiting
    <2>4. CASE dev.n # 1
      BY <2>1, <2>2, <2>4, <1>3 DEF Burst, Waiting
    <2> QED BY <2>3, <2>4
  <1>8. Offered'
    <2> SUFFICES ASSUME NEW i \in 1..(n + 1), At(i, Offers)'
                 PROVE  /\ pc = "response" /\ dev'.mode # "busy"
                        /\ \A j \in 1..(n + 1) : At(j, Offers)' => j = i
                        /\ Burst(i, Chunks)'
      BY <1>1, <1>2, <1>3 DEF Offered, Waiting, DataCall
    <2>1. i \in 1..n /\ At(i, Offers)
      BY <1>3 DEF At, Offers
    <2>2. pc = "response" /\ Burst(i, Chunks) /\ \A j \in 1..n : At(j, Offers) => j = i
      BY <2>1, <1>1, <1>n DEF InStep, Offered, Waiting
    <2>3. \A j \in 1..(n + 1) : At(j, Offers)' => j = i
      BY <2>2, <1>3 DEF At, Offers
    <2>4. Burst(i, Chunks)'
      BY <2>1, <2>2, <1>b, <1>3, DevIsRecord
    <2> QED BY <2>2, <2>3, <2>4
  <1>9. InData'
    <2>1. pc = "data" => Burst(0, Chunks - moved)' /\ call # "download"
      <3>1. pc = "data" => Burst(0, Chunks - moved) /\ Chunks - moved \in Nat
        BY <1>1, DevIsRecord DEF InStep, InData
      <3> QED BY <3>1, <1>b, <1>1, <1>2
    <2> QED BY <2>1, <1>1, <1>2 DEF InData
  <1> QED BY <1>4, <1>5, <1>6, <1>7, <1>8, <1>9 DEF InStep

\* At rest, or about to send a command, the two are in step.
LEMMA AtRestInStep ==
    ASSUME toHost = <<>>, dev.mode = "idle", abandoned = 0, pc \in {"idle", "command"}
    PROVE  InStep
  <1>1. Waiting = {}
    BY DEF Waiting
  <1> QED
    BY <1>1 DEF InStep, Own, DevOwn, AtEase, FinalLast, Busy, Offered, InData, Has

\* The same of the state a step leads to.
LEMMA AtRestInStepNext ==
    ASSUME toHost' = <<>>, dev'.mode = "idle", abandoned' = 0, pc' \in {"idle", "command"}
    PROVE  InStep'
  <1>1. Waiting' = {}
    BY DEF Waiting
  <1> QED
    BY <1>1 DEF InStep, Own, DevOwn, AtEase, FinalLast, Busy, Offered, InData, Has

\* The bootloader takes a command.
LEMMA TakeCommandInStep ==
    ASSUME TInv, InStep, DevTakeCommand
    PROVE  InStep'
  <1>1. /\ toHost' = <<>> /\ pc' = "response" /\ no' = no + 1 /\ call' = call /\ abandoned' = abandoned
        /\ dev'.mode = "busy" /\ dev'.kind = call /\ dev'.of = no + 1
    BY DEF DevTakeCommand, AwaitResponse, InStep, AtEase
  <1>2. Waiting' = {}
    BY <1>1 DEF Waiting
  <1> QED
    BY <1>1, <1>2 DEF InStep, Own, DevOwn, AtEase, FinalLast, Busy, Offered, InData, Has

\* One transfer of the data phase of a download.
LEMMA TakeChunkInStep ==
    ASSUME TInv, InStep, DevTakeChunk
    PROVE  InStep'
  <1>1. /\ pc = "data" /\ call = "download" /\ toHost = <<>> /\ dev.mode = "receiving"
        /\ dev.n + moved = Chunks /\ dev.of = no /\ dev.kind = call
    BY DEF DevTakeChunk, InStep, InData, DevOwn
  <1>2. dev' = [dev EXCEPT !.n = dev.n - 1, !.mode = IF dev.n = 1 THEN "stored" ELSE dev.mode]
    BY <1>1 DEF DevTakeChunk
  <1>3. /\ dev'.n = dev.n - 1 /\ dev'.of = dev.of /\ dev'.kind = dev.kind
        /\ dev'.mode = IF dev.n = 1 THEN "stored" ELSE "receiving"
    BY <1>1, <1>2, DevIsRecord DEF DevRecord
  <1>4. /\ toHost' = <<>> /\ no' = no /\ abandoned' = abandoned /\ call' = call /\ moved' = moved + 1
        /\ IF moved + 1 < Chunks THEN pc' = pc ELSE pc' = "final"
    BY <1>1 DEF DevTakeChunk, AfterData, AwaitResponse
  <1>5. Waiting' = {}
    BY <1>4 DEF Waiting
  <1>6. pc' = "data" => dev'.mode = "receiving" /\ dev'.n + moved' = Chunks
    <2>1. pc' = "data" => moved + 1 < Chunks
      BY <1>4
    <2>2. moved + 1 < Chunks => dev.n # 1
      BY <1>1, DevIsRecord
    <2>3. (dev.n - 1) + (moved + 1) = Chunks
      BY <1>1, DevIsRecord
    <2> QED BY <1>3, <1>4, <2>1, <2>2, <2>3
  <1>7. pc' = "final" => dev'.mode = "stored"
    BY <1>1, <1>3, <1>4, DevIsRecord
  <1>8. Own' /\ DevOwn'
    BY <1>1, <1>3, <1>4, <1>5, <1>6, <1>7 DEF InStep, Own, DevOwn, DataCall
  <1>9. AtEase' /\ FinalLast' /\ Busy' /\ Offered'
    BY <1>1, <1>3, <1>4, <1>5 DEF AtEase, FinalLast, Busy, Offered
  <1>10. InData'
    BY <1>1, <1>4, <1>6 DEF InData
  <1> QED BY <1>8, <1>9, <1>10 DEF InStep

\* A step of the bootloader keeps the two in step.
LEMMA DevKeepsSync ==
    ASSUME TInv, Sync, DevStep
    PROVE  Sync'
  <1> SUFFICES ASSUME ~gaveUp', linkUp' PROVE InStep'
    BY DEF Sync
  <1>1. gaveUp' = gaveUp /\ linkUp
    BY DEF DevStep, DevTakeCommand, DevMistakeCommand, DevTakeChunk, DevInfo, DevFail, DevOkay,
           DevOffer, DevSendChunk, Sends, auxVars
  <1>2. InStep
    BY <1>1 DEF Sync
  <1>3. CASE DevTakeCommand
    BY <1>2, <1>3, TakeCommandInStep
  <1>4. CASE DevMistakeCommand
    BY <1>2, <1>4 DEF DevMistakeCommand, InStep, AtEase
  <1>5. CASE DevTakeChunk
    BY <1>2, <1>5, TakeChunkInStep
  <1>6. CASE DevInfo
    BY <1>2, <1>6, InfoInStep
  <1>7. CASE DevFail
    <2>1. Sends("FAIL") /\ dev' = Idle /\ dev.mode \in {"busy", "stored", "sent"} /\ "FAIL" \in Finals
      BY <1>7 DEF DevFail, Finals
    <2> QED BY <1>2, <2>1, FinalInStep
  <1>8. CASE DevOkay
    <2>1. Sends("OKAY") /\ dev' = Idle /\ dev.mode \in {"busy", "stored", "sent"} /\ "OKAY" \in Finals
      BY <1>8 DEF DevOkay, Finals
    <2> QED BY <1>2, <2>1, FinalInStep
  <1>9. CASE DevOffer
    <2>1. dev.mode = "busy"
      BY <1>9 DEF DevOffer
    <2>2. PICK m \in {"receiving", "sending"} :
            /\ dev' = [dev EXCEPT !.n = Chunks, !.mode = m]
            /\ \/ dev.kind = "download" /\ Sends("DATA") /\ m = "receiving"
               \/ dev.kind = "fetch" /\ (Sends("DATA") \/ Sends("TOOBIG")) /\ m = "sending"
      BY <1>9 DEF DevOffer
    <2>3. dev'.n = Chunks /\ dev'.of = dev.of /\ dev'.kind = dev.kind /\ dev'.mode = m
      BY <2>2, DevIsRecord DEF DevRecord
    <2>4. "DATA" \in Offers /\ "TOOBIG" \in Offers
      BY DEF Offers
    <2>5. CASE Sends("DATA")
      BY <1>2, <2>1, <2>2, <2>3, <2>4, <2>5, OfferInStep
    <2>6. CASE Sends("TOOBIG") /\ dev.kind = "fetch" /\ m = "sending"
      BY <1>2, <2>1, <2>3, <2>4, <2>6, OfferInStep
    <2> QED BY <2>2, <2>5, <2>6
  <1>10. CASE DevSendChunk
    <2>1. /\ Sends("chunk") /\ dev.mode = "sending"
          /\ dev' = [dev EXCEPT !.n = dev.n - 1, !.mode = IF dev.n = 1 THEN "sent" ELSE dev.mode]
      BY <1>10 DEF DevSendChunk
    <2>2. /\ dev'.n = dev.n - 1 /\ dev'.of = dev.of /\ dev'.kind = dev.kind
          /\ dev'.mode = IF dev.n = 1 THEN "sent" ELSE "sending"
      BY <2>1, DevIsRecord DEF DevRecord
    <2> QED BY <1>2, <2>1, <2>2, SendChunkInStep
  <1> QED
    BY <1>3, <1>4, <1>5, <1>6, <1>7, <1>8, <1>9, <1>10 DEF DevStep

-----------------------------------------------------------------------------
(* The driver keeps the two in step, or knows that it does not              *)

\* A burst moves up with the queue.
LEMMA BurstMoves ==
    ASSUME TInv, dev' = dev, NEW n \in Nat, n = Len(toHost), Len(toHost') = n - 1,
           \A i \in 1..(n - 1) : toHost'[i] = toHost[i + 1],
           NEW d \in Nat, NEW m \in Nat, Burst(d + 1, m)
    PROVE  Burst(d, m)'
  <1>1. dev.n \in Nat
    BY DevIsRecord
  <1>2. CASE dev.mode = "sending" /\ n + dev.n = d + 1 + m /\ \A i \in 1..n : i > d + 1 => At(i, {"chunk"})
    <2>1. \A i \in 1..(n - 1) : i > d => At(i, {"chunk"})'
      BY <1>2 DEF At
    <2>a. n + dev.n = d + 1 + m
      BY <1>2
    <2>b. \A k \in Nat : n + k = d + 1 + m => (n - 1) + k = d + m
      OBVIOUS
    <2>2. (n - 1) + dev.n = d + m
      BY <1>1, <2>a, <2>b
    <2> QED BY <1>2, <2>1, <2>2 DEF Burst, Waiting
  <1>3. CASE /\ dev.mode \in {"sent", "idle"} /\ n >= d + 1 + m
             /\ \A i \in 1..n : i > d + 1 /\ i <= d + 1 + m => At(i, {"chunk"})
    <2>1. ASSUME NEW i \in 1..(n - 1), i > d, i <= d + m PROVE At(i, {"chunk"})'
      <3>1. i + 1 \in 1..n /\ i + 1 > d + 1 /\ i + 1 <= d + 1 + m
        BY <2>1
      <3>2. At(i + 1, {"chunk"})
        BY <3>1, <1>3
      <3> QED BY <3>2 DEF At
    <2>2. n - 1 >= d + m
      BY <1>3
    <2> QED BY <1>3, <2>1, <2>2 DEF Burst, Waiting
  <1> QED BY <1>2, <1>3 DEF Burst, Waiting

\* One packet fewer under way leaves one fewer to come.
LEMMA OneFewer == \A a, b, c \in Nat : a + b = 0 + (c + 1) => (a - 1) + b = 0 + c
  OBVIOUS

\* The first of a burst is a chunk, and the rest of it one shorter.
LEMMA BurstShrinks ==
    ASSUME TInv, dev' = dev, NEW n \in Nat, n >= 1, n = Len(toHost), Len(toHost') = n - 1,
           \A i \in 1..(n - 1) : toHost'[i] = toHost[i + 1],
           NEW m \in Nat, Burst(0, m + 1)
    PROVE  toHost[1].status = "chunk" /\ Burst(0, m)' /\ dev.mode \in {"sending", "sent", "idle"}
  <1>1. dev.n \in Nat
    BY DevIsRecord
  <1>2. CASE dev.mode = "sending" /\ n + dev.n = 0 + (m + 1) /\ \A i \in 1..n : i > 0 => At(i, {"chunk"})
    <2>1. \A i \in 1..(n - 1) : i > 0 => At(i, {"chunk"})'
      BY <1>2 DEF At
    <2>2. (n - 1) + dev.n = 0 + m
      <3>1. PICK k \in Nat : k = dev.n
        BY <1>1
      <3>2. n + k = 0 + (m + 1)
        BY <1>2, <3>1
      <3>3. (n - 1) + k = 0 + m
        BY <3>1, <3>2, OneFewer
      <3> QED BY <3>1, <3>3, Zenon
    <2>3. toHost[1].status = "chunk"
      <3>1. At(1, {"chunk"})
        BY <1>2
      <3> QED BY <3>1 DEF At
    <2> QED BY <1>2, <2>1, <2>2, <2>3 DEF Burst, Waiting
  <1>3. CASE /\ dev.mode \in {"sent", "idle"} /\ n >= 0 + (m + 1)
             /\ \A i \in 1..n : i > 0 /\ i <= 0 + (m + 1) => At(i, {"chunk"})
    <2>1. \A i \in 1..(n - 1) : i > 0 /\ i <= 0 + m => At(i, {"chunk"})'
      BY <1>3 DEF At
    <2>2. n - 1 >= 0 + m /\ toHost[1].status = "chunk"
      BY <1>3 DEF At
    <2> QED BY <1>3, <2>1, <2>2 DEF Burst, Waiting
  <1> QED BY <1>2, <1>3 DEF Burst, Waiting

\* How a final answer ends its call.
LEMMA CallEndInStep ==
    ASSUME TInv, Plain, InStep, pc # "idle", CallResolves \/ CallRejects,
           toHost' = <<>>, dev.mode = "idle", dev' = dev, abandoned' = abandoned
    PROVE  InStep'
  <1>1. pc' \in {"idle", "command"}
    BY CallEndPlain
  <1>2. abandoned' = 0
    BY DEF InStep, Own
  <1> QED BY <1>1, <1>2, AtRestInStepNext

\* INFO and TEXT are taken one by one.
LEMMA ProgressInStep ==
    ASSUME TInv, InStep, OnProgress
    PROVE  InStep'
  <1> DEFINE n == Len(toHost)
  <1>1. UNCHANGED <<pc, call, no, moved, abandoned, dev>> /\ Timing
    BY DEF OnProgress, Arrives, devVars
  <1>2. /\ n \in Nat /\ n >= 1 /\ Len(toHost') = n - 1
        /\ \A i \in 1..(n - 1) : toHost'[i] = toHost[i + 1]
        /\ toHost[1].status = "INFO"
    <2>1. Arrives({"INFO"})
      BY DEF OnProgress
    <2> QED BY <2>1, TakenQueue
  <1> HIDE DEF n
  <1>n. n = Len(toHost)
    BY DEF n
  <1>b. ASSUME NEW d \in Nat, NEW m \in Nat, Burst(d + 1, m) PROVE Burst(d, m)'
    BY <1>b, <1>1, <1>2, <1>n, BurstMoves
  <1>3. Own' /\ DevOwn' /\ AtEase'
    BY <1>1, <1>2, <1>n DEF InStep, Own, DevOwn, AtEase, Waiting, DataCall, Timing
  <1>4. FinalLast'
    <2>1. \A i \in 1..(n - 1) : At(i, Finals)' => i = n - 1 /\ dev.mode = "idle"
      BY <1>2, <1>n DEF InStep, FinalLast, Waiting, At
    <2>2. CASE dev.mode = "idle"
      <3>1. PICK i \in 1..n : At(i, Finals)
        BY <1>1, <1>n, <2>2 DEF InStep, FinalLast, Has, Waiting, Timing
      <3>2. i - 1 \in 1..(n - 1) /\ At(i - 1, Finals)'
        BY <3>1, <1>2 DEF At, Finals
      <3> QED BY <3>2, <2>1, <1>1, <1>2 DEF FinalLast, Has, Waiting
    <2> QED BY <2>1, <2>2, <1>1, <1>2 DEF FinalLast, Waiting
  <1>5. Busy'
    <2>1. dev.mode = "busy" => pc = "response" /\ \A i \in 1..(n - 1) : At(i, {"INFO"})'
      BY <1>2, <1>n DEF InStep, Busy, Waiting, At
    <2>2. CASE pc = "response" /\ dev.mode # "busy"
      <3>1. PICK i \in 1..n : At(i, Finals \cup Offers)
        BY <1>n, <2>2 DEF InStep, Busy, Has, Waiting
      <3>2. i - 1 \in 1..(n - 1) /\ At(i - 1, Finals \cup Offers)'
        BY <3>1, <1>2 DEF At, Finals, Offers
      <3> QED BY <3>2, <2>1, <1>1, <1>2 DEF Busy, Has, Waiting
    <2> QED BY <2>1, <2>2, <1>1, <1>2 DEF Busy, Waiting
  <1>6. Offered'
    <2> SUFFICES ASSUME NEW i \in 1..(n - 1), At(i, Offers)'
                 PROVE  /\ pc = "response" /\ DataCall /\ dev.mode # "busy"
                        /\ \A j \in 1..(n - 1) : At(j, Offers)' => j = i
                        /\ call = "download" => i = n - 1 /\ dev.mode = "receiving" /\ dev.n = Chunks
                        /\ call = "fetch" => Burst(i, Chunks)'
      BY <1>1, <1>2 DEF Offered, Waiting, DataCall
    <2>1. i + 1 \in 1..n /\ At(i + 1, Offers)
      BY <1>2 DEF At
    <2>2. /\ pc = "response" /\ DataCall /\ dev.mode # "busy"
          /\ \A j \in 1..n : At(j, Offers) => j = i + 1
          /\ call = "download" => i + 1 = n /\ dev.mode = "receiving" /\ dev.n = Chunks
          /\ call = "fetch" => Burst(i + 1, Chunks)
      BY <2>1, <1>n DEF InStep, Offered, Waiting
    <2>3. \A j \in 1..(n - 1) : At(j, Offers)' => j = i
      BY <2>2, <1>2 DEF At
    <2> QED BY <2>2, <2>3, <1>b, <1>2, DevIsRecord
  <1>7. InData'
    BY <1>1 DEF InData, Timing
  <1> QED BY <1>3, <1>4, <1>5, <1>6, <1>7 DEF InStep

\* An answer begins the data phase or ends the call.
LEMMA AnswerInStep ==
    ASSUME TInv, Plain, InStep, OnAnswer
    PROVE  InStep'
  <1> DEFINE n == Len(toHost)
  <1>1. UNCHANGED <<no, abandoned, dev>> /\ Timing /\ moved' = 0
    BY DEF OnAnswer, Arrives, devVars
  <1>2. /\ n \in Nat /\ n >= 1 /\ Len(toHost') = n - 1
        /\ \A i \in 1..(n - 1) : toHost'[i] = toHost[i + 1]
        /\ toHost[1].status \in {"OKAY", "FAIL", "DATA"} /\ toHost[1] = Head(toHost)
        /\ toHost' = <<>> <=> n = 1
    <2>1. Arrives({"OKAY", "FAIL", "DATA"})
      BY DEF OnAnswer
    <2> QED BY <2>1, TakenQueue
  <1> HIDE DEF n
  <1>n. n = Len(toHost)
    BY DEF n
  <1>3. CASE toHost[1].status = "DATA"
    <2>1. /\ pc = "response" /\ DataCall /\ dev.mode # "busy"
          /\ \A j \in 1..n : At(j, Offers) => j = 1
          /\ call = "download" => n = 1 /\ dev.mode = "receiving" /\ dev.n = Chunks
          /\ call = "fetch" => Burst(1, Chunks)
      BY <1>2, <1>n, <1>3 DEF InStep, Offered, Waiting, At, Offers
    <2>2. pc' = "data" /\ call' = call
      BY <1>2, <1>3, <2>1 DEF OnAnswer, Accepted
    <2>3. call = "fetch" => Burst(0, Chunks)'
      <3>1. call = "fetch" => Burst(0 + 1, Chunks)
        BY <2>1
      <3> QED BY <3>1, <1>1, <1>2, <1>n, DevIsRecord, BurstMoves
    <2>4. Own' /\ DevOwn' /\ AtEase'
      BY <1>1, <1>2, <1>n, <2>1, <2>2 DEF InStep, Own, DevOwn, AtEase, Waiting, DataCall
    <2>5. FinalLast'
      <3>1. \A i \in 1..(n - 1) : At(i, Finals)' => i = n - 1 /\ dev.mode = "idle"
        BY <1>2, <1>n DEF InStep, FinalLast, Waiting, At
      <3>2. CASE dev.mode = "idle"
        <4>1. PICK i \in 1..n : At(i, Finals)
          BY <2>1, <1>n, <3>2 DEF InStep, FinalLast, Has, Waiting
        <4>2. i - 1 \in 1..(n - 1) /\ At(i - 1, Finals)'
          BY <4>1, <1>2, <1>3 DEF At, Finals
        <4> QED BY <4>2, <3>1, <1>1, <1>2 DEF FinalLast, Has, Waiting
      <3> QED BY <3>1, <3>2, <1>1, <1>2 DEF FinalLast, Waiting
    <2>6. Busy'
      BY <2>1, <2>2, <1>1 DEF Busy
    <2>7. Offered'
      <3>1. ASSUME NEW i \in 1..(n - 1), At(i, Offers)' PROVE FALSE
        <4>1. i + 1 \in 1..n /\ At(i + 1, Offers)
          BY <3>1, <1>2 DEF At
        <4> QED BY <4>1, <2>1, <1>2
      <3> QED BY <3>1, <1>2 DEF Offered, Waiting
    <2>8. InData'
      BY <2>1, <2>2, <2>3, <1>1, <1>2, DevIsRecord DEF InData, DataCall
    <2> QED BY <2>4, <2>5, <2>6, <2>7, <2>8 DEF InStep
  <1>4. CASE toHost[1].status # "DATA"
    <2>1. n = 1 /\ dev.mode = "idle"
      BY <1>2, <1>n, <1>4 DEF InStep, FinalLast, Waiting, At, Finals
    <2>2. CallResolves \/ CallRejects
      BY <1>2, <1>4 DEF OnAnswer, Accepted
    <2> QED BY <2>1, <2>2, <1>1, <1>2, CallEndInStep DEF Timing
  <1> QED BY <1>3, <1>4

\* The data phase of a fetch takes chunks only, and as many as were announced.
LEMMA ChunkInStep ==
    ASSUME TInv, InStep, OnChunk
    PROVE  InStep' /\ call = "fetch" /\ toHost[1].status = "chunk"
  <1> DEFINE n == Len(toHost)
  <1>1. UNCHANGED <<no, call, abandoned, dev>> /\ pc = "data" /\ moved' = moved + 1
        /\ ((moved + 1 < Chunks /\ pc' = "data") \/ (moved + 1 >= Chunks /\ pc' = "final"))
    BY DEF OnChunk, Arrives, devVars
  <1>2. /\ n \in Nat /\ n >= 1 /\ Len(toHost') = n - 1
        /\ \A i \in 1..(n - 1) : toHost'[i] = toHost[i + 1]
    <2>1. Arrives({"INFO", "OKAY", "FAIL", "DATA", "TOOBIG", "chunk"})
      BY DEF OnChunk
    <2> QED BY <2>1, TakenQueue
  <1>3. toHost # <<>>
    BY DEF OnChunk, Arrives
  <1> HIDE DEF n
  <1>n. n = Len(toHost)
    BY DEF n
  <1>4. call = "fetch" /\ Burst(0, Chunks - moved) /\ moved < Chunks
    BY <1>1, <1>3, DevIsRecord DEF InStep, InData, DevOwn, DataCall
  <1>5. PICK m \in Nat : Chunks - moved = m + 1
    <2>1. Chunks - moved - 1 \in Nat /\ Chunks - moved = (Chunks - moved - 1) + 1
      BY <1>4, DevIsRecord
    <2> QED BY <2>1
  <1>a. /\ toHost[1].status = "chunk" /\ Burst(0, m)'
        /\ dev.mode \in {"sending", "sent", "idle"}
    BY <1>1, <1>2, <1>4, <1>5, <1>n, BurstShrinks
  <1>6. Burst(0, Chunks - moved)'
    <2>1. Chunks - moved' = m
      BY <1>1, <1>5, DevIsRecord
    <2> QED BY <1>a, <2>1
  <1>7. Own' /\ DevOwn' /\ AtEase'
    BY <1>1, <1>2, <1>4, <1>a, <1>n DEF InStep, Own, DevOwn, AtEase, Waiting, DataCall
  <1>8. FinalLast'
    <2>1. ASSUME NEW i \in 1..(n - 1), At(i, Finals)' PROVE i = n - 1 /\ dev.mode = "idle"
      <3>1. i + 1 \in 1..n /\ At(i + 1, Finals)
        BY <2>1, <1>2 DEF At
      <3> QED BY <3>1, <1>2, <1>n DEF InStep, FinalLast, Waiting
    <2>2. CASE dev.mode = "idle"
      <3>1. PICK i \in 1..n : At(i, Finals)
        BY <1>1, <1>n, <2>2 DEF InStep, FinalLast, Has, Waiting
      <3>2. i - 1 \in 1..(n - 1) /\ At(i - 1, Finals)'
        BY <3>1, <1>2, <1>a DEF At, Finals
      <3> QED BY <3>2, <2>1, <1>1, <1>2 DEF FinalLast, Has, Waiting
    <2> QED BY <2>1, <2>2, <1>1, <1>2 DEF FinalLast, Waiting
  <1>9. Busy'
    BY <1>1, <1>a DEF Busy
  <1>10. Offered'
    <2>1. ASSUME NEW i \in 1..(n - 1), At(i, Offers)' PROVE FALSE
      <3>1. i + 1 \in 1..n /\ At(i + 1, Offers)
        BY <2>1, <1>2 DEF At
      <3> QED BY <3>1, <1>1, <1>n DEF InStep, Offered, Waiting
    <2> QED BY <2>1, <1>2 DEF Offered, Waiting
  <1>11. InData'
    BY <1>1, <1>4, <1>6 DEF InData
  <1> QED BY <1>4, <1>a, <1>7, <1>8, <1>9, <1>10, <1>11 DEF InStep

\* A step of the application, of the event loop or of a timer keeps the two in
\* step, or leaves a command half way.
LEMMA HostKeepsSync ==
    ASSUME TInv, Plain, Sync, (\E kind \in JobKinds : StartJob(kind)) \/ HostStep \/ Tick \/ Unplug
    PROVE  Sync'
  <1> SUFFICES ASSUME ~gaveUp', linkUp' PROVE InStep'
    BY DEF Sync
  <1>1. ASSUME NEW kind \in JobKinds, StartJob(kind) PROVE InStep'
    <2>1. /\ pc' = "command" /\ UNCHANGED <<toHost, dev, abandoned, linkUp>> /\ pc = "idle"
          /\ gaveUp => AtRest
      BY <1>1, Zenon DEF StartJob, Begin, usbVars, devVars, Plain
    <2>2. toHost = <<>> /\ dev.mode = "idle" /\ abandoned = 0
      <3>1. CASE gaveUp
        BY <3>1, <2>1 DEF AtRest
      <3>2. CASE ~gaveUp
        BY <3>2, <2>1 DEF Sync, InStep, Own, AtEase
      <3> QED BY <3>1, <3>2
    <2> QED BY <2>1, <2>2, AtRestInStepNext
  <1>2. CASE Swallow
    <2>1. ~gaveUp /\ linkUp /\ abandoned > 0
      BY <1>2 DEF Swallow, auxVars
    <2> QED BY <2>1, DevIsRecord DEF Sync, InStep, Own
  <1>3. CASE OnProgress
    <2>1. ~gaveUp /\ linkUp
      BY <1>3 DEF OnProgress, Arrives
    <2> QED BY <1>3, <2>1, ProgressInStep DEF Sync
  <1>4. CASE OnAnswer
    <2>1. ~gaveUp /\ linkUp
      BY <1>4 DEF OnAnswer, Arrives
    <2> QED BY <1>4, <2>1, AnswerInStep DEF Sync
  <1>5. CASE OnNonsense
    BY <1>5 DEF OnNonsense
  <1>6. CASE OnChunk
    <2>1. ~gaveUp /\ linkUp
      BY <1>6 DEF OnChunk, Arrives
    <2> QED BY <1>6, <2>1, ChunkInStep DEF Sync
  <1>7. CASE TimesOut
    BY <1>7 DEF TimesOut
  <1>8. CASE TransferRejects
    BY <1>8 DEF TransferRejects
  <1>9. CASE Tick
    <2>1. ~gaveUp /\ linkUp /\ UNCHANGED <<toHost, dev, abandoned, no, call, pc, moved>>
      BY <1>9 DEF Tick, usbVars, auxVars
    <2> QED
      BY <2>1 DEF Sync, InStep, Own, DevOwn, AtEase, FinalLast, Busy, Offered, InData, Burst,
                  Has, At, Waiting, DataCall
  <1>10. CASE Unplug
    BY <1>10 DEF Unplug
  <1> QED
    BY <1>1, <1>2, <1>3, <1>4, <1>5, <1>6, <1>7, <1>8, <1>9, <1>10 DEF HostStep

\* Every step keeps the two in step.
LEMMA NextSync == TInv /\ Plain /\ Sync /\ [Next]_dvars => Sync'
  <1> SUFFICES ASSUME TInv, Plain, Sync, [Next]_dvars PROVE Sync'
    OBVIOUS
  <1>1. CASE Next
    BY <1>1, HostKeepsSync, DevKeepsSync DEF Next
  <1>2. CASE UNCHANGED dvars
    BY <1>2 DEF dvars, jobVars, callVars, usbVars, devVars, auxVars, Sync, InStep, Own, DevOwn,
                AtEase, FinalLast, Busy, Offered, InData, Burst, Has, At, Waiting, DataCall
  <1> QED BY <1>1, <1>2

\* The initial state is in step.
LEMMA InitSync == Init => Sync
  <1> SUFFICES ASSUME Init PROVE InStep
    BY DEF Sync
  <1>1. toHost = <<>> /\ dev.mode = "idle" /\ abandoned = 0 /\ pc = "idle"
    BY DEF Init, Idle
  <1> QED BY <1>1, AtRestInStep

\* While they are in step, a packet that arrives is the call's own.
LEMMA ArrivesOwn ==
    ASSUME TInv, Plain, Sync, NEW statuses, Arrives(statuses), ~gaveUp
    PROVE  InStep /\ linkUp /\ crossed' = crossed
  <1>1. toHost # <<>> /\ linkUp
    BY DEF Arrives, Plain
  <1>2. InStep
    BY <1>1 DEF Sync
  <1>3. 1 \in Waiting /\ toHost[1] = Head(toHost)
    BY TakenQueue DEF Waiting
  <1>4. Head(toHost).of = no
    BY <1>2, <1>3 DEF InStep, Own
  <1>5. crossed' = (crossed \/ Head(toHost).of # no)
    BY DEF Arrives
  <1>6. crossed \in BOOLEAN
    BY DEF TInv, TypeOK
  <1>7. crossed' = crossed
    BY <1>4, <1>5, <1>6, Zenon
  <1> QED BY <1>1, <1>2, <1>7

\* An answer to another command is only taken behind a command left half way.
LEMMA NextMatch == TInv /\ Plain /\ Sync /\ AnswersMatch /\ [Next]_dvars => AnswersMatch'
  <1> SUFFICES ASSUME TInv, Plain, Sync, AnswersMatch, [Next]_dvars, ~gaveUp' PROVE ~crossed'
    BY DEF AnswersMatch
  <1>1. CASE \E kind \in JobKinds : StartJob(kind)
    <2>1. crossed' = (crossed /\ ~AtRest) /\ gaveUp' = (gaveUp /\ ~AtRest)
      BY <1>1, Zenon DEF StartJob
    <2> QED BY <2>1, Zenon DEF AnswersMatch
  <1>2. CASE OnProgress \/ OnAnswer \/ OnChunk
    <2>1. gaveUp' = gaveUp
      BY <1>2 DEF OnProgress, OnAnswer, OnChunk
    <2>2. \/ Arrives({"INFO"}) \/ Arrives({"OKAY", "FAIL", "DATA"})
          \/ Arrives({"INFO", "OKAY", "FAIL", "DATA", "TOOBIG", "chunk"})
      BY <1>2, Zenon DEF OnProgress, OnAnswer, OnChunk
    <2>3. crossed' = crossed
      BY <2>1, <2>2, ArrivesOwn
    <2> QED BY <2>1, <2>3 DEF AnswersMatch
  <1>3. CASE OnNonsense \/ TimesOut \/ TransferRejects
    BY <1>3 DEF OnNonsense, TimesOut, TransferRejects
  <1>4. CASE Swallow \/ Tick \/ DevStep \/ Unplug \/ UNCHANGED dvars
    <2>1. gaveUp' = gaveUp /\ crossed' = crossed
      BY <1>4 DEF Swallow, Tick, Unplug, DevStep, DevTakeCommand, DevMistakeCommand, DevTakeChunk,
                  DevInfo, DevFail, DevOkay, DevOffer, DevSendChunk, Sends, auxVars, dvars
    <2> QED BY <2>1 DEF AnswersMatch
  <1> QED
    BY <1>1, <1>2, <1>3, <1>4 DEF Next, HostStep

\* "Sends a raw command string and returns the final response"
\* (fastboot-driver.js): a call takes no answer but its own, unless the driver
\* left a command half way and no job has found the bootloader at rest since.
THEOREM AnswersAlwaysMatch == Spec => []AnswersMatch
  <1>1. Init => AnswersMatch
    BY DEF Init, AnswersMatch
  <1> QED
    BY InitTypes, NextTypes, InitPlain, NextPlain, InitSync, NextSync, <1>1, NextMatch, PTL DEF Spec

-----------------------------------------------------------------------------
(* The deadline                                                             *)

\* Together the time left and the silence so far are the whole deadline; a
\* packet on its way will restart it.
Slow ==
    prompt /\ ~gaveUp /\ Timing =>
        left >= 1 /\ (toHost = <<>> /\ linkUp => left + quiet >= Timeout)

\* In step, and with nothing on its way, it is the bootloader's turn.
LEMMA BootloadersTurn ==
    ASSUME TInv, InStep, Timing, toHost = <<>>
    PROVE  Answering
  <1>1. Waiting = {}
    BY DEF Waiting
  <1>2. ~Has(Finals) /\ ~Has(Finals \cup Offers)
    BY <1>1 DEF Has
  <1>3. dev.mode # "idle" /\ dev.mode # "receiving"
    BY <1>2 DEF InStep, FinalLast, Busy, DevOwn, Timing
  <1> QED BY <1>3, DevIsRecord DEF Answering, Modes

\* The whole deadline is more than any silence needs.
LEMMA FullDeadline == \A n \in Nat : Timeout >= 1 /\ Timeout + n >= Timeout
  BY Sizes

\* Every step keeps the deadline ahead of a bootloader that is not silent.
LEMMA NextSlow == TInv /\ Plain /\ Sync /\ Slow /\ [Next]_dvars => Slow'
  <1> SUFFICES ASSUME TInv, Plain, Sync, Slow, [Next]_dvars, prompt', ~gaveUp', Timing'
               PROVE  left' >= 1 /\ (toHost' = <<>> /\ linkUp' => left' + quiet' >= Timeout)
    BY DEF Slow
  <1>0. /\ left \in Nat /\ quiet \in Nat /\ Timeout \in Nat /\ Timeout > 0 /\ left' \in Nat /\ quiet' \in Nat
    <2>1. TInv'
      BY NextTypes
    <2>2. left' \in 0..Timeout /\ quiet' \in 0..Timeout
      BY <2>1 DEF TInv, TypeOK
    <2> QED BY <2>2, PlainTypes
  <1>1. ASSUME left' = Timeout
        PROVE  left' >= 1 /\ (toHost' = <<>> /\ linkUp' => left' + quiet' >= Timeout)
    <2>1. left' >= 1 /\ left' + quiet' >= Timeout
      BY <1>0, <1>1, FullDeadline, Zenon
    <2> QED BY <2>1, Zenon
  <1>2. CASE \E kind \in JobKinds : StartJob(kind)
    BY <1>2 DEF StartJob, Begin, Timing
  <1>3. CASE Swallow
    <2>1. ~gaveUp /\ linkUp /\ abandoned > 0
      BY <1>3 DEF Swallow, auxVars, Plain
    <2> QED BY <2>1, DevIsRecord DEF Sync, InStep, Own
  <1>4. CASE OnProgress
    BY <1>1, <1>4 DEF OnProgress, Restart
  <1>5. CASE OnAnswer
    <2>1. CallRejects \/ CallResolves \/ pc' = "data"
      BY <1>5 DEF OnAnswer
    <2>2. pc # "idle"
      BY <1>5 DEF OnAnswer, Timing
    <2> QED BY <2>1, <2>2, CallEndPlain DEF Timing
  <1>6. CASE OnChunk
    BY <1>1, <1>6 DEF OnChunk, Timing
  <1>7. CASE OnNonsense \/ TimesOut \/ TransferRejects
    BY <1>7 DEF OnNonsense, TimesOut, TransferRejects
  <1>8. CASE Tick
    <2>1. /\ Timing /\ left > 0 /\ ~Deliverable /\ linkUp /\ prompt /\ ~gaveUp
          /\ prompt /\ Answering => quiet < Timeout - 1
          /\ left' = left - 1
          /\ quiet' = IF quiet < Timeout THEN quiet + 1 ELSE quiet
          /\ toHost' = toHost
      BY <1>8 DEF Tick, auxVars
    <2>2. toHost = <<>>
      BY <2>1 DEF Deliverable, Plain
    <2>3. Answering
      BY <2>1, <2>2, BootloadersTurn DEF Sync
    <2>4. quiet < Timeout - 1 /\ left + quiet >= Timeout
      BY <2>1, <2>2, <2>3 DEF Slow
    <2>5. quiet' = quiet + 1
      BY <2>1, <2>4, <1>0
    <2> QED BY <2>1, <2>4, <2>5, <1>0
  <1>9. CASE Unplug
    BY <1>9 DEF Unplug, Slow, Timing, callVars, auxVars
  <1>10. CASE DevTakeCommand \/ DevMistakeCommand
    BY <1>1, <1>10 DEF DevTakeCommand, DevMistakeCommand, AwaitResponse
  <1>11. CASE DevTakeChunk
    BY <1>1, <1>11 DEF DevTakeChunk, AfterData, AwaitResponse, Timing
  <1>12. CASE DevInfo \/ DevFail \/ DevOkay \/ DevOffer \/ DevSendChunk
    <2>1. PICK status : Sends(status)
      BY <1>12, Zenon DEF DevInfo, DevFail, DevOkay, DevOffer, DevSendChunk
    <2>2. toHost' # <<>> /\ UNCHANGED <<left, pc, prompt, gaveUp>>
      BY <2>1, SentQueue DEF Sends, callVars, auxVars
    <2> QED BY <2>2 DEF Slow, Timing
  <1>13. CASE UNCHANGED dvars
    BY <1>13 DEF dvars, callVars, auxVars, devVars, Slow, Timing
  <1> QED
    BY <1>2, <1>3, <1>4, <1>5, <1>6, <1>7, <1>8, <1>9, <1>10, <1>11, <1>12, <1>13
    DEF Next, HostStep, DevStep

\* The "timeout-reset-on-progress behavior" of _handleResponse(): the deadline
\* never passes for a bootloader that is never silent for RESP_TIMEOUT_MS,
\* however long the command takes and however much it reports.
THEOREM SlowIsNeverDead == Spec => []SlowIsNotDead
  <1>1. Init => Slow
    BY DEF Init, Slow, Timing
  <1>2. TInv /\ Slow => SlowIsNotDead
    BY PlainTypes DEF Slow, SlowIsNotDead
  <1> QED
    BY InitTypes, NextTypes, InitPlain, NextPlain, InitSync, NextSync, <1>1, NextSlow, <1>2, PTL DEF Spec

-----------------------------------------------------------------------------
(* What gets written                                                        *)

\* Of this job, the first k pieces are in the partition and no other.
Written(k) == \A p \in 1..Pieces : content[p] = jobs <=> p <= k

InOrder == ~gaveUp => \E k \in 0..Pieces : Written(k)

\* Where the pieces are in each call of a job.
Stage ==
    /\ call \notin {"download", "flash"} => Written(0)
    /\ call = "download" => /\ Written(piece - 1)
                            /\ pc = "final" => staged = [piece |-> piece, job |-> jobs]
    /\ call = "flash" => /\ staged = [piece |-> piece, job |-> jobs]
                         /\ Has({"OKAY"}) => Written(piece)
                         /\ ~Has({"OKAY"}) => Written(piece - 1)

Flashed == ~gaveUp /\ linkUp /\ job # "none" => Stage

Order == InOrder /\ Flashed

\* The initial state is in order.
LEMMA InitOrder == Init => Order
  <1> SUFFICES ASSUME Init PROVE Order
    OBVIOUS
  <1>1. Written(Pieces) /\ Pieces \in 0..Pieces
    BY Sizes DEF Init, Written
  <1>2. job = "none"
    BY DEF Init
  <1> QED BY <1>1, <1>2 DEF Order, InOrder, Flashed

\* A step that writes nothing and goes on with the same call keeps the order.
LEMMA SameOrder ==
    ASSUME Order, UNCHANGED <<content, jobs, job, call, piece, gaveUp>>, linkUp' => linkUp,
           Has({"OKAY"})' <=> Has({"OKAY"}),
           staged' = staged \/ (call = "download" /\ pc' # "final") \/ call \notin {"download", "flash"},
           pc' = "final" => pc = "final" \/ call # "download"
    PROVE  Order'
  <1>1. \A k : Written(k) <=> Written(k)'
    BY DEF Written
  <1>2. InOrder'
    BY <1>1 DEF Order, InOrder
  <1>3. Flashed'
    <2> SUFFICES ASSUME ~gaveUp', linkUp', job' # "none" PROVE Stage'
      BY DEF Flashed
    <2>1. Stage
      BY DEF Order, Flashed
    <2> QED BY <1>1, <2>1 DEF Stage
  <1> QED BY <1>2, <1>3 DEF Order

\* The queue reports success exactly as before when INFO or a chunk is taken.
LEMMA TakenReports ==
    ASSUME TInv, NEW statuses, Arrives(statuses), toHost[1].status # "OKAY"
    PROVE  Has({"OKAY"})' <=> Has({"OKAY"})
  <1> DEFINE n == Len(toHost)
  <1>1. /\ n \in Nat /\ n >= 1 /\ Len(toHost') = n - 1
        /\ \A i \in 1..(n - 1) : toHost'[i] = toHost[i + 1]
    BY TakenQueue
  <1>2. ASSUME NEW i \in 1..n, toHost[i].status = "OKAY"
        PROVE  \E j \in 1..(n - 1) : toHost'[j].status = "OKAY"
    <2>1. i - 1 \in 1..(n - 1) /\ toHost'[i - 1] = toHost[i]
      BY <1>1, <1>2
    <2> QED BY <2>1, <1>2
  <1>3. ASSUME NEW j \in 1..(n - 1), toHost'[j].status = "OKAY"
        PROVE  \E i \in 1..n : toHost[i].status = "OKAY"
    <2>1. j + 1 \in 1..n /\ toHost'[j] = toHost[j + 1]
      BY <1>1
    <2> QED BY <2>1, <1>3
  <1> HIDE DEF n
  <1>4. n = Len(toHost) /\ Len(toHost') = n - 1
    BY <1>1 DEF n
  <1> QED BY <1>2, <1>3, <1>4 DEF Has, At, Waiting

\* What a sent packet adds to what the queue reports.
LEMMA SentReports ==
    ASSUME TInv, NEW status, Sends(status)
    PROVE  Has({"OKAY"})' <=> Has({"OKAY"}) \/ status = "OKAY"
  <1> DEFINE n == Len(toHost)
  <1>1. /\ n \in Nat /\ Len(toHost') = n + 1
        /\ \A i \in 1..n : toHost'[i] = toHost[i]
        /\ toHost'[n + 1].status = status
    BY SentQueue
  <1> HIDE DEF n
  <1>2. n = Len(toHost)
    BY DEF n
  <1>3. \A i \in 1..(n + 1) : i \in 1..n \/ i = n + 1
    BY <1>1
  <1>4. n + 1 \in 1..(n + 1) /\ \A i \in 1..n : i \in 1..(n + 1)
    BY <1>1
  <1> QED BY <1>1, <1>2, <1>3, <1>4 DEF Has, At, Waiting

\* The final answer of a flash that succeeds is behind the write, and what the
\* next call of the job finds is what this one has left.
LEMMA AnswerKeepsOrder ==
    ASSUME TInv, Plain, InStep, Order, OnAnswer, ~gaveUp, linkUp
    PROVE  Order'
  <1>1. /\ UNCHANGED <<content, jobs, staged, dev, linkUp, gaveUp>> /\ Timing
        /\ toHost[1].status \in {"OKAY", "FAIL", "DATA"} /\ toHost[1] = Head(toHost)
    <2>1. Arrives({"OKAY", "FAIL", "DATA"})
      BY DEF OnAnswer
    <2> QED BY <2>1, TakenQueue DEF OnAnswer, Arrives, devVars
  <1>2. 1 \in Waiting
    <2>1. Arrives({"OKAY", "FAIL", "DATA"})
      BY DEF OnAnswer
    <2> QED BY <2>1, TakenQueue DEF Waiting
  <1>3. InOrder'
    BY <1>1 DEF Order, InOrder, Written
  <1>4. \A k : Written(k) => Written(k)'
    BY <1>1 DEF Written
  <1>5. Stage /\ job # "none"
    BY <1>1 DEF Order, Flashed, Plain, Timing
  <1>6. SUFFICES ASSUME job' # "none" PROVE Stage'
    BY <1>3 DEF Order, Flashed
  <1>7. CASE toHost[1].status = "DATA"
    <2>1. pc = "response" /\ DataCall
      BY <1>2, <1>7 DEF InStep, Offered, At, Offers
    <2>2. pc' = "data" /\ UNCHANGED <<job, piece, call>>
      BY <1>1, <1>7, <2>1 DEF OnAnswer, Accepted
    <2> QED BY <1>4, <1>5, <2>1, <2>2 DEF Stage, DataCall
  <1>8. CASE toHost[1].status # "DATA"
    <2>1. toHost' = <<>>
      <3>1. Len(toHost) = 1
        BY <1>1, <1>2, <1>8 DEF InStep, FinalLast, Waiting, At, Finals
      <3>2. Arrives({"OKAY", "FAIL", "DATA"})
        BY DEF OnAnswer
      <3> QED BY <3>1, <3>2, TakenQueue
    <2>2. ~Has({"OKAY"})'
      BY <2>1 DEF Has, Waiting
    <2>3. CASE CallRejects
      <3>1. call = "getvar" /\ call' = "download" /\ pc' = "command" /\ piece' = 1
        BY <1>6, <2>3 DEF CallRejects, EndJob, Begin
      <3> QED BY <1>4, <1>5, <3>1 DEF Stage
    <2>4. CASE CallResolves /\ Accepted(toHost[1].status)
      <3>1. CASE call = "getvar" /\ Begin("download") /\ piece' = 1
        BY <1>4, <1>5, <3>1 DEF Stage, Begin
      <3>2. CASE call = "download" /\ Begin("flash") /\ UNCHANGED piece
        <4>1. pc = "final"
          BY <1>1, <1>8, <2>4, <3>2 DEF Accepted, Timing, DataCall
        <4> QED BY <1>1, <1>4, <1>5, <2>2, <3>2, <4>1 DEF Stage, Begin
      <3>3. CASE call = "flash" /\ Begin("download") /\ piece' = piece + 1
        <4>1. Has({"OKAY"})
          BY <1>1, <1>2, <1>8, <2>4, <3>3 DEF Accepted, DataCall, Has, At
        <4>2. piece' - 1 = piece
          BY <3>3, PlainTypes
        <4> QED BY <1>4, <1>5, <3>3, <4>1, <4>2 DEF Stage, Begin
      <3> QED BY <1>6, <2>4, <3>1, <3>2, <3>3 DEF CallResolves, EndJob
    <2> QED BY <1>1, <1>8, <2>3, <2>4 DEF OnAnswer, Accepted
  <1> QED BY <1>7, <1>8

\* The bootloader writes a piece when it answers its flash, in its turn.
LEMMA FinalKeepsOrder ==
    ASSUME TInv, Plain, InStep, Order, DevFail \/ DevOkay, ~gaveUp, linkUp
    PROVE  Order'
  <1>1. /\ UNCHANGED <<jobs, job, call, piece, pc, staged, linkUp, gaveUp>> /\ dev.mode # "idle"
        /\ dev.kind = call /\ pc \notin {"idle", "command"} /\ job # "none"
    BY DEF DevFail, DevOkay, Sends, jobVars, callVars, auxVars, InStep, DevOwn, AtEase, Plain
  <1>2. ~Has({"OKAY"})
    BY <1>1 DEF InStep, FinalLast, Has, At, Finals
  <1>3. (DevFail => ~Has({"OKAY"})') /\ (DevOkay => Has({"OKAY"})')
    <2>1. DevFail => Sends("FAIL")
      BY DEF DevFail
    <2>2. DevOkay => Sends("OKAY")
      BY DEF DevOkay
    <2> QED BY <1>2, <2>1, <2>2, SentReports
  <1>4. Stage
    BY <1>1 DEF Order, Flashed
  <1>5. CASE call # "flash"
    <2>1. content' = content
      BY <1>1, <1>5 DEF DevFail, DevOkay
    <2>2. \A k : Written(k) <=> Written(k)'
      BY <1>1, <2>1 DEF Written
    <2> QED BY <1>1, <1>4, <1>5, <2>2 DEF Order, InOrder, Flashed, Stage
  <1>6. CASE call = "flash"
    <2>1. staged = [piece |-> piece, job |-> jobs] /\ Written(piece - 1)
      BY <1>2, <1>4, <1>6 DEF Stage
    <2>2. staged.piece = piece /\ staged.job = jobs
      BY <2>1
    <2>3. piece \in 1..Pieces /\ piece \in Nat /\ jobs \in Nat /\ jobs > 0 /\ Pieces \in Nat
          /\ content \in [1..Pieces -> 0..MaxJobs]
      <3>1. piece \in 1..LastPiece(job) /\ jobs > 0
        BY <1>1, <1>6 DEF Plain
      <3>2. LastPiece(job) <= Pieces /\ LastPiece(job) \in Nat
        BY Sizes DEF LastPiece
      <3> QED BY <3>1, <3>2, PlainTypes
    <2>4. CASE DevFail
      <3>1. content' = [content EXCEPT ![piece] = 0]
        BY <1>1, <1>6, <2>2, <2>3, <2>4 DEF DevFail
      <3>2. Written(piece - 1)'
        <4>1. ASSUME NEW p \in 1..Pieces PROVE content'[p] = jobs <=> p <= piece - 1
          <5>1. content[p] = jobs <=> p <= piece - 1
            BY <2>1 DEF Written
          <5>2. CASE p = piece
            BY <5>2, <3>1, <2>3
          <5>3. CASE p # piece
            BY <5>1, <5>3, <3>1, <2>3
          <5> QED BY <5>2, <5>3
        <4> QED BY <4>1, <1>1 DEF Written
      <3>3. piece - 1 \in 0..Pieces
        BY <2>3
      <3>4. (Written(piece - 1))'
        BY <3>2, <1>1
      <3>5. Stage'
        BY <1>1, <1>3, <1>6, <2>1, <2>4, <3>4 DEF Stage
      <3>6. InOrder'
        BY <1>1, <3>2, <3>3 DEF InOrder
      <3> QED BY <3>5, <3>6 DEF Order, Flashed
    <2>5. CASE DevOkay
      <3>1. content' = [content EXCEPT ![piece] = jobs]
        BY <1>1, <1>6, <2>2, <2>3, <2>5 DEF DevOkay
      <3>2. Written(piece)'
        <4>1. ASSUME NEW p \in 1..Pieces PROVE content'[p] = jobs <=> p <= piece
          <5>1. content[p] = jobs <=> p <= piece - 1
            BY <2>1 DEF Written
          <5>2. CASE p = piece
            BY <5>2, <3>1, <2>3
          <5>3. CASE p # piece
            BY <5>1, <5>3, <3>1, <2>3
          <5> QED BY <5>2, <5>3
        <4> QED BY <4>1, <1>1 DEF Written
      <3>3. piece \in 0..Pieces
        BY <2>3
      <3>4. Stage'
        BY <1>1, <1>3, <1>6, <2>1, <2>5, <3>2 DEF Stage
      <3>6. InOrder'
        BY <1>1, <3>2, <3>3 DEF InOrder
      <3> QED BY <3>4, <3>6 DEF Order, Flashed
    <2> QED BY <2>4, <2>5
  <1> QED BY <1>5, <1>6

\* A new job has written nothing yet.
LEMMA StartKeepsOrder ==
    ASSUME TInv, Plain, NEW kind \in JobKinds, StartJob(kind)
    PROVE  Order'
  <1>1. /\ jobs' = jobs + 1 /\ pc' = "command" /\ call' = FirstCall[kind] /\ content' = content
        /\ piece' = IF kind = "part" THEN 1 ELSE 0
    BY DEF StartJob, Begin, devVars
  <1>2. /\ FirstCall[kind] # "flash" /\ (FirstCall[kind] = "download" => kind = "part")
    BY DEF JobKinds, FirstCall
  <1>3. Written(0)'
    <2>1. ASSUME NEW p \in 1..Pieces PROVE ~(content[p] = jobs + 1) /\ ~(p <= 0)
      <3>1. content[p] <= jobs /\ content[p] \in Nat /\ jobs \in Nat
        BY PlainTypes DEF Plain
      <3> QED BY <3>1
    <2> QED BY <2>1, <1>1 DEF Written
  <1>4. InOrder'
    BY <1>3, Sizes DEF InOrder
  <1>5. Stage'
    BY <1>1, <1>2, <1>3 DEF Stage
  <1> QED BY <1>4, <1>5 DEF Order, Flashed

\* A transfer of the data phase of a download: the last one stages the piece.
LEMMA TakeChunkKeepsOrder ==
    ASSUME TInv, Plain, InStep, Order, DevTakeChunk, ~gaveUp, linkUp
    PROVE  Order'
  <1>1. /\ pc = "data" /\ call = "download" /\ toHost = <<>> /\ dev.mode = "receiving"
        /\ dev.n + moved = Chunks /\ dev.of = no
    BY DEF DevTakeChunk, InStep, InData, DevOwn
  <1>2. /\ UNCHANGED <<content, jobs, job, call, piece, gaveUp, linkUp>>
        /\ staged' = IF dev.n = 1 /\ dev.of = no THEN [piece |-> piece, job |-> jobs] ELSE staged
        /\ IF moved + 1 < Chunks THEN pc' = pc ELSE pc' = "final"
    BY <1>1 DEF DevTakeChunk, AfterData, AwaitResponse, auxVars
  <1>3. pc' = "final" => staged' = [piece |-> piece, job |-> jobs]
    BY <1>1, <1>2, DevIsRecord
  <1>4. \A k : Written(k) => Written(k)'
    BY <1>2 DEF Written
  <1>5. InOrder'
    BY <1>2, <1>4 DEF Order, InOrder
  <1>6. Stage /\ job # "none"
    BY <1>1 DEF Order, Flashed, Plain
  <1>7. Stage'
    BY <1>1, <1>2, <1>3, <1>4, <1>6 DEF Stage
  <1> QED BY <1>5, <1>7 DEF Order, Flashed

\* Every step keeps the order.
LEMMA NextOrder == TInv /\ Plain /\ Sync /\ Order /\ [Next]_dvars => Order'
  <1> SUFFICES ASSUME TInv, Plain, Sync, Order, [Next]_dvars PROVE Order'
    OBVIOUS
  <1>1. CASE \E kind \in JobKinds : StartJob(kind)
    BY <1>1, StartKeepsOrder
  <1>2. CASE gaveUp'
    BY <1>2 DEF Order, InOrder, Flashed
  <1>3. CASE UNCHANGED dvars
    BY <1>3 DEF dvars, jobVars, callVars, usbVars, devVars, auxVars, Order, InOrder, Flashed, Stage,
                Written, Has, At, Waiting
  <1>4. CASE ~gaveUp' /\ (HostStep \/ Tick \/ DevStep \/ Unplug)
    <2>1. ~gaveUp
      BY <1>4 DEF HostStep, Swallow, OnProgress, OnAnswer, OnNonsense, OnChunk, TimesOut,
                  TransferRejects, Tick, DevStep, DevTakeCommand, DevMistakeCommand, DevTakeChunk,
                  DevInfo, DevFail, DevOkay, DevOffer, DevSendChunk, Sends, Unplug, auxVars
    <2>2. CASE Unplug
      BY <2>2 DEF Unplug, Order, InOrder, Flashed, Written, jobVars, devVars, auxVars
    <2>3. CASE OnNonsense \/ TimesOut \/ TransferRejects
      BY <1>4, <2>3 DEF OnNonsense, TimesOut, TransferRejects
    <2>4. CASE Swallow \/ OnProgress \/ OnAnswer \/ OnChunk \/ Tick \/ DevStep
      <3>1. linkUp
        BY <2>4 DEF Swallow, OnProgress, OnAnswer, OnChunk, Arrives, Tick, DevStep, DevTakeCommand,
                    DevMistakeCommand, DevTakeChunk, DevInfo, DevFail, DevOkay, DevOffer,
                    DevSendChunk, Sends, Plain
      <3>2. InStep
        BY <2>1, <3>1 DEF Sync
      <3>3. CASE Swallow
        BY <3>2, <3>3, DevIsRecord DEF Swallow, InStep, Own
      <3>4. CASE OnProgress
        <4>1. Arrives({"INFO"}) /\ UNCHANGED <<content, jobs, job, call, piece, gaveUp, staged, pc>>
          BY <3>4 DEF OnProgress, Arrives, devVars
        <4>2. toHost[1].status # "OKAY"
          BY <4>1, TakenQueue
        <4>3. Has({"OKAY"})' <=> Has({"OKAY"})
          BY <4>1, <4>2, TakenReports
        <4> QED BY <4>1, <4>3, <3>1, SameOrder
      <3>5. CASE OnAnswer
        BY <2>1, <3>1, <3>2, <3>5, AnswerKeepsOrder
      <3>6. CASE OnChunk
        <4>1. /\ Arrives({"INFO", "OKAY", "FAIL", "DATA", "TOOBIG", "chunk"})
              /\ UNCHANGED <<content, jobs, job, call, piece, gaveUp, staged>>
          BY <3>6 DEF OnChunk, Arrives, devVars
        <4>2. toHost[1].status # "OKAY" /\ call = "fetch"
          BY <3>2, <3>6, ChunkInStep
        <4>3. Has({"OKAY"})' <=> Has({"OKAY"})
          BY <4>1, <4>2, TakenReports
        <4> QED BY <4>1, <4>2, <4>3, <3>1, SameOrder
      <3>7. CASE Tick
        <4>1. /\ UNCHANGED <<content, jobs, job, call, piece, gaveUp, staged, pc, toHost>>
          BY <3>7 DEF Tick, jobVars, auxVars
        <4>2. Has({"OKAY"})' <=> Has({"OKAY"})
          BY <4>1 DEF Has, At, Waiting
        <4> QED BY <4>1, <4>2, <3>1, SameOrder
      <3>8. CASE DevTakeCommand
        <4>1. /\ UNCHANGED <<content, jobs, job, call, piece, gaveUp, staged, toHost>> /\ pc' = "response"
          BY <3>8 DEF DevTakeCommand, AwaitResponse, jobVars, auxVars
        <4>2. Has({"OKAY"})' <=> Has({"OKAY"})
          BY <4>1 DEF Has, At, Waiting
        <4> QED BY <4>1, <4>2, <3>1, SameOrder
      <3>9. CASE DevMistakeCommand
        BY <3>2, <3>9 DEF DevMistakeCommand, InStep, AtEase
      <3>10. CASE DevTakeChunk
        BY <2>1, <3>1, <3>2, <3>10, TakeChunkKeepsOrder
      <3>11. CASE DevFail \/ DevOkay
        BY <2>1, <3>1, <3>2, <3>11, FinalKeepsOrder
      <3>12. CASE DevInfo \/ DevOffer \/ DevSendChunk
        <4>1. PICK status \in {"INFO", "DATA", "TOOBIG", "chunk"} : Sends(status)
          BY <3>12, Zenon DEF DevInfo, DevOffer, DevSendChunk
        <4>2. Has({"OKAY"})' <=> Has({"OKAY"})
          BY <4>1, SentReports
        <4>3. UNCHANGED <<jobs, job, call, piece, gaveUp, pc>>
          BY <4>1 DEF Sends, jobVars, callVars, auxVars
        <4>4. content' = content
          BY <3>12 DEF DevInfo, DevOffer, DevSendChunk
        <4>5. staged' = staged \/ (dev.mode = "busy" /\ dev.kind = "download")
          BY <3>12 DEF DevInfo, DevOffer, DevSendChunk
        <4>6. dev.mode = "busy" /\ dev.kind = "download" => call = "download" /\ pc = "response"
          BY <3>2 DEF InStep, DevOwn, Busy
        <4> QED BY <4>2, <4>3, <4>4, <4>5, <4>6, <3>1, SameOrder
      <3> QED
        BY <2>4, <3>3, <3>4, <3>5, <3>6, <3>7, <3>8, <3>9, <3>10, <3>11, <3>12 DEF DevStep
    <2> QED BY <1>4, <2>2, <2>3, <2>4 DEF HostStep
  <1> QED
    BY <1>1, <1>2, <1>3, <1>4 DEF Next

\* Splitting an image (fastboot-driver.js, flashBlob): the pieces reach the
\* partition in order, as long as no command was left half way.
THEOREM PiecesAlwaysInOrder == Spec => []PiecesInOrder
  <1>1. TInv /\ Order => PiecesInOrder
    <2> SUFFICES ASSUME TInv, Order, ~gaveUp, NEW p \in 1..Pieces, content[p] = jobs,
                        NEW q \in 1..(p - 1)
                 PROVE  content[q] = jobs
      BY DEF PiecesInOrder
    <2>1. PICK k \in 0..Pieces : Written(k)
      BY DEF Order, InOrder
    <2>2. p <= k /\ q \in 1..Pieces /\ q <= k
      BY <2>1, Sizes DEF Written
    <2> QED BY <2>1, <2>2 DEF Written
  <1> QED
    BY InitTypes, NextTypes, InitPlain, NextPlain, InitSync, NextSync, InitOrder, NextOrder, <1>1,
       PTL DEF Spec

\* A step in which a job resolves is the answer to its last call.
LEMMA ResolvesByAnswer ==
    ASSUME Plain, [Next]_dvars, job \in {"blob", "part"}, job' = "none", outcome' = "resolved"
    PROVE  OnAnswer /\ call = "flash" /\ piece >= LastPiece(job) /\ CallResolves
           /\ Accepted(Head(toHost).status)
  <1>1. ~CallRejects
    BY DEF CallRejects, EndJob, Begin
  <1>2. ~(\E kind \in JobKinds : StartJob(kind)) /\ job' # job
    BY DEF StartJob
  <1>3. ~(Swallow \/ OnProgress \/ OnChunk \/ Tick \/ DevStep \/ Unplug \/ UNCHANGED dvars)
    BY <1>2 DEF Swallow, OnProgress, OnChunk, Tick, DevStep, DevTakeCommand, DevMistakeCommand,
                DevTakeChunk, AfterData, DevInfo, DevFail, DevOkay, DevOffer, DevSendChunk, Sends,
                Unplug, dvars, jobVars
  <1>4. ~(OnNonsense \/ TimesOut \/ TransferRejects)
    BY <1>1 DEF OnNonsense, TimesOut, TransferRejects
  <1>5. OnAnswer
    BY <1>2, <1>3, <1>4 DEF Next, HostStep
  <1>6. CallResolves /\ Accepted(Head(toHost).status)
    BY <1>1, <1>2, <1>5 DEF OnAnswer
  <1>7. call \in {"getvar", "download", "flash"}
    BY DEF Plain
  <1>8. call = "flash" /\ piece >= LastPiece(job)
    BY <1>2, <1>6, <1>7 DEF CallResolves
  <1> QED BY <1>5, <1>6, <1>8

\* flashBlob() "downloads+flashes a full (possibly multi-GB) blob"
\* (fastboot-driver.js): when it or flashPartition() resolves, the bootloader
\* has written every piece of this image, as long as no command was left half
\* way.
THEOREM ResolvedMeansWritten == Spec => ResolvedIsWritten
  <1>1. TInv /\ Plain /\ Sync /\ Order /\ [Next]_dvars =>
          [job' = "none" /\ outcome' = "resolved" /\ job \in {"blob", "part"} /\ ~gaveUp =>
             \A p \in 1..LastPiece(job) : content'[p] = jobs]_dvars
    <2> SUFFICES ASSUME TInv, Plain, Sync, Order, [Next]_dvars,
                        job' = "none", outcome' = "resolved", job \in {"blob", "part"}, ~gaveUp,
                        NEW p \in 1..LastPiece(job)
                 PROVE  content'[p] = jobs
      OBVIOUS
    <2>1. /\ OnAnswer /\ call = "flash" /\ piece >= LastPiece(job) /\ CallResolves
          /\ Accepted(Head(toHost).status)
      BY ResolvesByAnswer
    <2>2. /\ Arrives({"OKAY", "FAIL", "DATA"}) /\ content' = content
      BY <2>1 DEF OnAnswer, Arrives, devVars
    <2>3. InStep /\ linkUp
      BY <2>2, ArrivesOwn
    <2>4. toHost[1].status = Head(toHost).status /\ 1 \in Waiting
      BY <2>2, TakenQueue DEF Waiting
    <2>5. Head(toHost).status # "DATA"
      BY <2>1, <2>3, <2>4 DEF InStep, Offered, At, Offers, DataCall
    <2>6. Has({"OKAY"})
      BY <2>1, <2>4, <2>5 DEF Accepted, DataCall, Has, At
    <2>7. Written(piece)
      BY <2>1, <2>3, <2>6 DEF Order, Flashed, Stage
    <2>8. LastPiece(job) \in Nat /\ LastPiece(job) <= Pieces /\ piece \in Nat
      BY Sizes, PlainTypes DEF LastPiece
    <2>9. p \in 1..Pieces /\ p <= piece
      BY <2>1, <2>8, Sizes
    <2> QED BY <2>2, <2>7, <2>9 DEF Written
  <1> QED
    BY InitTypes, NextTypes, InitPlain, NextPlain, InitSync, NextSync, InitOrder, NextOrder, <1>1,
       PTL DEF Spec, ResolvedIsWritten
=============================================================================
