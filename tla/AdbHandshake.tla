---------------------------- MODULE AdbHandshake ----------------------------
(***************************************************************************)
(* "Add device" of app.js for a phone with adb: Adb.connect(), the keys it *)
(* loads, the CNXN/AUTH handshake of webadb/src/connection.js and the two  *)
(* bulk transfers in which webusb.js reads a packet.                       *)
(*                                                                         *)
(* The button stays enabled while an attempt waits for the user to accept  *)
(* the key on the phone, a connect() whose first write fails goes on       *)
(* reading, and nothing closes the phone: several read loops may share the *)
(* IN endpoint, which answers their transferIn()s in the order they were   *)
(* made.  A packet out is one transfer.                                    *)
(***************************************************************************)
EXTENDS AdbKeyStore, FiniteSets

CONSTANTS
    MaxAttempts,                   \* bound: clicks on "Add device"
    HeaderSize, TokenSize, BannerSize, \* bytes of a header and of the payloads
    Known                          \* sets of keys the phone may have accepted before

ASSUME AttemptAssumption == MaxAttempts \in Nat
ASSUME KnownAssumption == Known \subseteq SUBSET Keys
ASSUME TransferAssumption ==
    /\ {HeaderSize, TokenSize, BannerSize} \subseteq Nat \ {0}
    /\ TokenSize < HeaderSize /\ HeaderSize < BannerSize

Attempts == 1..MaxAttempts

VARIABLES
    conn,       \* Adb.connect(): one record for each attempt
    posted,     \* transferIn()s that wait, by attempt
    toHost,     \* transfers of adbd that wait to be read
    toPhone,    \* packets for adbd
    phone,      \* adbd and its user
    overlapped, \* two read loops were alive at once
    unplugs     \* how often the cable was pulled

linkVars == <<posted, toHost, toPhone, phone>>
hvars == <<storeVars, pageVars, actions, faults, conn, linkVars, overlapped, unplugs>>

\* What a packet is read from: its header and, unless it is empty, its payload.
Packet(cmd, size, token) == [cmd |-> cmd, size |-> size, token |-> token]
NoPacket == Packet("none", 0, 0)
Banner == Packet("CNXN", BannerSize, 0)
Auth(token) == Packet("AUTH", TokenSize, token)
Odd == Packet("STLS", 0, 0)

Transfers(p) ==
    <<[part |-> "header", size |-> HeaderSize, of |-> p]>>
      \o (IF p.size > 0 THEN <<[part |-> "payload", size |-> p.size, of |-> p]>> ELSE <<>>)

Unused == [pc |-> "unused", keys |-> <<>>, had |-> {}, keyIndex |-> 0, fresh |-> NoItem,
           usb |-> 0, loop |-> "none", left |-> 0, sound |-> TRUE, packet |-> NoPacket]

InitLink ==
    /\ conn = [i \in Attempts |-> Unused]
    /\ posted = <<>> /\ toHost = <<>> /\ toPhone = <<>>
    /\ \E known \in Known, secure \in BOOLEAN :
          phone = [known |-> known, secure |-> secure, online |-> FALSE, token |-> 0,
                   prompt |-> NoItem, denied |-> FALSE]
    /\ overlapped = FALSE /\ unplugs = 0

Init == InitStore /\ InitLink

-----------------------------------------------------------------------------
(* The read loop                                                           *)

Alive(i) == conn[i].loop \in {"header", "payload", "writing"}

Failed_silently(c) == [c EXCEPT !.loop = "dead", !.pc = IF @ = "online" THEN "lost" ELSE @]

\* #fail(): connect() rejects, a connection that was up is lost.
Failed(c) ==
    [c EXCEPT !.loop = "dead",
              !.pc = IF @ = "connecting" THEN "failed" ELSE IF @ = "online" THEN "lost" ELSE @]

\* The loop makes its next transferIn(), which queues behind those of others.
ReadOn(c, part, size) == [c EXCEPT !.loop = part, !.left = size, !.sound = TRUE]

Dies(i) == conn' = [conn EXCEPT ![i] = Failed(@)] /\ posted' = Tail(posted) /\ UNCHANGED toPhone

Send(i, cmd, key, token) ==
    toPhone' = Append(toPhone, [from |-> i, cmd |-> cmd, key |-> key, token |-> token])

NextIndex(i) == conn[i].keyIndex + 1

\* #handleConnect(): connect() resolves, unless it has been rejected.
Connected(c) == [c EXCEPT !.pc = IF @ = "connecting" THEN "online" ELSE @]

HandleConnect(i) ==
    /\ conn' = [conn EXCEPT ![i] = Connected(ReadOn(@, "header", HeaderSize))]
    /\ posted' = Append(Tail(posted), i)
    /\ UNCHANGED toPhone

\* #handleAuth(): sign with the next key, or offer the last one.
HandleAuth(i, token) ==
    LET keys == conn[i].keys  index == conn[i].keyIndex IN
    /\ IF index < Len(keys) THEN Send(i, "SIGNATURE", keys[index + 1], token)
                            ELSE Send(i, "RSAPUBLICKEY", Last(keys), 0)
    /\ conn' = [conn EXCEPT ![i].keyIndex = NextIndex(i), ![i].loop = "writing"]
    /\ posted' = Tail(posted)

\* #handlePacket(): a payload that is not the packet's own is not a token that
\* any signature of it is good for.
Handle(i, p, sound) ==
    CASE p.cmd = "CNXN" -> HandleConnect(i)
      [] p.cmd = "AUTH" -> HandleAuth(i, IF sound THEN p.token ELSE 0)
      [] OTHER -> Dies(i)

\* The first transferIn() that was made gets the next transfer of adbd: too
\* large a one fails, behind too small a one readExactly() asks for the rest.
Receive ==
    /\ posted # <<>> /\ toHost # <<>>
    /\ LET i == Head(posted)  x == Head(toHost)  c == conn[i]
           sound == c.sound /\ x.part = c.loop /\ (c.loop = "payload" => x.of = c.packet)
       IN  IF x.size < c.left
           THEN /\ conn' = [conn EXCEPT ![i].left = @ - x.size, ![i].sound = sound]
                /\ posted' = Append(Tail(posted), i) /\ UNCHANGED toPhone
           ELSE IF x.size > c.left \/ (c.loop = "header" /\ ~sound) THEN Dies(i)
           ELSE IF c.loop = "header" /\ x.of.size > 0
           THEN /\ conn' = [conn EXCEPT ![i] =
                              [ReadOn(@, "payload", x.of.size) EXCEPT !.packet = x.of]]
                /\ posted' = Append(Tail(posted), i) /\ UNCHANGED toPhone
           ELSE Handle(i, IF c.loop = "header" THEN x.of ELSE c.packet, sound)
    /\ toHost' = Tail(toHost)
    /\ UNCHANGED <<storeVars, pageVars, actions, faults, phone, overlapped, unplugs>>

\* The write of #handleAuth() has been taken: the loop reads on.
Written(i) ==
    /\ conn[i].loop = "writing"
    /\ conn' = [conn EXCEPT ![i] = ReadOn(@, "header", HeaderSize)]
    /\ posted' = Append(posted, i)
    /\ UNCHANGED <<storeVars, pageVars, actions, faults, toHost, toPhone, phone, overlapped, unplugs>>

-----------------------------------------------------------------------------
(* Adb.connect()                                                           *)

KeysToTry_newest == <<Last(Stored)>>

\* loadOrCreate(): every key there is, in order.
KeysToTry == Stored

\* connect(): the loop makes its first transferIn(), then A_CNXN is written; a
\* write that fails rejects connect() and leaves the loop reading.
Connect(i, keys, stored) ==
    /\ \E pc \in {"connecting", "failed"} :
          /\ conn' = [conn EXCEPT ![i] =
                [Unused EXCEPT !.pc = pc, !.keys = keys, !.had = ToSet(stored),
                               !.loop = "header", !.left = HeaderSize]]
          /\ IF pc = "failed" THEN Fault /\ UNCHANGED toPhone
             ELSE Send(i, "CNXN", NoItem, 0) /\ UNCHANGED faults
    /\ posted' = Append(posted, i)
    /\ overlapped' = (overlapped \/ \E j \in Attempts \ {i} : Alive(j))

\* A click, the chooser and transport.open(): the button is there as long as no
\* device is shown.
Clicked(i) ==
    /\ Acts /\ conn[i].pc = "unused"
    /\ \A j \in Attempts : conn[j].pc \notin {"online", "lost"}
    /\ \A j \in Attempts : j < i => conn[j].pc # "unused"
    /\ UNCHANGED <<pageVars, toHost, phone, unplugs>>

AddDevice(i) ==
    /\ Clicked(i) /\ Stored # <<>>
    /\ ReadOnly /\ Connect(i, KeysToTry, Stored)
    /\ UNCHANGED made

\* A first key is generated, which takes a while.
AddDeviceFirstKey(i) ==
    /\ Clicked(i) /\ Stored = <<>>
    /\ NewKeys # made /\ made' = made \cup {Fresh}
    /\ conn' = [conn EXCEPT ![i] =
          [Unused EXCEPT !.pc = "generating", !.fresh = Fresh, !.usb = unplugs]]
    /\ ReadOnly
    /\ UNCHANGED <<faults, posted, toPhone, overlapped>>

\* generate() appends it to the list as it is now, and answers it alone.  The
\* phone may have been unplugged in the meantime, setItem() may throw.
FirstKey(i) ==
    LET key == conn[i].fresh  keys == Append(Stored, key)  failed ==
            [conn EXCEPT ![i] = [Unused EXCEPT !.pc = "failed", !.loop = "dead"]] IN
    /\ conn[i].pc = "generating"
    /\ \/ WriteBack(keys) /\ conn[i].usb = unplugs /\ Connect(i, <<key>>, <<key>>)
       \/ /\ (WriteBack(keys) /\ conn[i].usb # unplugs /\ UNCHANGED faults) \/ WriteThrows
          /\ conn' = failed /\ UNCHANGED <<posted, toPhone, overlapped>>
    /\ UNCHANGED <<made, pageVars, actions, toHost, phone, unplugs>>

-----------------------------------------------------------------------------
(* adbd, its user and the cable (external)                                 *)

Answer(p) == toHost' = toHost \o Transfers(p)

AskAuth ==
    /\ phone' = [phone EXCEPT !.online = FALSE, !.token = @ + 1]
    /\ Answer(Auth(phone.token + 1))

GoOnline == phone' = [phone EXCEPT !.online = TRUE] /\ Answer(Banner)

\* A signature is good for the last token only.
PhoneTakes ==
    /\ toPhone # <<>>
    /\ LET x == Head(toPhone) IN
       \/ /\ x.cmd = "CNXN" /\ UNCHANGED faults
          /\ IF phone.secure THEN AskAuth ELSE GoOnline
       \/ /\ x.cmd = "CNXN" /\ Fault /\ Answer(Odd) /\ UNCHANGED phone
       \/ /\ x.cmd = "SIGNATURE" /\ UNCHANGED faults
          /\ IF x.key \in phone.known /\ x.token = phone.token THEN GoOnline ELSE AskAuth
       \/ /\ x.cmd = "RSAPUBLICKEY" /\ UNCHANGED <<faults, toHost>>
          /\ phone' = [phone EXCEPT !.prompt = x.key, !.denied = FALSE]
    /\ toPhone' = Tail(toPhone)
    /\ UNCHANGED <<storeVars, pageVars, actions, conn, posted, overlapped, unplugs>>

\* "Allow USB debugging?", with or without "Always allow".
UserAccepts ==
    /\ phone.prompt # NoItem
    /\ \E always \in BOOLEAN :
          phone' = [phone EXCEPT !.online = TRUE, !.prompt = NoItem,
                       !.known = IF always THEN @ \cup {phone.prompt} ELSE @]
    /\ Answer(Banner)
    /\ UNCHANGED <<storeVars, pageVars, actions, faults, conn, posted, toPhone, overlapped, unplugs>>

UserDenies ==
    /\ phone.prompt # NoItem
    /\ phone' = [phone EXCEPT !.prompt = NoItem, !.denied = TRUE]
    /\ UNCHANGED <<storeVars, pageVars, actions, faults, conn, posted, toHost, toPhone, overlapped, unplugs>>

\* The cable is pulled, and put back: what was under way is lost.
Unplug ==
    /\ Fault /\ unplugs' = unplugs + 1
    /\ conn' = [i \in Attempts |-> IF Alive(i) THEN Failed(conn[i]) ELSE conn[i]]
    /\ posted' = <<>> /\ toHost' = <<>> /\ toPhone' = <<>>
    /\ phone' = [phone EXCEPT !.online = FALSE, !.prompt = NoItem, !.denied = FALSE]
    /\ UNCHANGED <<storeVars, pageVars, actions, overlapped>>

-----------------------------------------------------------------------------
Attempt(i) == AddDevice(i) \/ AddDeviceFirstKey(i) \/ FirstKey(i) \/ Written(i)

SettingsStep == \E t \in Tabs : Settings(t) /\ UNCHANGED <<conn, linkVars, overlapped, unplugs>>

Next ==
    \/ SettingsStep
    \/ \E i \in Attempts : Attempt(i)
    \/ Receive \/ PhoneTakes \/ UserAccepts \/ UserDenies \/ Unplug

Spec == Init /\ [][Next]_hvars

\* The event loop runs and adbd answers; the user need not.
FairSpec ==
    /\ Spec /\ WF_hvars(Receive) /\ WF_hvars(PhoneTakes)
    /\ \A i \in Attempts : WF_hvars(Written(i)) /\ WF_hvars(FirstKey(i))

-----------------------------------------------------------------------------
(* Properties                                                              *)

Offers(i) ==
    /\ toPhone' # <<>> /\ toPhone' # toPhone
    /\ Last(toPhone').from = i /\ Last(toPhone').cmd = "RSAPUBLICKEY"

\* The user is asked only when the phone knows none of the keys that were
\* stored when the button was clicked ("a newly added key is only ever offered
\* once the older ones have been tried", adb-key.js AdbKeyStore), unless an
\* earlier attempt is still reading.
PromptOnlyIfUnknown ==
    [][\A i \in Attempts : Offers(i) /\ ~overlapped => conn[i].had \cap phone.known = {}]_hvars

AwaitsUser == phone.prompt # NoItem \/ phone.denied

\* "Perform the CNXN/AUTH handshake. Resolves when the device is online."
\* (connection.js connect): a connect() settles unless the user has yet to
\* accept the key, or an earlier attempt is still reading.
ConnectSettles ==
    \A i \in Attempts :
        conn[i].pc = "connecting"
          ~> (conn[i].pc \in {"online", "lost", "failed"} \/ overlapped \/ AwaitsUser)

\* The same without the condition on earlier attempts, which does not hold: the
\* loop of an attempt that waits for the user takes the header of the answer to
\* the next attempt, whose loop takes the payload for a header.
AlwaysSettles ==
    \A i \in Attempts :
        conn[i].pc = "connecting"
          ~> (conn[i].pc \in {"online", "lost", "failed"} \/ AwaitsUser)
=============================================================================
