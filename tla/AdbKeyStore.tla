---------------------------- MODULE AdbKeyStore -----------------------------
(***************************************************************************)
(* The list of adb keys: AdbKeyStore (webadb/src/crypto/adb-key.js) in the *)
(* localStorage that all tabs of the page share, and the settings page     *)
(* (settings.js) on top of it.                                             *)
(*                                                                         *)
(* A step is what runs between two awaits, so that the items of storage    *)
(* are read and written in one step: tabs take turns.  Keys are compared   *)
(* by deviceFingerprint(), which here is the key itself.                   *)
(***************************************************************************)
EXTENDS Naturals, SequencesExt

CONSTANTS
    Tabs,
    PemKeys,    \* keys the user has a PEM file of
    NewKeys,    \* keys that AdbKey.generate() may answer
    NoItem,     \* getItem() of an item that is not there
    Corrupt,    \* an entry AdbKey.fromJSON() cannot read
    FirstItems, \* what storage may hold at the start: [v2, legacy]
    MaxActions, \* bound: what users do on the pages
    MaxFaults   \* bound: setItem() that throws, a cable that is pulled, ...

Keys == PemKeys \cup NewKeys

ASSUME KeyAssumption ==
    /\ PemKeys \cap NewKeys = {} /\ {NoItem, Corrupt} \cap Keys = {}
    /\ NoItem \notin Seq(Keys \cup {Corrupt})
ASSUME ItemAssumption ==
    \A items \in FirstItems :
       /\ items.v2 \in Seq(Keys \cup {Corrupt}) \cup {NoItem}
       /\ items.legacy \in Keys \cup {Corrupt, NoItem}
ASSUME BoundAssumption == {MaxActions, MaxFaults} \subseteq Nat

VARIABLES
    v2,         \* item webadb.keys.v2: NoItem or a list of entries
    legacy,     \* item webadb.key.v1: NoItem or one entry
    made,       \* the keys of NewKeys that exist
    listed,     \* per tab: the keys render() listed
    action,     \* per tab: what runAction() waits for
    pendingDelete, \* per tab: the key the dialog asks about, or NoItem
    actions, faults

storeVars == <<v2, legacy, made>>
pageVars == <<listed, action, pendingDelete>>

Idle == [kind |-> "none", key |-> NoItem]

InitStore ==
    /\ \E items \in FirstItems :
          /\ v2 = items.v2 /\ legacy = items.legacy
          /\ made = NewKeys \cap ({items.legacy} \cup (IF items.v2 = NoItem THEN {} ELSE ToSet(items.v2)))
    /\ listed = [t \in Tabs |-> <<>>]
    /\ action = [t \in Tabs |-> Idle]
    /\ pendingDelete = [t \in Tabs |-> NoItem]
    /\ actions = 0 /\ faults = 0

-----------------------------------------------------------------------------
(* AdbKeyStore                                                             *)

\* The entries that are in S, in order.
Kept(entries, S) ==
    LET f[n \in 0..Len(entries)] ==
          IF n = 0 THEN <<>>
          ELSE IF entries[n] \in S THEN Append(f[n - 1], entries[n]) ELSE f[n - 1]
    IN  f[Len(entries)]

\* #parse(): entries that cannot be read are skipped.
Parse(entries) == Kept(entries, Keys)

\* The key stored before there was a list.
Adopted == IF legacy = NoItem THEN <<>> ELSE Parse(<<legacy>>)

\* #read(): what it answers.
Stored == IF v2 = NoItem THEN Adopted ELSE Parse(v2)

DropLegacy_never == UNCHANGED legacy

\* ... and the old copy it drops, once the list has been written.
DropLegacy == legacy' = IF v2 = NoItem THEN NoItem ELSE legacy

\* A #read() that nothing is written after: a first one adopts the old key.
ReadOnly == v2' = (IF v2 = NoItem THEN Adopted ELSE v2) /\ DropLegacy

\* A #read() and the #write() after it.
WriteBack(keys) == v2' = keys /\ DropLegacy

\* AdbKey.generate(): which of the keys that do not exist yet is of no interest.
Fresh == CHOOSE key \in NewKeys : key \notin made

Fault == faults < MaxFaults /\ faults' = faults + 1

\* setItem() throws, in the #read() of a first run or in the #write() after it.
WriteThrows ==
    /\ Fault
    /\ \/ v2 = NoItem /\ UNCHANGED <<v2, legacy>>
       \/ ReadOnly

CurrentList_rendered(t) == listed[t]

\* generate(), importPem(): the list is read again after the await.
CurrentList(t) == Stored

Has(keys, key) == \E i \in DOMAIN keys : keys[i] = key

Without(keys, key) == Kept(keys, Keys \ {key})

-----------------------------------------------------------------------------
(* The settings page                                                       *)

Show(t, keys) == listed' = [listed EXCEPT ![t] = keys]

Acts == actions < MaxActions /\ actions' = actions + 1

\* openSettings(), which nothing locks, and the refresh button.
Render(t) ==
    /\ Acts /\ (listed[t] # Stored \/ v2 = NoItem)
    /\ \/ ReadOnly /\ Show(t, Stored) /\ UNCHANGED faults
       \/ v2 = NoItem /\ Fault /\ UNCHANGED <<v2, legacy, listed>>
    /\ UNCHANGED <<made, action, pendingDelete>>

\* The buttons are locked while runAction() waits; the list is not.
StartGenerate(t) ==
    /\ Acts /\ action[t] = Idle
    /\ NewKeys # made /\ made' = made \cup {Fresh}
    /\ action' = [action EXCEPT ![t] = [kind |-> "generate", key |-> Fresh]]
    /\ UNCHANGED <<v2, legacy, listed, pendingDelete, faults>>

StartImport(t) ==
    /\ Acts /\ action[t] = Idle
    /\ \E key \in PemKeys :
          action' = [action EXCEPT ![t] = [kind |-> "import", key |-> key]]
    /\ UNCHANGED <<storeVars, listed, pendingDelete, faults>>

Finished(t) == action' = [action EXCEPT ![t] = Idle] /\ UNCHANGED <<made, pendingDelete, actions>>

\* generate(); the second half of importPem() for a key that is not in the list.
AddKey(t) ==
    LET keys == Append(CurrentList(t), action[t].key) IN
    /\ action[t].kind = "generate"
       \/ (action[t].kind = "import" /\ ~Has(CurrentList(t), action[t].key))
    /\ \/ WriteBack(keys) /\ Show(t, keys) /\ UNCHANGED faults
       \/ WriteThrows /\ UNCHANGED listed
    /\ Finished(t)

AlreadyListed(t) ==
    /\ action[t].kind = "import" /\ Has(CurrentList(t), action[t].key)
    /\ ReadOnly /\ Show(t, CurrentList(t))
    /\ Finished(t) /\ UNCHANGED faults

\* fromPem() refuses the file.
RefuseFile(t) ==
    /\ action[t].kind = "import"
    /\ Finished(t) /\ UNCHANGED <<v2, legacy, listed, faults>>

\* askDelete(), for a key of the list as it was rendered.
AskDelete(t) ==
    /\ Acts /\ pendingDelete[t] = NoItem
    /\ \E i \in DOMAIN listed[t] :
          pendingDelete' = [pendingDelete EXCEPT ![t] = listed[t][i]]
    /\ UNCHANGED <<storeVars, listed, action, faults>>

CloseDelete(t) == pendingDelete' = [pendingDelete EXCEPT ![t] = NoItem]

CancelDelete(t) ==
    /\ pendingDelete[t] # NoItem /\ CloseDelete(t)
    /\ UNCHANGED <<storeVars, listed, action, actions, faults>>

\* remove(): nothing is written when the key was not in the list any more.
ConfirmDelete(t) ==
    LET kept == Without(Stored, pendingDelete[t]) IN
    /\ pendingDelete[t] # NoItem
    /\ \/ /\ IF kept = Stored THEN ReadOnly ELSE WriteBack(kept)
          /\ Show(t, kept) /\ UNCHANGED faults
       \/ kept # Stored /\ WriteThrows /\ UNCHANGED listed
    /\ CloseDelete(t)
    /\ UNCHANGED <<made, action, actions>>

Settings(t) ==
    \/ Render(t) \/ StartGenerate(t) \/ StartImport(t)
    \/ AddKey(t) \/ AlreadyListed(t) \/ RefuseFile(t)
    \/ AskDelete(t) \/ CancelDelete(t) \/ ConfirmDelete(t)

-----------------------------------------------------------------------------
(* Properties                                                              *)

\* Every key that is anywhere in storage.
InStorage ==
    {k \in Keys : legacy = k \/ (v2 # NoItem /\ Has(v2, k))}

Deletes(t, key) == pendingDelete[t] = key /\ pendingDelete'[t] = NoItem

\* A stored key leaves storage only when its deletion is confirmed in some tab
\* ("Keep keys stable", adb-key.js AdbKeyStore): not when another tab adds a
\* key in the meantime, nor when the single key of old becomes a list, nor when
\* setItem() throws in the middle of either.
KeysLeaveOnlyByDeletion ==
    [][\A k \in InStorage \ InStorage' : \E t \in Tabs : Deletes(t, k)]_<<v2, legacy, pendingDelete>>

\* Once "Key deleted." is shown the key is nowhere in storage ("so a key
\* deleted later does not linger in localStorage", adb-key.js #read), whatever
\* the tab had listed, and no other tab's key has gone with it.
DeletedIsGone ==
    [][\A t \in Tabs : (\E k \in Keys : Deletes(t, k) /\ ~Has(listed'[t], k) /\ Has(listed[t], k))
          => pendingDelete[t] \notin InStorage']_<<v2, legacy, pendingDelete, listed>>
=============================================================================
