--------------------------- MODULE SettingsPages ---------------------------
(***************************************************************************)
(* The two pages of the admin dashboard that edit settings: the Cloud keys *)
(* (CloudKeys.tsx) and everything else (Configure.tsx), with the calls     *)
(* they make to settings.controller.ts.                                    *)
(*                                                                         *)
(* A page loads what is stored, keeps a snapshot of it, is edited, and     *)
(* saves.  Loading is aborted when the page is left, saving is not.        *)
(* Everything on the Configure page but the token is one setting, `mode',  *)
(* and of the credit usage only that saving the keys ends with loading it. *)
(***************************************************************************)
EXTENDS Integers, Sequences, FiniteSets

CONSTANTS CloudKeys, Modes, DefaultMode, Tokens,
          ShortKeys,     \* below MIN_API_KEY_LENGTH
          MaxKeys,       \* MAX_CLOUD_API_KEYS
          MaxOthersSaves,\* bound: saves of other administrators
          MaxFailures    \* bound: calls that fail

ASSUME MaxKeysAssumption == MaxKeys \in Nat

VARIABLES stored,        \* the settings in the database
          openPage,      \* the page that is open
          loading, saving,
          snapshot,      \* savedSnapshot
          shown,         \* apiKeyRows, or settings
          draft,         \* tokenDraft
          removing,      \* removeToken
          get, put,      \* the calls in progress
          sole,          \* history: nothing was stored but by this page since it was
                         \* last read for it, and no load or save of it was lost halfway
          othersSaves, failures

formVars == <<loading, saving, snapshot, shown, draft, removing>>
boundVars == <<othersSaves, failures>>
pageVars == <<stored, openPage, formVars, get, put, sole, boundVars>>

Idle == [pc |-> "none"]
Unset == "unset"         \* a mode that was never saved
NoToken == "no token"
NotLoaded == {}          \* an empty snapshot

StoredOn(p) == IF p = "keys" THEN stored.keys ELSE [mode |-> stored.mode, token |-> stored.token]
BlankForm(p) == IF p = "keys" THEN <<>> ELSE [mode |-> Unset, token |-> NoToken]

Dirty ==
    /\ snapshot # NotLoaded
    /\ snapshot # {shown} \/ draft # NoToken \/ removing

PagesInit ==
    /\ \E n \in 0..MaxKeys :
          \E keys \in [1..n -> [key : CloudKeys \ ShortKeys, role : {"cloud", "fallback"}]] :
             /\ \A i, j \in 1..n : keys[i].key = keys[j].key => i = j
             /\ stored = [keys |-> keys, mode |-> Unset, token |-> NoToken]
    /\ openPage = "none" /\ shown = <<>> /\ snapshot = NotLoaded
    /\ loading = FALSE /\ saving = FALSE
    /\ draft = NoToken /\ removing = FALSE
    /\ get = Idle /\ put = Idle
    /\ sole = FALSE
    /\ othersSaves = 0 /\ failures = 0

Failure == failures < MaxFailures /\ failures' = failures + 1 /\ UNCHANGED othersSaves

Editable == openPage # "none" /\ ~loading

-----------------------------------------------------------------------------
\* Opening, loading and leaving a page.

Open(p) ==
    /\ openPage = "none"
    /\ openPage' = p
    /\ loading' = TRUE /\ get' = [pc |-> "sent"]
    /\ shown' = BlankForm(p) /\ snapshot' = NotLoaded
    /\ sole' = FALSE
    /\ UNCHANGED <<stored, saving, draft, removing, put, boundVars>>

\* list()
ServerGets ==
    /\ get.pc = "sent"
    /\ get' = [pc |-> "served", value |-> StoredOn(openPage)]
    /\ sole' = TRUE
    /\ UNCHANGED <<stored, openPage, formVars, put, boundVars>>

GetArrives ==
    /\ get.pc = "served"
    /\ shown' = get.value /\ snapshot' = {get.value}
    /\ loading' = FALSE /\ get' = Idle
    /\ UNCHANGED <<stored, openPage, saving, draft, removing, put, sole,
                   boundVars>>

GetFails ==
    /\ get # Idle
    /\ Failure
    /\ loading' = FALSE /\ get' = Idle
    /\ sole' = (sole /\ get.pc = "sent")
    /\ UNCHANGED <<stored, openPage, saving, snapshot, shown, draft, removing, put>>

\* handleReset(), once confirmed
Reset ==
    /\ Editable /\ ~saving
    /\ loading' = TRUE /\ get' = [pc |-> "sent"]
    /\ draft' = NoToken /\ removing' = FALSE
    /\ UNCHANGED <<stored, openPage, saving, snapshot, shown, put, sole,
                   boundVars>>

\* What a save still does afterwards no longer concerns a page.
Leave ==
    /\ openPage # "none"
    /\ openPage' = "none" /\ get' = Idle
    /\ loading' = FALSE /\ saving' = FALSE
    /\ shown' = <<>> /\ snapshot' = NotLoaded /\ draft' = NoToken /\ removing' = FALSE
    /\ put' = IF put.pc \in {"none", "usage"} THEN Idle ELSE [put EXCEPT !.here = FALSE]
    /\ UNCHANGED <<stored, sole, boundVars>>

-----------------------------------------------------------------------------
\* Editing, also while a save is in progress.

Edit(value) ==
    /\ shown' = value
    /\ UNCHANGED <<stored, openPage, loading, saving, snapshot, draft, removing, get, put, sole,
                   boundVars>>

AddKey(k) ==
    /\ Editable /\ openPage = "keys"
    /\ \A i \in DOMAIN shown : shown[i].key # k
    /\ Edit(Append(shown, [key |-> k, role |-> "cloud"]))

SetRole(i, role) ==
    /\ Editable /\ openPage = "keys" /\ i \in DOMAIN shown /\ shown[i].role # role
    /\ Edit([shown EXCEPT ![i].role = role])

RemoveKey(i) ==
    /\ Editable /\ openPage = "keys" /\ i \in DOMAIN shown
    /\ Edit(SubSeq(shown, 1, i - 1) \o SubSeq(shown, i + 1, Len(shown)))

UpdateSetting(m) ==
    /\ Editable /\ openPage = "configure" /\ shown.mode # m
    /\ Edit([shown EXCEPT !.mode = m])

\* A new token and the removal of the saved one exclude each other.
EditToken(token, remove) ==
    /\ Editable /\ openPage = "configure"
    /\ remove => shown.token # NoToken /\ ~removing
    /\ draft' = token
    /\ removing' = (remove \/ (removing /\ token = NoToken))
    /\ UNCHANGED <<stored, openPage, loading, saving, snapshot, shown, get, put, sole, boundVars>>
TypeToken == \E t \in Tokens \cup {NoToken} : t # draft /\ EditToken(t, FALSE)
RemoveToken == EditToken(NoToken, TRUE)

-----------------------------------------------------------------------------
\* Saving.  Bound: a page does not save while a call of a page that was left is
\* still in progress.

Payload ==
    IF openPage = "keys" THEN [keys |-> shown]
    ELSE LET mode == IF shown.mode = Unset THEN DefaultMode ELSE shown.mode
         IN IF draft # NoToken THEN [mode |-> mode, token |-> draft]
            ELSE IF removing THEN [mode |-> mode, token |-> NoToken]
            ELSE [mode |-> mode]

\* next: what a page shows once the payload is saved
NextShown(payload) ==
    IF openPage = "keys" THEN payload.keys
    ELSE [f \in DOMAIN shown |-> IF f \in DOMAIN payload THEN payload[f] ELSE shown[f]]

HandleSave ==
    /\ Editable /\ ~saving /\ put = Idle
    /\ saving' = TRUE
    /\ put' = [pc |-> "sent", fields |-> Payload, left |-> DOMAIN Payload,
               next |-> NextShown(Payload), here |-> TRUE]
    /\ UNCHANGED <<stored, openPage, loading, snapshot, shown, draft, removing, get, sole,
                   boundVars>>

Acceptable(keys) ==
    Len(keys) <= MaxKeys /\ \A i \in DOMAIN keys : keys[i].key \notin ShortKeys
Rejected == "keys" \in DOMAIN put.fields /\ ~Acceptable(put.fields.keys)

EndSave == put' = Idle /\ saving' = (saving /\ ~put.here)

\* update() validates every field first,
ServerRejects ==
    /\ put.pc = "sent" /\ Rejected
    /\ EndSave
    /\ UNCHANGED <<stored, openPage, loading, snapshot, shown, draft, removing, get, sole,
                   boundVars>>

\* and then stores them one after the other.
ServerPuts ==
    /\ put.pc = "sent" /\ ~Rejected
    /\ \E f \in put.left :
          /\ f = "token" => "mode" \notin put.left
          /\ stored' = [stored EXCEPT ![f] = put.fields[f]]
          /\ put' = [put EXCEPT !.left = @ \ {f},
                                !.pc = IF put.left = {f} THEN "served" ELSE "sent"]
    /\ sole' = (sole /\ put.here)
    /\ UNCHANGED <<openPage, formVars, get, boundVars>>

\* Mutant: the snapshot is taken from the rows when the answer arrives.
PutArrivesLate ==
    /\ put.pc = "served"
    /\ IF ~put.here
       THEN UNCHANGED formVars /\ put' = Idle
       ELSE /\ snapshot' = {IF openPage = "keys" THEN shown ELSE put.next}
            /\ IF openPage = "keys"
               THEN /\ put' = [put EXCEPT !.pc = "usage"]
                    /\ UNCHANGED <<shown, draft, removing, saving>>
               ELSE /\ shown' = put.next /\ draft' = NoToken /\ removing' = FALSE
                    /\ EndSave
            /\ UNCHANGED loading
    /\ UNCHANGED <<stored, openPage, get, sole, boundVars>>

\* The keys page takes the snapshot from the entries it sent, and loads the
\* credit usage before the save ends; the Configure page shows what it sent,
\* without the edits made since.
PutArrives ==
    /\ put.pc = "served"
    /\ IF ~put.here
       THEN UNCHANGED formVars /\ put' = Idle
       ELSE /\ snapshot' = {put.next}
            /\ IF openPage = "keys"
               THEN /\ put' = [put EXCEPT !.pc = "usage"]
                    /\ UNCHANGED <<shown, draft, removing, saving>>
               ELSE /\ shown' = put.next /\ draft' = NoToken /\ removing' = FALSE
                    /\ EndSave
            /\ UNCHANGED loading
    /\ UNCHANGED <<stored, openPage, get, sole, boundVars>>

\* Also after some or all of the fields were stored.
PutFails ==
    /\ put.pc \in {"sent", "served"}
    /\ Failure
    /\ EndSave
    /\ sole' = (sole /\ put.left = DOMAIN put.fields)
    /\ UNCHANGED <<stored, openPage, loading, snapshot, shown, draft, removing, get>>

OthersSave ==
    /\ othersSaves < MaxOthersSaves /\ othersSaves' = othersSaves + 1
    /\ \/ \E m \in Modes : stored' = [stored EXCEPT !.mode = m]
       \/ \E t \in Tokens : stored' = [stored EXCEPT !.token = t]
       \/ \E k \in CloudKeys \ ShortKeys, r \in {"cloud", "fallback"} :
             stored' = [stored EXCEPT !.keys = <<[key |-> k, role |-> r]>>]
    /\ sole' = FALSE
    /\ UNCHANGED <<openPage, formVars, get, put, failures>>

-----------------------------------------------------------------------------
\* The credit usage was loaded, or the failure to do so was reported: a save ends
\* in any case.
UsageArrives ==
    /\ put.pc = "usage"
    /\ EndSave
    /\ UNCHANGED <<stored, openPage, loading, snapshot, shown, draft, removing, get, sole,
                   boundVars>>

-----------------------------------------------------------------------------
PagesNext ==
    \/ \E p \in {"keys", "configure"} : Open(p)
    \/ ServerGets \/ GetArrives \/ GetFails \/ Reset \/ Leave
    \/ \E k \in CloudKeys : AddKey(k)
    \/ \E i \in 1..Cardinality(CloudKeys) :
          RemoveKey(i) \/ \E r \in {"cloud", "fallback"} : SetRole(i, r)
    \/ \E m \in Modes : UpdateSetting(m)
    \/ TypeToken \/ RemoveToken
    \/ HandleSave \/ ServerRejects \/ ServerPuts \/ PutArrives \/ PutFails \/ UsageArrives
    \/ OthersSave

PagesSpec == PagesInit /\ [][PagesNext]_pageVars

-----------------------------------------------------------------------------
\* Properties.

\* A page that has loaded and says that nothing is left to save shows what is
\* stored, whatever was edited while a save was in progress, unless someone else
\* stored something meanwhile or a save failed halfway.
SavedMeansStored ==
    /\ openPage # "none" /\ ~loading /\ ~saving
    /\ snapshot # NotLoaded /\ ~Dirty
    /\ sole
  => shown = StoredOn(openPage)
=============================================================================
