-------------------------- MODULE VirtualKeysPage --------------------------
(***************************************************************************)
(* The page of the admin dashboard for virtual API keys (ApiKeys.tsx), and *)
(* the operations of api-keys.controller.ts and api-keys.service.ts that   *)
(* it calls, here on the database alone: KeyValidation has what they do to *)
(* the caches of the gateway.                                              *)
(*                                                                         *)
(* Keys are numbered in the order of their creation.  A time is a number   *)
(* of units, Minute of them in a minute; 0 stands for null, as in a limit. *)
(* The rate limit and the monthly quota are handled alike: one stands for  *)
(* both.                                                                   *)
(***************************************************************************)
EXTENDS Integers, FiniteSets

CONSTANTS Ids, Minute,
          MaxTime,       \* bound: the clock
          Counts,        \* limits that may be entered
          MaxLostCalls   \* bound: calls that fail

VARIABLES now,
          keys,          \* api_keys in the database, by key
          listed,        \* keys, as the page has them; empty until it has loaded
          lists,         \* calls for the list, by what asked for it
          loadingKeys,   \* until the first of them has ended
          statusFilter, keysPage,
          form,          \* the inputs of a new key, if its form is open
          editing,       \* the key whose limits are edited, as it was listed, and
                         \* the inputs
          changes,       \* calls that change a key, by kind
          lostCalls

listVars == <<listed, lists, loadingKeys>>
dialogVars == <<statusFilter, keysPage, form, editing>>
keysVars == <<now, keys, listVars, dialogVars, changes, lostCalls>>

Fields == {"expires", "limit"}
Null == 0
Bad == -1                \* an input that is no whole number within the limits
NoKey == [pc |-> "none"]
Sources == {"refresh", "create", "limits", "revoke"}

KeyState(k) ==
    IF k.revoked THEN "revoked"
    ELSE IF k.expires # Null /\ k.expires <= now THEN "expired" ELSE "active"

FilteredKeys ==
    {id \in DOMAIN listed : statusFilter \in {"all", KeyState(listed[id])}}

\* The newest first, one to a page; a page number that is too large is kept.
PaginatedKeys ==
    {id \in FilteredKeys : Cardinality({x \in FilteredKeys : x > id}) = keysPage - 1}

KeysInit ==
    /\ now = Minute
    /\ keys \in {<<>>, <<[expires |-> Minute + 1, limit |-> Null, revoked |-> FALSE]>>}
    /\ listed = <<>>
    /\ lists = [c \in Sources |-> IF c = "refresh" THEN [pc |-> "sent"] ELSE NoKey]
    /\ loadingKeys = TRUE
    /\ statusFilter = "active" /\ keysPage = 1
    /\ form = NoKey /\ editing = NoKey
    /\ changes = [c \in Sources |-> NoKey]
    /\ lostCalls = 0

Lost == lostCalls < MaxLostCalls /\ lostCalls' = lostCalls + 1

TimePasses ==
    /\ now < MaxTime
    /\ now' = now + 1
    /\ UNCHANGED <<keys, listVars, dialogVars, changes, lostCalls>>

-----------------------------------------------------------------------------
\* fetchKeys(): calls may overlap, and whichever answer arrives last is shown.

Ask(c) == lists' = [lists EXCEPT ![c] = [pc |-> "sent"]]

RefreshKeys ==
    /\ lists["refresh"] = NoKey
    /\ Ask("refresh")
    /\ UNCHANGED <<now, keys, listed, loadingKeys, dialogVars, changes, lostCalls>>

ServeList(c) ==
    /\ lists[c].pc = "sent"
    /\ lists' = [lists EXCEPT ![c] = [pc |-> "served", keys |-> keys]]
    /\ UNCHANGED <<now, keys, listed, loadingKeys, dialogVars, changes, lostCalls>>

ListArrives(c) ==
    /\ \/ lists[c].pc = "served" /\ listed' = lists[c].keys /\ UNCHANGED lostCalls
       \/ lists[c] # NoKey /\ Lost /\ UNCHANGED listed
    /\ lists' = [lists EXCEPT ![c] = NoKey]
    /\ loadingKeys' = FALSE
    /\ UNCHANGED <<now, keys, dialogVars, changes>>

FilterKeys ==
    /\ \E s \in {"all", "active", "revoked", "expired"} \ {statusFilter} : statusFilter' = s
    /\ keysPage' = 1
    /\ UNCHANGED <<now, keys, listVars, form, editing, changes, lostCalls>>

TurnKeysPage ==
    /\ \E p \in 1..Cardinality(FilteredKeys) : p # keysPage /\ keysPage' = p
    /\ UNCHANGED <<now, keys, listVars, statusFilter, form, editing, changes, lostCalls>>

-----------------------------------------------------------------------------
\* The inputs of the two dialogs.  The one for a time has no seconds.

ToLocalInput(t) == t \div Minute
FromInput(input) == input * Minute
Inputs == [expires : 0..(MaxTime \div Minute), limit : Counts \cup {Null, Bad}]
InputsOf(k) == [expires |-> ToLocalInput(k.expires), limit |-> k.limit]

\* parseLimits() of the page, on the fields that were changed
Valid(inputs, changed) ==
    /\ "expires" \in changed => inputs.expires = Null \/ FromInput(inputs.expires) > now
    /\ \A f \in changed : inputs[f] # Bad

Body(inputs, changed) ==
    [f \in changed |-> IF f = "expires" THEN FromInput(inputs.expires) ELSE inputs[f]]

\* parseLimits() of the controller
Refused(body) == "expires" \in DOMAIN body /\ body.expires # Null /\ body.expires <= now

-----------------------------------------------------------------------------
\* Creating and revoking a key.

ShowForm ==
    /\ ~loadingKeys
    /\ form = NoKey /\ editing = NoKey
    /\ \E inputs \in Inputs : form' = [pc |-> "open", inputs |-> inputs]
    /\ UNCHANGED <<now, keys, listVars, statusFilter, keysPage, editing, changes, lostCalls>>

\* The page stays disabled for another submission until the list is loaded again.
Busy(c) == changes[c] # NoKey \/ lists[c] # NoKey

Send(c, call) == changes' = [changes EXCEPT ![c] = call]

HandleCreate ==
    /\ form # NoKey /\ ~Busy("create")
    /\ Valid(form.inputs, Fields)
    /\ Send("create", [pc |-> "sent", body |-> Body(form.inputs, Fields)])
    /\ UNCHANGED <<now, keys, listVars, dialogVars, lostCalls>>

ServeCreate ==
    /\ changes["create"].pc = "sent"
    /\ IF Refused(changes["create"].body) \/ DOMAIN keys = Ids
       THEN Send("create", [pc |-> "failed"]) /\ UNCHANGED keys
       ELSE /\ Send("create", [pc |-> "served"])
            /\ keys' = [id \in 1..Cardinality(DOMAIN keys) + 1 |->
                           IF id \in DOMAIN keys THEN keys[id]
                           ELSE [f \in Fields \cup {"revoked"} |->
                                    IF f = "revoked" THEN FALSE
                                    ELSE changes["create"].body[f]]]
    /\ UNCHANGED <<now, listVars, dialogVars, lostCalls>>

\* doRevoke(), once confirmed
HandleRevoke ==
    /\ form = NoKey /\ editing = NoKey
    /\ ~Busy("revoke")
    /\ \E id \in PaginatedKeys :
          ~listed[id].revoked /\ Send("revoke", [pc |-> "sent", id |-> id])
    /\ UNCHANGED <<now, keys, listVars, dialogVars, lostCalls>>

ServeRevoke ==
    /\ changes["revoke"].pc = "sent"
    /\ keys' = [keys EXCEPT ![changes["revoke"].id].revoked = TRUE]
    /\ Send("revoke", [pc |-> "served"])
    /\ UNCHANGED <<now, listVars, dialogVars, lostCalls>>

-----------------------------------------------------------------------------
\* Editing the limits of a key.

OpenLimits ==
    /\ form = NoKey /\ editing = NoKey
    /\ \E id \in PaginatedKeys :
          /\ ~listed[id].revoked
          /\ editing' = [pc |-> "open", id |-> id, was |-> listed[id],
                         inputs |-> InputsOf(listed[id]), touched |-> {}]
    /\ UNCHANGED <<now, keys, listVars, statusFilter, keysPage, form, changes, lostCalls>>

\* `touched' is a history: the fields that were edited.
EditLimit ==
    /\ editing # NoKey
    /\ \E inputs \in Inputs, f \in Fields :
          /\ inputs[f] # editing.inputs[f]
          /\ editing' = [editing EXCEPT !.inputs[f] = inputs[f], !.touched = @ \cup {f}]
    /\ UNCHANGED <<now, keys, listVars, statusFilter, keysPage, form, changes, lostCalls>>

CloseDialog ==
    /\ form # NoKey \/ editing # NoKey
    /\ form' = NoKey /\ editing' = NoKey
    /\ UNCHANGED <<now, keys, listVars, statusFilter, keysPage, changes, lostCalls>>

\* Mutant: all limits are sent, as they are displayed.
ChangedAll == Fields

Changed == {f \in Fields : editing.inputs[f] # InputsOf(editing.was)[f]}

HandleSaveLimits ==
    /\ editing # NoKey /\ ~Busy("limits")
    /\ \/ /\ Changed = {}
          /\ editing' = NoKey
          /\ UNCHANGED changes
       \/ /\ Changed # {} /\ Valid(editing.inputs, Changed)
          /\ Send("limits", [pc |-> "sent", id |-> editing.id, touched |-> editing.touched,
                             body |-> Body(editing.inputs, Changed)])
          /\ UNCHANGED editing
    /\ UNCHANGED <<now, keys, listVars, statusFilter, keysPage, form, lostCalls>>

\* updateApiKeyLimits()
ServeLimits ==
    LET call == changes["limits"]
    IN /\ call.pc = "sent"
       /\ IF Refused(call.body)
          THEN Send("limits", [pc |-> "failed"]) /\ UNCHANGED keys
          ELSE /\ Send("limits", [pc |-> "served"])
               /\ keys' = [keys EXCEPT ![call.id] =
                     [f \in DOMAIN @ |-> IF f \in DOMAIN call.body THEN call.body[f] ELSE @[f]]]
       /\ UNCHANGED <<now, listVars, dialogVars, lostCalls>>

\* A change that succeeded closes the dialog, whichever it has become, and loads
\* the list; a call may fail before or after the server has made the change.
ChangeArrives(c) ==
    /\ changes[c].pc = "served"
    /\ Send(c, NoKey)
    /\ Ask(c)
    /\ form' = IF c = "create" THEN NoKey ELSE form
    /\ editing' = IF c = "limits" THEN NoKey ELSE editing
    /\ UNCHANGED <<now, keys, listed, loadingKeys, statusFilter, keysPage, lostCalls>>

ChangeFails(c) ==
    /\ changes[c] # NoKey
    /\ (changes[c].pc = "failed" /\ UNCHANGED lostCalls) \/ Lost
    /\ Send(c, NoKey)
    /\ UNCHANGED <<now, keys, listVars, dialogVars>>

\* Another administrator, who may give a time with seconds, or revoke the key.
ChangedElsewhere ==
    /\ \E id \in DOMAIN keys :
          \/ \E t \in (now + 1)..MaxTime : keys' = [keys EXCEPT ![id].expires = t]
          \/ \E n \in Counts : keys' = [keys EXCEPT ![id].limit = n]
          \/ keys' = [keys EXCEPT ![id].revoked = TRUE]
    /\ Lost
    /\ UNCHANGED <<now, listVars, dialogVars, changes>>

KeysNext ==
    \/ TimePasses
    \/ RefreshKeys \/ \E c \in Sources : ServeList(c) \/ ListArrives(c)
    \/ FilterKeys \/ TurnKeysPage
    \/ ShowForm \/ HandleCreate \/ ServeCreate
    \/ HandleRevoke \/ ServeRevoke
    \/ OpenLimits \/ EditLimit \/ CloseDialog \/ HandleSaveLimits \/ ServeLimits
    \/ \E c \in Sources : ChangeArrives(c) \/ ChangeFails(c)
    \/ ChangedElsewhere

KeysSpec == KeysInit /\ [][KeysNext]_keysVars

-----------------------------------------------------------------------------
\* Properties.

\* Saving the limits of a key changes only those that were edited in its dialog:
\* one whose input cannot show it exactly is not rounded, and what others have
\* changed since the dialog was opened, or the list loaded, is not undone.
UntouchedFieldsKept ==
    [][\A f \in Fields :
          LET call == changes["limits"]
          IN (/\ call.pc = "sent"
              /\ changes'["limits"].pc = "served"
              /\ keys'[call.id][f] # keys[call.id][f])
             => f \in call.touched]_keysVars
=============================================================================
