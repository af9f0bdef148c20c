-------------------------- MODULE DashboardProofs --------------------------
(***************************************************************************)
(* Proofs about the pages of the admin dashboard, for any keys, entries,   *)
(* calendars and choices.                                                  *)
(*                                                                         *)
(* KeysInv: what was listed of a key names it still, what differs in a     *)
(* dialog from what was listed was touched, and a save in progress sends   *)
(* nothing that was not.                                                   *)
(* FeedInv: filters are as the page offers them, and totals, in an answer  *)
(* or shown, are those of a log that was read under the query they carry.  *)
(* PagesInv: of what only this page has stored since it was read, each     *)
(* field is what the snapshot says, or what it will say once the save in   *)
(* progress ends (AgreeOK); the other parts say what a page has in flight. *)
(***************************************************************************)
EXTENDS AuditFeed, SettingsPages, VirtualKeysPage, FiniteSetTheorems, SequenceTheorems,
        TLAPS

-----------------------------------------------------------------------------
\* The page of the virtual keys.

\* Keys are only ever added, so that what was listed of one names it still; and
\* of a key that is edited, what differs from what was listed was touched.
TableInv(ks) ==
    /\ Cardinality(DOMAIN ks) \in Nat
    /\ DOMAIN ks = 1..Cardinality(DOMAIN ks)
    /\ ks = [id \in DOMAIN ks |-> ks[id]]
    /\ \A id \in DOMAIN ks : ks[id] = [f \in Fields \cup {"revoked"} |-> ks[id][f]]

ListInv(ids, shownKeys, calls) ==
    /\ DOMAIN shownKeys \subseteq ids
    /\ DOMAIN calls = Sources
    /\ \A c \in Sources : calls[c].pc = "served" => DOMAIN calls[c].keys \subseteq ids

EditInv(ids, e) ==
    e # NoKey =>
        /\ {"inputs", "touched", "was", "id"} \subseteq DOMAIN e
        /\ e.id \in ids
        /\ DOMAIN e.inputs = Fields
        /\ \A f \in Fields : e.inputs[f] # InputsOf(e.was)[f] => f \in e.touched

CallInv(ids, change) ==
    change.pc = "sent" => /\ change.id \in ids
                        /\ DOMAIN change.body \subseteq change.touched

KeysInv ==
    /\ TableInv(keys)
    /\ ListInv(DOMAIN keys, listed, lists)
    /\ EditInv(DOMAIN keys, editing)
    /\ DOMAIN changes = Sources
    /\ CallInv(DOMAIN keys, changes["limits"])

\* What named keys names them still when there are more.
LEMMA MoreKeys ==
    ASSUME NEW ids, NEW more, ids \subseteq more
    PROVE  /\ \A l, c : ListInv(ids, l, c) => ListInv(more, l, c)
           /\ \A e : EditInv(ids, e) => EditInv(more, e)
           /\ \A c : CallInv(ids, c) => CallInv(more, c)
BY DEF ListInv, EditInv, CallInv

\* A change of a key that there is leaves a table of the same keys.
LEMMA ChangedTable ==
    ASSUME NEW ks, TableInv(ks), NEW id, NEW g,
           NEW new, new = [ks EXCEPT ![id] = [f \in DOMAIN ks[id] |-> g[f]]]
    PROVE  TableInv(new) /\ DOMAIN new = DOMAIN ks
<1>1. new = [i \in DOMAIN ks |-> IF i = id THEN [f \in DOMAIN ks[id] |-> g[f]] ELSE ks[i]]
  BY DEF TableInv
<1>2. DOMAIN new = DOMAIN ks
  BY <1>1
<1>3. ASSUME NEW i \in DOMAIN ks
      PROVE  new[i] = [f \in Fields \cup {"revoked"} |-> new[i][f]]
  <2>1. ks[i] = [f \in Fields \cup {"revoked"} |-> ks[i][f]]
    BY DEF TableInv
  <2>2. DOMAIN ks[i] = Fields \cup {"revoked"}
    BY ONLY <2>1
  <2>3. CASE i # id
    <3>1. new[i] = ks[i]
      BY <1>1, <2>3
    <3> QED
      BY ONLY <2>1, <3>1
  <2>4. CASE i = id
    <3>1. new[i] = [f \in Fields \cup {"revoked"} |-> g[f]]
      BY <1>1, <2>2, <2>4
    <3> QED
      BY ONLY <3>1
  <2> QED
    BY <2>3, <2>4
<1> QED
  BY <1>1, <1>2, <1>3 DEF TableInv

\* The calls that other dialogs make leave that of the limits as it is.
LEMMA KeysQuiet ==
    ASSUME KeysInv,
           \/ TimePasses \/ FilterKeys \/ TurnKeysPage \/ ShowForm \/ CloseDialog
           \/ HandleCreate \/ HandleRevoke \/ UNCHANGED keysVars
    PROVE  KeysInv'
<1>1. UNCHANGED <<keys, listed, lists>> /\ editing' \in {editing, NoKey}
      /\ DOMAIN changes' = DOMAIN changes /\ changes'["limits"] = changes["limits"]
  BY DEF TimePasses, FilterKeys, TurnKeysPage, ShowForm, CloseDialog, HandleCreate,
         HandleRevoke, keysVars, listVars, dialogVars, Send, KeysInv, Sources
<1>2. EditInv(DOMAIN keys, NoKey)
  BY DEF EditInv
<1> QED
  BY <1>1, <1>2 DEF KeysInv

\* Loading the list.
LEMMA KeysLists ==
    ASSUME KeysInv, NEW c \in Sources, RefreshKeys \/ ServeList(c) \/ ListArrives(c)
    PROVE  KeysInv'
<1>1. UNCHANGED <<keys, editing, changes>>
  BY DEF RefreshKeys, ServeList, ListArrives, listVars, dialogVars
<1>2. ListInv(DOMAIN keys, listed', lists')
  <2>1. CASE RefreshKeys
    BY <2>1 DEF RefreshKeys, Ask, KeysInv, ListInv, Sources
  <2>2. CASE ServeList(c)
    BY <2>2 DEF ServeList, KeysInv, ListInv
  <2>3. CASE ListArrives(c)
    BY <2>3 DEF ListArrives, KeysInv, ListInv, NoKey
  <2> QED
    BY <2>1, <2>2, <2>3
<1> QED
  BY <1>1, <1>2 DEF KeysInv

LEMMA ServeCreateKeys ==
    ASSUME KeysInv, ServeCreate
    PROVE  KeysInv'
<1>1. UNCHANGED <<listed, lists, editing>> /\ DOMAIN changes' = Sources
      /\ changes'["limits"] = changes["limits"]
  BY DEF ServeCreate, listVars, dialogVars, Send, KeysInv, Sources
<1>2. CASE keys' = keys
  BY <1>1, <1>2 DEF KeysInv
<1>3. CASE keys' # keys
  <2> DEFINE n == Cardinality(DOMAIN keys)
             row(id) == IF id \in DOMAIN keys THEN keys[id]
                        ELSE [f \in Fields \cup {"revoked"} |->
                                 IF f = "revoked" THEN FALSE ELSE changes["create"].body[f]]
  <2>1. keys' = [id \in 1..n + 1 |-> row(id)]
    BY <1>3 DEF ServeCreate
  <2>2. n \in Nat /\ DOMAIN keys = 1..n
    BY DEF KeysInv, TableInv
  <2>3. ASSUME NEW id \in 1..n + 1
        PROVE  row(id) = [f \in Fields \cup {"revoked"} |-> row(id)[f]]
    BY DEF KeysInv, TableInv
  <2> HIDE DEF n, row
  <2>4. DOMAIN keys' = 1..n + 1 /\ Cardinality(1..n + 1) = n + 1
    BY <2>1, <2>2, FS_Interval
  <2>5. TableInv(keys')
    <3>1. \A id \in DOMAIN keys' : keys'[id] = [f \in Fields \cup {"revoked"} |-> keys'[id][f]]
      BY <2>1, <2>3, <2>4
    <3>2. keys' = [id \in DOMAIN keys' |-> keys'[id]]
      BY <2>1, <2>4
    <3>3. Cardinality(DOMAIN keys') = n + 1 /\ n + 1 \in Nat
      BY <2>2, <2>4
    <3> QED
      BY <2>4, <3>1, <3>2, <3>3 DEF TableInv
  <2>6. DOMAIN keys \subseteq DOMAIN keys'
    BY <2>2, <2>4
  <2> QED
    BY <1>1, <2>5, <2>6, MoreKeys DEF KeysInv
<1> QED
  BY <1>2, <1>3

\* Revoking a key, and changes by others.
LEMMA RowChanges ==
    ASSUME KeysInv, ServeRevoke \/ ChangedElsewhere
    PROVE  KeysInv'
<1>1. UNCHANGED <<listed, lists, editing>> /\ DOMAIN changes' = Sources
      /\ changes'["limits"] = changes["limits"]
  BY DEF ServeRevoke, ChangedElsewhere, listVars, dialogVars, Send, KeysInv, Sources
<1>2. \E id, f, v : keys' = [keys EXCEPT ![id] = [keys[id] EXCEPT ![f] = v]]
  BY DEF ServeRevoke, ChangedElsewhere
<1>3. PICK id, f, v : keys' = [keys EXCEPT ![id] = [keys[id] EXCEPT ![f] = v]]
  BY <1>2
<1> DEFINE g == [x \in DOMAIN keys[id] |-> IF x = f THEN v ELSE keys[id][x]]
<1>4. keys' = [keys EXCEPT ![id] = [x \in DOMAIN keys[id] |-> g[x]]]
  BY <1>3
<1> HIDE DEF g
<1>5. TableInv(keys') /\ DOMAIN keys' = DOMAIN keys
  BY <1>4, ChangedTable DEF KeysInv
<1> QED
  BY <1>1, <1>5 DEF KeysInv

\* The dialog for the limits.
LEMMA LimitsDialog ==
    ASSUME KeysInv, OpenLimits \/ EditLimit \/ HandleSaveLimits
    PROVE  KeysInv'
<1>1. UNCHANGED <<keys, listed, lists>>
  BY DEF OpenLimits, EditLimit, HandleSaveLimits, listVars, dialogVars
<1>2. CASE OpenLimits
  <2>1. PICK id \in PaginatedKeys :
           editing' = [pc |-> "open", id |-> id, was |-> listed[id],
                       inputs |-> InputsOf(listed[id]), touched |-> {}]
    BY <1>2 DEF OpenLimits
  <2>2. id \in DOMAIN keys
    BY DEF PaginatedKeys, FilteredKeys, KeysInv, ListInv
  <2>3. DOMAIN InputsOf(listed[id]) = Fields
    BY DEF InputsOf, Fields
  <2>4. EditInv(DOMAIN keys, editing')
    BY <2>1, <2>2, <2>3 DEF EditInv
  <2> QED
    BY <1>1, <1>2, <2>4 DEF OpenLimits, KeysInv
<1>3. CASE EditLimit
  <2>1. PICK inputs \in Inputs, f \in Fields :
           editing' = [editing EXCEPT !.inputs[f] = inputs[f],
                                      !.touched = editing.touched \cup {f}]
    BY <1>3 DEF EditLimit
  <2>2. editing # NoKey /\ UNCHANGED changes
    BY <1>3 DEF EditLimit
  <2>3. EditInv(DOMAIN keys, editing)
    BY DEF KeysInv
  <2>4. /\ DOMAIN editing' = DOMAIN editing
        /\ editing'.id = editing.id /\ editing'.was = editing.was
        /\ editing'.inputs = [editing.inputs EXCEPT ![f] = inputs[f]]
        /\ editing'.touched = editing.touched \cup {f}
    BY <2>1, <2>2, <2>3 DEF EditInv
  <2>5. EditInv(DOMAIN keys, editing')
    BY <2>2, <2>3, <2>4 DEF EditInv
  <2> QED
    BY <1>1, <2>2, <2>5 DEF KeysInv
<1>4. CASE HandleSaveLimits
  <2>1. CASE UNCHANGED changes /\ editing' = NoKey
    BY <1>1, <2>1 DEF KeysInv, EditInv
  <2>2. CASE ~(UNCHANGED changes /\ editing' = NoKey)
    <3> DEFINE change == [pc |-> "sent", id |-> editing.id, touched |-> editing.touched,
                        body |-> Body(editing.inputs, Changed)]
    <3>1. editing # NoKey /\ editing' = editing /\ changes' = [changes EXCEPT !["limits"] = change]
      BY <1>4, <2>2 DEF HandleSaveLimits, Send
    <3>2. changes'["limits"] = change /\ DOMAIN changes' = Sources
      BY <3>1 DEF KeysInv, Sources
    <3>3. DOMAIN change.body = Changed
      BY DEF Body
    <3>4. Changed \subseteq editing.touched /\ editing.id \in DOMAIN keys
      BY <3>1 DEF Changed, KeysInv, EditInv
    <3>5. CallInv(DOMAIN keys, changes'["limits"])
      BY <3>2, <3>3, <3>4 DEF CallInv
    <3> QED
      BY <1>1, <3>1, <3>2, <3>5 DEF KeysInv
  <2> QED
    BY <2>1, <2>2
<1> QED
  BY <1>2, <1>3, <1>4

\* updateApiKeyLimits() writes the fields of the body to a key there is.
LEMMA ServedLimits ==
    ASSUME KeysInv, ServeLimits, keys' # keys
    PROVE  LET change == changes["limits"]
               id == change.id
           IN /\ id \in DOMAIN keys
              /\ DOMAIN change.body \subseteq change.touched
              /\ keys' = [keys EXCEPT ![id] =
                    [f \in DOMAIN keys[id] |-> IF f \in DOMAIN change.body THEN change.body[f]
                                               ELSE keys[id][f]]]
BY DEF ServeLimits, KeysInv, CallInv

LEMMA ServeLimitsKeys ==
    ASSUME KeysInv, ServeLimits
    PROVE  KeysInv'
<1>1. UNCHANGED <<listed, lists, editing>> /\ DOMAIN changes' = Sources
      /\ changes'["limits"].pc # "sent"
  BY DEF ServeLimits, listVars, dialogVars, Send, KeysInv, Sources
<1>2. CASE keys' = keys
  BY <1>1, <1>2 DEF KeysInv, CallInv
<1>3. CASE keys' # keys
  <2> DEFINE change == changes["limits"]
             id == change.id
             g == [f \in DOMAIN keys[id] |-> IF f \in DOMAIN change.body THEN change.body[f]
                                             ELSE keys[id][f]]
  <2>1. keys' = [keys EXCEPT ![id] = [f \in DOMAIN keys[id] |-> g[f]]]
    BY <1>3, ServedLimits
  <2> HIDE DEF g, id
  <2>2. TableInv(keys') /\ DOMAIN keys' = DOMAIN keys
    BY <2>1, ChangedTable DEF KeysInv
  <2> QED
    BY <1>1, <2>2 DEF KeysInv, CallInv
<1> QED
  BY <1>2, <1>3

\* The end of a call.
LEMMA ChangeEnds ==
    ASSUME KeysInv, NEW c \in Sources, ChangeArrives(c) \/ ChangeFails(c)
    PROVE  KeysInv'
<1>1. /\ UNCHANGED <<keys, listed>> /\ editing' \in {editing, NoKey}
      /\ changes' = [changes EXCEPT ![c] = NoKey]
      /\ lists' \in {lists, [lists EXCEPT ![c] = [pc |-> "sent"]]}
  BY DEF ChangeArrives, ChangeFails, listVars, dialogVars, Send, Ask
<1>2. DOMAIN changes' = Sources /\ CallInv(DOMAIN keys, changes'["limits"])
  BY <1>1 DEF KeysInv, CallInv, NoKey, Sources
<1>3. EditInv(DOMAIN keys, editing')
  BY <1>1 DEF KeysInv, EditInv
<1>4. ListInv(DOMAIN keys, listed', lists')
  BY <1>1 DEF KeysInv, ListInv
<1> QED
  BY <1>1, <1>2, <1>3, <1>4 DEF KeysInv

LEMMA KeysInvNext == KeysInv /\ [KeysNext]_keysVars => KeysInv'
<1> "refresh" \in Sources
  BY DEF Sources
<1> QED
  BY KeysQuiet, KeysLists, ServeCreateKeys, RowChanges, LimitsDialog, ServeLimitsKeys,
     ChangeEnds DEF KeysNext

LEMMA KeysInvInit == KeysInit => KeysInv
<1> SUFFICES ASSUME KeysInit PROVE KeysInv
  OBVIOUS
<1>1. /\ keys = <<>> \/ keys = <<[expires |-> Minute + 1, limit |-> Null, revoked |-> FALSE]>>
      /\ listed = <<>> /\ editing = NoKey
      /\ lists = [c \in Sources |-> IF c = "refresh" THEN [pc |-> "sent"] ELSE NoKey]
      /\ changes = [c \in Sources |-> NoKey]
  BY DEF KeysInit
<1>2. TableInv(keys)
  <2>1. ASSUME keys = <<>> PROVE TableInv(keys)
    <3>1. DOMAIN keys = {} /\ Cardinality({}) = 0
      BY <2>1, FS_EmptySet
    <3> QED
      BY <2>1, <3>1 DEF TableInv
  <2>2. ASSUME keys = <<[expires |-> Minute + 1, limit |-> Null, revoked |-> FALSE]>>
        PROVE  TableInv(keys)
    <3> DEFINE k == [expires |-> Minute + 1, limit |-> Null, revoked |-> FALSE]
    <3>1. k = [f \in Fields \cup {"revoked"} |-> k[f]]
      BY DEF Fields
    <3> HIDE DEF k
    <3>2. keys = [id \in {1} |-> k]
      <4>1. <<k>> \in Seq({k}) /\ Len(<<k>>) = 1 /\ <<k>>[1] = k
        OBVIOUS
      <4>2. <<k>> \in [1..1 -> {k}]
        BY <4>1, LenProperties
      <4>3. 1..1 = {1}
        OBVIOUS
      <4> QED
        BY <2>2, <4>2, <4>3 DEF k
    <3>3. DOMAIN keys = {1} /\ 1..1 = {1} /\ Cardinality({1}) = 1
      BY <3>2, FS_Singleton
    <3>4. keys = [id \in DOMAIN keys |-> keys[id]] /\ keys[1] = k
      BY <3>2
    <3> QED
      BY <3>1, <3>3, <3>4 DEF TableInv
  <2> QED
    BY <1>1, <2>1, <2>2
<1>3. DOMAIN listed = {}
  BY <1>1
<1> QED
  BY <1>1, <1>2, <1>3 DEF KeysInv, ListInv, EditInv, CallInv, NoKey, Sources

\* Saving the limits of a key changes only the fields that were edited in its
\* dialog, for any keys, limits and clock.
THEOREM OnlyEditedLimits == KeysSpec => UntouchedFieldsKept
<1> DEFINE Kept == \A f \in Fields :
                      LET change == changes["limits"]
                      IN (/\ change.pc = "sent"
                          /\ changes'["limits"].pc = "served"
                          /\ keys'[change.id][f] # keys[change.id][f])
                         => f \in change.touched
<1>1. ASSUME KeysInv, [KeysNext]_keysVars PROVE [Kept]_keysVars
  <2> SUFFICES ASSUME changes["limits"].pc = "sent", changes'["limits"].pc = "served",
                      NEW f \in Fields,
                      keys'[changes["limits"].id][f] # keys[changes["limits"].id][f]
               PROVE  f \in changes["limits"].touched
    OBVIOUS
  <2>1. ServeLimits
    <3>1. ASSUME changes'["limits"] = changes["limits"] PROVE FALSE
      BY <3>1
    <3>2. ASSUME NEW c \in Sources \ {"limits"}, NEW x, Send(c, x) PROVE FALSE
      BY <1>1, <3>1, <3>2 DEF Send, KeysInv, Sources
    <3>5. ~HandleCreate /\ ~HandleRevoke /\ ~ServeCreate /\ ~ServeRevoke
      BY <3>2 DEF HandleCreate, HandleRevoke, ServeCreate, ServeRevoke, Sources
    <3>3. ASSUME NEW c \in Sources, ChangeArrives(c) \/ ChangeFails(c) PROVE FALSE
      BY <3>1, <3>3 DEF ChangeArrives, ChangeFails, Send, NoKey, KeysInv, Sources
    <3>4. ~HandleSaveLimits
      BY <3>1 DEF HandleSaveLimits, Send, KeysInv, Sources
    <3> QED
      BY <1>1, <3>1, <3>3, <3>4, <3>5
      DEF KeysNext, keysVars, TimePasses, RefreshKeys, ServeList, ListArrives, FilterKeys,
          TurnKeysPage, ShowForm, OpenLimits, EditLimit, CloseDialog, ChangedElsewhere
  <2> DEFINE change == changes["limits"]
             id == change.id
  <2>2. /\ id \in DOMAIN keys /\ DOMAIN change.body \subseteq change.touched
        /\ keys' = [keys EXCEPT ![id] =
              [x \in DOMAIN keys[id] |-> IF x \in DOMAIN change.body THEN change.body[x]
                                         ELSE keys[id][x]]]
    BY <1>1, <2>1, ServedLimits
  <2>3. f \in DOMAIN keys[id]
    BY <1>1, <2>2 DEF KeysInv, TableInv
  <2> HIDE DEF id, change
  <2>4. keys'[id][f] = IF f \in DOMAIN change.body THEN change.body[f] ELSE keys[id][f]
    BY <2>2, <2>3
  <2> QED
    BY <2>2, <2>4 DEF change, id
<1> QED
  BY <1>1, KeysInvInit, KeysInvNext, PTL DEF KeysSpec, UntouchedFieldsKept

-----------------------------------------------------------------------------
\* The calendar.

\* The quotient and the remainder of natural numbers.
LEMMA DivMod ==
    ASSUME NEW a \in Nat, NEW b \in Nat \ {0}
    PROVE  /\ a \div b \in Nat /\ a % b \in 0..(b - 1)
           /\ a = b * (a \div b) + (a % b)
OBVIOUS

\* Only one quotient fits.
LEMMA DivUnique ==
    ASSUME NEW a \in Nat, NEW b \in Nat \ {0}, NEW q \in Nat
    PROVE  a \div b = q <=> b * q <= a /\ a < b * q + b
<1> DEFINE p == a \div b
<1>1. p \in Nat /\ b * p <= a /\ a < b * p + b
  BY DivMod
<1> HIDE DEF p
<1>2. ASSUME NEW x \in Nat, NEW y \in Nat, x < y PROVE b * x + b <= b * y
  <2>1. y - x - 1 \in Nat /\ b * (y - x - 1) >= 0
    BY <1>2
  <2>2. b * y = b * x + b + b * (y - x - 1)
    BY <1>2
  <2> QED
    BY <2>1, <2>2
<1>3. ASSUME b * q <= a, a < b * q + b PROVE p = q
  <2>1. ~(p < q)
    <3>1. ASSUME p < q PROVE FALSE
      <4>1. b * p + b <= b * q
        BY <1>1, <1>2, <3>1
      <4> QED
        BY <1>1, <1>3, <4>1
    <3> QED
      BY <3>1
  <2>2. ~(q < p)
    <3>1. ASSUME q < p PROVE FALSE
      <4>1. b * q + b <= b * p
        BY <1>1, <1>2, <3>1
      <4> QED
        BY <1>1, <1>3, <4>1
    <3> QED
      BY <3>1
  <2> QED
    BY <1>1, <2>1, <2>2
<1> QED
  BY <1>1, <1>3 DEF p

\* The months of a year make the days of a year.
LEMMA NestedDiv ==
    ASSUME NEW a \in Nat, NEW b \in Nat \ {0}, NEW c \in Nat \ {0}
    PROVE  a \div (b * c) = (a \div b) \div c
<1> DEFINE q == a \div b
           r == a % b
           p == q \div c
           s == q % c
<1>1. q \in Nat /\ r \in 0..(b - 1) /\ a = b * q + r
  BY DivMod
<1>2. p \in Nat /\ s \in 0..(c - 1) /\ q = c * p + s
  BY <1>1, DivMod
<1> HIDE DEF q, r, p, s
<1>3. b * c \in Nat \ {0}
  OBVIOUS
<1>4. a = (b * c) * p + (b * s + r)
  <2>1. b * (c * p + s) = (b * c) * p + b * s
    BY <1>2
  <2> QED
    BY <1>1, <1>2, <2>1
<1>5. 0 <= b * s + r /\ b * s + r < b * c
  <2>1. c - 1 - s \in Nat /\ b * (c - 1 - s) >= 0 /\ b * s >= 0
    BY <1>2
  <2>2. b * c = b * s + b + b * (c - 1 - s)
    BY <1>2
  <2> QED
    BY <1>1, <1>2, <2>1, <2>2
<1>6. (b * c) * p <= a /\ a < (b * c) * p + b * c
  <2>1. (b * c) * p \in Nat /\ b * s + r \in Int
    BY <1>1, <1>2
  <2> QED
    BY <1>3, <1>4, <1>5, <2>1
<1> HIDE DEF q, p
<1>7. a \div (b * c) = p
  BY <1>2, <1>3, <1>6, DivUnique
<1> QED
  BY <1>7 DEF p, q

\* Dates of the same month of a year are those from its first day on.
LEMMA SameMonth ==
    ASSUME NEW d \in Nat
    PROVE  MonthOf(d) = MonthOf(Today) /\ YearOf(d) = YearOf(Today)
           <=> d >= MonthStart /\ d < MonthStart + DaysPerMonth
<1> DEFINE m(x) == x \div DaysPerMonth
<1>1. Today \in Nat /\ DaysPerMonth \in Nat \ {0} /\ MonthsPerYear \in Nat \ {0}
  BY CalendarAssumption
<1>2. m(d) \in Nat /\ m(Today) \in Nat
  BY <1>1, DivMod
<1>3. ASSUME NEW x \in Nat
      PROVE  MonthOf(x) = m(x) % MonthsPerYear /\ YearOf(x) = m(x) \div MonthsPerYear
  BY <1>1, <1>3, NestedDiv DEF MonthOf, YearOf
<1>4. m(d) = m(Today) <=> d >= DaysPerMonth * m(Today)
                          /\ d < DaysPerMonth * m(Today) + DaysPerMonth
  BY <1>1, <1>2, DivUnique
<1>5. MonthStart = DaysPerMonth * m(Today)
  BY DEF MonthStart
<1>6. m(d) = m(Today) <=> /\ m(d) % MonthsPerYear = m(Today) % MonthsPerYear
                          /\ m(d) \div MonthsPerYear = m(Today) \div MonthsPerYear
  <2> HIDE DEF m
  <2>1. \A x \in Nat : x = MonthsPerYear * (x \div MonthsPerYear) + (x % MonthsPerYear)
    BY <1>1, DivMod
  <2> QED
    BY <1>2, <2>1
<1> HIDE DEF m
<1> QED
  BY <1>1, <1>3, <1>4, <1>5, <1>6

\* A date is today when its day, month and year are today's.
LEMMA SameDay ==
    ASSUME NEW d \in Nat
    PROVE  DayOf(d) = DayOf(Today) /\ MonthOf(d) = MonthOf(Today) /\ YearOf(d) = YearOf(Today)
           <=> d = Today
<1>1. Today \in Nat /\ DaysPerMonth \in Nat \ {0} /\ MonthStart \in Nat
  BY CalendarAssumption, DivMod DEF MonthStart
<1>2. ASSUME NEW x \in Nat, x >= MonthStart, x < MonthStart + DaysPerMonth
      PROVE  DayOf(x) = x - MonthStart
  <2> DEFINE q == Today \div DaysPerMonth
  <2>1. q \in Nat /\ MonthStart = DaysPerMonth * q
    BY <1>1, DivMod DEF MonthStart
  <2> HIDE DEF q
  <2>2. x \div DaysPerMonth = q
    BY <1>1, <1>2, <2>1, DivUnique
  <2>3. /\ x % DaysPerMonth \in 0..(DaysPerMonth - 1)
        /\ x = DaysPerMonth * (x \div DaysPerMonth) + (x % DaysPerMonth)
    BY <1>1, DivMod
  <2> QED
    BY <1>1, <2>1, <2>2, <2>3 DEF DayOf
<1>3. Today >= MonthStart /\ Today < MonthStart + DaysPerMonth
  BY <1>1, SameMonth
<1>4. ASSUME DayOf(d) = DayOf(Today), MonthOf(d) = MonthOf(Today), YearOf(d) = YearOf(Today)
      PROVE  d = Today
  <2>1. d >= MonthStart /\ d < MonthStart + DaysPerMonth
    BY <1>4, SameMonth
  <2> QED
    BY <1>1, <1>2, <1>3, <1>4, <2>1
<1> QED
  BY <1>4

-----------------------------------------------------------------------------
\* The filters.

FilterOK(f) ==
    /\ DOMAIN f = DOMAIN NoFilter
    /\ f.range \in {"all", "today", "week", "month", "custom"}

\* The database shows of the log what the browser would.
LEMMA SameFilter ==
    ASSUME NEW f, FilterOK(f), NEW e \in Entries
    PROVE  StatsWhere(StatsQuery(f), e) <=> Shows(f, e)
<1> DEFINE q == StatsQuery(f)
           x == Log[e]
<1>1. x.date \in Nat /\ x.status \in Nat /\ Today \in Nat
  BY LogAssumption, CalendarAssumption DEF Entries
<1>2. /\ q.backend = f.backend /\ q.status = f.status /\ q.fallback = f.fallback
      /\ q.slow = f.slow /\ q.key = f.key /\ q.search = f.search /\ q.range = f.range
  BY DEF StatsQuery, FilterOK, NoFilter
<1>3. f.range = "custom" => q = f
  BY DEF StatsQuery
<1>4. /\ x.status \in 200..299 <=> x.status >= 200 /\ x.status < 300
      /\ x.status \in 400..499 <=> x.status >= 400 /\ x.status < 500
      /\ x.status \in 500..599 <=> x.status >= 500 /\ x.status < 600
  BY <1>1
<1> DEFINE today == f.range = "today" => /\ DayOf(x.date) = DayOf(Today)
                                         /\ MonthOf(x.date) = MonthOf(Today)
                                         /\ YearOf(x.date) = YearOf(Today)
           week == f.range = "week" => x.date >= Today - 7
           month == f.range = "month" => /\ MonthOf(x.date) = MonthOf(Today)
                                         /\ YearOf(x.date) = YearOf(Today)
           custom == f.range = "custom" => /\ f.day = Any \/ f.day = DayOf(x.date)
                                           /\ f.month = Any \/ f.month = MonthOf(x.date)
                                           /\ f.year = Any \/ f.year = YearOf(x.date)
           byBrowser == today /\ week /\ month /\ custom
           byDatabase ==
              \/ q.range = "all"
              \/ /\ q.range = "custom"
                 /\ q.day \in {Any, DayOf(x.date)}
                 /\ q.month \in {Any, MonthOf(x.date)}
                 /\ q.year \in {Any, YearOf(x.date)}
              \/ q.range = "today" /\ x.date >= Today /\ x.date < Today + 1
              \/ q.range = "week" /\ x.date >= Today - 168 \div 24
              \/ /\ q.range = "month"
                 /\ x.date >= MonthStart /\ x.date < MonthStart + DaysPerMonth
<1>5. byBrowser <=> byDatabase
  <2>1. CASE f.range = "all"
    BY <1>2, <2>1
  <2>2. CASE f.range = "today"
    <3>1. byBrowser <=> x.date = Today
      BY <1>1, <2>2, SameDay
    <3>2. byDatabase <=> x.date >= Today /\ x.date < Today + 1
      BY <1>2, <2>2
    <3> QED
      BY <1>1, <3>1, <3>2
  <2>3. CASE f.range = "week"
    <3>1. 168 \div 24 = 7
      OBVIOUS
    <3> QED
      BY <1>2, <2>3, <3>1
  <2>4. CASE f.range = "month"
    <3>1. byBrowser <=> MonthOf(x.date) = MonthOf(Today) /\ YearOf(x.date) = YearOf(Today)
      BY <2>4
    <3>2. byDatabase <=> x.date >= MonthStart /\ x.date < MonthStart + DaysPerMonth
      BY <1>2, <2>4
    <3> HIDE DEF byBrowser, byDatabase
    <3> QED
      BY <1>1, <3>1, <3>2, SameMonth
  <2>5. CASE f.range = "custom"
    BY <1>2, <1>3, <2>5
  <2> QED
    BY <2>1, <2>2, <2>3, <2>4, <2>5 DEF FilterOK
<1> DEFINE qBackend == q.backend # "" => x.backend = q.backend
           qKey == q.key # "" => x.key = q.key
           qSearch == q.search # "" => q.search = x.path
           q2xx == q.status = "2xx" => x.status \in 200..299
           q4xx == q.status = "4xx" => x.status \in 400..499
           q5xx == q.status = "5xx" => x.status \in 500..599
           qFallback == q.fallback => x.fallback
           late == x.ms >= 1000
           qSlow == q.slow => late
           fBackend == f.backend # "" => x.backend = f.backend
           fKey == f.key # "" => x.key = f.key
           fSearch == f.search # "" => f.search = x.path
           f2xx == f.status = "2xx" => x.status >= 200 /\ x.status < 300
           f4xx == f.status = "4xx" => x.status >= 400 /\ x.status < 500
           f5xx == f.status = "5xx" => x.status >= 500 /\ x.status < 600
           fFallback == f.fallback => x.fallback
           fSlow == f.slow => late
           inDatabase == /\ qBackend
                         /\ q2xx
                         /\ q4xx
                         /\ q5xx
                         /\ qFallback
                         /\ qSlow
                         /\ qKey
                         /\ qSearch
                         /\ byDatabase
           inBrowser == /\ fSearch
                        /\ fBackend
                        /\ fKey
                        /\ fFallback
                        /\ fSlow
                        /\ f2xx
                        /\ f4xx
                        /\ f5xx
                        /\ today
                        /\ week
                        /\ month
                        /\ custom
           byRest == /\ fSearch /\ fBackend /\ fKey /\ fFallback /\ fSlow
                     /\ f2xx /\ f4xx /\ f5xx
<1>6. Shows(f, e) <=> byRest /\ byBrowser
  <2>1. Shows(f, e) <=> inBrowser
    BY Zenon DEF Shows
  <2> HIDE DEF fBackend, fKey, fSearch, f2xx, f4xx, f5xx, fFallback, fSlow,
               today, week, month, custom
  <2> QED
    BY ONLY <2>1, Zenon
<1>7. StatsWhere(q, e) <=> byRest /\ byDatabase
  <2>1. StatsWhere(q, e) <=> inDatabase
    BY Zenon DEF StatsWhere
  <2>2. (qBackend <=> fBackend) /\ (qKey <=> fKey) /\ (qSearch <=> fSearch)
    BY <1>2
  <2>3. (q2xx <=> f2xx) /\ (q4xx <=> f4xx) /\ (q5xx <=> f5xx)
    <3> HIDE DEF q, x
    <3> QED
      BY <1>2, <1>4
  <2>4. (qFallback <=> fFallback) /\ (qSlow <=> fSlow)
    <3>1. q.fallback = f.fallback /\ q.slow = f.slow
      BY <1>2
    <3> HIDE DEF q
    <3>2. (q.fallback <=> f.fallback) /\ (q.slow <=> f.slow)
      BY ONLY <3>1, Zenon
    <3> HIDE DEF x, late
    <3> QED
      BY ONLY <3>2, Zenon
  <2> HIDE DEF qBackend, qKey, qSearch, q2xx, q4xx, q5xx, qFallback, qSlow,
               fBackend, fKey, fSearch, f2xx, f4xx, f5xx, fFallback, fSlow, byDatabase
  <2> QED
    BY ONLY <2>1, <2>2, <2>3, <2>4, Zenon
<1> HIDE DEF byRest, byBrowser, byDatabase
<1> QED
  BY ONLY <1>5, <1>6, <1>7, Zenon

-----------------------------------------------------------------------------
\* The log, the table, and the totals.

LogOK == log \subseteq Entries /\ writing \subseteq Entries
TableOK == entries \subseteq Entries /\ (fetch.pc = "served" => fetch.rows \subseteq Entries)
ViewOK == FilterOK(filter) /\ pageSize \in PageSizes /\ currentPage \in Nat \ {0}

\* Totals are those of a log that was read, under the query they came with.
StatsOK ==
    /\ call.pc = "served" =>
          /\ DOMAIN call = {"pc", "query", "of", "data"}
          /\ call.of \subseteq Entries
          /\ call.data = StatsOf(call.query, call.of)
    /\ statsState # None =>
          /\ statsState.of \subseteq Entries
          /\ statsState.data = StatsOf(statsState.query, statsState.of)

FeedInv == LogOK /\ TableOK /\ ViewOK /\ StatsOK

\* What each kind of step leaves alone.
LEMMA LogStepInv == FeedInv /\ LogStep => FeedInv'
<1> SUFFICES ASSUME FeedInv, LogStep PROVE FeedInv'
  OBVIOUS
<1>1. UNCHANGED <<tableVars, statsVars, viewVars>>
  BY DEF LogStep, Stamp, Write, DeletedElsewhere
<1>2. LogOK'
  BY DEF FeedInv, LogOK, LogStep, Stamp, Write, DeletedElsewhere
<1> QED
  BY <1>1, <1>2 DEF FeedInv, TableOK, ViewOK, StatsOK, tableVars, statsVars, viewVars

LEMMA StatsStepInv == FeedInv /\ StatsStep => FeedInv'
<1> SUFFICES ASSUME FeedInv, StatsStep PROVE FeedInv'
  OBVIOUS
<1>1. UNCHANGED <<logVars, tableVars, viewVars>>
  BY DEF StatsStep, StatsTimerFires, ServeStats, StatsArrive, StatsFail
<1>2. StatsOK'
  <2>1. CASE StatsTimerFires
    BY <2>1 DEF StatsTimerFires, LoadStats, FeedInv, StatsOK
  <2>2. CASE ServeStats
    BY <2>2 DEF ServeStats, FeedInv, StatsOK, LogOK
  <2>3. CASE StatsArrive
    <3>1. /\ statsState' = [call EXCEPT !.pc = "shown"] /\ call' = None
          /\ DOMAIN call = {"pc", "query", "of", "data"}
          /\ call.of \subseteq Entries /\ call.data = StatsOf(call.query, call.of)
      BY <2>3 DEF StatsArrive, FeedInv, StatsOK
    <3>2. /\ statsState'.query = call.query /\ statsState'.of = call.of
          /\ statsState'.data = call.data
      BY <3>1
    <3> QED
      BY <3>1, <3>2 DEF StatsOK, None
  <2>4. CASE StatsFail
    BY <2>4 DEF StatsFail, StatsOK, None
  <2> QED
    BY <2>1, <2>2, <2>3, <2>4 DEF StatsStep
<1> QED
  BY <1>1, <1>2 DEF FeedInv, LogOK, TableOK, ViewOK, logVars, tableVars, viewVars

LEMMA FetchSends ==
    ASSUME NEW full, FetchData(full)
    PROVE  fetch' = fetch \/ fetch'.pc = "sent"
BY DEF FetchData

LEMMA TableStepInv == FeedInv /\ TableStep => FeedInv'
<1> SUFFICES ASSUME FeedInv, TableStep PROVE FeedInv'
  OBVIOUS
<1>1. UNCHANGED <<logVars, viewVars, statsState>>
  BY DEF TableStep, Tick, Refresh, ServeData, DataArrives, DataFails, statsVars
<1>2. call' = call \/ call'.pc = "sent"
  <2>1. CASE DataArrives
    BY <2>1 DEF DataArrives, LoadStats
  <2>2. ASSUME NEW b, Refresh(b) PROVE call' = call
    BY <2>2 DEF Refresh, statsVars
  <2>3. CASE Tick \/ ServeData \/ DataFails
    BY <2>3 DEF Tick, ServeData, DataFails, statsVars
  <2> QED
    BY <2>1, <2>2, <2>3 DEF TableStep
<1>3. TableOK'
  <2>1. ASSUME entries' = entries, fetch' = fetch \/ fetch'.pc = "sent" PROVE TableOK'
    BY <2>1 DEF FeedInv, TableOK
  <2>2. CASE Tick
    <3>1. fetch' = fetch \/ fetch'.pc = "sent"
      BY <2>2, FetchSends DEF Tick
    <3> QED
      BY <2>1, <2>2, <3>1 DEF Tick
  <2>3. ASSUME NEW b \in BOOLEAN, Refresh(b) PROVE TableOK'
    BY <2>1, <2>3, FetchSends DEF Refresh
  <2>4. CASE ServeData
    <3>1. entries' = entries /\ fetch'.rows \subseteq log
      BY <2>4 DEF ServeData, Newest
    <3> QED
      BY <3>1 DEF FeedInv, TableOK, LogOK
  <2>5. CASE DataArrives
    <3>1. fetch'.pc = "none" /\ entries' \subseteq entries \cup fetch.rows /\ fetch.pc = "served"
      BY <2>5 DEF DataArrives, Newest, None
    <3> QED
      BY <3>1 DEF FeedInv, TableOK
  <2>6. CASE DataFails
    BY <2>6 DEF DataFails, FeedInv, TableOK, None
  <2> QED
    BY <2>2, <2>3, <2>4, <2>5, <2>6 DEF TableStep
<1> QED
  BY <1>1, <1>2, <1>3 DEF FeedInv, LogOK, ViewOK, StatsOK, logVars, viewVars

\* Whatever is chosen is a filter that the page offers.
LEMMA ChosenFilter ==
    ASSUME FilterOK(filter), ChooseFilter
    PROVE  \E f, page : Choose(f, page) /\ FilterOK(f) /\ page \in {1, currentPage}
<1>1. ASSUME NEW c, NEW v, c # "range" PROVE FilterOK([filter EXCEPT ![c] = v])
  BY <1>1 DEF FilterOK
<1>2. ASSUME NEW r \in Ranges PROVE FilterOK([filter EXCEPT !.range = r])
  BY <1>2, ChoicesAssumption DEF FilterOK
<1>3. FilterOK(NoFilter)
  BY DEF FilterOK, NoFilter
<1>4. CASE ChooseRange
  BY <1>2, <1>4 DEF ChooseRange
<1>5. CASE ChooseDate \/ ChooseStatus \/ ChooseKey \/ Search
  BY <1>1, <1>5 DEF ChooseDate, ChooseStatus, ChooseKey, Search
<1>6. CASE ChooseBackend
  <2>1. ASSUME NEW b, NEW x PROVE FilterOK([filter EXCEPT !.backend = b, !.fallback = x])
                                  /\ FilterOK([filter EXCEPT !.fallback = x, !.backend = b])
    BY DEF FilterOK
  <2> QED
    BY <1>6, <2>1 DEF ChooseBackend
<1>7. CASE ClearChip
  <2>1. PICK c \in DOMAIN filter : Choose([filter EXCEPT ![c] = NoFilter[c]], currentPage)
    BY <1>7 DEF ClearChip
  <2>2. CASE c = "range"
    <3>1. FilterOK([filter EXCEPT ![c] = NoFilter[c]])
      BY <2>2 DEF FilterOK, NoFilter
    <3> QED
      BY <2>1, <3>1
  <2>3. CASE c # "range"
    BY <1>1, <2>1, <2>3
  <2> QED
    BY <2>2, <2>3
<1>8. CASE SavedView
  <2>1. PICK view \in {[NoFilter EXCEPT !.status = "5xx"], [NoFilter EXCEPT !.fallback = TRUE],
                       [NoFilter EXCEPT !.slow = TRUE]} :
           Choose([view EXCEPT !.range = "today"], 1)
    BY <1>8 DEF SavedView
  <2>2. DOMAIN view = DOMAIN NoFilter
    BY <2>1
  <2>3. FilterOK([view EXCEPT !.range = "today"])
    BY <2>2 DEF FilterOK, NoFilter
  <2> QED
    BY <2>1, <2>3
<1>9. CASE ClearAllFilters
  BY <1>3, <1>9 DEF ClearAllFilters
<1> QED
  BY <1>4, <1>5, <1>6, <1>7, <1>8, <1>9 DEF ChooseFilter

LEMMA ChooseFilterInv == FeedInv /\ ChooseFilter => FeedInv'
<1> SUFFICES ASSUME FeedInv, ChooseFilter PROVE FeedInv'
  OBVIOUS
<1>1. PICK f, page : Choose(f, page) /\ FilterOK(f) /\ page \in {1, currentPage}
  BY ChosenFilter DEF FeedInv, ViewOK
<1> QED
  BY <1>1 DEF Choose, FeedInv, LogOK, TableOK, ViewOK, StatsOK, logVars, tableVars

\* The larger and the smaller of two numbers.
LEMMA MaxMinOfTwo ==
    ASSUME NEW a \in Int, NEW b \in Int
    PROVE  /\ Max({a, b}) = (IF a >= b THEN a ELSE b)
           /\ Min({a, b}) = (IF a <= b THEN a ELSE b)
<1>1. PICK m \in {a, b} : \A y \in {a, b} : m >= y
  OBVIOUS
<1>2. PICK n \in {a, b} : \A y \in {a, b} : n <= y
  OBVIOUS
<1>3. Max({a, b}) \in {a, b} /\ \A y \in {a, b} : Max({a, b}) >= y
  BY <1>1 DEF Max
<1>4. Min({a, b}) \in {a, b} /\ \A y \in {a, b} : Min({a, b}) <= y
  BY <1>2 DEF Min
<1> QED
  BY <1>3, <1>4

\* The page shown is one of the pages there are.
LEMMA PagesThereAre ==
    ASSUME FeedInv
    PROVE  /\ IsFiniteSet(FilteredEntries) /\ FilteredEntries \subseteq Nat
           /\ pageSize \in Nat \ {0}
           /\ PageCount \in Nat \ {0} /\ VisiblePage \in 1..PageCount
           /\ FilteredEntries # {} =>
                 (PageCount - 1) * pageSize < Cardinality(FilteredEntries)
<1> DEFINE c == Cardinality(FilteredEntries)
           p == (c + pageSize - 1) \div pageSize
<1>1. IsFiniteSet(Entries) /\ Entries \subseteq Nat
  <2>1. IsFiniteSet(1..Cardinality(DOMAIN Log)) /\ 1..Cardinality(DOMAIN Log) \subseteq Nat
    BY LogAssumption, FS_Interval
  <2> QED
    BY <2>1, LogAssumption DEF Entries
<1>2. FilteredEntries \subseteq Entries
  BY DEF FilteredEntries, FeedInv, TableOK
<1>3. IsFiniteSet(FilteredEntries) /\ FilteredEntries \subseteq Nat /\ c \in Nat
  BY <1>1, <1>2, FS_Subset, FS_CardinalityType
<1>4. pageSize \in Nat \ {0} /\ currentPage \in Nat \ {0}
  BY ChoicesAssumption DEF FeedInv, ViewOK
<1>5. c + pageSize - 1 \in Nat
  BY <1>3, <1>4
<1>6. p \in Nat /\ pageSize * p <= c + pageSize - 1
  <2> DEFINE a == c + pageSize - 1
  <2>1. a \in Nat
    BY <1>5
  <2> HIDE DEF a
  <2>2. a \div pageSize \in Nat /\ a % pageSize \in 0..(pageSize - 1)
        /\ a = pageSize * (a \div pageSize) + (a % pageSize)
    BY <1>4, <2>1, DivMod
  <2>3. pageSize * (a \div pageSize) \in Nat
    BY <1>4, <2>2
  <2> QED
    BY <1>4, <2>1, <2>2, <2>3 DEF a
<1>7. PageCount = IF 1 >= p THEN 1 ELSE p
  BY <1>6, MaxMinOfTwo DEF PageCount
<1>8. VisiblePage = IF currentPage <= PageCount THEN currentPage ELSE PageCount
  <2>1. PageCount \in Int /\ currentPage \in Int
    BY <1>4, <1>6, <1>7
  <2> HIDE DEF p
  <2> QED
    BY <2>1, MaxMinOfTwo DEF VisiblePage
<1>9. ASSUME FilteredEntries # {} PROVE (PageCount - 1) * pageSize < c
  <2>1. c # 0
    BY <1>3, <1>9, FS_EmptySet
  <2> HIDE DEF c, p
  <2>2. CASE PageCount = 1
    BY <1>3, <1>4, <2>1, <2>2
  <2>3. CASE PageCount = p
    <3>1. (p - 1) * pageSize = pageSize * p - pageSize
      BY <1>4, <1>6
    <3>2. pageSize * p \in Nat
      BY <1>4, <1>6
    <3> QED
      BY <1>3, <1>4, <1>6, <2>1, <2>3, <3>1, <3>2
  <2> QED
    BY <1>7, <2>2, <2>3
<1> HIDE DEF p, c
<1> QED
  BY <1>3, <1>4, <1>6, <1>7, <1>8, <1>9 DEF c

LEMMA PageStepInv == FeedInv /\ PageStep => FeedInv'
<1> SUFFICES ASSUME FeedInv, PageStep PROVE FeedInv'
  OBVIOUS
<1>1. PICK size, page : TurnPage(size, page) /\ size \in PageSizes /\ page \in Nat \ {0}
  <2>1. VisiblePage \in Nat /\ pageSize \in PageSizes
    BY PagesThereAre DEF FeedInv, ViewOK
  <2>2. CASE PreviousPage
    BY <2>1, <2>2 DEF PreviousPage
  <2>3. CASE NextPage
    BY <2>1, <2>3 DEF NextPage
  <2>4. CASE ChoosePageSize
    BY <2>4 DEF ChoosePageSize
  <2> QED
    BY <2>2, <2>3, <2>4 DEF PageStep
<1> QED
  BY <1>1 DEF TurnPage, FeedInv, LogOK, TableOK, ViewOK, StatsOK, logVars, tableVars, statsVars

LEMMA SelectStepInv == FeedInv /\ SelectStep => FeedInv'
<1> SUFFICES ASSUME FeedInv, SelectStep PROVE FeedInv'
  OBVIOUS
<1>1. UNCHANGED <<logVars, tableVars, statsVars, viewVars>>
  BY DEF SelectStep, ToggleEntry, ToggleVisible, DeleteSelected, Select, Delete
<1> QED
  BY <1>1 DEF FeedInv, LogOK, TableOK, ViewOK, StatsOK, logVars, tableVars, statsVars, viewVars

LEMMA DeletionStepInv == FeedInv /\ DeletionStep => FeedInv'
<1> SUFFICES ASSUME FeedInv, DeletionStep PROVE FeedInv'
  OBVIOUS
<1>1. UNCHANGED <<writing, entries, statsVars, viewVars>> /\ log' \subseteq log
  BY DEF DeletionStep, DeleteEntry, DeleteHistory, Delete, ServeDeletion, DeletionArrives,
         DeletionFails, logVars, tableVars
<1>2. fetch' = fetch \/ fetch'.pc = "sent"
  BY FetchSends DEF DeletionStep, DeleteEntry, DeleteHistory, Delete, ServeDeletion,
         DeletionArrives, DeletionFails, tableVars
<1> QED
  BY <1>1, <1>2 DEF FeedInv, LogOK, TableOK, ViewOK, StatsOK, statsVars, viewVars

LEMMA FeedNextInv == FeedInv /\ [FeedNext]_feedVars => FeedInv'
<1>1. FeedInv /\ UNCHANGED feedVars => FeedInv'
  BY DEF FeedInv, LogOK, TableOK, ViewOK, StatsOK, feedVars, logVars, tableVars, statsVars,
         viewVars
<1> QED
  BY <1>1, LogStepInv, StatsStepInv, TableStepInv, ChooseFilterInv, PageStepInv, SelectStepInv,
     DeletionStepInv DEF FeedNext

LEMMA FeedInitInv == FeedInit => FeedInv
<1> SUFFICES ASSUME FeedInit PROVE FeedInv
  OBVIOUS
<1>1. LogOK
  BY LogAssumption DEF FeedInit, LogInit, LogOK, Entries
<1>2. TableOK /\ StatsOK
  BY DEF FeedInit, TableInit, StatsInit, TableOK, StatsOK, None
<1>3. ViewOK
  <2>1. filter = NoFilter /\ pageSize \in PageSizes /\ currentPage = 1
    BY DEF FeedInit, PageInit
  <2>2. FilterOK(NoFilter)
    BY DEF FilterOK, NoFilter
  <2> QED
    BY <2>1, <2>2 DEF ViewOK
<1> QED
  BY <1>1, <1>2, <1>3 DEF FeedInv

\* Totals from the server count exactly the entries of the log that the table's own
\* filter would show, for any log and calendar and whatever filters are chosen while
\* calls are in progress: the two programs read the filters alike.
THEOREM CardsAreTrue == FeedSpec => []CardsMatchFilters
<1>1. FeedInv => CardsMatchFilters
  <2> SUFFICES ASSUME FeedInv, CurrentStats
               PROVE  statsState.data = Metrics({e \in statsState.of : Shows(filter, e)})
    BY DEF CardsMatchFilters
  <2>1. /\ statsState.data = StatsOf(StatsQuery(filter), statsState.of)
        /\ statsState.of \subseteq Entries /\ FilterOK(filter)
    BY DEF FeedInv, StatsOK, ViewOK, CurrentStats
  <2>2. {e \in statsState.of : StatsWhere(StatsQuery(filter), e)}
        = {e \in statsState.of : Shows(filter, e)}
    BY <2>1, SameFilter
  <2> QED
    BY <2>1, <2>2 DEF StatsOf
<1> QED
  BY <1>1, FeedInitInv, FeedNextInv, PTL DEF FeedSpec

-----------------------------------------------------------------------------
\* The rows of a page.

\* A set of subsets has a smallest member.
LEMMA SmallestSubset ==
    ASSUME NEW S, IsFiniteSet(S), NEW B \in SUBSET (SUBSET S), B # {}
    PROVE  \E T \in B : \A U \in B : U \subseteq T => U = T
<1>1. IsWellFoundedOn(StrictSubsetOrdering(S), SUBSET S)
  BY FS_StrictSubsetOrderingWellFounded, FS_FiniteSubsetsOfFinite
<1>2. PICK T \in B : \A U \in B : <<U, T>> \notin StrictSubsetOrdering(S)
  BY <1>1, WFMin
<1> QED
  BY <1>2 DEF StrictSubsetOrdering

LEMMA LeastElement ==
    ASSUME NEW S, S \subseteq Nat, IsFiniteSet(S), S # {}
    PROVE  \E m \in S : \A x \in S : m <= x
<1> DEFINE Wrong == {T \in SUBSET S : T # {} /\ ~\E m \in T : \A x \in T : m <= x}
<1>1. ASSUME Wrong # {} PROVE FALSE
  <2>2. PICK T \in Wrong : \A U \in Wrong : U \subseteq T => U = T
    <3>1. Wrong \in SUBSET (SUBSET S)
      OBVIOUS
    <3> HIDE DEF Wrong
    <3> QED
      BY ONLY IsFiniteSet(S), <1>1, <3>1, SmallestSubset
  <2>3. T \in SUBSET S /\ T # {} /\ ~\E m \in T : \A x \in T : m <= x
    BY <2>2
  <2>4. PICK y \in T : TRUE
    BY <2>3
  <2>5. T \ {y} # {}
    BY <2>3, <2>4
  <2>6. T \ {y} \notin Wrong
    BY <2>2, <2>4
  <2>7. PICK m \in T \ {y} : \A x \in T \ {y} : m <= x
    BY <2>3, <2>5, <2>6 DEF Wrong
  <2> QED
    BY <2>3, <2>4, <2>7
<1> QED
  BY <1>1

\* In a finite set of numbers there is an element with any number of others above it.
LEMMA RankedElement ==
    ASSUME NEW S, S \subseteq Nat, IsFiniteSet(S), NEW k \in Nat, k < Cardinality(S)
    PROVE  \E e \in S : Cardinality({x \in S : x > e}) = k
<1> DEFINE HasRank(T, j) == \E e \in T : Cardinality({x \in T : x > e}) = j
           Wrong == {T \in SUBSET S : \E j \in Nat : j < Cardinality(T) /\ ~HasRank(T, j)}
<1>1. ASSUME Wrong # {} PROVE FALSE
  <2>2. PICK T \in Wrong : \A U \in Wrong : U \subseteq T => U = T
    <3>1. Wrong \in SUBSET (SUBSET S)
      OBVIOUS
    <3> HIDE DEF Wrong
    <3> QED
      BY ONLY IsFiniteSet(S), <1>1, <3>1, SmallestSubset
  <2>3. T \in SUBSET S /\ \E j \in Nat : j < Cardinality(T) /\ ~HasRank(T, j)
    BY <2>2
  <2>4. PICK j \in Nat : j < Cardinality(T) /\ ~HasRank(T, j)
    BY <2>3
  <2>5. IsFiniteSet(T) /\ Cardinality(T) \in Nat /\ T \subseteq Nat
    BY <2>3, FS_Subset, FS_CardinalityType
  <2>6. T # {}
    BY <2>4, <2>5, FS_EmptySet
  <2>7. PICK m \in T : \A x \in T : m <= x
    BY <2>5, <2>6, LeastElement
  <2>8. Cardinality(T \ {m}) = Cardinality(T) - 1
    BY <2>5, <2>7, FS_RemoveElement
  <2>9. {x \in T : x > m} = T \ {m}
    <3>1. \A x \in T : x > m <=> x # m
      BY <2>5, <2>7
    <3> QED
      BY <3>1, Zenon
  <2>10. CASE j = Cardinality(T) - 1
    BY <2>4, <2>7, <2>8, <2>9, <2>10
  <2>11. CASE j < Cardinality(T) - 1
    <3>1. T \ {m} \notin Wrong
      BY <2>2, <2>7
    <3>2. HasRank(T \ {m}, j)
      <4> HIDE DEF HasRank
      <4> QED
        BY <2>3, <2>4, <2>8, <2>11, <3>1 DEF Wrong
    <3>3. PICK e \in T \ {m} : Cardinality({x \in T \ {m} : x > e}) = j
      BY <3>2
    <3>4. {x \in T \ {m} : x > e} = {x \in T : x > e}
      BY <2>5, <2>7
    <3> QED
      BY <2>4, <3>3, <3>4
  <2> QED
    BY <2>4, <2>5, <2>10, <2>11
<1> QED
  BY <1>1

\* As long as an entry matches the filters, the page shows rows, for any log and
\* page sizes, however many entries were deleted and whichever filters were chosen
\* on a later page.
THEOREM NoEmptyPage == FeedSpec => []PageHasRows
<1>1. FeedInv => PageHasRows
  <2> SUFFICES ASSUME FeedInv, FilteredEntries # {} PROVE PaginatedEntries # {}
    BY DEF PageHasRows
  <2> DEFINE c == Cardinality(FilteredEntries)
  <2>1. /\ IsFiniteSet(FilteredEntries) /\ FilteredEntries \subseteq Nat
        /\ pageSize \in Nat \ {0} /\ PageCount \in Nat \ {0} /\ VisiblePage \in 1..PageCount
        /\ (PageCount - 1) * pageSize < c
    BY PagesThereAre
  <2>2. c \in Nat
    BY <2>1, FS_CardinalityType
  <2> HIDE DEF c
  <2>3. PageStart \in Nat /\ PageStart < c
    <3>1. VisiblePage - 1 \in Nat /\ PageCount - VisiblePage \in Nat
      BY <2>1
    <3>2. /\ (VisiblePage - 1) * pageSize \in Nat
          /\ (PageCount - VisiblePage) * pageSize \in Nat
      BY <2>1, <3>1
    <3>3. (PageCount - 1) * pageSize
          = (VisiblePage - 1) * pageSize + (PageCount - VisiblePage) * pageSize
      BY <2>1
    <3> QED
      BY <2>1, <2>2, <3>2, <3>3 DEF PageStart
  <2>4. PICK e \in FilteredEntries : Cardinality({x \in FilteredEntries : x > e}) = PageStart
    BY <2>1, <2>3, RankedElement DEF c
  <2>5. e \in PaginatedEntries
    BY <2>1, <2>3, <2>4 DEF PaginatedEntries
  <2> QED
    BY <2>5
<1> QED
  BY <1>1, FeedInitInv, FeedNextInv, PTL DEF FeedSpec

-----------------------------------------------------------------------------
\* The settings pages: types.

Roles == {"cloud", "fallback"}
Rows == [key : CloudKeys, role : Roles]
AnyMode == Modes \cup {Unset, DefaultMode}
AnyToken == Tokens \cup {NoToken}

FieldsOf(p) == IF p = "keys" THEN {"keys"} ELSE {"mode", "token"}
ValuesOf(f) == IF f = "keys" THEN Seq(Rows) ELSE IF f = "mode" THEN AnyMode ELSE AnyToken
FormOf(p) == IF p = "keys" THEN Seq(Rows) ELSE [mode : AnyMode, token : AnyToken]

\* The value of a field in what a page shows.
FieldIn(p, v, f) == IF p = "keys" THEN v ELSE v[f]

\* Only modes are edited in place: a token that is shown is the one in the snapshot.
FormOK(p, v, saved) ==
    /\ v \in FormOf(p)
    /\ saved # {} => \E s \in saved : /\ saved = {s} /\ s \in FormOf(p)
                                      /\ p = "configure" => s.token = v.token

PageOK ==
    /\ openPage \in {"none", "keys", "configure"}
    /\ openPage = "none" => snapshot = {} /\ ~loading /\ ~saving
    /\ openPage # "none" => FormOK(openPage, shown, snapshot)
    /\ draft \in AnyToken
    /\ loading \in BOOLEAN /\ saving \in BOOLEAN /\ sole \in BOOLEAN

StoredOK == stored \in [keys : Seq(Rows), mode : AnyMode, token : AnyToken]

\* What is loaded is what is stored, if it is by this page alone.
GetOK ==
    /\ get.pc \in {"none", "sent", "served"}
    /\ get.pc = "none" => get = Idle
    /\ loading <=> get.pc # "none"
    /\ loading => openPage # "none" /\ ~saving
    /\ get.pc = "served" =>
          /\ get.value \in FormOf(openPage)
          /\ sole => get.value = StoredOn(openPage)

PutTyped(q) ==
    q.pc # "none" =>
       /\ DOMAIN q = {"pc", "fields", "left", "next", "here"}
       /\ q.pc \in {"sent", "served", "usage"} /\ q.here \in BOOLEAN
       /\ DOMAIN q.fields # {}
       /\ \A f \in DOMAIN q.fields : f \in {"keys", "mode", "token"} /\ q.fields[f] \in ValuesOf(f)
       /\ "keys" \in DOMAIN q.fields => DOMAIN q.fields = {"keys"}
       /\ q.left \subseteq DOMAIN q.fields
       /\ q.pc = "sent" <=> q.left # {}

\* A save that is of the open page shows its fields next.
PutOfPage(q) ==
    q.pc # "none" /\ q.here =>
       /\ openPage # "none"
       /\ DOMAIN q.fields \subseteq FieldsOf(openPage)
       /\ q.next \in FormOf(openPage)
       /\ \A f \in DOMAIN q.fields : FieldIn(openPage, q.next, f) = q.fields[f]

PutOK ==
    /\ put.pc = "none" => put = Idle
    /\ PutTyped(put) /\ PutOfPage(put)
    /\ saving <=> put.pc # "none" /\ put.here
    /\ put.pc = "usage" => put.here /\ openPage = "keys"

\* Of what only this page has stored since it was read, each field is either what
\* the snapshot says, or what the snapshot will be once the save ends.
Storing == put.pc \in {"sent", "served"} /\ put.here
AgreeOK ==
    sole /\ openPage # "none" /\ get.pc # "served" =>
       /\ snapshot # {}
       /\ \A f \in FieldsOf(openPage) :
             /\ Storing /\ f \notin put.left => FieldIn(openPage, put.next, f) = stored[f]
             /\ (Storing /\ f \in DOMAIN put.fields => f \in put.left)
                => \A s \in snapshot : FieldIn(openPage, s, f) = stored[f]

PagesInv == PageOK /\ StoredOK /\ GetOK /\ PutOK /\ AgreeOK

LEMMA OpenInv ==
    ASSUME PagesInv, NEW p \in {"keys", "configure"}, Open(p)
    PROVE  PagesInv'
<1> USE DEF PagesInv, Open, formVars, boundVars
<1>1. PageOK'
  <2>1. BlankForm(p) \in FormOf(p)
    <3>1. CASE p = "keys"
      BY <3>1, EmptySeq DEF BlankForm, FormOf
    <3>2. CASE p = "configure"
      BY <3>2 DEF BlankForm, FormOf, AnyMode, AnyToken
    <3> QED
      BY <3>1, <3>2
  <2> QED
    BY <2>1 DEF PageOK, GetOK, FormOK, FormOf, AnyMode, AnyToken, NotLoaded
<1>2. StoredOK'
  BY DEF StoredOK
<1>3. GetOK'
  BY DEF GetOK, PageOK, PutOK, StoredOK, Idle, FormOf, StoredOn
<1>4. PutOK'
  BY DEF PutOK, PutTyped, PutOfPage, PageOK, GetOK, Idle
<1>5. AgreeOK'
  BY DEF AgreeOK, Storing, GetOK, PageOK, PutOK, FieldsOf, FieldIn, StoredOn
<1> QED
  BY <1>1, <1>2, <1>3, <1>4, <1>5

LEMMA ServerGetsInv ==
    ASSUME PagesInv, ServerGets
    PROVE  PagesInv'
<1> USE DEF PagesInv, ServerGets, formVars, boundVars
<1>1. PageOK'
  BY DEF PageOK, GetOK, FormOK, FormOf, AnyMode, AnyToken, NotLoaded
<1>2. StoredOK'
  BY DEF StoredOK
<1>3. GetOK'
  BY DEF GetOK, PageOK, PutOK, StoredOK, Idle, FormOf, StoredOn
<1>4. PutOK'
  BY DEF PutOK, PutTyped, PutOfPage, PageOK, GetOK, Idle
<1>5. AgreeOK'
  BY DEF AgreeOK, Storing, GetOK, PageOK, PutOK, FieldsOf, FieldIn, StoredOn
<1> QED
  BY <1>1, <1>2, <1>3, <1>4, <1>5

LEMMA GetArrivesInv ==
    ASSUME PagesInv, GetArrives
    PROVE  PagesInv'
<1> USE DEF PagesInv, GetArrives, formVars, boundVars
<1>1. PageOK'
  BY DEF PageOK, GetOK, FormOK, FormOf, AnyMode, AnyToken, NotLoaded
<1>2. StoredOK'
  BY DEF StoredOK
<1>3. GetOK'
  BY DEF GetOK, PageOK, PutOK, StoredOK, Idle, FormOf, StoredOn
<1>4. PutOK'
  BY DEF PutOK, PutTyped, PutOfPage, PageOK, GetOK, Idle
<1>5. AgreeOK'
  BY DEF AgreeOK, Storing, GetOK, PageOK, PutOK, FieldsOf, FieldIn, StoredOn
<1> QED
  BY <1>1, <1>2, <1>3, <1>4, <1>5

LEMMA GetFailsInv ==
    ASSUME PagesInv, GetFails
    PROVE  PagesInv'
<1> USE DEF PagesInv, GetFails, Failure, formVars, boundVars
<1>1. PageOK'
  BY DEF PageOK, GetOK, FormOK, FormOf, AnyMode, AnyToken, NotLoaded
<1>2. StoredOK'
  BY DEF StoredOK
<1>3. GetOK'
  BY DEF GetOK, PageOK, PutOK, StoredOK, Idle, FormOf, StoredOn
<1>4. PutOK'
  BY DEF PutOK, PutTyped, PutOfPage, PageOK, GetOK, Idle
<1>5. AgreeOK'
  BY DEF AgreeOK, Storing, GetOK, PageOK, PutOK, FieldsOf, FieldIn, StoredOn
<1> QED
  BY <1>1, <1>2, <1>3, <1>4, <1>5

LEMMA ResetInv ==
    ASSUME PagesInv, Reset
    PROVE  PagesInv'
<1> USE DEF PagesInv, Reset, Editable, formVars, boundVars
<1>1. PageOK'
  BY DEF PageOK, GetOK, FormOK, FormOf, AnyMode, AnyToken, NotLoaded
<1>2. StoredOK'
  BY DEF StoredOK
<1>3. GetOK'
  BY DEF GetOK, PageOK, PutOK, StoredOK, Idle, FormOf, StoredOn
<1>4. PutOK'
  BY DEF PutOK, PutTyped, PutOfPage, PageOK, GetOK, Idle
<1>5. AgreeOK'
  BY DEF AgreeOK, Storing, GetOK, PageOK, PutOK, FieldsOf, FieldIn, StoredOn
<1> QED
  BY <1>1, <1>2, <1>3, <1>4, <1>5

LEMMA LeaveInv ==
    ASSUME PagesInv, Leave
    PROVE  PagesInv'
<1> USE DEF PagesInv, Leave, formVars, boundVars
<1>1. PageOK'
  BY DEF PageOK, GetOK, FormOK, FormOf, AnyMode, AnyToken, NotLoaded
<1>2. StoredOK'
  BY DEF StoredOK
<1>3. GetOK'
  BY DEF GetOK, PageOK, PutOK, StoredOK, Idle, FormOf, StoredOn
<1>4. PutOK'
  BY DEF PutOK, PutTyped, PutOfPage, PageOK, GetOK, Idle
<1>5. AgreeOK'
  BY DEF AgreeOK, Storing, GetOK, PageOK, PutOK, FieldsOf, FieldIn, StoredOn
<1> QED
  BY <1>1, <1>2, <1>3, <1>4, <1>5

\* An edit leaves what was saved, and what a save will store, as it is.
LEMMA EditKeepsInv ==
    ASSUME PagesInv, Editable, NEW v, FormOK(openPage, v, snapshot), Edit(v)
    PROVE  PagesInv'
<1> USE DEF PagesInv, Edit, Editable, boundVars
<1>1. PageOK'
  BY DEF PageOK
<1>2. StoredOK'
  BY DEF StoredOK
<1>3. GetOK'
  BY DEF GetOK, StoredOn
<1>4. PutOK'
  BY DEF PutOK, PutTyped, PutOfPage
<1>5. AgreeOK'
  BY DEF AgreeOK, Storing
<1> QED
  BY <1>1, <1>2, <1>3, <1>4, <1>5

LEMMA EditsInv ==
    ASSUME PagesInv,
           \/ \E k \in CloudKeys : AddKey(k)
           \/ \E i \in 1..Cardinality(CloudKeys) :
                 RemoveKey(i) \/ \E r \in Roles : SetRole(i, r)
           \/ \E m \in Modes : UpdateSetting(m)
    PROVE  PagesInv'
<1>1. openPage = "keys" => shown \in Seq(Rows) /\ \A v \in Seq(Rows) : FormOK(openPage, v, snapshot)
  BY DEF PagesInv, PageOK, FormOK, FormOf
<1>2. ASSUME NEW k \in CloudKeys, AddKey(k) PROVE PagesInv'
  <2>1. Append(shown, [key |-> k, role |-> "cloud"]) \in Seq(Rows)
    BY <1>1, <1>2, AppendProperties DEF AddKey, Rows, Roles
  <2> QED
    BY <1>1, <1>2, <2>1, EditKeepsInv DEF AddKey
<1>3. ASSUME NEW i, RemoveKey(i) PROVE PagesInv'
  <2>1. openPage = "keys" /\ shown \in Seq(Rows) /\ i \in 1..Len(shown) /\ Len(shown) \in Nat
    BY <1>1, <1>3, LenProperties DEF RemoveKey
  <2>2. SubSeq(shown, 1, i - 1) \in Seq(Rows) /\ SubSeq(shown, i + 1, Len(shown)) \in Seq(Rows)
    BY <2>1, SubSeqProperties
  <2>3. SubSeq(shown, 1, i - 1) \o SubSeq(shown, i + 1, Len(shown)) \in Seq(Rows)
    BY <2>2, ConcatProperties
  <2> QED
    BY <1>1, <1>3, <2>1, <2>3, EditKeepsInv DEF RemoveKey
<1>4. ASSUME NEW i, NEW r \in Roles, SetRole(i, r) PROVE PagesInv'
  <2>1. openPage = "keys" /\ shown \in Seq(Rows) /\ i \in 1..Len(shown)
    BY <1>1, <1>4, LenProperties DEF SetRole
  <2>2. [shown EXCEPT ![i].role = r] \in Seq(Rows)
    <3>1. [shown[i] EXCEPT !.role = r] \in Rows
      <4>1. shown[i] \in Rows
        BY <2>1, ElementOfSeq
      <4> QED
        BY <4>1 DEF Rows
    <3>2. [shown EXCEPT ![i] = [shown[i] EXCEPT !.role = r]] \in Seq(Rows)
      BY <2>1, <3>1, ExceptSeq
    <3> QED
      BY <3>2
  <2> QED
    BY <1>1, <1>4, <2>1, <2>2, EditKeepsInv DEF SetRole
<1>5. ASSUME NEW m \in Modes, UpdateSetting(m) PROVE PagesInv'
  <2>1. FormOK(openPage, [shown EXCEPT !.mode = m], snapshot)
    BY <1>5 DEF UpdateSetting, PagesInv, PageOK, FormOK, FormOf, AnyMode
  <2> QED
    BY <1>5, <2>1, EditKeepsInv DEF UpdateSetting
<1> QED
  BY <1>2, <1>3, <1>4, <1>5

LEMMA TokensInv ==
    ASSUME PagesInv, TypeToken \/ RemoveToken
    PROVE  PagesInv'
<1>1. draft' \in AnyToken
  BY DEF TypeToken, RemoveToken, EditToken, AnyToken
<1>2. UNCHANGED <<stored, openPage, loading, saving, snapshot, shown, get, put, sole>>
  BY DEF TypeToken, RemoveToken, EditToken
<1> USE DEF PagesInv
<1>3. PageOK' /\ StoredOK'
  BY <1>1, <1>2 DEF PageOK, StoredOK
<1>4. GetOK' /\ PutOK'
  BY <1>2 DEF GetOK, StoredOn, PutOK, PutTyped, PutOfPage
<1>5. AgreeOK'
  BY <1>2 DEF AgreeOK, Storing
<1> QED
  BY <1>3, <1>4, <1>5

\* What a save sends and what it shows next differ from what is shown in its
\* fields only; the token is the one field it may leave out.
LEMMA PayloadTypes ==
    ASSUME PageOK, Editable
    PROVE  /\ DOMAIN Payload # {} /\ DOMAIN Payload \subseteq FieldsOf(openPage)
           /\ openPage = "keys" => DOMAIN Payload = {"keys"}
           /\ \A f \in DOMAIN Payload : Payload[f] \in ValuesOf(f)
           /\ NextShown(Payload) \in FormOf(openPage)
           /\ \A f \in DOMAIN Payload : FieldIn(openPage, NextShown(Payload), f) = Payload[f]
           /\ \A f \in FieldsOf(openPage) \ DOMAIN Payload :
                 f = "token" /\ FieldIn(openPage, NextShown(Payload), f) = shown.token
<1>1. CASE openPage = "keys"
  <2>1. shown \in Seq(Rows) /\ Payload = [keys |-> shown]
    BY <1>1 DEF PageOK, FormOK, FormOf, Payload
  <2>2. NextShown(Payload) = shown
    BY <1>1, <2>1 DEF NextShown
  <2> QED
    BY <1>1, <2>1, <2>2 DEF FieldsOf, ValuesOf, FormOf, FieldIn
<1>2. CASE openPage = "configure"
  <2>1. shown \in [mode : AnyMode, token : AnyToken] /\ draft \in AnyToken
    BY <1>2 DEF PageOK, FormOK, FormOf
  <2>2. PICK m \in AnyMode, t \in AnyToken :
           Payload = [mode |-> m, token |-> t] \/ Payload = [mode |-> m]
    BY <1>2, <2>1 DEF Payload, AnyMode, AnyToken
  <2>3. CASE Payload = [mode |-> m, token |-> t]
    <3>1. NextShown(Payload) = [mode |-> m, token |-> t]
      BY <1>2, <2>1, <2>3 DEF NextShown
    <3> QED
      BY <1>2, <2>3, <3>1 DEF FieldsOf, ValuesOf, FormOf, FieldIn
  <2>4. CASE Payload = [mode |-> m]
    <3>1. NextShown(Payload) = [mode |-> m, token |-> shown.token]
      BY <1>2, <2>1, <2>4 DEF NextShown
    <3> QED
      BY <1>2, <2>1, <2>4, <3>1 DEF FieldsOf, ValuesOf, FormOf, FieldIn
  <2> QED
    BY <2>2, <2>3, <2>4
<1> QED
  BY <1>1, <1>2 DEF PageOK, Editable

LEMMA HandleSaveInv ==
    ASSUME PagesInv, HandleSave
    PROVE  PagesInv'
<1> USE DEF PagesInv, HandleSave, Editable, formVars, boundVars
<1>1. PageOK'
  BY DEF PageOK, PutOK, FormOK, FormOf, AnyMode, AnyToken
<1>2. StoredOK'
  BY DEF StoredOK
<1>3. GetOK'
  BY DEF GetOK, PageOK, PutOK, StoredOK, Idle, FormOf, StoredOn
<1>4. PutOK'
  <2>1. PutTyped(put') /\ PutOfPage(put)'
    BY PayloadTypes DEF PutTyped, PutOfPage, FieldsOf
  <2> QED
    BY <2>1 DEF PutOK, Idle
<1>5. AgreeOK'
  <2>1. /\ put = Idle /\ UNCHANGED <<stored, openPage, snapshot, shown, sole, get>>
        /\ put'.left = DOMAIN Payload /\ put'.fields = Payload /\ put'.next = NextShown(Payload)
    OBVIOUS
  <2> SUFFICES ASSUME sole, openPage # "none", get.pc # "served", NEW f \in FieldsOf(openPage)
               PROVE  /\ snapshot # {}
                      /\ f \notin DOMAIN Payload => FieldIn(openPage, NextShown(Payload), f) = stored[f]
                      /\ \A s \in snapshot : FieldIn(openPage, s, f) = stored[f]
    BY <2>1 DEF AgreeOK, Storing
  <2>2. snapshot # {} /\ \A s \in snapshot : FieldIn(openPage, s, f) = stored[f]
    BY DEF AgreeOK, Storing, Idle
  <2>3. PICK s \in snapshot : openPage = "configure" => s.token = shown.token
    BY <2>2 DEF PageOK, FormOK
  <2>4. ASSUME f \notin DOMAIN Payload PROVE FieldIn(openPage, NextShown(Payload), f) = stored[f]
    <3>1. f = "token" /\ FieldIn(openPage, NextShown(Payload), f) = shown.token
      BY <2>4, PayloadTypes
    <3>2. openPage = "configure" /\ stored[f] = s.token
      BY <2>2, <2>3, <3>1 DEF FieldIn, FieldsOf, PageOK
    <3> QED
      BY <2>3, <3>1, <3>2
  <2> QED
    BY <2>2, <2>4
<1> QED
  BY <1>1, <1>2, <1>3, <1>4, <1>5

LEMMA ServerRejectsInv ==
    ASSUME PagesInv, ServerRejects
    PROVE  PagesInv'
<1> USE DEF PagesInv, ServerRejects, EndSave, formVars, boundVars
<1>1. PageOK'
  BY DEF PageOK, PutOK, FormOK, FormOf, AnyMode, AnyToken
<1>2. StoredOK'
  BY DEF StoredOK
<1>3. GetOK'
  BY DEF GetOK, PageOK, PutOK, StoredOK, Idle, FormOf, StoredOn
<1>4. PutOK'
  BY DEF PutOK, PutTyped, PutOfPage, PageOK, GetOK, Idle
<1>5. AgreeOK'
  <2>1. Storing => put.left = DOMAIN put.fields
    BY DEF Storing, PutOK, PutTyped, Rejected
  <2> QED
    BY <2>1 DEF AgreeOK, Storing, Idle, PutOK, PutTyped
<1> QED
  BY <1>1, <1>2, <1>3, <1>4, <1>5

LEMMA PutFailsInv ==
    ASSUME PagesInv, PutFails
    PROVE  PagesInv'
<1> USE DEF PagesInv, PutFails, EndSave, Failure, formVars, boundVars
<1>1. PageOK'
  BY DEF PageOK, PutOK, FormOK, FormOf, AnyMode, AnyToken
<1>2. StoredOK'
  BY DEF StoredOK
<1>3. GetOK'
  BY DEF GetOK, PageOK, PutOK, StoredOK, Idle, FormOf, StoredOn
<1>4. PutOK'
  BY DEF PutOK, PutTyped, PutOfPage, PageOK, GetOK, Idle
<1>5. AgreeOK'
  BY DEF AgreeOK, Storing, Idle
<1> QED
  BY <1>1, <1>2, <1>3, <1>4, <1>5

LEMMA OthersSaveInv ==
    ASSUME PagesInv, OthersSave
    PROVE  PagesInv'
<1> USE DEF PagesInv, OthersSave, formVars, boundVars
<1>1. PageOK'
  BY DEF PageOK, PutOK, FormOK, FormOf, AnyMode, AnyToken
<1>2. StoredOK'
  <2>1. \A k \in CloudKeys, r \in Roles : <<[key |-> k, role |-> r]>> \in Seq(Rows)
    <3> SUFFICES ASSUME NEW k \in CloudKeys, NEW r \in Roles
                 PROVE  <<[key |-> k, role |-> r]>> \in Seq(Rows)
      OBVIOUS
    <3>1. [key |-> k, role |-> r] \in Rows
      BY DEF Rows
    <3> DEFINE row == [key |-> k, role |-> r]
    <3> HIDE DEF row
    <3>2. <<row>> \in Seq(Rows)
      BY <3>1 DEF row
    <3> QED
      BY <3>2 DEF row
  <2> QED
    BY <2>1 DEF StoredOK, AnyMode, AnyToken, Roles
<1>3. GetOK'
  BY DEF GetOK, PageOK, PutOK, StoredOK, Idle, FormOf, StoredOn
<1>4. PutOK'
  BY DEF PutOK, PutTyped, PutOfPage, PageOK, GetOK, Idle
<1>5. AgreeOK'
  BY DEF AgreeOK, Storing, GetOK, PageOK, PutOK, FieldsOf, FieldIn, StoredOn
<1> QED
  BY <1>1, <1>2, <1>3, <1>4, <1>5

LEMMA UsageArrivesInv ==
    ASSUME PagesInv, UsageArrives
    PROVE  PagesInv'
<1> USE DEF PagesInv, UsageArrives, EndSave, Failure, formVars, boundVars
<1>1. PageOK'
  BY DEF PageOK, PutOK, FormOK, FormOf, AnyMode, AnyToken
<1>2. StoredOK'
  BY DEF StoredOK
<1>3. GetOK'
  BY DEF GetOK, PageOK, PutOK, StoredOK, Idle, FormOf, StoredOn
<1>4. PutOK'
  BY DEF PutOK, PutTyped, PutOfPage, PageOK, GetOK, Idle
<1>5. AgreeOK'
  BY DEF AgreeOK, Storing, Idle
<1> QED
  BY <1>1, <1>2, <1>3, <1>4, <1>5

LEMMA ServerPutsInv ==
    ASSUME PagesInv, ServerPuts
    PROVE  PagesInv'
<1> USE DEF PagesInv, formVars, boundVars
<1>1. PICK f \in put.left :
         /\ stored' = [stored EXCEPT ![f] = put.fields[f]]
         /\ put' = [put EXCEPT !.left = @ \ {f}, !.pc = IF put.left = {f} THEN "served" ELSE "sent"]
  BY DEF ServerPuts
<1>2. /\ put.pc = "sent" /\ sole' = (sole /\ put.here)
      /\ UNCHANGED <<openPage, formVars, get>>
  BY DEF ServerPuts
<1>3. f \in DOMAIN put.fields /\ f \in {"keys", "mode", "token"} /\ put.fields[f] \in ValuesOf(f)
  BY <1>2 DEF PutOK, PutTyped
<1>4. /\ DOMAIN put' = DOMAIN put /\ put'.left = put.left \ {f}
      /\ put'.pc = IF put.left = {f} THEN "served" ELSE "sent"
      /\ put'.fields = put.fields /\ put'.next = put.next /\ put'.here = put.here
  BY <1>1, <1>2 DEF PutOK, PutTyped
<1>5. PageOK'
  BY <1>2 DEF PageOK, PutOK, PutTyped
<1>6. StoredOK'
  BY <1>1, <1>3 DEF StoredOK, ValuesOf
<1>7. GetOK'
  BY <1>2 DEF GetOK, PutOK, PutTyped
<1>8. PutOK'
  BY <1>2, <1>4 DEF PutOK, PutTyped, PutOfPage
<1>9. AgreeOK'
  <2> SUFFICES ASSUME sole, put.here, openPage # "none", get.pc # "served"
               PROVE  /\ snapshot # {}
                      /\ \A g \in FieldsOf(openPage) :
                            /\ g \notin put'.left => FieldIn(openPage, put.next, g) = stored'[g]
                            /\ (g \in DOMAIN put.fields => g \in put'.left)
                               => \A s \in snapshot : FieldIn(openPage, s, g) = stored'[g]
    BY <1>2, <1>4 DEF AgreeOK, Storing
  <2>1. FieldIn(openPage, put.next, f) = put.fields[f] /\ f \in FieldsOf(openPage)
    BY <1>2, <1>3 DEF PutOK, PutOfPage
  <2>2. stored'[f] = put.fields[f] /\ \A g \in FieldsOf(openPage) \ {f} : stored'[g] = stored[g]
    BY <1>1, <1>3 DEF StoredOK, FieldsOf
  <2> QED
    BY <1>2, <1>3, <1>4, <2>1, <2>2 DEF AgreeOK, Storing
<1> QED
  BY <1>5, <1>6, <1>7, <1>8, <1>9

LEMMA PutArrivesInv ==
    ASSUME PagesInv, PutArrives
    PROVE  PagesInv'
<1> USE DEF PagesInv, PutArrives, EndSave, formVars, boundVars
<1>1. PageOK'
  <2>1. UNCHANGED <<openPage, loading, sole>> /\ put.pc = "served"
    OBVIOUS
  <2>2. CASE ~put.here
    BY <2>1, <2>2 DEF PageOK
  <2>3. CASE put.here
    <3>1. /\ openPage # "none" /\ put.next \in FormOf(openPage) /\ snapshot' = {put.next}
          /\ saving' = IF openPage = "keys" THEN saving ELSE FALSE
      BY <2>1, <2>3 DEF PutOK, PutOfPage
    <3>2. /\ draft' \in AnyToken
          /\ shown' = IF openPage = "keys" THEN shown ELSE put.next
      BY <2>1, <2>3 DEF PageOK, AnyToken
    <3>3. FormOK(openPage, shown', {put.next})
      BY <3>1, <3>2 DEF PageOK, FormOK
    <3> QED
      BY <2>1, <3>1, <3>2, <3>3 DEF PageOK
  <2> QED
    BY <2>2, <2>3
<1>2. StoredOK'
  BY DEF StoredOK
<1>3. GetOK'
  BY DEF GetOK, PageOK, PutOK, StoredOK, Idle, FormOf, StoredOn
<1>4. PutOK'
  BY DEF PutOK, PutTyped, PutOfPage, PageOK, GetOK, Idle
<1>5. AgreeOK'
  BY DEF AgreeOK, Storing, PutOK, PutTyped, Idle
<1> QED
  BY <1>1, <1>2, <1>3, <1>4, <1>5

LEMMA PagesInvNext == PagesInv /\ [PagesNext]_pageVars => PagesInv'
<1> SUFFICES ASSUME PagesInv, [PagesNext]_pageVars PROVE PagesInv'
  OBVIOUS
<1>1. CASE UNCHANGED pageVars
  <2> USE <1>1 DEF pageVars, formVars, boundVars
  <2>1. PageOK' /\ StoredOK'
    BY DEF PagesInv, PageOK, StoredOK
  <2>2. GetOK' /\ PutOK'
    BY DEF PagesInv, GetOK, StoredOn, PutOK, PutTyped, PutOfPage
  <2>3. AgreeOK'
    BY DEF PagesInv, AgreeOK, Storing
  <2> QED
    BY <2>1, <2>2, <2>3 DEF PagesInv
<1>2. CASE PagesNext
  BY <1>2, OpenInv, ServerGetsInv, GetArrivesInv, GetFailsInv, ResetInv, LeaveInv, EditsInv,
     TokensInv, HandleSaveInv, ServerRejectsInv, ServerPutsInv, PutArrivesInv, PutFailsInv,
     OthersSaveInv, UsageArrivesInv DEF PagesNext, Roles
<1> QED
  BY <1>1, <1>2

LEMMA PagesInvInit == PagesInit => PagesInv
<1> SUFFICES ASSUME PagesInit PROVE PagesInv
  OBVIOUS
<1>1. StoredOK
  <2>1. PICK n \in 0..MaxKeys : \E s \in [1..n -> [key : CloudKeys \ ShortKeys, role : Roles]] :
           stored = [keys |-> s, mode |-> Unset, token |-> NoToken]
    BY DEF PagesInit, Roles
  <2>2. PICK s \in [1..n -> [key : CloudKeys \ ShortKeys, role : Roles]] :
           stored = [keys |-> s, mode |-> Unset, token |-> NoToken]
    BY <2>1
  <2>3. s \in [1..n -> Rows]
    BY <2>2 DEF Rows
  <2>4. n \in Nat
    BY <2>1, MaxKeysAssumption
  <2>5. s \in Seq(Rows)
    BY <2>3, <2>4, SeqDef
  <2> QED
    BY <2>2, <2>5 DEF StoredOK, AnyMode, AnyToken
<1>2. PageOK /\ GetOK /\ PutOK
  BY DEF PagesInit, PageOK, GetOK, PutOK, PutTyped, PutOfPage, Idle, NotLoaded, AnyToken
<1>3. AgreeOK
  BY DEF PagesInit, AgreeOK, Idle
<1> QED
  BY <1>1, <1>2, <1>3 DEF PagesInv

\* A page that says that nothing is left to save shows what is stored, for any
\* keys, modes and tokens, in whatever order answers, edits, failures and the
\* opening of other pages come.
THEOREM SavedIsStored == PagesSpec => []SavedMeansStored
<1>1. PagesInv => SavedMeansStored
  <2> SUFFICES ASSUME PagesInv, openPage # "none", ~loading, ~saving, snapshot = {shown}, sole
               PROVE  shown = StoredOn(openPage)
    BY DEF SavedMeansStored, Dirty
  <2>1. ~Storing /\ get.pc # "served"
    BY DEF PagesInv, GetOK, PutOK, Storing
  <2>2. \A f \in FieldsOf(openPage) : FieldIn(openPage, shown, f) = stored[f]
    BY <2>1 DEF PagesInv, AgreeOK
  <2>3. shown \in FormOf(openPage) /\ openPage \in {"keys", "configure"}
    BY DEF PagesInv, PageOK, FormOK
  <2>4. CASE openPage = "keys"
    BY <2>2, <2>4 DEF FieldsOf, FieldIn, StoredOn
  <2>5. CASE openPage = "configure"
    <3>1. shown.mode = stored.mode /\ shown.token = stored.token
      BY <2>2, <2>5 DEF FieldsOf, FieldIn
    <3> QED
      BY <2>3, <2>5, <3>1 DEF FormOf, StoredOn
  <2> QED
    BY <2>3, <2>4, <2>5
<1> QED
  BY <1>1, PagesInvInit, PagesInvNext, PTL DEF PagesSpec
=============================================================================
