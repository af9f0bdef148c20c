---------------------------- MODULE MCDashboard ----------------------------
(***************************************************************************)
(* The pages of the admin dashboard, model-checked one at a time: `mode'   *)
(* says which page is used, and for what; the variables of the others keep *)
(* their first values.                                                     *)
(***************************************************************************)
EXTENDS AuditFeed, SettingsPages, VirtualKeysPage

CONSTANTS k1, short

VARIABLE mode

mcVars == <<mode, feedVars, pageVars, keysVars>>

Entry(backend, status, fallback, ms, key, path, date) ==
    [backend |-> backend, status |-> status, fallback |-> fallback, ms |-> ms,
     key |-> key, path |-> path, date |-> date]
MCLog ==
    <<Entry("cloud", 200, TRUE, 999, "a", "x", 5),
      Entry("self-hosted", 500, FALSE, 1000, "b", "y", 18),
      Entry("cache", 404, FALSE, 1, "a", "y", 25)>>

AllFilters ==
    [range : Ranges, day : Days \cup {Any}, month : Months \cup {Any},
     year : Years \cup {Any}, backend : Backends \cup {""}, status : Statuses \cup {""},
     key : ApiKeys \cup {""}, fallback : BOOLEAN, slow : BOOLEAN,
     search : Searches \cup {""}]

Row(k) == [key |-> k, role |-> "cloud"]

\* feed: the log grows and shrinks under a page that is only watched
\* choose: filters are chosen one after another; filters: any have been chosen
\* select: entries are selected and deleted
FeedModes == {"feed", "choose", "filters", "select"}
\* edit: the settings pages
PagesModes == {"edit"}
\* create: virtual keys are created and revoked; limits: their limits are edited
KeysModes == {"create", "limits"}

MCInit ==
    /\ mode \in FeedModes \cup PagesModes \cup KeysModes
    /\ stamped = CASE mode = "feed" -> 1
                   [] mode \in {"choose", "filters", "select"} -> 3
                   [] OTHER -> 0
    /\ IF mode \in {"choose", "select"} THEN pageSize \in PageSizes ELSE pageSize = 1
    /\ IF mode = "filters" THEN filter \in AllFilters ELSE filter = NoFilter
    /\ LogInit /\ TableInit /\ StatsInit /\ PageInit /\ DeletionInit
    /\ PagesInit
    /\ mode # "edit" => stored.keys = <<>>
    /\ KeysInit
    /\ (keys # <<>>) <=> mode = "limits"

FeedModeNext ==
    \/ mode = "feed" /\ (LogStep \/ StatsStep \/ TableStep)
    \/ mode = "choose" /\ (ChooseFilter \/ StatsStep \/ PageStep \/ ServeData \/ DataArrives)
    \/ mode = "filters" /\ StatsStep
    \/ /\ mode = "select"
       /\ SelectStep \/ PageStep \/ DeletionStep \/ ServeData \/ DataArrives
       /\ \E c \in {"entry", "bulk"} : deletion'[c] = None
       /\ UNCHANGED statsTimer

PagesModeNext ==
    /\ PagesNext
    /\ openPage' = "keys" =>
          /\ \A i \in DOMAIN shown' : shown'[i] = Row(short) \/ shown'[i].key = k1
          /\ othersSaves' = 0 \/ failures' = 0

KeysModeNext ==
    \/ \E c \in Sources : ServeList(c) \/ ListArrives(c)
    \/ TimePasses \/ CloseDialog
    \/ /\ mode = "create"
       /\ \/ ShowForm /\ form'.inputs.expires = 2 /\ form'.inputs.limit \in {Bad, 1}
          \/ HandleCreate \/ ServeCreate \/ HandleRevoke \/ ServeRevoke
          \/ FilterKeys \/ TurnKeysPage
          \/ \E c \in {"create", "revoke"} : ChangeArrives(c) \/ ChangeFails(c)
    \/ /\ mode = "limits"
       /\ \/ RefreshKeys /\ editing = NoKey /\ lists["limits"] = NoKey
          \/ EditLimit /\ changes["limits"] = NoKey /\ \A c \in Sources : lists[c] = NoKey
          \/ OpenLimits \/ HandleSaveLimits \/ ServeLimits
          \/ ChangeArrives("limits") \/ ChangeFails("limits") \/ ChangedElsewhere

MCNext ==
    /\ UNCHANGED mode
    /\ \/ mode \in FeedModes /\ FeedModeNext /\ UNCHANGED <<pageVars, keysVars>>
       \/ mode \in PagesModes /\ PagesModeNext /\ UNCHANGED <<feedVars, keysVars>>
       \/ mode \in KeysModes /\ KeysModeNext /\ UNCHANGED <<feedVars, pageVars>>

MCSpec == MCInit /\ [][MCNext]_mcVars /\ FeedFairness
=============================================================================
