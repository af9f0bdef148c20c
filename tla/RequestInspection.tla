-------------------------- MODULE RequestInspection --------------------------
(***************************************************************************)
(* What the gateway reads off a request before it routes it: which facts   *)
(* in it restrict falling back to Cloud, and whether only Cloud can serve  *)
(* it (proxy/policy.ts, common/utils.ts, privacyHeaders() of               *)
(* proxy/proxy.service.ts).                                                *)
(*                                                                         *)
(* walk() visits a JSON body to any depth, so a body is the set of what it *)
(* meets: nothing, if the body is absent or not declared to be JSON.       *)
(***************************************************************************)
EXTENDS FiniteSets

CONSTANTS HeaderSets,     \* bound: the headers that requests come with
          Bodies          \* bound: what their bodies hold

Headers == {"authorization", "cookie"}
\* "secret header": a field of an object named headers that is named like a
\* credential; "private url": a string that is the URL of a private host;
\* "cloud option": actions, agent, enterprise, or a stealth or enhanced proxy.
Findings == {"secret header", "private url", "cloud option"}

ASSUME ContentsAssumption == HeaderSets \subseteq SUBSET Headers /\ Bodies \subseteq SUBSET Findings

\* admin: it comes from the playground, with a session instead of a key.
Requests == [path : {"any", "cloud only"}, authEnabled : BOOLEAN, admin : BOOLEAN,
             headers : HeaderSets, body : Bodies]

\* Mutant: the cookie is taken for the gateway's own whoever sent it.
PrivacyHeadersNoCookie(r) ==
    IF ~r.authEnabled THEN r.headers ELSE r.headers \ {"authorization", "cookie"}

\* The gateway's own credentials are not the client's: the Bearer key and, from
\* the playground, the session's cookie.
PrivacyHeaders(r) ==
    IF ~r.authEnabled THEN r.headers
    ELSE r.headers \ ({"authorization"} \cup IF r.admin THEN {"cookie"} ELSE {})

HasSensitiveHeaders(r) ==
    PrivacyHeaders(r) \cap {"authorization", "cookie"} # {} \/ "secret header" \in r.body

\* collectTargetUrls() finds the strings, hasPrivateTargetUrl() the private hosts.
HasPrivateTargetUrl(r) == "private url" \in r.body

Sensitive(r) == HasSensitiveHeaders(r) \/ HasPrivateTargetUrl(r)

CloudOnlyPath(r) == r.path = "cloud only"

NeedsCloud(r) == CloudOnlyPath(r) \/ "cloud option" \in r.body
=============================================================================
