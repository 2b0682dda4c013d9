---------------------------- MODULE DeliverableCheck ----------------------------
(***************************************************************************)
(* The inspection of a deliverable before it is submitted                  *)
(* (dashboard/lib/validator.ts, DeliverableValidator.validate), one action *)
(* per answer it waits for.  Name resolution, the reputation services and  *)
(* the remote host are external.                                           *)
(*                                                                         *)
(* A deliverable is what validate can tell of it without asking anyone.    *)
(***************************************************************************)

CONSTANTS safeBrowsingApiKey, virusTotalApiKey      \* whether they are set

ASSUME CheckAssumption == {safeBrowsingApiKey, virusTotalApiKey} \subseteq BOOLEAN

Deliverables == {"empty", "malformed", "otherScheme", "https", "badCid", "ipfs"}

WarningCode ==
    {"INVALID_URI", "DISALLOWED_SCHEME", "MALFORMED_URL", "MALICIOUS_URL",
     "REPUTATION_CHECK_FAILED", "INVALID_CID", "SSRF_BLOCKED", "OVERSIZED_DELIVERABLE",
     "INVALID_MIME_TYPE", "FETCH_FAILED", "UNKNOWN_CONTENT_LENGTH"}

VARIABLES
    deliverable,
    at,             \* what is waited for
    warnings        \* warning codes so far

checkVars == <<deliverable, at, warnings>>

CheckStart(d) == deliverable = d /\ at = "start" /\ warnings = {}
CheckInit == \E d \in Deliverables : CheckStart(d)

\* The verdict: what could not be looked up counts for the deliverable.
valid == warnings \cap (WarningCode \ {"REPUTATION_CHECK_FAILED", "FETCH_FAILED",
                                       "UNKNOWN_CONTENT_LENGTH"}) = {}

Ends(codes) == at' = "done" /\ warnings' = warnings \cup codes /\ UNCHANGED deliverable
Awaits(next, codes) == at' = next /\ warnings' = warnings \cup codes /\ UNCHANGED deliverable

\* validate: what the text alone shows.
Parse ==
    /\ at = "start"
    /\ \/ deliverable = "empty" /\ Ends({"INVALID_URI"})
       \/ deliverable = "malformed" /\ Ends({"MALFORMED_URL"})
       \/ deliverable = "otherScheme" /\ Ends({"DISALLOWED_SCHEME"})
       \/ deliverable = "badCid" /\ Ends({"INVALID_CID"})
       \/ deliverable \in {"https", "ipfs"} /\ Awaits("host", {})

\* validateIpfs with a gateway that is no URL.
BadGateway == at = "start" /\ deliverable = "ipfs" /\ Ends({"FETCH_FAILED"})

\* validateHttps asks VirusTotal last.
AfterBrowsing == IF virusTotalApiKey THEN "virusTotal" ELSE "done"

\* assertHostIsPublic: an address or a name, of the host or of the gateway.  A name that
\* is local, does not resolve, or resolves to a private address too is refused.
HostIsNotPublic == at = "host" /\ Ends({"SSRF_BLOCKED"})
HostIsPublic ==
    /\ at = "host"
    /\ Awaits(CASE deliverable = "ipfs" -> "head"
                [] deliverable # "ipfs" /\ safeBrowsingApiKey -> "safeBrowsing"
                [] OTHER -> AfterBrowsing, {})

\* checkSafeBrowsing: a flagged URL is still looked up in the other service.
SafeBrowsingAnswers(codes) ==
    /\ at = "safeBrowsing"
    /\ codes \in {{}, {"MALICIOUS_URL"}, {"REPUTATION_CHECK_FAILED"}}
    /\ Awaits(AfterBrowsing, codes)

\* checkVirusTotal: the URL is handed in; without an id for the analysis nothing is known.
VirusTotalTakes == at = "virusTotal" /\ Awaits("analysis", {})
VirusTotalFails(codes) ==
    /\ at = "virusTotal" /\ codes \in {{}, {"REPUTATION_CHECK_FAILED"}} /\ Ends(codes)
\* The analysis may not have been made yet: no engine has flagged the URL.
AnalysisAnswers(codes) ==
    /\ at = "analysis"
    /\ codes \in {{}, {"MALICIOUS_URL"}, {"REPUTATION_CHECK_FAILED"}} /\ Ends(codes)

\* inspectRemoteContent: HEAD, and GET for one byte when it throws.  The timer that
\* ends the first one ends the second at once.
HeadThrows == at = "head" /\ Awaits("get", {})
NoAnswer == at = "get" /\ Ends({"FETCH_FAILED"})

\* A redirect is checked and not followed: response.ok is false for it.
Redirected(codes) ==
    /\ at \in {"head", "get"}
    /\ codes \in {{"FETCH_FAILED"}, {"DISALLOWED_SCHEME"}} /\ Ends(codes)
RedirectedToHost == at \in {"head", "get"} /\ Awaits("redirect", {})
RedirectChecked(codes) ==
    /\ at = "redirect" /\ codes \in {{"SSRF_BLOCKED"}, {"FETCH_FAILED"}} /\ Ends(codes)

RemoteRefuses == at \in {"head", "get"} /\ Ends({"FETCH_FAILED"})
\* Type and size are both looked at.
RemoteAnswers(type, size) ==
    /\ at \in {"head", "get"}
    /\ type \in {{}, {"INVALID_MIME_TYPE"}}
    /\ size \in {{}, {"OVERSIZED_DELIVERABLE"}, {"UNKNOWN_CONTENT_LENGTH"}}
    /\ Ends(type \cup size)

CheckNext ==
    \/ Parse \/ BadGateway \/ HostIsNotPublic \/ HostIsPublic \/ VirusTotalTakes
    \/ HeadThrows \/ NoAnswer \/ RedirectedToHost \/ RemoteRefuses
    \/ \E codes \in SUBSET {"MALICIOUS_URL", "REPUTATION_CHECK_FAILED", "FETCH_FAILED",
                            "DISALLOWED_SCHEME", "SSRF_BLOCKED"} :
         \/ SafeBrowsingAnswers(codes) \/ VirusTotalFails(codes) \/ AnalysisAnswers(codes)
         \/ Redirected(codes) \/ RedirectChecked(codes)
    \/ \E type \in {{}, {"INVALID_MIME_TYPE"}},
          size \in {{}, {"OVERSIZED_DELIVERABLE"}, {"UNKNOWN_CONTENT_LENGTH"}} :
         RemoteAnswers(type, size)

CheckTypeOK ==
    /\ deliverable \in Deliverables /\ warnings \subseteq WarningCode
    /\ at \in {"start", "host", "safeBrowsing", "virusTotal", "analysis", "head", "get",
               "redirect", "done"}
=============================================================================
