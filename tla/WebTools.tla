------------------------------- MODULE WebTools ------------------------------
(***************************************************************************)
(* The web tools, which run on the host: web_search tries the base URLs of *)
(* its provider one after the other (crates/tools/src/sandbox/             *)
(* web_search.rs), web_fetch reads a body in chunks up to two limits       *)
(* (sandbox/web_fetch.rs), and both test the destination first             *)
(* (sandbox/wasm_runner.rs).  A body is its number of bytes, one character *)
(* each; what a site answers, and which addresses its name has, is chosen  *)
(* when it is asked: the name is looked up for the test, and once more by  *)
(* the client that sends the request.                                      *)
(***************************************************************************)
EXTENDS Naturals, Sequences, SequencesExt, FiniteSets

CONSTANTS
    MaxBytes,    \* WEB_FETCH_MAX_RESPONSE_BYTES
    BodyChars,   \* values of max_body_chars
    MaxBody,     \* bound: the longest body a site sends
    SearchCount  \* results asked for, after the clamp

VARIABLES
    webCall,   \* the tool and its settings
    hosts,     \* base URLs still to try, in order
    tried,     \* history: the hosts tried, what the test saw and what was reached
    got,       \* bytes read of the body, and whether the reader stopped early
    sent,      \* bytes of the body the site has sent
    webResult

webVars == <<webCall, hosts, tried, got, sent, webResult>>

Providers == {"duckduckgo", "google", "searxng", "exa"}
Pending == [status |-> "pending"]
Failed(why) == [status |-> "failed", why |-> why]

\* collect_base_urls and dedupe_base_urls: the single URL, then the list, each
\* once; the provider's own when there is neither.
BaseUrls(provider, single, list) ==
    LET all == single \o list
        given == FoldLeft(LAMBDA acc, h : IF h \in ToSet(acc) THEN acc ELSE Append(acc, h), <<>>, all)
    IN IF given = <<>> /\ provider # "searxng" THEN <<"public">> ELSE given

\* search_provider_from_env, and the settings of WebEgressPolicy.
Settings ==
    [tool : {"search"}, provider : Providers, key : BOOLEAN, strict : BOOLEAN,
     allowed : {{}, {"local"}, {"public"}},
     single : {<<>>, <<"changing">>}, list : {<<>>, <<"changing", "local">>, <<"local", "public">>}]
    \cup [tool : {"fetch"}, format : {"auto", "raw", "text", "metadata"}, type : {"html", "text", "binary", "none"},
          chars : BodyChars, strict : BOOLEAN, allowed : {{}, {"local"}}, to : {"changing", "local"}]

WebInit ==
    /\ webCall \in Settings
    /\ webCall.strict => webCall.allowed # {}   \* from_environment refuses it otherwise
    /\ hosts = IF webCall.tool = "fetch" THEN <<webCall.to>>
               ELSE BaseUrls(webCall.provider, webCall.single, webCall.list)
    /\ tried = <<>> /\ got = [bytes |-> 0, cut |-> FALSE] /\ sent = 0
    /\ webResult = IF hosts = <<>> THEN Failed("no base url") ELSE Pending

\* The addresses a name may have: one may get another between two lookups.
Addresses(h) ==
    CASE h = "local" -> {"local"} [] h = "changing" -> {"public", "local"} [] OTHER -> {"public"}

\* blocked_ip_reason: loopback, private and link-local addresses.
BlockedIp(ip) == ip = "local"

\* parse_and_validate_web_url, resolve_host_ips and enforce_web_target_ips: in
\* strict mode only a host that is allowlisted, then the lookup, which may find
\* nothing; a blocked address only when the host is allowlisted.
DestinationAllowed(h, ips) ==
    /\ webCall.strict => h \in webCall.allowed
    /\ ips # {}
    /\ (\E ip \in ips : BlockedIp(ip)) => h \in webCall.allowed

\* The host is tried: tested with the addresses ips, and when a request is
\* sent, at the address the client's own lookup gives.
Try(h, ips, reached) ==
    tried' = Append(tried, [host |-> h, tested |-> ips, reached |-> reached])

\* build_google_search_request and build_exa_search_request need a key;
\* build_duckduckgo_search_request and build_searxng_search_request do not.
RequestBuilt == webCall.provider \in {"google", "exa"} => webCall.key

\* Mutant: the first URL that fails ends the search.
NextBaseStops ==
    hosts' = <<>> /\ webResult' = Failed("last")

\* fetch_search_payload_with_fallbacks: on to the next URL.
NextBase ==
    /\ hosts' = Tail(hosts)
    /\ webResult' = IF Len(hosts) = 1 THEN Failed("last") ELSE Pending

\* fetch_search_payload_from_base_url: no key or a destination that is not
\* allowed, and nothing is sent; or no answer, a bad status, or a body that
\* should be JSON and is not.
BaseFails ==
    /\ webCall.tool = "search" /\ webResult = Pending
    /\ \E ips \in SUBSET Addresses(hosts[1]) :
          IF RequestBuilt /\ DestinationAllowed(hosts[1], ips)
          THEN \E ip \in Addresses(hosts[1]) : Try(hosts[1], ips, {ip})
          ELSE Try(hosts[1], ips, {})
    /\ NextBase
    /\ UNCHANGED <<webCall, got, sent>>

\* collect_duckduckgo_related_topics: topics without a URL or with one seen
\* already are skipped, until there are enough.
RelatedTopics(listed, topics) ==
    FoldLeft(LAMBDA acc, u : IF Len(acc) >= SearchCount \/ u = "" \/ u \in ToSet(acc)
                             THEN acc ELSE Append(acc, u), listed, topics)

Topics == UNION {[1..n -> {"", "u", "w", "z"}] : n \in 0..3}

\* parse_search_results: a payload that is not JSON is an error of the search,
\* not of the URL, except that searxng's HTML is searched for links.
ParseResults(provider, json, abstract, items) ==
    CASE json /\ provider = "duckduckgo" ->
           [status |-> "ok", urls |-> RelatedTopics(abstract, items)]
      [] json /\ provider # "duckduckgo" ->
           [status |-> "ok", urls |-> SubSeq(items, 1, IF Len(items) < SearchCount THEN Len(items) ELSE SearchCount)]
      [] ~json /\ provider = "searxng" /\ RelatedTopics(<<>>, items) # <<>> ->
           [status |-> "ok", urls |-> RelatedTopics(<<>>, items)]
      [] OTHER -> Failed("payload")

\* The first URL that answers ends the search, also when its page cannot be
\* read as results.
BaseAnswers(json, abstract, items) ==
    /\ webCall.tool = "search" /\ webResult = Pending
    /\ RequestBuilt
    /\ \E ips \in SUBSET Addresses(hosts[1]), ip \in Addresses(hosts[1]) :
          DestinationAllowed(hosts[1], ips) /\ Try(hosts[1], ips, {ip})
    /\ webResult' = ParseResults(webCall.provider, json, abstract, items)
    /\ UNCHANGED <<webCall, hosts, got, sent>>

-----------------------------------------------------------------------------
\* plan_fetch_body_mode.
BodyMode(format, type) ==
    IF format = "metadata" \/ (format = "auto" /\ type = "binary") THEN "metadata"
    ELSE IF format = "text" /\ type = "binary" THEN "error"
    ELSE IF format = "text" \/ (format # "raw" /\ type \in {"html", "text"}) THEN "text"
    ELSE "raw"

\* web_fetch up to the headers: a refused destination, a bad status, and the
\* answers that need no body.
FetchHeaders(ok) ==
    /\ webCall.tool = "fetch" /\ webResult = Pending /\ tried = <<>>
    /\ \E ips \in SUBSET Addresses(webCall.to), ip \in Addresses(webCall.to) :
          LET mode == BodyMode(webCall.format, webCall.type)
              allowed == DestinationAllowed(webCall.to, ips)
          IN /\ webResult' = CASE ~allowed -> Failed("refused")
                               [] ~ok -> Failed("status")
                               [] mode = "error" -> Failed("binary")
                               [] mode = "metadata" -> [status |-> "ok", body |-> 0, truncated |-> FALSE, mode |-> mode]
                               [] OTHER -> Pending
             /\ Try(webCall.to, ips, IF allowed THEN {ip} ELSE {})
    /\ UNCHANGED <<webCall, hosts, got, sent>>

\* read_response_bytes, for one chunk.
TakeChunk(n) ==
    IF got.bytes >= MaxBytes THEN [got EXCEPT !.cut = TRUE]
    ELSE IF n > MaxBytes - got.bytes THEN [bytes |-> MaxBytes, cut |-> TRUE]
    ELSE [got EXCEPT !.bytes = @ + n]

ReadBody(n) ==
    /\ webCall.tool = "fetch" /\ webResult = Pending /\ tried # <<>> /\ ~got.cut
    /\ sent + n <= MaxBody /\ sent' = sent + n
    /\ got' = TakeChunk(n)
    /\ UNCHANGED <<webCall, hosts, tried, webResult>>

\* The end of the body, or of what is read of it: truncate_text, and the
\* payload of build_web_fetch_response.
FinishFetch ==
    /\ webCall.tool = "fetch" /\ webResult = Pending /\ tried # <<>>
    /\ webResult' = [status |-> "ok", mode |-> BodyMode(webCall.format, webCall.type),
                     body |-> IF got.bytes > webCall.chars THEN webCall.chars ELSE got.bytes,
                     truncated |-> got.cut \/ got.bytes > webCall.chars \/ webCall.chars = 0]
    /\ UNCHANGED <<webCall, hosts, tried, got, sent>>

WebNext ==
    \/ BaseFails
    \/ \E json \in BOOLEAN, abstract \in {<<>>, <<"u">>}, items \in Topics : BaseAnswers(json, abstract, items)
    \/ \E ok \in BOOLEAN : FetchHeaders(ok)
    \/ \E n \in 1..2 : ReadBody(n)
    \/ FinishFetch

-----------------------------------------------------------------------------
Bases == BaseUrls(webCall.provider, webCall.single, webCall.list)

\* The base URLs of a search are tried in the order given, each once, and one
\* that cannot be asked, does not answer or answers with a bad status is
\* followed by the next: when no page was got, all of them have been tried.
\* (A page that is not JSON is a page: see PageFailureTriesOn.)
SearchTriesEveryBase ==
    webCall.tool = "search" =>
       /\ [i \in DOMAIN tried |-> tried[i].host] = SubSeq(Bases, 1, Len(tried))
       /\ webResult = Pending => hosts = SubSeq(Bases, Len(tried) + 1, Len(Bases))
       /\ webResult = Failed("last") => Len(tried) = Len(Bases)

\* guidebook 02:252 calls the list "Comma-separated fallback base URLs".  Not
\* kept: a page that is not JSON ends the search (web_search.rs:91-99), with
\* the later URLs untried.
PageFailureTriesOn ==
    webCall.tool = "search" /\ webResult.status = "failed" => Len(tried) = Len(Bases)

\* A blocked address that the settings do not list is reached only when the
\* name had other addresses at the test than when the request was sent.
BlockedWasNotSeen ==
    \A i \in DOMAIN tried : \A ip \in tried[i].reached :
       BlockedIp(ip) /\ tried[i].host \notin webCall.allowed => ip \notin tried[i].tested

\* guidebook 07:156, "Hostnames are resolved to all associated IP addresses
\* before any HTTP request is made.  This prevents DNS rebinding".  Not kept:
\* the client looks the name up again.
BlockedNeverReached ==
    \A i \in DOMAIN tried : \A ip \in tried[i].reached :
       BlockedIp(ip) => tried[i].host \in webCall.allowed

\* A search answers with no more results than asked for; those of duckduckgo,
\* whose abstract and topics repeat each other, are distinct.
SearchResultsDistinct ==
    webCall.tool = "search" /\ webResult.status = "ok" =>
       /\ Len(webResult.urls) <= SearchCount
       /\ webCall.provider = "duckduckgo" => Cardinality(ToSet(webResult.urls)) = Len(webResult.urls)

\* A fetched page is marked as truncated exactly when some of it is missing,
\* for every division of the body into chunks and for bodies that end at one
\* of the two limits.  (A limit of no characters marks an empty page, too.)
TruncationTold ==
    webCall.tool = "fetch" /\ webResult.status = "ok" /\ webResult.mode # "metadata" =>
       (webResult.truncated <=> webResult.body < sent \/ webCall.chars = 0)

\* A search falls back from URL to URL until it has a page and gives up only at
\* the last; no answer has more results than asked for, duckduckgo's none
\* twice; a fetched page says whether it was cut; and a blocked address is only
\* reached where it is listed or was not the one tested.
WebAnswersSound ==
    /\ SearchTriesEveryBase /\ SearchResultsDistinct /\ TruncationTold /\ BlockedWasNotSeen
=============================================================================
