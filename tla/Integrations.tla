---------------------------- MODULE Integrations ----------------------------
(***************************************************************************)
(* driver/tools/integrations.py: connect_integration, its Telegram flow and*)
(* connect_integration_direct.  A call opens the provider's page in the    *)
(* front window of the user's Chrome, asks the page in front whether       *)
(* somebody is logged in, reads the cookie file of profile Default and     *)
(* posts what it read; the user goes on using the browser meanwhile.  The  *)
(* window may be of another profile, and the file lags behind the pages.   *)
(***************************************************************************)
EXTENDS Naturals

CONSTANTS
  MaxConnects    \* bound: calls

ASSUME IntegrationsAssumption == MaxConnects \in Nat

Flows   == {"cookie_export", "telegram_app", "direct"}
Entries == {"usable", "incomplete", "other_flow", "absent"}

Profiles == {"Default", "other"}

VARIABLES
  front,         \* the page in front is the provider's
  window,        \* the profile of the front window
  sessions,      \* the profiles that are logged in
  file,          \* whose cookies Default's file has: "Default", or "visitor"
  cache,         \* the registry's entry in _REGISTRY_CACHE; "none"
  ipc, flow, entry,
  cookies,       \* read so far: "none", "visitor", or the profile they log in
  keys,          \* of localStorage: "none", or the profile they log in
  answered,      \* the tool result: "none", "ok", or the code of an error
  sent,          \* the cookies and keys that left the machine: <<>>, <<cookies, keys>>
  \* History:
  connects, disturbed,
  agreed         \* when the page was asked, the file was up to date and its window's

userVars    == <<front, window, sessions, file>>
connectVars == <<userVars, cache, ipc, flow, entry, cookies, keys, answered, sent, connects, disturbed, agreed>>
fetchVars   == <<cache, entry>>
readVars    == <<cookies, keys>>

Step(from, to) == ipc = from /\ ipc' = to /\ UNCHANGED <<flow, answered, connects, disturbed>>

Ends(from, code) ==
  ipc = from /\ ipc' = "idle" /\ answered' = code /\ UNCHANGED <<flow, connects, disturbed>>

\* What the user, another tab or the site itself does.
UserActs ==
  /\ \/ front' = ~front /\ UNCHANGED <<window, sessions>>
     \/ window' \in Profiles /\ UNCHANGED <<front, sessions>>
     \/ sessions' \in SUBSET Profiles /\ UNCHANGED <<front, window>>
  /\ disturbed' = TRUE
  /\ UNCHANGED <<file, fetchVars, readVars, ipc, flow, answered, sent, connects, agreed>>

\* Chrome writes the cookies of Default to its file now and then.
UpToDate == IF "Default" \in sessions THEN "Default" ELSE "visitor"

CookiesFlushed ==
  /\ file' = UpToDate
  /\ UNCHANGED <<front, window, sessions, fetchVars, readVars, ipc, flow, answered, sent,
                 connects, disturbed, agreed>>

CacheExpires ==
  /\ cache' = "none"
  /\ UNCHANGED <<userVars, entry, readVars, ipc, flow, answered, sent, connects, disturbed, agreed>>

Called(f) ==
  /\ ipc = "idle" /\ connects < MaxConnects /\ connects' = connects + 1
  /\ ipc' = "registry" /\ flow' = f /\ answered' = "none" /\ sent' = <<>>
  /\ cookies' = "none" /\ keys' = "none" /\ disturbed' = FALSE /\ agreed' = FALSE
  /\ UNCHANGED <<userVars, fetchVars>>

fetch_registry ==
  /\ \/ Ends("registry", "registry_unavailable") /\ cache = "none" /\ UNCHANGED fetchVars
     \/ /\ Step("registry", "entry") /\ entry' \in Entries /\ cache \in {"none", entry'}
        /\ cache' = entry'
  /\ UNCHANGED <<userVars, readVars, sent, agreed>>

\* The direct flow needs no login page and knows no flow_kind.
ChooseFlow ==
  /\ \/ Ends("entry", "provider_not_found") /\ entry = "absent"
     \/ Ends("entry", "registry_entry_incomplete") /\ entry = "incomplete"
     \/ Ends("entry", "unsupported_flow_kind") /\ entry = "other_flow" /\ flow # "direct"
     \/ /\ Step("entry", IF flow = "direct" THEN "read" ELSE "open")
        /\ entry = "usable" \/ (entry = "other_flow" /\ flow = "direct")
  /\ UNCHANGED <<userVars, fetchVars, readVars, sent, agreed>>

\* A new tab of the front window.
chrome_open_url ==
  /\ \/ Ends("open", "chrome_open_failed") /\ UNCHANGED front
     \/ Step("open", "probe") /\ front' = TRUE
  /\ UNCHANGED <<window, sessions, file, fetchVars, readVars, sent, agreed>>

\* Mutant: the verdict of the probe is not looked at.
ProbeIgnored ==
  /\ \/ Ends("probe", "chrome_eval_failed")
     \/ Step("probe", "export")
  /\ agreed' = (window = "Default" /\ file = UpToDate)
  /\ UNCHANGED <<userVars, fetchVars, readVars, sent>>

\* Two seconds after the page was opened; an error reads as nobody logged in, another
\* page in front may say anything.
Probe ==
  /\ \/ Ends("probe", "chrome_eval_failed")
     \/ Ends("probe", "not_logged_in")
     \/ (front => window \in sessions) /\ Step("probe", "export")
  /\ agreed' = (window = "Default" /\ file = UpToDate)
  /\ UNCHANGED <<userVars, fetchVars, readVars, sent>>

\* A site sets cookies for visitors too, or none.
Found == IF file = "Default" THEN {"Default"} ELSE {"visitor", "none"}

\* Mutant: an empty list is posted too.
ExportUnchecked ==
  /\ \/ Ends("export", "export_failed") /\ UNCHANGED cookies
     \/ /\ cookies' \in Found
        /\ Step("export", IF flow = "telegram_app" THEN "dump" ELSE "post")
  /\ UNCHANGED <<userVars, fetchVars, keys, sent, agreed>>

\* Whatever the window's profile, of the file of Default.  Telegram goes on without any.
chrome_export_cookies ==
  /\ \/ Ends("export", "export_failed") /\ UNCHANGED cookies
     \/ /\ cookies' \in Found
        /\ IF flow = "telegram_app" THEN Step("export", "dump")
           ELSE IF cookies' = "none" THEN Ends("export", "no_cookies_exported")
           ELSE Step("export", "post")
  /\ UNCHANGED <<userVars, fetchVars, keys, sent, agreed>>

\* The keys are those of the page in front.
DumpKeys ==
  /\ \/ Ends("dump", "chrome_eval_failed") /\ UNCHANGED keys
     \/ Ends("dump", "no_mtproto_key") /\ UNCHANGED keys
     \/ Step("dump", "post") /\ front /\ window \in sessions /\ keys' = window
  /\ UNCHANGED <<userVars, fetchVars, cookies, sent, agreed>>

\* connect_integration_direct: the first reader that finds anything wins, whether
\* that browser is logged in or not.
ReadStores ==
  /\ cookies' \in {"none", "visitor"} \cup Profiles
  /\ IF cookies' = "none" THEN Ends("read", "no_cookies_found") ELSE Step("read", "post")
  /\ UNCHANGED <<userVars, fetchVars, keys, sent, agreed>>

\* A request that fails may have left, and been heard, all the same.
Post ==
  /\ \/ \E code \in {"ok", "http_error", "post_failed"} : Ends("post", code) /\ sent' = <<cookies, keys>>
     \/ Ends("post", "post_failed") /\ UNCHANGED sent
  /\ UNCHANGED <<userVars, fetchVars, readVars, agreed>>

ConnectInit ==
  /\ front \in BOOLEAN /\ window \in Profiles /\ sessions \in SUBSET Profiles
  /\ file \in {"Default", "visitor"} /\ cache = "none" /\ entry = "absent"
  /\ ipc = "idle" /\ flow = "direct" /\ cookies = "none" /\ keys = "none"
  /\ answered = "none" /\ sent = <<>>
  /\ connects = 0 /\ disturbed = FALSE /\ agreed = FALSE

ConnectNext ==
  \/ UserActs \/ CookiesFlushed \/ CacheExpires \/ fetch_registry \/ ChooseFlow \/ chrome_open_url
  \/ Probe \/ chrome_export_cookies \/ DumpKeys \/ ReadStores \/ Post
  \/ \E f \in Flows : Called(f)

ConnectSpec == ConnectInit /\ [][ConnectNext]_connectVars

-----------------------------------------------------------------------------
\* What the call tells the agent is so.  A call that reports an error of an earlier stage
\* sent nothing; "ok" means that something that can log in went out: cookies, or the keys
\* that Telegram cannot do without.  And a flow that asked the page sends that session's
\* cookies, with that session's keys, if nobody touched the browser and, when the page was
\* asked, the front window was of profile Default and Default's file up to date: the code
\* checks neither, and without them it may send a visitor's cookies, or the cookies of
\* one account with the keys of another.
ConnectIsHonest ==
  /\ answered \notin {"ok", "post_failed", "http_error"} => sent = <<>>
  /\ answered = "ok" => sent[IF flow = "telegram_app" THEN 2 ELSE 1] # "none"
  /\ flow # "direct" /\ ~disturbed /\ agreed /\ sent # <<>> =>
       sent[1] = "Default" /\ sent[2] \in {"none", "Default"}
=============================================================================
