---------------------------- MODULE QuotaReport -----------------------------
(* How one credential's quota is read (providers.go): fetchAccountQuota      *)
(* picks a fetcher, the fetcher calls the provider, Antigravity on up to     *)
(* three endpoints, and the answer becomes windows, models, a status and,    *)
(* for Claude, the binding window.  An answer is what its fields hold after  *)
(* decoding: a percentage or none, with fractions as percentages.            *)
EXTENDS Integers, Sequences, SequencesExt

CONSTANTS
  Percent,      \* percentages that answers hold
  Nothing,      \* a null, or a field that holds no number
  Absent,       \* a window that an answer does not have
  Identity,     \* id and display name, "" for none, of the models that limits are scoped to
  SlugOf,       \* the slug of an id or a name: "" without a letter or digit; two may share one
  MaxLimits     \* bound: entries of Claude's limits[]

ASSUME QuotaReportAssumption ==
  /\ Percent \subseteq Int /\ Nothing \notin Int /\ Absent \notin Int \cup {Nothing}
  /\ \A m \in Identity : m.id \in DOMAIN SlugOf /\ m.name \in DOMAIN SlugOf
  /\ MaxLimits \in Nat

VARIABLES
  credential,   \* the credential that is read: its provider and what its file holds
  tries,        \* endpoints asked
  lastErr,      \* lastErr of fetchAntigravityQuota
  quota,        \* the accountQuota; status "unread" until there is one
  asked,        \* history: what became of each request to an endpoint
  said,         \* history: the numbers of the answer's windows or models, as they were sent
  limits        \* history: limits[] of the answer

quotaVars == <<credential, tries, lastErr, quota, asked, said, limits>>

Provider == {"codex", "gemini-cli", "antigravity", "claude", "copilot", "opencode-go", "other"}
Endpoints(p) == IF p = "antigravity" THEN 3 ELSE 1

Cause == {"host", "status", "body"}       \* host error or timeout, non-2xx, no JSON
NoError == [code |-> "", upstream |-> FALSE]
Coded(code) == [code |-> code, upstream |-> FALSE]

\* withFetchError, which shows an upstream status, and withParseError.
ErrorFrom(p, cause) ==
  IF cause = "body" /\ p # "antigravity" THEN Coded("invalid_upstream_response")
  ELSE [code |-> "quota_fetch_failed", upstream |-> cause = "status"]

Account(status, error) ==
  [status |-> status, error |-> error, windows |-> {}, models |-> {}, binding |-> ""]
Unread == Account("unread", NoError)

QuotaInit ==
  /\ credential = [provider |-> "other", indexed |-> TRUE, complete |-> TRUE]
  /\ tries = 0 /\ lastErr = ""
  /\ quota = Unread
  /\ asked = <<>> /\ said = {} /\ limits = <<>>

-----------------------------------------------------------------------------
(* Numbers, windows and their status *)

Clamp(n) == IF n < 0 THEN 0 ELSE IF n > 100 THEN 100 ELSE n
InversePercent(n) == IF n = Nothing THEN Nothing ELSE Clamp(100 - n)
FractionPercent(n) == IF n = Nothing THEN Nothing ELSE Clamp(n)

\* Codex, Claude and OpenCode Go report what is used ...
UsedWindow(id, n) == [id |-> id, used |-> n, remaining |-> InversePercent(n)]
\* ... Copilot what remains, and Gemini what remains as a fraction.
TakenForUsed(id, n) == UsedWindow(id, n)                                  \* (mutant)
RemainingWindow(id, n) == [id |-> id, used |-> InversePercent(n), remaining |-> n]
FractionWindow(id, n) == RemainingWindow(id, FractionPercent(n))
ModelRow(id, n) == [id |-> id, remaining |-> n]

Window(unit, id, n) ==
  CASE unit = "used" -> UsedWindow(id, n)
    [] unit = "remaining" -> RemainingWindow(id, n)
    [] unit = "fraction" -> FractionWindow(id, n)

Observed(row) == row.remaining # Nothing
Remains(row) == Observed(row) /\ row.remaining > 0

\* Each loop stops at the first row with quota left.
StatusFromWindows(windows) ==
  IF \E w \in windows : Remains(w) THEN "available"
  ELSE IF \E w \in windows : Observed(w) THEN "exhausted" ELSE "unknown"

StatusFromModels(models) ==
  IF \E m \in models : Remains(m) THEN "available"
  ELSE IF \E m \in models : Observed(m) THEN "exhausted" ELSE "unknown"

\* Windows and models are looked through for quota left before either is for numbers.
StatusFromClaude(windows, models) ==
  IF (\E w \in windows : Remains(w)) \/ (\E m \in models : Remains(m)) THEN "available"
  ELSE IF (\E w \in windows : Observed(w)) \/ (\E m \in models : Observed(m)) THEN "exhausted"
  ELSE "unknown"

-----------------------------------------------------------------------------
(* fetchAccountQuota and the fetchers *)

Read(p, indexed, complete) ==
  /\ quota.status = "unread" /\ tries = 0
  /\ credential' = [provider |-> p, indexed |-> indexed, complete |-> complete]
  /\ CASE ~indexed -> quota' = Account("error", Coded("missing_auth_index")) /\ tries' = 0
       [] indexed /\ p = "other" -> quota' = Account("unsupported", NoError) /\ tries' = 0
       [] indexed /\ p # "other" /\ ~complete ->
            \/ quota' = Account("error", Coded("auth_read_failed")) /\ tries' = 0
            \/ quota' = Account("error", Coded("credential_incomplete")) /\ tries' = 0
       [] indexed /\ p # "other" /\ complete -> quota' = quota /\ tries' = 1
  /\ UNCHANGED <<lastErr, asked, said, limits>>

Asking == quota.status = "unread" /\ tries > 0
LastEndpoint == tries = Endpoints(credential.provider)

EndpointFails(cause) ==
  /\ Asking
  /\ lastErr' = cause /\ asked' = Append(asked, cause)
  /\ IF LastEndpoint
     THEN quota' = Account("error", ErrorFrom(credential.provider, lastErr')) /\ tries' = tries
     ELSE quota' = quota /\ tries' = tries + 1
  /\ UNCHANGED <<credential, said, limits>>

Answer(status, windows, models, binding) ==
  /\ quota' = [status |-> status, error |-> NoError, windows |-> windows, models |-> models,
               binding |-> binding]
  /\ asked' = Append(asked, "answer")
  /\ UNCHANGED <<credential, tries, lastErr>>

\* The windows of a payload, one for each key it has; nothing depends on their order.
Field == Percent \cup {Nothing, Absent}
Present(ids, fields) == {id \in ids : fields[id] # Absent}
Windows(unit, ids, fields) == {Window(unit, id, fields[id]) : id \in Present(ids, fields)}

\* A number as it was sent, and what it is a part of.
Reading(unit, n, of) == [unit |-> unit, n |-> n, of |-> of]
Readings(unit, ids, fields) ==
  {Reading(unit, fields[id], 100) : id \in Present(ids, fields)}

WindowsAnswer(p, unit, ids) ==
  /\ Asking /\ credential.provider = p
  /\ \E fields \in [ids -> Field] :
       LET windows == Windows(unit, ids, fields)
       IN  /\ Answer(StatusFromWindows(windows), windows, {}, "")
           /\ said' = Readings(unit, ids, fields)
  /\ UNCHANGED limits

CodexIds == {"primary", "secondary", "code_review_primary", "code_review_secondary"}
CodexAnswers == WindowsAnswer("codex", "used", CodexIds)

GeminiIds == {"model-a", "model-b"}
GeminiAnswers == WindowsAnswer("gemini-cli", "fraction", GeminiIds)

CopilotIds == {"premium_interactions", "chat", "completions"}
CopilotAnswers == WindowsAnswer("copilot", "remaining", CopilotIds)

OpenCodeGoIds == {"rolling", "weekly", "monthly"}
OpenCodeGoAnswers == WindowsAnswer("opencode-go", "used", OpenCodeGoIds)

\* The answer of any endpoint counts, whatever failed before it.
AntigravityAnswers ==
  /\ Asking /\ credential.provider = "antigravity"
  /\ \E fields \in [GeminiIds -> Field] :
       LET models == {ModelRow(id, FractionPercent(fields[id])) : id \in Present(GeminiIds, fields)}
       IN  /\ Answer(StatusFromModels(models), {}, models, "")
           /\ said' = Readings("fraction", GeminiIds, fields)
  /\ UNCHANGED limits

-----------------------------------------------------------------------------
(* Claude *)

\* An entry of limits[].
Limit ==
  [kind : {"session", "weekly_all"}, active : BOOLEAN] \cup
  [kind : {"weekly_scoped"}, active : BOOLEAN, weekly : BOOLEAN,
   percent : {0, 100, Nothing}, model : Identity]

\* claudeSlug of the id or else of the display name.
Slug(limit) == SlugOf[IF limit.model.id # "" THEN limit.model.id ELSE limit.model.name]

NamedOnly(limit) == limit.model.name                                      \* (mutant)
ScopedSlug(limit) == Slug(limit)

Listed(limit) ==
  /\ limit.kind = "weekly_scoped" /\ limit.weekly
  /\ limit.percent # Nothing /\ limit.model.name # "" /\ Slug(limit) # ""

\* parseClaudeScopedLimits: the first limit of each slug.
ScopedModels(all) ==
  LET First(i) == /\ Listed(all[i])
                  /\ \A j \in 1..(i - 1) :
                       Listed(all[j]) => ScopedSlug(all[j]) # ScopedSlug(all[i])
  IN  {ModelRow(ScopedSlug(all[i]), InversePercent(all[i].percent)) :
         i \in {k \in DOMAIN all : First(k)}}

\* parseClaudeExtraUsage: credits used of a limit, as a window of their own.
ExtraWindow(extra) ==
  IF extra = Nothing \/ extra.limit <= 0 THEN {}
  ELSE {UsedWindow("extra", Clamp((extra.credits * 100) \div extra.limit))}

Names(limit) == limit.active /\ (limit.kind = "weekly_scoped" => Slug(limit) # "")

\* parseClaudeBindingWindow: the first active limit that names a window.
FirstNaming(all, i) == Names(all[i]) /\ \A j \in 1..(i - 1) : ~Names(all[j])

WindowNamed(limit) ==
  CASE limit.kind = "session" -> "five_hour"
    [] limit.kind = "weekly_all" -> "seven_day"
    [] limit.kind = "weekly_scoped" -> Slug(limit)

Binding(all) ==
  IF \E i \in DOMAIN all : Names(all[i])
  THEN WindowNamed(all[CHOOSE i \in DOMAIN all : FirstNaming(all, i)])
  ELSE ""

ClaudeIds == {"five_hour", "seven_day"}
ClaudeFields == [five_hour : {0, 100, Nothing, Absent}, seven_day : {100, Absent}]
ExtraUsage == {Nothing} \cup [credits : {5}, limit : {0, 5, 6}]

ExtraReading(extra) ==
  IF extra = Nothing \/ extra.limit <= 0 THEN {} ELSE {Reading("used", extra.credits, extra.limit)}

ClaudeAnswers ==
  /\ Asking /\ credential.provider = "claude"
  /\ \E fields \in ClaudeFields, all \in BoundedSeq(Limit, MaxLimits), extra \in ExtraUsage :
       LET windows == Windows("used", ClaudeIds, fields) \cup ExtraWindow(extra)
           models == ScopedModels(all)
       IN  /\ Answer(StatusFromClaude(windows, models), windows, models, Binding(all))
           /\ said' = Readings("used", ClaudeIds, fields) \cup ExtraReading(extra)
           /\ limits' = all

\* The next credential.
ReadNext ==
  /\ quota.status # "unread"
  /\ quota' = Unread /\ tries' = 0 /\ lastErr' = ""
  /\ asked' = <<>> /\ said' = {} /\ limits' = <<>>
  /\ UNCHANGED credential

QuotaNext ==
  \/ \E p \in Provider, indexed, complete \in BOOLEAN : Read(p, indexed, complete)
  \/ \E cause \in Cause : EndpointFails(cause)
  \/ CodexAnswers \/ GeminiAnswers \/ CopilotAnswers \/ OpenCodeGoAnswers
  \/ AntigravityAnswers \/ ClaudeAnswers
  \/ ReadNext

QuotaSpec == QuotaInit /\ [][QuotaNext]_quotaVars

-----------------------------------------------------------------------------
(* Properties *)

\* What the answer said that may count: of the limits that share a slug, the first.
Shown(all, i) ==
  Listed(all[i]) /\ \A j \in 1..(i - 1) : Listed(all[j]) => Slug(all[j]) # Slug(all[i])
Told == said \cup {Reading("used", limits[i].percent, 100) : i \in {k \in DOMAIN limits : Shown(limits, k)}}

Number(r) == r.n # Nothing
Left(r) == Number(r) /\ IF r.unit = "used" THEN r.n < r.of ELSE r.n > 0

Failed(i) == asked[i] # "answer"

\* The status is true of the numbers that the provider sent, in the provider's own
\* terms (used, remaining, a fraction, credits of a limit), on whichever endpoint it
\* answered and whatever failed before.  An error is shown when every endpoint failed,
\* and it is the last one's; one that was answered leaves no error behind.
StatusTellsQuota ==
  /\ quota.status = "available" => \E r \in Told : Left(r)
  /\ quota.status = "exhausted" => (\E r \in Told : Number(r)) /\ ~\E r \in Told : Left(r)
  /\ quota.status = "unknown" => ~\E r \in Told : Number(r)
  /\ quota.status = "error" /\ asked # <<>> =>
       /\ Len(asked) = Endpoints(credential.provider) /\ \A i \in DOMAIN asked : Failed(i)
       /\ quota.error = ErrorFrom(credential.provider, asked[Len(asked)])
  /\ (\E i \in DOMAIN asked : ~Failed(i)) => quota.status # "error" /\ quota.error = NoError

\* The binding window and the models are read from limits[] by two functions with
\* conditions of their own: when the limit that binds is one that is listed, the id
\* in binding_window is the id of a row of models.
BindingIsListed ==
  \A i \in DOMAIN limits :
    FirstNaming(limits, i) /\ Listed(limits[i])
    => \E model \in quota.models : model.id = quota.binding
=============================================================================
