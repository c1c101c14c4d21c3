---------------------------- MODULE ModelCatalog ----------------------------
(* Model registration of the auth plugin (authplugin/main.go, discovery.go,  *)
(* modelmeta.go): for each credential the plugin revalidates its reasoning   *)
(* metadata and then lists the provider's models.  Both are HTTP calls of    *)
(* the host that the plugin gives up after a timeout: the answer of such a   *)
(* call goes to a channel nobody reads.  A critical section of one of the    *)
(* plugin's locks is one action.  A model list stands for the credential and *)
(* base URL it was discovered with.  A registry publishes editions, each with *)
(* an ETag of the registry's own making and with levels that other editions, *)
(* of a mirror say, may share.  A call that returns from "build" returns a   *)
(* list, any other an error; model.static reads any cached list and changes  *)
(* nothing.                                                                  *)
EXTENDS Naturals, FiniteSets

CONSTANTS
  Thread,       \* host threads inside the plugin
  Auth,         \* credentials, each with its own API key
  Keyless,      \* those whose auth carries no api_key attribute
  Base,         \* provider base URLs
  Url,          \* metadata registries
  Config,       \* settings the host may apply
  InitConfig,   \* settings at the start
  OwnBase,      \* base URL a credential file names, or NoBase
  NoBase,
  MaxVersion,   \* bound: editions of a registry
  Editions,     \* ETag and levels of each edition of each registry
  MaxCalls,     \* bound: calls of model.for_auth
  MaxApply      \* bound: reconfigurations

Off == "off"
Edition == [etag : Nat \ {0}, levels : Nat \ {0}]
ConfigShape == [base : Base, pinned : BOOLEAN, metadata : Url \cup {Off}]

ASSUME CatalogAssumption ==
  /\ Keyless \subseteq Auth
  /\ NoBase \notin Base /\ Off \notin Url
  /\ Config \subseteq ConfigShape /\ InitConfig \in Config
  /\ OwnBase \in [Auth -> Base \cup {NoBase}]
  /\ Editions \in [Url -> [1..MaxVersion -> Edition]]
  /\ \A u \in Url : \A v, w \in 1..MaxVersion :
       Editions[u][v].etag = Editions[u][w].etag => Editions[u][v].levels = Editions[u][w].levels
  /\ MaxVersion \in Nat \ {0} /\ MaxCalls \in Nat /\ MaxApply \in Nat

VARIABLES
  config,       \* activeConfig
  stamped,      \* the base_url attribute of each auth, NoBase until auth.parse
  cache,        \* discoveryCache: the list of each credential and base URL
  overlay,      \* metadataStore: ETag and levels
  pc,           \* where each thread is
  call,         \* what it is asked and what it holds
  published,    \* edition of each registry
  known,        \* history: keys that were ever discovered
  told,         \* history: levels that the last answer of a registry spoke of
  calls, applied

overlayVars == <<cache, overlay, known, told>>
worldVars == <<config, stamped, published, applied>>
catalogVars == <<overlayVars, worldVars, pc, call, calls>>

Key == Auth \X Base
None == 0                                   \* no list, no levels, no ETag
NoEdition == [etag |-> None, levels |-> None]
NoList == <<>>
NoCall == [auth |-> Off, config |-> InitConfig, base |-> Off, etag |-> None, got |-> NoEdition,
           list |-> NoList]

\* Where a call goes for its models: the attribute stamped by auth.parse, or the
\* setting for an auth that carries none.
BaseFor(a) == IF stamped[a] = NoBase THEN config.base ELSE stamped[a]
AnyBase(k) == <<k[1], CHOOSE b \in Base : TRUE>>                  \* (mutant)
CacheKey(k) == k

CatalogInit ==
  /\ config = InitConfig
  /\ stamped = [a \in Auth |-> NoBase]
  /\ cache = [k \in Key |-> NoList]
  /\ overlay = NoEdition
  /\ pc = [t \in Thread |-> "idle"]
  /\ call = [t \in Thread |-> NoCall]
  /\ published = [u \in Url |-> 1]
  /\ known = {} /\ told = None
  /\ calls = 0 /\ applied = 0

Goto(t, place) == pc' = [pc EXCEPT ![t] = place]
Hold(t, place, c) ==
  /\ Goto(t, place)
  /\ call' = [call EXCEPT ![t] = [c EXCEPT !.etag = None, !.got = NoEdition]]
Return(t) ==
  /\ Goto(t, "idle")
  /\ call' = [call EXCEPT ![t] = NoCall]

\* What comes after the metadata: the pinned models, discovery, or an error for
\* an auth without a key.
Proceed(t, c) ==
  IF c.config.pinned THEN Hold(t, "build", c)
  ELSE IF c.auth \in Keyless THEN Return(t)
  ELSE Hold(t, "discover", c)

-----------------------------------------------------------------------------
(* modelsForAuth *)

ForAuth(t, a) ==
  /\ pc[t] = "idle" /\ calls < MaxCalls
  /\ calls' = calls + 1
  /\ LET c == [auth |-> a, config |-> config, base |-> BaseFor(a),
               etag |-> None, got |-> NoEdition, list |-> NoList]
     IN  IF config.metadata = Off THEN Proceed(t, c) ELSE Hold(t, "revalidate", c)
  /\ UNCHANGED <<overlayVars, worldVars>>

\* fetchModelMetadata: the ETag that is sent is the store's, whichever URL it is from.
Revalidate(t) ==
  /\ pc[t] = "revalidate"
  /\ call' = [call EXCEPT ![t].etag = overlay.etag]
  /\ Goto(t, "metadata")
  /\ UNCHANGED <<overlayVars, worldVars, calls>>

\* What the registry that a call asks has now.
Current(t) == LET u == call[t].config.metadata IN Editions[u][published[u]]

\* A registry answers 304 to its own current ETag, wherever the caller has it from,
\* and 200 otherwise.  An answer to a tag that was replaced since speaks of no
\* levels in the store.
NotModified(t) ==
  /\ pc[t] = "metadata"
  /\ call[t].etag # None /\ call[t].etag = Current(t).etag
  /\ told' = IF call[t].etag = overlay.etag THEN Current(t).levels ELSE told
  /\ Proceed(t, call[t])
  /\ UNCHANGED <<cache, overlay, known, worldVars, calls>>

RegistryAnswers(t) ==
  /\ pc[t] = "metadata"
  /\ call[t].etag = None \/ call[t].etag # Current(t).etag
  /\ call' = [call EXCEPT ![t].got = Current(t)]
  /\ Goto(t, "levels")
  /\ UNCHANGED <<overlayVars, worldVars, calls>>

Stored(t, tag) == [etag |-> tag, levels |-> call[t].got.levels]

\* A registry may send no ETag.
StoreOverlay(t) ==
  /\ pc[t] = "levels"
  /\ \E tag \in {None, call[t].got.etag} : overlay' = Stored(t, tag)
  /\ told' = call[t].got.levels
  /\ Proceed(t, call[t])
  /\ UNCHANGED <<cache, known, worldVars, calls>>

MetadataError(t) == Proceed(t, call[t]) /\ UNCHANGED overlay
FailTheCall(t) == Return(t) /\ UNCHANGED overlay                  \* (mutant)
KeepTheTag(t) ==                                                  \* (mutant)
  Proceed(t, call[t]) /\ overlay' = [overlay EXCEPT !.etag = call[t].got.etag]
OnMetadataError(t) == MetadataError(t)

\* Errors, non-2xx, a body that cannot be read, or the timeout: logged, and the
\* levels stay as they are, with the ETag they came with.
MetadataFails(t) ==
  /\ pc[t] \in {"metadata", "levels"}
  /\ OnMetadataError(t)
  /\ UNCHANGED <<cache, known, told, worldVars, calls>>

CallKey(t) == <<call[t].auth, call[t].base>>

\* A 2xx answer that names at least one model.
ProviderAnswers(t) ==
  /\ pc[t] = "discover"
  /\ call' = [call EXCEPT ![t].list = CallKey(t)]
  /\ Goto(t, "listed")
  /\ UNCHANGED <<overlayVars, worldVars, calls>>

PutList(t) ==
  /\ pc[t] = "listed"
  /\ cache' = [cache EXCEPT ![CacheKey(CallKey(t))] = call[t].list]
  /\ known' = known \cup {CallKey(t)}
  /\ Goto(t, "build")
  /\ UNCHANGED <<overlay, told, worldVars, call, calls>>

NeverExpires(t) == pc[t] = "listed"                               \* (mutant)
Expires(t) == pc[t] \in {"discover", "listed"}

Cached(t) == cache[CacheKey(CallKey(t))]

\* Errors, non-2xx, an undecodable or an empty list, or the timeout, which may
\* also win against an answer that has just arrived.
DiscoveryFails(t) ==
  /\ Expires(t)
  /\ IF Cached(t) # NoList
     THEN /\ call' = [call EXCEPT ![t].list = Cached(t)]
          /\ Goto(t, "build")
     ELSE Return(t)
  /\ UNCHANGED <<overlayVars, worldVars, calls>>

\* buildModelResponse: the list or the pinned models, and the overlay's levels.
Build(t) ==
  /\ pc[t] = "build"
  /\ Return(t)
  /\ UNCHANGED <<overlayVars, worldVars, calls>>

-----------------------------------------------------------------------------
(* The host's other calls, and the world outside *)

FileBase(a) == IF OwnBase[a] = NoBase THEN config.base ELSE OwnBase[a]

\* auth.parse stamps the base URL of the file, or else of the present settings.
\* A file without a key makes no auth.
ParseAuth(a) ==
  /\ a \notin Keyless
  /\ stamped' = [stamped EXCEPT ![a] = FileBase(a)]
  /\ UNCHANGED <<overlayVars, config, published, applied, pc, call, calls>>

\* plugin.register and plugin.reconfigure: nothing but the settings changes.
ApplySettings(k) ==
  /\ applied < MaxApply
  /\ applied' = applied + 1
  /\ config' = k
  /\ UNCHANGED <<overlayVars, stamped, published, pc, call, calls>>

RegistryChanges(u) ==
  /\ published[u] < MaxVersion
  /\ published' = [published EXCEPT ![u] = @ + 1]
  /\ UNCHANGED <<overlayVars, config, stamped, applied, pc, call, calls>>

PluginStep(t) ==
  \/ Revalidate(t) \/ StoreOverlay(t) \/ MetadataFails(t)
  \/ PutList(t) \/ DiscoveryFails(t) \/ Build(t)

CatalogNext ==
  \/ \E t \in Thread :
       \/ PluginStep(t) \/ \E a \in Auth : ForAuth(t, a)
       \/ NotModified(t) \/ RegistryAnswers(t) \/ ProviderAnswers(t)
  \/ \E a \in Auth : ParseAuth(a)
  \/ \E k \in Config : ApplySettings(k)
  \/ \E u \in Url : RegistryChanges(u)

CatalogSpec == CatalogInit /\ [][CatalogNext]_catalogVars

\* Goroutines are scheduled and timers fire; no remote party has to answer.
CatalogFairness == \A t \in Thread : WF_catalogVars(PluginStep(t))

-----------------------------------------------------------------------------
(* Properties *)

\* A list that was discovered for one credential at one base URL is never served
\* for another: "Discovery results differ per base URL and per key" (discovery.go).
AnswersAreItsOwn ==
  \A t \in Thread :
    pc[t] = "build" /\ ~call[t].config.pinned => call[t].list = CallKey(t)

\* "a transient fetch failure does not collapse the model list to empty": once a
\* key was discovered, model.for_auth never fails for it again, whatever the
\* provider, the registry and the other threads do.
NeverUnregistered ==
  [][\A t \in Thread :
       pc[t] \notin {"idle", "build"} /\ pc'[t] = "idle"
       => CallKey(t) \notin known \/ call[t].auth \in Keyless]_catalogVars

\* Registries that use one tag for different levels.
Ambiguous(tag) ==
  \E u, w \in Url : \E v, x \in 1..MaxVersion :
    /\ Editions[u][v].etag = tag /\ Editions[w][x].etag = tag
    /\ Editions[u][v].levels # Editions[w][x].levels

\* The store has the levels that the last answer spoke of, whatever registries were
\* asked before, in whatever order two calls store what they got, and with or without
\* an ETag: a 304 never confirms levels which the registry that sends it does not
\* publish.  The ETag is sent to any registry, hence the exception.
LevelsAreCurrent == told \in {None, overlay.levels} \/ Ambiguous(overlay.etag)

\* Every call returns, although providers and registries may never answer.
ForAuthReturns == \A t \in Thread : pc[t] # "idle" ~> pc[t] = "idle"

\* "Set to "off" to register models without thinking metadata" (authplugin/main.go).
OffMeansOff ==
  \A t \in Thread :
    pc[t] = "build" /\ call[t].config.metadata = Off => overlay.levels = None
=============================================================================
