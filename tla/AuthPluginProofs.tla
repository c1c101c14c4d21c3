-------------------------- MODULE AuthPluginProofs --------------------------
(* Theorems about the two parts of the auth plugin, which share no state:    *)
(* ModelCatalog, for any threads, credentials, base URLs, registries,        *)
(* settings and bounds, and StreamPump, for streams of any length in pieces  *)
(* of any size.                                                              *)
EXTENDS ModelCatalog, StreamPump, TLAPS

-----------------------------------------------------------------------------
(* Model discovery.  The inductive invariant says what a call holds at each  *)
(* place of modelsForAuth, that the cache keeps only a key's own list and    *)
(* one for every key that was ever discovered, and that an ETag in the store *)
(* is never kept with other levels than those some registry gave it to.      *)

Place == {"idle", "revalidate", "metadata", "levels", "discover", "listed", "build"}
OverlayShape == [etag : Nat, levels : Nat]
CallShape == [auth : Auth, config : ConfigShape, base : Base, etag : Nat, got : OverlayShape,
              list : Key \cup {NoList}]

CatalogTypes ==
  /\ config \in ConfigShape
  /\ stamped \in [Auth -> Base \cup {NoBase}]
  /\ cache \in [Key -> Key \cup {NoList}]
  /\ overlay \in OverlayShape
  /\ pc \in [Thread -> Place]
  /\ call \in [Thread -> CallShape \cup {NoCall}]
  /\ published \in [Url -> 1..MaxVersion]
  /\ known \subseteq Key

\* Some registry gives these levels this ETag.
IsEdition(e) == \E u \in Url : \E v \in 1..MaxVersion : e = Editions[u][v]

\* What a call holds at each place.
ThreadOK(p, c) ==
  /\ p # "idle" => c \in CallShape
  /\ p \in {"revalidate", "metadata", "levels"} => c.config.metadata \in Url
  /\ p = "levels" => IsEdition(c.got)
  /\ p = "listed" => c.list = <<c.auth, c.base>>
  /\ p = "build" /\ ~c.config.pinned => c.list = <<c.auth, c.base>>

ThreadsOK == \A t \in Thread : ThreadOK(pc[t], call[t])
CacheOwn == \A k \in Key : cache[k] \in {NoList, k}
KnownCached == \A k \in known : cache[k] = k
OverlayOK == (overlay.etag # None => IsEdition(overlay)) /\ LevelsAreCurrent

CatalogInv == CatalogTypes /\ ThreadsOK /\ CacheOwn /\ KnownCached /\ OverlayOK

\* A thread that gives a call up had nothing to serve for it.
HadNothing(t) == call[t].auth \in Keyless \/ CallKey(t) \notin known
Moves(t, p, c) ==
  /\ p \in Place /\ c \in CallShape \cup {NoCall}
  /\ pc' = [pc EXCEPT ![t] = p]
  /\ call' = [call EXCEPT ![t] = c]
  /\ ThreadOK(p, c)
  /\ p = "idle" /\ pc[t] \notin {"idle", "build"} => HadNothing(t)

LEMMA HeldShape ==
  ASSUME NEW c \in CallShape
  PROVE  LET d == [c EXCEPT !.etag = None, !.got = NoEdition]
         IN  d \in CallShape /\ d.auth = c.auth /\ d.config = c.config /\ d.base = c.base
             /\ d.list = c.list
BY DEF CallShape, OverlayShape, NoEdition, None

LEMMA EtagShape ==
  ASSUME NEW c \in CallShape, NEW n \in Nat
  PROVE  LET d == [c EXCEPT !.etag = n] IN d \in CallShape /\ d.config = c.config
BY DEF CallShape

LEMMA GotShape ==
  ASSUME NEW c \in CallShape, NEW n \in OverlayShape
  PROVE  LET d == [c EXCEPT !.got = n]
         IN  d \in CallShape /\ d.config = c.config /\ d.got = n
BY DEF CallShape

LEMMA ListShape ==
  ASSUME NEW c \in CallShape, NEW l \in Key \cup {NoList}
  PROVE  LET d == [c EXCEPT !.list = l]
         IN  d \in CallShape /\ d.auth = c.auth /\ d.base = c.base /\ d.list = l
BY DEF CallShape

LEMMA CallFields ==
  ASSUME NEW c \in CallShape
  PROVE  /\ c.auth \in Auth /\ c.base \in Base /\ <<c.auth, c.base>> \in Key
         /\ c.config \in ConfigShape /\ c.got \in OverlayShape /\ c.list \in Key \cup {NoList}
BY DEF CallShape, Key

LEMMA HoldMoves ==
  ASSUME NEW t, NEW p \in Place, NEW c \in CallShape, Hold(t, p, c), p # "idle",
         p \in {"revalidate", "metadata", "levels"} => c.config.metadata \in Url,
         p # "levels",
         p = "listed" => c.list = <<c.auth, c.base>>,
         p = "build" /\ ~c.config.pinned => c.list = <<c.auth, c.base>>
  PROVE  \E q, d : Moves(t, q, d)
<1> DEFINE d == [c EXCEPT !.etag = None, !.got = NoEdition]
<1>1. /\ d \in CallShape /\ d.auth = c.auth /\ d.config = c.config /\ d.base = c.base
      /\ d.list = c.list
  BY HeldShape
<1>2. pc' = [pc EXCEPT ![t] = p] /\ call' = [call EXCEPT ![t] = d]
  BY DEF Hold, Goto
<1> HIDE DEF d
<1>3. ThreadOK(p, d)
  BY <1>1, Zenon DEF ThreadOK
<1>4. Moves(t, p, d)
  BY <1>1, <1>2, <1>3 DEF Moves
<1> QED BY <1>4

LEMMA ReturnMoves ==
  ASSUME NEW t, Return(t), pc[t] \in {"idle", "build"} \/ HadNothing(t)
  PROVE  \E q, d : Moves(t, q, d)
<1>1. ThreadOK("idle", NoCall)
  BY DEF ThreadOK
<1>2. Moves(t, "idle", NoCall)
  BY <1>1 DEF Moves, Return, Goto, Place
<1> QED BY <1>2

LEMMA ProceedMoves ==
  ASSUME NEW t, NEW c \in CallShape, Proceed(t, c),
         pc[t] = "idle" \/ c = call[t]
  PROVE  \E q, d : Moves(t, q, d)
<1>1. CASE c.config.pinned
  <2>1. Hold(t, "build", c)
    BY <1>1, Zenon DEF Proceed
  <2> QED BY <1>1, <2>1, HoldMoves DEF Place
<1>2. CASE ~c.config.pinned /\ c.auth \in Keyless
  <2>1. Return(t)
    BY <1>2, Zenon DEF Proceed
  <2>2. pc[t] \in {"idle", "build"} \/ HadNothing(t)
    BY <1>2 DEF HadNothing
  <2> QED BY <2>1, <2>2, ReturnMoves
<1>3. CASE ~c.config.pinned /\ c.auth \notin Keyless
  <2>1. Hold(t, "discover", c)
    BY <1>3, Zenon DEF Proceed
  <2> QED BY <2>1, HoldMoves DEF Place
<1> QED BY <1>1, <1>2, <1>3

LEMMA AtPlace ==
  ASSUME CatalogInv, NEW t \in Thread, pc[t] # "idle"
  PROVE  /\ call[t] \in CallShape /\ CallKey(t) \in Key
         /\ CallKey(t) = <<call[t].auth, call[t].base>>
         /\ pc[t] \in {"revalidate", "metadata", "levels"} => call[t].config.metadata \in Url
         /\ pc[t] = "levels" => IsEdition(call[t].got)
         /\ pc[t] = "listed" => call[t].list = CallKey(t)
         /\ pc[t] = "build" /\ ~call[t].config.pinned => call[t].list = CallKey(t)
<1>1. ThreadOK(pc[t], call[t])
  BY DEF CatalogInv, ThreadsOK
<1> QED BY <1>1, CallFields DEF ThreadOK, CallKey

LEMMA BaseForType ==
  ASSUME CatalogTypes, NEW a \in Auth
  PROVE  BaseFor(a) \in Base /\ FileBase(a) \in Base
<1>1. config.base \in Base
  BY DEF CatalogTypes, ConfigShape
<1>2. stamped[a] \in Base \cup {NoBase} /\ OwnBase[a] \in Base \cup {NoBase}
  BY CatalogAssumption DEF CatalogTypes
<1> QED BY <1>1, <1>2 DEF BaseFor, FileBase

-----------------------------------------------------------------------------
\* The steps of modelsForAuth, one lemma each: where the thread goes and what
\* becomes of the cache, the known keys and the overlay.
Keeps == UNCHANGED <<config, stamped, cache, overlay, published, known, told>>

\* A registry's edition, and an ETag that two of them share.
LEMMA EditionShape ==
  ASSUME NEW e, IsEdition(e)
  PROVE  e \in OverlayShape /\ e.etag # None /\ e.levels # None
<1>1. PICK u \in Url : \E v \in 1..MaxVersion : e = Editions[u][v]
  BY DEF IsEdition
<1>2. PICK v \in 1..MaxVersion : e = Editions[u][v]
  BY <1>1
<1>3. Editions[u] \in [1..MaxVersion -> Edition]
  BY CatalogAssumption
<1>4. e \in Edition
  BY <1>2, <1>3
<1> QED BY <1>4 DEF Edition, OverlayShape, None

LEMMA SameTag ==
  ASSUME NEW e, NEW f, IsEdition(e), IsEdition(f), e.etag = f.etag
  PROVE  e.levels = f.levels \/ Ambiguous(e.etag)
<1>1. PICK u \in Url, v \in 1..MaxVersion : e = Editions[u][v]
  BY DEF IsEdition
<1>2. PICK w \in Url, x \in 1..MaxVersion : f = Editions[w][x]
  BY DEF IsEdition
<1> QED BY <1>1, <1>2 DEF Ambiguous

\* The edition that a registry has now.
LEMMA CurrentEdition ==
  ASSUME CatalogInv, NEW t \in Thread, call[t].config.metadata \in Url
  PROVE  IsEdition(Current(t)) /\ Current(t) \in OverlayShape
<1>1. published[call[t].config.metadata] \in 1..MaxVersion
  BY DEF CatalogInv, CatalogTypes
<1>2. IsEdition(Current(t))
  BY <1>1 DEF IsEdition, Current
<1> QED BY <1>2, EditionShape

LEMMA ForAuthMoves ==
  ASSUME CatalogInv, NEW t \in Thread, NEW a \in Auth, ForAuth(t, a)
  PROVE  (\E p, c : Moves(t, p, c)) /\ Keeps
<1> DEFINE c == [auth |-> a, config |-> config, base |-> BaseFor(a),
                 etag |-> None, got |-> NoEdition, list |-> NoList]
<1>1. c \in CallShape /\ c.config = config
  BY BaseForType DEF CatalogInv, CatalogTypes, CallShape, OverlayShape, NoEdition, None
<1>2. IF config.metadata = Off THEN Proceed(t, c) ELSE Hold(t, "revalidate", c)
  BY DEF ForAuth
<1>3. pc[t] = "idle" /\ Keeps
  BY DEF ForAuth, Keeps, overlayVars, worldVars
<1> HIDE DEF c
<1>4. CASE config.metadata = Off
  <2>1. Proceed(t, c)
    BY <1>2, <1>4
  <2> QED BY <1>1, <1>3, <2>1, ProceedMoves
<1>5. CASE config.metadata # Off
  <2>1. Hold(t, "revalidate", c) /\ c.config.metadata \in Url
    BY <1>1, <1>2, <1>5 DEF CatalogInv, CatalogTypes, ConfigShape
  <2> QED BY <1>1, <1>3, <2>1, HoldMoves DEF Place
<1> QED BY <1>4, <1>5

LEMMA RevalidateMoves ==
  ASSUME CatalogInv, NEW t \in Thread, Revalidate(t)
  PROVE  (\E p, c : Moves(t, p, c)) /\ Keeps
<1> DEFINE c == [call[t] EXCEPT !.etag = overlay.etag]
<1>1. /\ pc[t] = "revalidate" /\ call[t] \in CallShape /\ call[t].config.metadata \in Url
      /\ overlay.etag \in Nat
  BY AtPlace DEF Revalidate, CatalogInv, CatalogTypes, OverlayShape
<1>2. c \in CallShape /\ c.config = call[t].config
  BY <1>1, EtagShape
<1>3. pc' = [pc EXCEPT ![t] = "metadata"] /\ call' = [call EXCEPT ![t] = c] /\ Keeps
  BY DEF Revalidate, Goto, Keeps, overlayVars, worldVars
<1> HIDE DEF c
<1>4. Moves(t, "metadata", c)
  BY <1>1, <1>2, <1>3 DEF Moves, ThreadOK, Place
<1> QED BY <1>3, <1>4

LEMMA MetadataFailsMoves ==
  ASSUME CatalogInv, NEW t \in Thread, MetadataFails(t)
  PROVE  (\E p, c : Moves(t, p, c)) /\ Keeps
<1>1. /\ pc[t] \in {"metadata", "levels"} /\ Proceed(t, call[t]) /\ Keeps
  BY DEF MetadataFails, OnMetadataError, MetadataError, Keeps, worldVars
<1>2. call[t] \in CallShape
  BY <1>1, AtPlace
<1> QED BY <1>1, <1>2, ProceedMoves

\* A 304 to the ETag that the store still has confirms its levels: both editions have
\* the same tag.
LEMMA NotModifiedMoves ==
  ASSUME CatalogInv, NEW t \in Thread, NotModified(t)
  PROVE  /\ \E p, c : Moves(t, p, c)
         /\ overlay' \in OverlayShape /\ OverlayOK'
         /\ UNCHANGED <<config, stamped, cache, published, known>>
<1>1. /\ pc[t] = "metadata" /\ Proceed(t, call[t])
      /\ UNCHANGED <<config, stamped, cache, published, known, overlay>>
      /\ call[t].etag # None /\ call[t].etag = Current(t).etag
      /\ told' = IF call[t].etag = overlay.etag THEN Current(t).levels ELSE told
  BY DEF NotModified, worldVars
<1>2. call[t] \in CallShape /\ call[t].config.metadata \in Url
  BY <1>1, AtPlace
<1>3. overlay' \in OverlayShape /\ (overlay'.etag # None => IsEdition(overlay'))
  BY <1>1 DEF CatalogInv, CatalogTypes, OverlayOK
<1>4. LevelsAreCurrent'
  <2>1. CASE call[t].etag = overlay.etag
    <3>1. Current(t).levels = overlay.levels \/ Ambiguous(Current(t).etag)
      BY <1>1, <1>2, <2>1, CurrentEdition, SameTag DEF CatalogInv, OverlayOK
    <3> QED BY <1>1, <2>1, <3>1 DEF LevelsAreCurrent, Ambiguous
  <2>2. CASE call[t].etag # overlay.etag
    BY <1>1, <2>2 DEF CatalogInv, OverlayOK, LevelsAreCurrent, Ambiguous
  <2> QED BY <2>1, <2>2
<1>5. OverlayOK'
  BY <1>3, <1>4 DEF OverlayOK, IsEdition
<1> QED BY <1>1, <1>2, <1>3, <1>5, ProceedMoves

LEMMA RegistryAnswersMoves ==
  ASSUME CatalogInv, NEW t \in Thread, RegistryAnswers(t)
  PROVE  (\E p, c : Moves(t, p, c)) /\ Keeps
<1> DEFINE c == [call[t] EXCEPT !.got = Current(t)]
<1>1. pc[t] = "metadata" /\ call[t] \in CallShape /\ call[t].config.metadata \in Url
  BY AtPlace DEF RegistryAnswers
<1>2. IsEdition(Current(t)) /\ Current(t) \in OverlayShape
  BY <1>1, CurrentEdition
<1>3. pc' = [pc EXCEPT ![t] = "levels"] /\ call' = [call EXCEPT ![t] = c] /\ Keeps
  BY DEF RegistryAnswers, Goto, Keeps, overlayVars, worldVars
<1>4. c \in CallShape /\ c.config = call[t].config /\ c.got = Current(t)
  BY <1>1, <1>2, GotShape
<1> HIDE DEF c
<1>5. Moves(t, "levels", c)
  BY <1>1, <1>2, <1>3, <1>4 DEF Moves, ThreadOK, Place
<1> QED BY <1>3, <1>5

\* An ETag is stored with the levels of its own response, or not at all.
LEMMA StoreOverlayMoves ==
  ASSUME CatalogInv, NEW t \in Thread, StoreOverlay(t)
  PROVE  /\ \E p, c : Moves(t, p, c)
         /\ overlay' \in OverlayShape /\ OverlayOK'
         /\ UNCHANGED <<config, stamped, cache, published, known>>
<1>1. /\ pc[t] = "levels" /\ Proceed(t, call[t]) /\ told' = call[t].got.levels
      /\ UNCHANGED <<config, stamped, cache, published, known>>
  BY DEF StoreOverlay, worldVars
<1>2. call[t] \in CallShape /\ call[t].config.metadata \in Url /\ IsEdition(call[t].got)
  BY <1>1, AtPlace
<1>3. call[t].got \in OverlayShape
  BY <1>2, EditionShape
<1>4. PICK tag \in {None, call[t].got.etag} : overlay' = Stored(t, tag)
  BY DEF StoreOverlay
<1>5. /\ overlay' = [etag |-> tag, levels |-> call[t].got.levels] /\ overlay' \in OverlayShape
      /\ tag # None => overlay' = call[t].got
  BY <1>3, <1>4 DEF Stored, OverlayShape, None
<1>6. LevelsAreCurrent'
  BY <1>1, <1>5 DEF LevelsAreCurrent
<1>7. OverlayOK'
  BY <1>2, <1>5, <1>6 DEF OverlayOK, IsEdition
<1> QED BY <1>1, <1>2, <1>5, <1>7, ProceedMoves

LEMMA ProviderAnswersMoves ==
  ASSUME CatalogInv, NEW t \in Thread, ProviderAnswers(t)
  PROVE  (\E p, c : Moves(t, p, c)) /\ Keeps
<1> DEFINE c == [call[t] EXCEPT !.list = CallKey(t)]
<1>1. /\ pc[t] = "discover" /\ call[t] \in CallShape /\ CallKey(t) \in Key
      /\ CallKey(t) = <<call[t].auth, call[t].base>>
  BY AtPlace DEF ProviderAnswers
<1>2. c \in CallShape /\ c.auth = call[t].auth /\ c.base = call[t].base /\ c.list = CallKey(t)
  BY <1>1, ListShape
<1>3. pc' = [pc EXCEPT ![t] = "listed"] /\ call' = [call EXCEPT ![t] = c] /\ Keeps
  BY DEF ProviderAnswers, Goto, Keeps, overlayVars, worldVars
<1> HIDE DEF c
<1>4. Moves(t, "listed", c)
  BY <1>1, <1>2, <1>3 DEF Moves, ThreadOK, Place
<1> QED BY <1>3, <1>4

\* The list that is stored is the one of the key it is stored under.
LEMMA PutListMoves ==
  ASSUME CatalogInv, NEW t \in Thread, PutList(t)
  PROVE  /\ \E p, c : Moves(t, p, c)
         /\ CallKey(t) \in Key
         /\ cache' = [cache EXCEPT ![CallKey(t)] = CallKey(t)]
         /\ known' = known \cup {CallKey(t)}
         /\ UNCHANGED <<config, stamped, overlay, told, published>>
<1>1. /\ pc[t] = "listed" /\ call[t] \in CallShape /\ CallKey(t) \in Key
      /\ CallKey(t) = <<call[t].auth, call[t].base>> /\ call[t].list = CallKey(t)
  BY AtPlace DEF PutList
<1>2. /\ cache' = [cache EXCEPT ![CallKey(t)] = CallKey(t)]
      /\ known' = known \cup {CallKey(t)}
      /\ pc' = [pc EXCEPT ![t] = "build"] /\ call' = call
      /\ UNCHANGED <<config, stamped, overlay, told, published>>
  BY <1>1 DEF PutList, CacheKey, Goto, worldVars
<1>3. call' = [call EXCEPT ![t] = call[t]]
  BY <1>2 DEF CatalogInv, CatalogTypes
<1>4. Moves(t, "build", call[t])
  BY <1>1, <1>2, <1>3 DEF Moves, ThreadOK, Place
<1> QED BY <1>1, <1>2, <1>4

\* A failed discovery serves the last list of its own key, and gives up only
\* when that key was never discovered.
LEMMA DiscoveryFailsMoves ==
  ASSUME CatalogInv, NEW t \in Thread, DiscoveryFails(t)
  PROVE  (\E p, c : Moves(t, p, c)) /\ Keeps
<1>1. /\ pc[t] \in {"discover", "listed"} /\ call[t] \in CallShape /\ CallKey(t) \in Key
      /\ CallKey(t) = <<call[t].auth, call[t].base>> /\ Keeps
  BY AtPlace DEF DiscoveryFails, Expires, Keeps, overlayVars, worldVars
<1>2. Cached(t) = cache[CallKey(t)] /\ Cached(t) \in {NoList, CallKey(t)}
  BY <1>1 DEF Cached, CacheKey, CatalogInv, CacheOwn
<1>3. CASE Cached(t) # NoList
  <2> DEFINE c == [call[t] EXCEPT !.list = Cached(t)]
  <2>1. Cached(t) = CallKey(t) /\ Cached(t) \in Key \cup {NoList}
    BY <1>1, <1>2, <1>3
  <2>2. c \in CallShape /\ c.auth = call[t].auth /\ c.base = call[t].base /\ c.list = Cached(t)
    BY <1>1, <2>1, ListShape
  <2>3. pc' = [pc EXCEPT ![t] = "build"] /\ call' = [call EXCEPT ![t] = c]
    BY <1>3 DEF DiscoveryFails, Goto
  <2> HIDE DEF c
  <2>4. Moves(t, "build", c)
    BY <1>1, <2>1, <2>2, <2>3 DEF Moves, ThreadOK, Place
  <2> QED BY <1>1, <2>4
<1>4. CASE Cached(t) = NoList
  <2>1. Return(t)
    BY <1>4 DEF DiscoveryFails
  <2>2. CallKey(t) # NoList
    BY <1>1 DEF NoList
  <2>3. CallKey(t) \notin known
    BY <1>2, <1>4, <2>2 DEF CatalogInv, KnownCached
  <2> QED BY <1>1, <2>1, <2>3, ReturnMoves DEF HadNothing
<1> QED BY <1>3, <1>4

LEMMA BuildMoves ==
  ASSUME NEW t \in Thread, Build(t)
  PROVE  (\E p, c : Moves(t, p, c)) /\ Keeps
<1>1. pc[t] = "build" /\ Return(t) /\ Keeps
  BY DEF Build, Keeps, overlayVars, worldVars
<1> QED BY <1>1, ReturnMoves

-----------------------------------------------------------------------------
\* A step of a thread, and a step of anything else.
ThreadStep(t) ==
  \/ PluginStep(t) \/ \E a \in Auth : ForAuth(t, a)
  \/ NotModified(t) \/ RegistryAnswers(t) \/ ProviderAnswers(t)
WorldStep ==
  \/ \E a \in Auth : ParseAuth(a)
  \/ \E k \in Config : ApplySettings(k)
  \/ \E u \in Url : RegistryChanges(u)

\* What a step may do to the cache and to the known keys.
Puts == \E k \in Key :
          cache' = [cache EXCEPT ![k] = k] /\ known' = known \cup {k}

LEMMA ThreadStepMoves ==
  ASSUME CatalogInv, NEW t \in Thread, ThreadStep(t)
  PROVE  /\ \E p, c : Moves(t, p, c)
         /\ UNCHANGED <<config, stamped, published>>
         /\ UNCHANGED <<overlay, told>> \/ (overlay' \in OverlayShape /\ OverlayOK')
         /\ UNCHANGED <<cache, known>> \/ Puts
<1>1. CASE \/ \E a \in Auth : ForAuth(t, a)
           \/ Revalidate(t) \/ MetadataFails(t) \/ RegistryAnswers(t)
           \/ ProviderAnswers(t) \/ DiscoveryFails(t) \/ Build(t)
  <2>1. (\E p, c : Moves(t, p, c)) /\ Keeps
    BY <1>1, ForAuthMoves, RevalidateMoves, MetadataFailsMoves, RegistryAnswersMoves,
       ProviderAnswersMoves, DiscoveryFailsMoves, BuildMoves
  <2> QED BY <2>1 DEF Keeps
<1>2. CASE StoreOverlay(t) \/ NotModified(t)
  BY <1>2, StoreOverlayMoves, NotModifiedMoves
<1>3. CASE PutList(t)
  <2> QED BY <1>3, PutListMoves DEF Puts
<1> QED BY <1>1, <1>2, <1>3 DEF ThreadStep, PluginStep

LEMMA WorldStepTypes ==
  ASSUME CatalogInv, WorldStep
  PROVE  /\ config' \in ConfigShape /\ stamped' \in [Auth -> Base \cup {NoBase}]
         /\ published' \in [Url -> 1..MaxVersion]
         /\ UNCHANGED <<cache, overlay, known, told, pc, call>>
<1> USE DEF CatalogInv, CatalogTypes, overlayVars
<1>1. ASSUME NEW a \in Auth, ParseAuth(a)
      PROVE  stamped' \in [Auth -> Base \cup {NoBase}]
  <2>1. FileBase(a) \in Base
    BY BaseForType
  <2> QED BY <1>1, <2>1 DEF ParseAuth
<1>2. ASSUME NEW k \in Config, ApplySettings(k) PROVE config' \in ConfigShape
  BY <1>2, CatalogAssumption DEF ApplySettings
<1>3. ASSUME NEW u \in Url, RegistryChanges(u) PROVE published' \in [Url -> 1..MaxVersion]
  BY <1>3, CatalogAssumption DEF RegistryChanges
<1> QED BY <1>1, <1>2, <1>3 DEF WorldStep, ParseAuth, ApplySettings, RegistryChanges

\* Each call holds what its place in modelsForAuth needs, and the cache only what was
\* discovered for the key.
THEOREM CatalogInvariant == CatalogSpec => []CatalogInv
<1>1. CatalogInit => CatalogInv
  <2> SUFFICES ASSUME CatalogInit PROVE CatalogInv
    OBVIOUS
  <2>1. /\ config \in ConfigShape /\ stamped \in [Auth -> Base \cup {NoBase}]
        /\ cache \in [Key -> Key \cup {NoList}] /\ overlay \in OverlayShape
    BY CatalogAssumption DEF CatalogInit, OverlayShape, NoEdition, None
  <2>2. /\ pc \in [Thread -> Place] /\ call \in [Thread -> CallShape \cup {NoCall}]
        /\ published \in [Url -> 1..MaxVersion] /\ known \subseteq Key
    BY CatalogAssumption DEF CatalogInit, Place
  <2>3. ThreadsOK /\ CacheOwn /\ KnownCached /\ OverlayOK
    BY DEF CatalogInit, ThreadsOK, ThreadOK, CacheOwn, KnownCached, OverlayOK, NoEdition,
           LevelsAreCurrent, None
  <2> QED BY <2>1, <2>2, <2>3 DEF CatalogInv, CatalogTypes
<1>2. CatalogInv /\ [CatalogNext]_catalogVars => CatalogInv'
  <2> SUFFICES ASSUME CatalogInv, [CatalogNext]_catalogVars PROVE CatalogInv'
    OBVIOUS
  <2>1. ASSUME NEW t \in Thread, ThreadStep(t) PROVE CatalogInv'
    <3>1. PICK p, c : Moves(t, p, c)
      BY <2>1, ThreadStepMoves
    <3>2. /\ pc' \in [Thread -> Place] /\ call' \in [Thread -> CallShape \cup {NoCall}]
      BY <3>1 DEF Moves, CatalogInv, CatalogTypes
    <3>3. ThreadsOK'
      <4> SUFFICES ASSUME NEW u \in Thread PROVE ThreadOK(pc'[u], call'[u])
        BY DEF ThreadsOK, ThreadOK, IsEdition
      <4>1. CASE u = t
        BY <3>1, <4>1 DEF Moves, CatalogInv, CatalogTypes
      <4>2. CASE u # t
        BY <3>1, <4>2 DEF Moves, CatalogInv, CatalogTypes, ThreadsOK
      <4> QED BY <4>1, <4>2
    <3>4. /\ config' \in ConfigShape /\ stamped' \in [Auth -> Base \cup {NoBase}]
          /\ published' \in [Url -> 1..MaxVersion] /\ overlay' \in OverlayShape
      BY <2>1, ThreadStepMoves DEF CatalogInv, CatalogTypes
    <3>5. /\ cache' \in [Key -> Key \cup {NoList}] /\ known' \subseteq Key
          /\ CacheOwn' /\ KnownCached'
      <4>1. CASE UNCHANGED <<cache, known>>
        BY <4>1 DEF CatalogInv, CatalogTypes, CacheOwn, KnownCached
      <4>2. CASE Puts
        BY <4>2 DEF Puts, CatalogInv, CatalogTypes, CacheOwn, KnownCached
      <4> QED BY <2>1, <4>1, <4>2, ThreadStepMoves
    <3>6. OverlayOK'
      BY <2>1, ThreadStepMoves DEF CatalogInv, OverlayOK, IsEdition, LevelsAreCurrent, Ambiguous
    <3> QED BY <3>2, <3>3, <3>4, <3>5, <3>6 DEF CatalogInv, CatalogTypes
  <2>2. CASE WorldStep
    BY <2>2, WorldStepTypes
       DEF CatalogInv, CatalogTypes, ThreadsOK, ThreadOK, CacheOwn, KnownCached, OverlayOK,
           IsEdition, LevelsAreCurrent, Ambiguous
  <2>3. CASE UNCHANGED catalogVars
    BY <2>3 DEF catalogVars, overlayVars, worldVars, CatalogInv, CatalogTypes, ThreadsOK,
                ThreadOK, CacheOwn, KnownCached, OverlayOK, IsEdition, LevelsAreCurrent,
                Ambiguous
  <2> QED BY <2>1, <2>2, <2>3 DEF CatalogNext, ThreadStep, WorldStep
<1> QED BY <1>1, <1>2, PTL DEF CatalogSpec

\* No list is ever served for another credential or base URL.
THEOREM OwnAnswers == CatalogSpec => []AnswersAreItsOwn
<1>1. CatalogInv => AnswersAreItsOwn
  BY DEF CatalogInv, ThreadsOK, ThreadOK, AnswersAreItsOwn, CallKey
<1> QED BY <1>1, CatalogInvariant, PTL

\* The store has the levels of the registry that answered last, also after a 304 to an
\* ETag that came from another registry, unless registries tag different levels alike.
THEOREM CurrentLevels == CatalogSpec => []LevelsAreCurrent
<1>1. CatalogInv => LevelsAreCurrent
  BY DEF CatalogInv, OverlayOK
<1> QED BY <1>1, CatalogInvariant, PTL

\* Whatever fails, model.for_auth never gives up a key that was discovered before.
THEOREM StaysRegistered == CatalogSpec => NeverUnregistered
<1> DEFINE Kept == \A t \in Thread :
                     pc[t] \notin {"idle", "build"} /\ pc'[t] = "idle"
                     => CallKey(t) \notin known \/ call[t].auth \in Keyless
<1>1. CatalogInv /\ [CatalogNext]_catalogVars => [Kept]_catalogVars
  <2> SUFFICES ASSUME CatalogInv, CatalogNext PROVE Kept
    OBVIOUS
  <2>1. ASSUME NEW t \in Thread, ThreadStep(t) PROVE Kept
    <3> SUFFICES ASSUME NEW u \in Thread, pc[u] \notin {"idle", "build"}, pc'[u] = "idle"
                 PROVE  CallKey(u) \notin known \/ call[u].auth \in Keyless
      OBVIOUS
    <3>1. PICK p, c : Moves(t, p, c)
      BY <2>1, ThreadStepMoves
    <3>2. u = t /\ p = "idle"
      BY <3>1 DEF Moves, CatalogInv, CatalogTypes
    <3> QED BY <3>1, <3>2 DEF Moves, HadNothing
  <2>2. CASE WorldStep
    BY <2>2, WorldStepTypes
  <2> QED BY <2>1, <2>2 DEF CatalogNext, ThreadStep, WorldStep
<1> QED BY <1>1, CatalogInvariant, PTL DEF CatalogSpec, NeverUnregistered

-----------------------------------------------------------------------------
(* The stream executor: the host gets an error or a stream and never both,   *)
(* and a stream keeps LineStream's promise.                                  *)

\* How often each stream was closed, from where the two goroutines are.
Released ==
  /\ closed \in [upstream : Nat, client : Nat]
  /\ upstream = "closed" => closed.upstream = 1
  /\ upstream # "closed" => closed.upstream = 0
  /\ client = "open" => closed.client = 0
  /\ client # "open" => closed.client = 1

\* Until the pump is started there is nothing for the client.
Starting ==
  /\ starter \in {"idle", "opening", "draining", "starting", "stream", "error"}
  /\ starter \in {"idle", "opening", "draining", "error"} =>
       pump = "none" /\ out = <<>> /\ client = "open"
  /\ starter \in {"idle", "opening"} => upstream = "none"
  /\ starter = "draining" => upstream = "open"
  /\ starter = "error" => upstream # "open"
  /\ starter \in {"starting", "stream"} => pump # "none"

\* The pump works on open streams, closes the client's and then the provider's.
Pumping ==
  /\ pump \in {"read", "lines", "close", "release"} => upstream = "open"
  /\ pump \in {"none", "read", "lines", "close"} => client = "open"
  /\ pump = "release" => client # "open"
  /\ pump = "gone" => upstream = "closed" /\ client # "open"

PumpInv == Released /\ Starting /\ Pumping

\* The provider's stream is closed exactly once, by the drain or by the pump.
LEMMA ReleaseOnce ==
  ASSUME Released, upstream = "open", ReleaseUpstream
  PROVE  /\ upstream' = "closed" /\ closed'.upstream = 1
         /\ closed' \in [upstream : Nat, client : Nat] /\ closed'.client = closed.client
BY DEF Released, ReleaseUpstream

\* Where the goroutines are fixes which streams are open and how often each was closed.
THEOREM PumpInvariant == PumpSpec => []PumpInv
<1>1. PumpInit => PumpInv
  BY DEF PumpInit, PumpInv, Released, Starting, Pumping
<1>2. PumpInv /\ [PumpNext]_pumpVars => PumpInv'
  <2> SUFFICES ASSUME PumpInv, [PumpNext]_pumpVars PROVE PumpInv'
    OBVIOUS
  <2> USE DEF PumpInv, Released, Starting, Pumping
  <2>1. CASE Refuse \/ Open \/ OpenFails
    BY <2>1 DEF Refuse, Open, OpenFails
  <2>0. CASE AnswerUnreadable \/ StatusWithoutStream
    BY <2>0 DEF AnswerUnreadable, StatusWithoutStream
  <2>2. CASE StatusError \/ StartPump
    BY <2>2 DEF StatusError, StartPump
  <2>3. CASE Drained
    BY <2>3, ReleaseOnce DEF Drained
  <2>4. CASE ReturnStream
    BY <2>4 DEF ReturnStream
  <2>5. CASE ReadPiece \/ ReadFails \/ NextRound
    BY <2>5 DEF ReadPiece, ReadFails, NextRound
  <2>6. CASE EmitEvent \/ EmitFails \/ SkipLine \/ ErrorLine
    BY <2>6 DEF EmitEvent, EmitFails, SkipLine, ErrorLine, TakeLine
  <2>7. CASE CloseClient
    BY <2>7 DEF CloseClient
  <2>8. CASE Release
    BY <2>8, ReleaseOnce DEF Release
  <2>9. CASE Over \/ UNCHANGED pumpVars
    BY <2>9 DEF Over, pumpVars
  <2> QED BY <2>0, <2>1, <2>2, <2>3, <2>4, <2>5, <2>6, <2>7, <2>8, <2>9
          DEF PumpNext, StarterStep, PumpStep
<1> QED BY <1>1, <1>2, PTL DEF PumpSpec

\* The host is told of an error or gets a stream, and no stream is closed twice or
\* outlives the pump.
THEOREM NeverBoth == PumpSpec => []ErrorOrStream
<1>1. PumpInv => ErrorOrStream
  BY DEF PumpInv, Released, Starting, Pumping, ErrorOrStream
<1> QED BY <1>1, PumpInvariant, PTL

-----------------------------------------------------------------------------
LineShape == [kind : Kind, id : Nat]
AtMostAll(lines, n) == \A i \in DOMAIN lines : lines[i].id <= n

\* What the buffer holds, until something fails: the lines after the last event
\* that went out, up to the last one that was sent.
Buffered ==
  /\ Numbered(buffer, Len(out)) /\ LastNumber(buffer, Len(out)) = sent
  /\ AtMostAll(buffer, sent)

StreamInv ==
  /\ buffer \in Seq(LineShape) /\ out \in Seq(Nat) /\ sent \in Nat
  /\ done \in BOOLEAN /\ failure \in BOOLEAN
  /\ pump \in {"none", "read", "lines", "close", "release", "gone"}
  /\ pump \in {"none", "read"} => ~failure
  /\ pump = "close" /\ ~failure => buffer = <<>>
  /\ ~failure => Buffered

\* The lines of a piece go on where the buffer ends.
LEMMA BufferPiece ==
  ASSUME NEW b \in Seq(LineShape), NEW n \in Nat, NEW m \in Nat, NEW next \in Nat, m <= next,
         Numbered(b, n), LastNumber(b, n) = m, AtMostAll(b, m),
         NEW size \in Nat, NEW lines \in [1..size -> Line(m, next)],
         Numbered(lines, m), LastNumber(lines, m) = next
  PROVE  /\ b \o lines \in Seq(LineShape)
         /\ Numbered(b \o lines, n) /\ LastNumber(b \o lines, n) = next
         /\ AtMostAll(b \o lines, next)
<1> DEFINE s == b \o lines
<1>1. lines \in Seq(LineShape) /\ Len(lines) = size /\ DOMAIN lines = 1..size
  <2>1. Line(m, next) \subseteq LineShape
    BY DEF Line, LineShape
  <2>2. lines \in [1..size -> LineShape]
    BY <2>1
  <2> QED BY <2>2
<1>2. /\ s \in Seq(LineShape) /\ Len(s) = Len(b) + size /\ DOMAIN s = 1..(Len(b) + size)
      /\ \A i \in 1..Len(b) : s[i] = b[i]
      /\ \A i \in (Len(b) + 1)..(Len(b) + size) : s[i] = lines[i - Len(b)]
  BY <1>1
<1>3. DOMAIN b = 1..Len(b) /\ Len(b) \in Nat
  OBVIOUS
<1> HIDE DEF s
<1>4. Numbered(s, n)
  <2> SUFFICES ASSUME NEW i \in 1..(Len(b) + size)
               PROVE  s[i].id = (IF i = 1 THEN n ELSE s[i - 1].id)
                                + (IF s[i].kind = "event" THEN 1 ELSE 0)
    BY <1>2 DEF Numbered
  <2>1. CASE i <= Len(b)
    <3>1. s[i] = b[i] /\ (i # 1 => s[i - 1] = b[i - 1]) /\ i \in DOMAIN b
      BY <1>2, <1>3, <2>1
    <3> QED BY <3>1 DEF Numbered
  <2>2. CASE i > Len(b)
    <3> DEFINE j == i - Len(b)
    <3>0. /\ j \in 1..size /\ i = Len(b) + j /\ i \in (Len(b) + 1)..(Len(b) + size)
          /\ i # 1 \/ j = 1
      BY <1>3, <2>2
    <3>1. s[i] = lines[j] /\ j \in DOMAIN lines
      <4>1. s[i] = lines[i - Len(b)]
        BY <1>2, <3>0
      <4> QED BY <1>1, <3>0, <4>1
    <3>2. (IF i = 1 THEN n ELSE s[i - 1].id) = (IF j = 1 THEN m ELSE lines[j - 1].id)
      <4>1. CASE j = 1 /\ Len(b) = 0
        BY <1>3, <4>1 DEF LastNumber
      <4>2. CASE j = 1 /\ Len(b) # 0
        BY <1>2, <1>3, <4>2 DEF LastNumber
      <4>3. CASE j # 1
        <5>1. /\ i - 1 \in (Len(b) + 1)..(Len(b) + size) /\ i # 1
              /\ (i - 1) - Len(b) = j - 1
          BY <1>3, <3>0, <4>3
        <5>2. s[i - 1] = lines[(i - 1) - Len(b)]
          BY <1>2, <5>1
        <5> QED BY <4>3, <5>1, <5>2
      <4> QED BY <4>1, <4>2, <4>3
    <3> HIDE DEF j
    <3>3. lines[j].id = (IF j = 1 THEN m ELSE lines[j - 1].id)
                        + (IF lines[j].kind = "event" THEN 1 ELSE 0)
      BY <3>1 DEF Numbered
    <3> QED BY <3>1, <3>2, <3>3
  <2> QED BY <1>3, <2>1, <2>2
<1>5. LastNumber(s, n) = next
  <2>1. CASE size = 0
    <3>1. m = next
      BY <1>1, <2>1 DEF LastNumber
    <3>2. CASE Len(b) = 0
      <4>1. s = <<>> /\ b = <<>>
        BY <1>2, <1>3, <2>1, <3>2
      <4> QED BY <3>1, <4>1 DEF LastNumber
    <3>3. CASE Len(b) # 0
      <4>1. s # <<>> /\ b # <<>> /\ s[Len(s)] = b[Len(b)]
        BY <1>2, <1>3, <2>1, <3>3
      <4> QED BY <3>1, <4>1 DEF LastNumber
    <3> QED BY <3>2, <3>3
  <2>2. CASE size # 0
    <3>1. s # <<>> /\ lines # <<>> /\ s[Len(s)] = lines[size]
      BY <1>1, <1>2, <1>3, <2>2
    <3> QED BY <1>1, <3>1 DEF LastNumber
  <2> QED BY <2>1, <2>2
<1>6. AtMostAll(s, next)
  <2> SUFFICES ASSUME NEW i \in 1..(Len(b) + size) PROVE s[i].id <= next
    BY <1>2 DEF AtMostAll
  <2>1. CASE i <= Len(b)
    <3>1. s[i] = b[i] /\ b[i] \in LineShape /\ b[i].id <= m
      BY <1>2, <1>3, <2>1 DEF AtMostAll
    <3> QED BY <3>1 DEF LineShape
  <2>2. CASE i > Len(b)
    <3>1. s[i] = lines[i - Len(b)] /\ lines[i - Len(b)] \in Line(m, next)
      BY <1>2, <1>3, <2>2
    <3> QED BY <3>1 DEF Line
  <2> QED BY <1>3, <2>1, <2>2
<1> QED BY <1>2, <1>4, <1>5, <1>6, Zenon DEF s

\* Without its first line the buffer goes on from that line's number.
LEMMA TakeFirst ==
  ASSUME NEW b \in Seq(LineShape), b # <<>>, NEW n \in Nat, NEW m \in Nat,
         Numbered(b, n), LastNumber(b, n) = m, AtMostAll(b, m)
  PROVE  /\ Tail(b) \in Seq(LineShape)
         /\ Numbered(Tail(b), Head(b).id) /\ LastNumber(Tail(b), Head(b).id) = m
         /\ AtMostAll(Tail(b), m)
         /\ Head(b).id = n + (IF Head(b).kind = "event" THEN 1 ELSE 0) /\ Head(b).id <= m
<1> DEFINE s == Tail(b)
<1>1. /\ s \in Seq(LineShape) /\ Len(s) = Len(b) - 1 /\ Len(b) \in Nat /\ Len(b) >= 1
      /\ DOMAIN s = 1..(Len(b) - 1) /\ DOMAIN b = 1..Len(b)
      /\ \A i \in 1..(Len(b) - 1) : s[i] = b[i + 1]
      /\ Head(b) = b[1]
  OBVIOUS
<1> HIDE DEF s
<1>2. Numbered(s, b[1].id)
  <2> SUFFICES ASSUME NEW i \in 1..(Len(b) - 1)
               PROVE  s[i].id = (IF i = 1 THEN b[1].id ELSE s[i - 1].id)
                                + (IF s[i].kind = "event" THEN 1 ELSE 0)
    BY <1>1 DEF Numbered
  <2>1. s[i] = b[i + 1] /\ i + 1 \in DOMAIN b /\ i + 1 # 1
    BY <1>1
  <2>2. (IF i = 1 THEN b[1].id ELSE s[i - 1].id) = b[(i + 1) - 1].id
    BY <1>1
  <2> QED BY <2>1, <2>2 DEF Numbered
<1>3. LastNumber(s, b[1].id) = m
  <2>1. CASE Len(b) = 1
    BY <1>1, <2>1 DEF LastNumber
  <2>2. CASE Len(b) # 1
    <3>1. s # <<>> /\ s[Len(s)] = b[Len(b)]
      BY <1>1, <2>2
    <3> QED BY <3>1 DEF LastNumber
  <2> QED BY <2>1, <2>2
<1>4. AtMostAll(s, m)
  <2> SUFFICES ASSUME NEW i \in 1..(Len(b) - 1) PROVE s[i].id <= m
    BY <1>1 DEF AtMostAll
  <2>1. s[i] = b[i + 1] /\ i + 1 \in DOMAIN b
    BY <1>1
  <2> QED BY <2>1 DEF AtMostAll
<1>5. b[1].id = n + (IF b[1].kind = "event" THEN 1 ELSE 0) /\ b[1].id <= m
  BY <1>1 DEF Numbered, AtMostAll
<1>6. Head(b) = b[1] /\ s = Tail(b)
  BY DEF s
<1> QED BY <1>1, <1>2, <1>3, <1>4, <1>5, <1>6, Zenon

-----------------------------------------------------------------------------
\* A line leaves the buffer, and unless something fails the rest still belongs
\* after the last event that went out.
LEMMA LineTaken ==
  ASSUME StreamInv, TakeLine
  PROVE  /\ pump = "lines" /\ ~failure /\ buffer # <<>> /\ buffer' \in Seq(LineShape)
         /\ UNCHANGED <<done, sent>>
         /\ Numbered(buffer', Head(buffer).id) /\ LastNumber(buffer', Head(buffer).id) = sent
         /\ AtMostAll(buffer', sent)
         /\ Head(buffer).id = Len(out) + (IF Head(buffer).kind = "event" THEN 1 ELSE 0)
         /\ Head(buffer).id <= sent
<1>1. /\ pump = "lines" /\ ~failure /\ buffer # <<>> /\ buffer' = Tail(buffer)
      /\ UNCHANGED <<done, sent>>
  BY DEF TakeLine, Handled, CompleteLines, StreamInv
<1>2. /\ buffer \in Seq(LineShape) /\ Len(out) \in Nat /\ sent \in Nat
      /\ Numbered(buffer, Len(out)) /\ LastNumber(buffer, Len(out)) = sent
      /\ AtMostAll(buffer, sent)
  BY <1>1 DEF StreamInv, Buffered
<1> QED BY <1>1, <1>2, TakeFirst

LEMMA StreamStep ==
  ASSUME StreamInv, PumpInv, [PumpNext]_pumpVars
  PROVE  StreamInv' /\ [Promise!Next]_(Promise!promised)
<1> DEFINE Step == Promise!Send \/ Promise!Deliver \/ Promise!End \/ Promise!Fail
                   \/ UNCHANGED <<sent, out, client>>
<1> SUFFICES StreamInv' /\ Step
  BY DEF Promise!Next, Promise!promised
<1> USE DEF textVars
<1>1. ASSUME UNCHANGED <<buffer, out, sent, done, failure, client, pump>>
      PROVE  StreamInv' /\ Step
  BY <1>1 DEF StreamInv, Buffered
<1>2. CASE \/ Refuse \/ Open \/ OpenFails \/ AnswerUnreadable \/ StatusWithoutStream \/ StatusError
           \/ Drained \/ ReturnStream \/ Over \/ UNCHANGED pumpVars
  BY <1>1, <1>2 DEF Refuse, Open, OpenFails, AnswerUnreadable, StatusWithoutStream, StatusError,
                       Drained, ReturnStream, Over, pumpVars
<1>3. CASE StartPump
  <2>1. /\ UNCHANGED <<buffer, out, sent, done, failure, client>> /\ pump' = "read"
        /\ starter = "opening"
    BY <1>3 DEF StartPump
  <2>2. pump = "none"
    BY <2>1 DEF PumpInv, Starting
  <2> QED BY <2>1, <2>2 DEF StreamInv, Buffered
<1>4. CASE ReadPiece
  <2>1. /\ pump = "read" /\ pump' = "lines" /\ UNCHANGED <<out, failure, client>>
        /\ ~failure /\ client = "open" /\ Buffered
    BY <1>4 DEF ReadPiece, StreamInv, PumpInv, Pumping
  <2>2. PICK next \in sent..(sent + MaxPiece), size \in 0..MaxPiece :
          \E lines \in [1..size -> Line(sent, next)], last \in BOOLEAN :
            /\ Numbered(lines, sent) /\ LastNumber(lines, sent) = next
            /\ buffer' = buffer \o lines /\ sent' = next /\ done' = last
    BY <1>4 DEF ReadPiece
  <2>3. PICK lines \in [1..size -> Line(sent, next)], last \in BOOLEAN :
            /\ Numbered(lines, sent) /\ LastNumber(lines, sent) = next
            /\ buffer' = buffer \o lines /\ sent' = next /\ done' = last
    BY <2>2
  <2>4. /\ buffer \in Seq(LineShape) /\ Len(out) \in Nat /\ sent \in Nat /\ next \in Nat
        /\ sent <= next /\ size \in Nat
        /\ Numbered(buffer, Len(out)) /\ LastNumber(buffer, Len(out)) = sent
        /\ AtMostAll(buffer, sent)
    BY <2>1, PumpAssumption DEF StreamInv, Buffered
  <2>5. /\ buffer' \in Seq(LineShape) /\ Numbered(buffer', Len(out))
        /\ LastNumber(buffer', Len(out)) = sent' /\ AtMostAll(buffer', sent')
    BY <2>3, <2>4, BufferPiece
  <2>6. Buffered'
    BY <2>1, <2>5 DEF Buffered
  <2>7. done' \in BOOLEAN
    BY <2>3, Zenon
  <2>8. StreamInv'
    BY <2>1, <2>3, <2>4, <2>5, <2>6, <2>7 DEF StreamInv
  <2>9. Promise!Send
    BY <2>1, <2>3, <2>4 DEF Promise!Send
  <2> QED BY <2>8, <2>9
<1>5. CASE ReadFails
  <2>1. /\ UNCHANGED <<buffer, out, sent, done, client>> /\ pump' = "close"
    BY <1>5 DEF ReadFails
  <2>2. failure'
    BY <1>5, Zenon DEF ReadFails
  <2> QED BY <2>1, <2>2, Zenon DEF StreamInv
<1>6. CASE EmitEvent
  <2>1. /\ TakeLine /\ Head(buffer).kind = "event" /\ out' = Append(out, Head(buffer).id)
        /\ UNCHANGED <<pump, client, failure>>
    BY <1>6 DEF EmitEvent
  <2>2. Head(buffer).id = Len(out) + 1 /\ Head(buffer).id <= sent /\ sent \in Nat
        /\ Len(out) \in Nat /\ out \in Seq(Nat)
    BY <2>1, LineTaken DEF StreamInv
  <2>3. out' \in Seq(Nat) /\ Len(out') = Head(buffer).id
    BY <2>1, <2>2
  <2>4. Buffered'
    BY <2>1, <2>3, LineTaken DEF Buffered
  <2>5. StreamInv'
    BY <2>1, <2>3, <2>4, LineTaken DEF StreamInv
  <2>6. client = "open" /\ sent' = sent
    BY <2>1, LineTaken DEF PumpInv, Pumping
  <2>7. Promise!Deliver
    BY <2>1, <2>2, <2>6 DEF Promise!Deliver
  <2> QED BY <2>5, <2>7
<1>7. CASE EmitFails \/ ErrorLine
  <2>1. /\ TakeLine /\ UNCHANGED <<pump, client, out>>
    BY <1>7 DEF EmitFails, ErrorLine
  <2>2. failure'
    BY <1>7, Zenon DEF EmitFails, ErrorLine, GiveUp
  <2>3. StreamInv'
    BY <2>1, <2>2, LineTaken DEF StreamInv
  <2> QED BY <2>1, <2>3, LineTaken
<1>8. CASE SkipLine
  <2>1. /\ TakeLine /\ Head(buffer).kind = "skip" /\ UNCHANGED <<pump, client, out, failure>>
    BY <1>8 DEF SkipLine
  <2>2. Head(buffer).id = Len(out) /\ sent' = sent
    BY <2>1, LineTaken DEF StreamInv
  <2>3. Buffered'
    BY <2>1, <2>2, LineTaken DEF Buffered
  <2>4. StreamInv'
    BY <2>1, <2>3, LineTaken DEF StreamInv
  <2> QED BY <2>1, <2>2, <2>4
<1>9. CASE NextRound
  <2>1. /\ pump = "lines" /\ UNCHANGED <<buffer, out, sent, done, failure, client>>
        /\ failure \/ Handled = 0
        /\ pump' = IF failure \/ done THEN "close" ELSE "read"
    BY <1>9 DEF NextRound
  <2>2. pump' = "close" /\ ~failure => buffer = <<>>
    BY <2>1 DEF Handled, StreamInv
  <2> QED BY <2>1, <2>2 DEF StreamInv, Buffered
<1>10. CASE CloseClient
  <2>1. /\ pump = "close" /\ pump' = "release" /\ UNCHANGED <<buffer, out, sent, done, failure>>
        /\ client' = IF failure THEN "error" ELSE "ok"
    BY <1>10 DEF CloseClient
  <2>2. StreamInv'
    BY <2>1 DEF StreamInv, Buffered
  <2>3. client = "open"
    BY <2>1 DEF PumpInv, Pumping
  <2>4. CASE failure
    BY <2>1, <2>2, <2>3, <2>4 DEF Promise!Fail
  <2>5. CASE ~failure
    <3>1. Len(out) = sent
      BY <2>1, <2>5 DEF StreamInv, Buffered, LastNumber
    <3> QED BY <2>1, <2>2, <2>3, <2>5, <3>1 DEF Promise!End
  <2> QED BY <2>4, <2>5
<1>11. CASE Release
  <2>1. pump = "release" /\ pump' = "gone" /\ UNCHANGED <<buffer, out, sent, done, failure, client>>
    BY <1>11 DEF Release
  <2> QED BY <2>1 DEF StreamInv, Buffered
<1> QED BY <1>2, <1>3, <1>4, <1>5, <1>6, <1>7, <1>8, <1>9, <1>10, <1>11
        DEF PumpNext, StarterStep, PumpStep

\* The pump keeps LineStream's promise: every event that the provider sends reaches
\* the client in order, also the last and unterminated one, or the stream ends with
\* an error.
THEOREM PumpDelivers == PumpSpec => DeliversTheStream
<1>1. PumpInit => Promise!Init /\ StreamInv
  <2> SUFFICES ASSUME PumpInit PROVE Promise!Init /\ StreamInv
    OBVIOUS
  <2>1. /\ buffer = <<>> /\ out = <<>> /\ sent = 0 /\ client = "open" /\ pump = "none"
        /\ buffer \in Seq(LineShape) /\ out \in Seq(Nat) /\ Len(out) = 0
    BY DEF PumpInit
  <2>2. Buffered
    BY <2>1 DEF Buffered, Numbered, LastNumber, AtMostAll
  <2>3. done \in BOOLEAN /\ failure \in BOOLEAN /\ ~failure
    BY Zenon DEF PumpInit
  <2> QED BY <2>1, <2>2, <2>3 DEF Promise!Init, StreamInv
<1>2. StreamInv /\ PumpInv /\ [PumpNext]_pumpVars
        => StreamInv' /\ [Promise!Next]_(Promise!promised)
  BY StreamStep
<1> QED BY <1>1, <1>2, PumpInvariant, PTL DEF PumpSpec, DeliversTheStream, Promise!Spec
=============================================================================
