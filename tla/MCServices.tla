----------------------------- MODULE MCServices -----------------------------
(* Small instances of the parts that share no state with each other: models, *)
(* streams, the reports on health, quota, usage and sessions, and paging.    *)
(* Since no step of one can be seen by another, a behaviour of one of them   *)
(* at a time, named by `part`, is all there is to explore.                   *)
EXTENDS MCModelCatalog, StreamPump, HealthReport, QuotaReport, UsageReport, PageWalk,
        SessionReport

VARIABLE part

\* A window that the retention covers, one as long as it, and one that outlasts it.
MCSettings ==
  {[window |-> 100, retention |-> 300, threshold |-> 1],
   [window |-> 300, retention |-> 300, threshold |-> 2],
   [window |-> 300, retention |-> 100, threshold |-> 0]}

MCPercent == {-10, 0, 100, 110}

\* Two of one slug, the second without an id, one without a slug, and one without a name.
MCIdentity ==
  {[id |-> "id", name |-> "name"], [id |-> "", name |-> "Id"], [id |-> "--", name |-> "name"],
   [id |-> "id", name |-> ""]}
MCSlugOf == "id" :> "id" @@ "Id" :> "id" @@ "name" :> "name" @@ "--" :> "" @@ "" :> ""

MCTokens == [read : {0, 1}, created : {0, 1}] \ {[read |-> 1, created |-> 1]}

\* No change, five and a half hours, and an hour back or forth on either side of UTC.
MCZone ==
  {[before |-> o[1], after |-> o[2], at |-> t] :
     o \in {<<0, 0>>, <<11, 11>>, <<4, 2>>, <<2, 4>>, <<-8, -10>>, <<-10, -8>>}, t \in {2, 4, 6}}

\* An hour in which no request carried tokens, and one with a token.
MCBucket ==
  {[tokens |-> 0, seen |-> 1, tokened |-> 0], [tokens |-> 1, seen |-> 1, tokened |-> 1]}

parts == {"models", "streams", "health", "quota", "usage", "pages", "sessions"}
servicesVars ==
  <<part, catalogVars, pumpVars, healthVars, quotaVars, usageVars, pageVars, sessionVars>>

Init ==
  /\ part \in parts
  /\ CatalogInit /\ PumpInit /\ HealthInit /\ QuotaInit /\ UsageInit /\ PageInit /\ SessionInit
  /\ part # "health" => settings = CHOOSE s \in Settings : TRUE

Next ==
  /\ part' = part
  /\ \/ /\ part = "models" /\ CatalogNext
        /\ UNCHANGED <<pumpVars, healthVars, quotaVars, usageVars, pageVars, sessionVars>>
     \/ /\ part = "streams" /\ PumpNext
        /\ UNCHANGED <<catalogVars, healthVars, quotaVars, usageVars, pageVars, sessionVars>>
     \/ /\ part = "health" /\ HealthNext
        /\ UNCHANGED <<catalogVars, pumpVars, quotaVars, usageVars, pageVars, sessionVars>>
     \/ /\ part = "quota" /\ QuotaNext
        /\ UNCHANGED <<catalogVars, pumpVars, healthVars, usageVars, pageVars, sessionVars>>
     \/ /\ part = "usage" /\ UsageNext
        /\ UNCHANGED <<catalogVars, pumpVars, healthVars, quotaVars, pageVars, sessionVars>>
     \/ /\ part = "pages" /\ PageNext
        /\ UNCHANGED <<catalogVars, pumpVars, healthVars, quotaVars, usageVars, sessionVars>>
     \/ /\ part = "sessions" /\ SessionNext
        /\ UNCHANGED <<catalogVars, pumpVars, healthVars, quotaVars, usageVars, pageVars>>

FairSpec == Init /\ [][Next]_servicesVars /\ CatalogFairness /\ PumpFairness
=============================================================================
