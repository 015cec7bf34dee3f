---------------------------- MODULE ModelRegistry ----------------------------
(***************************************************************************)
(* The registry of models (apps/gateway/src/services/model-registry.js), a *)
(* copy in memory of config/models-registry.json, and those who write that *)
(* file: the operator and the curation script                              *)
(* (scripts/auto-curate-models.js), which brings it up to date with what   *)
(* the provider offers.                                                    *)
(*                                                                         *)
(* A model's entry is reduced to what somebody decides by.  The script     *)
(* writes the file in one step.  A file that does not exist is for both    *)
(* readers one that lists nothing.                                         *)
(***************************************************************************)
EXTENDS Integers

CONSTANTS
  Model,       \* model ids
  Corrupt,     \* a file that JSON.parse does not get through
  MaxChanges   \* bound on the writes of the file

ASSUME ChangesAssumption == MaxChanges \in Nat

VARIABLES
  file,     \* the models listed in the file, or Corrupt
  models,   \* the Map cache: what the gateway knows of its models
  changes   \* writes of the file so far

registryVars == <<file, models, changes>>

\* price: the heuristics of the script, "free" or "cheap".  half: twice the
\* multiplier.  community: "community" is among allowedTiers.
Price == {"free", "cheap"}
Multipliers == {2, 4}
Config == [price : Price, half : Multipliers, community : BOOLEAN, active : BOOLEAN]

Listings == UNION {[S -> Config] : S \in SUBSET Model}
NoModels == [m \in {} |-> {}]

ASSUME CorruptAssumption == Corrupt \notin Listings

RegistryTypeOK ==
  /\ file \in Listings \union {Corrupt}
  /\ models \in Listings
  /\ changes \in 0..MaxChanges
-----------------------------------------------------------------------------
\* load(): a file that cannot be parsed leaves the Map as it was.
Load == IF file = Corrupt THEN models ELSE file

\* getModelConfig: the file is read again only when the Map is empty.
Registry(m) == IF DOMAIN models = {} THEN Load ELSE models

\* isModelAllowedForTier(m, 'community')
Allowed(m) ==
  LET known == Registry(m)
  IN m \in DOMAIN known /\ known[m].active /\ known[m].community

\* getMultiplier, twice, with its "fallback safe value" of 1.0.
Half(m) ==
  LET known == Registry(m)
  IN IF m \in DOMAIN known THEN known[m].half ELSE 2
-----------------------------------------------------------------------------
\* What the script makes of a model it has not seen before.
Curated(price) ==
  [price |-> price, half |-> IF price = "free" THEN 2 ELSE 4,
   community |-> price = "free", active |-> TRUE]

\* The script: offered are the models that pass its filters, with their price.
\* Of the models in the file it keeps those whose price has changed, with the
\* new price, and it adds those that are not there.
Curate ==
  /\ changes < MaxChanges /\ file # Corrupt
  /\ \E S \in SUBSET Model : \E offered \in [S -> Price] :
       LET listed  == DOMAIN file
           updated == {m \in listed \intersect S : file[m].price # offered[m]}
       IN file' = [m \in updated \union (S \ listed) |->
                     IF m \in updated THEN [file[m] EXCEPT !.price = offered[m]]
                                      ELSE Curated(offered[m])]
  /\ changes' = changes + 1
  /\ UNCHANGED models

\* The operator turns a model off or on, or damages the file.
Edit ==
  /\ changes < MaxChanges
  /\ \/ /\ file # Corrupt
        /\ \E m \in DOMAIN file : file' = [file EXCEPT ![m].active = ~ @]
     \/ file' = Corrupt
  /\ changes' = changes + 1
  /\ UNCHANGED models
=============================================================================
