---------------------------- MODULE ConfigPipelineProofs ----------------------------
(* Invariance proofs for ConfigPipeline: what an accepted configuration is like, for every       *)
(* registry, every set of packages, solutions and profiles, and every configuration.             *)
EXTENDS ConfigPipeline, FiniteSetTheorems, WellFoundedInduction, TLAPS

-----------------------------------------------------------------------------
(* Positions of a list.                                                                          *)

(* Counting the positions up to each one numbers them from 1 to their count.                     *)
LEMMA PlacesNumber ==
    ASSUME NEW P, P \subseteq Int, IsFiniteSet(P)
    PROVE  /\ Cardinality(P) \in Nat
           /\ \A k \in 1..Cardinality(P) : \E i \in P : Place(i, P) = k
<1> DEFINE n == Cardinality(P)
           f == [i \in P |-> Place(i, P)]
           Up(i) == {j \in P : j <= i}
<1>1. n \in Nat
  BY FS_CardinalityType
<1>2. ASSUME NEW i \in P
      PROVE  IsFiniteSet(Up(i)) /\ Cardinality(Up(i)) \in 1..n /\ i \in Up(i)
  <2>1. Up(i) \in SUBSET P /\ i \in Up(i)
    OBVIOUS
  <2>2. IsFiniteSet(Up(i)) /\ Cardinality(Up(i)) <= n
    BY <2>1, FS_Subset
  <2>3. Cardinality(Up(i)) \in Nat /\ Cardinality(Up(i)) # 0
    BY <2>1, <2>2, FS_CardinalityType, FS_EmptySet
  <2> QED
    BY <1>1, <2>1, <2>2, <2>3
<1>3. f \in [P -> 1..n]
  BY <1>2 DEF Place
<1>4. ASSUME NEW i \in P, NEW j \in P, i < j PROVE f[i] # f[j]
  <2>0. i \in Int /\ j \in Int /\ \A x \in P : x \in Int
    OBVIOUS
  <2>1. (\A x \in P : x <= i => x <= j) /\ j <= j /\ ~(j <= i)
    BY <1>4, <2>0
  <2>2. IsFiniteSet(Up(j)) /\ Up(j) # Up(i)
    BY <1>2, <2>1
  <2>a. Up(i) \in SUBSET Up(j)
    BY <2>1
  <2>3. Cardinality(Up(j)) # Cardinality(Up(i))
    BY <2>a, <2>2, FS_Subset
  <2> QED
    BY <2>3 DEF Place
<1>5. \A i, j \in P : f[i] = f[j] => i = j
  BY <1>4
<1>6. f \in Injection(P, 1..n)
  BY <1>3, <1>5 DEF Injection, IsInjective
<1>7. IsFiniteSet(1..n) /\ Cardinality(1..n) = n
  BY <1>1, FS_Interval
<1>8. f \in Surjection(P, 1..n)
  BY <1>6, <1>7, FS_Injection
<1> QED
  BY <1>1, <1>8 DEF Surjection

(* A set of numbers with a lower bound has a smallest one: First is in it.                       *)
LEMMA FirstIn ==
    ASSUME NEW P, P \subseteq Nat, P # {}
    PROVE  First(P) \in P /\ \A i \in P : First(P) <= i
<1>1. IsWellFoundedOn(OpToRel(<, Nat), Nat)
  BY NatLessThanWellFounded
<1>2. PICK m \in P : \A n \in P : ~(<<n, m>> \in OpToRel(<, Nat))
  BY <1>1, WFMin
<1>3. ASSUME NEW n \in P PROVE m <= n
  <2>1. n \in Nat /\ m \in Nat
    OBVIOUS
  <2>2. ~(n < m)
    BY <1>2, <2>1 DEF OpToRel
  <2> QED
    BY <2>1, <2>2
<1> QED
  BY <1>3 DEF First

-----------------------------------------------------------------------------
(* Lists of entries.                                                                             *)

(* What a list of entries is made of.                                                            *)
LEMMA EntryListIs ==
    ASSUME NEW cs
    PROVE  IsEntryList(cs) <=>
             \E S : cs \in Seq(S) /\ \A e \in Range(cs) : "id" \in DOMAIN e /\ IsSetting(e.id)
<1>1. ASSUME NEW S, cs \in Seq(S) PROVE cs \in Seq(Range(cs))
  BY <1>1 DEF Range
<1>2. (\A e \in Range(cs) : "id" \in DOMAIN e /\ IsSetting(e.id))
        <=> \A i \in DOMAIN cs : "id" \in DOMAIN cs[i] /\ IsSetting(cs[i].id)
  BY DEF Range
<1> QED
  BY <1>1, <1>2 DEF IsEntryList

(* A list of entries is a sequence of entries.                                                   *)
LEMMA EntriesOf ==
    ASSUME NEW cs, IsEntryList(cs)
    PROVE  /\ cs \in Seq(Range(cs)) /\ Len(cs) \in Nat /\ DOMAIN cs = 1..Len(cs)
           /\ \A e \in Range(cs) : "id" \in DOMAIN e /\ IsSetting(e.id)
  BY EntryListIs DEF IsEntryList

(* One list after another is a list.                                                             *)
LEMMA JoinedList ==
    ASSUME NEW cs, IsEntryList(cs), NEW ds, IsEntryList(ds)
    PROVE  IsEntryList(cs \o ds)
<1> DEFINE S == Range(cs) \cup Range(ds)
<1>1. cs \in Seq(S) /\ ds \in Seq(S)
  BY EntriesOf
<1>2. cs \o ds \in Seq(S) /\ Range(cs \o ds) \subseteq S
  BY <1>1 DEF Range
<1>3. \A e \in S : "id" \in DOMAIN e /\ IsSetting(e.id)
  BY EntriesOf
<1> QED
  BY <1>2, <1>3, EntryListIs

(* Taking an entry out leaves a list of the other entries.                                       *)
LEMMA ShorterList ==
    ASSUME NEW cs, IsEntryList(cs), NEW i \in DOMAIN cs
    PROVE  IsEntryList(RemoveAt(cs, i))
<1> DEFINE S == Range(cs)
<1>1. cs \in Seq(S) /\ Len(cs) \in Nat /\ i \in 1..Len(cs)
  BY EntriesOf
<1>2. SubSeq(cs, 1, i - 1) \in Seq(S) /\ SubSeq(cs, i + 1, Len(cs)) \in Seq(S)
  BY <1>1
<1>3. RemoveAt(cs, i) \in Seq(S)
  BY <1>2 DEF RemoveAt
<1>4. Range(RemoveAt(cs, i)) \subseteq S
  BY <1>3 DEF Range
<1> QED
  BY <1>3, <1>4, EntriesOf, EntryListIs

(* Replacing an entry of a list by an entry leaves a list.                                       *)
LEMMA ChangedList ==
    ASSUME NEW cs, IsEntryList(cs), NEW i \in DOMAIN cs, NEW e,
           "id" \in DOMAIN e, IsSetting(e.id)
    PROVE  IsEntryList([cs EXCEPT ![i] = e])
<1> DEFINE S == Range(cs) \cup {e}
<1>1. cs \in Seq(S) /\ Len(cs) \in Nat /\ i \in 1..Len(cs)
  BY EntriesOf
<1>2. [cs EXCEPT ![i] = e] \in Seq(S)
  BY <1>1
<1>3. Range([cs EXCEPT ![i] = e]) \subseteq S
  BY <1>2 DEF Range
<1> QED
  BY <1>2, <1>3, EntriesOf, EntryListIs

(* A list may be given by its length and its entries.                                            *)
LEMMA GivenList ==
    ASSUME NEW n \in Nat, NEW cs, DOMAIN cs = 1..n, cs = [k \in 1..n |-> cs[k]],
           \A k \in 1..n : "id" \in DOMAIN cs[k] /\ IsSetting(cs[k].id)
    PROVE  IsEntryList(cs)
<1>1. cs \in Seq(Range(cs))
  BY DEF Range
<1> QED
  BY <1>1 DEF IsEntryList

(* Keeping some of the positions of a list leaves a list of its entries.                         *)
LEMMA KeptList ==
    ASSUME NEW cs, IsEntryList(cs), NEW P, P \subseteq DOMAIN cs
    PROVE  IsEntryList(KeepOnly(cs, P))
<1> DEFINE n == Cardinality(P)
           At(k) == CHOOSE i \in P : Place(i, P) = k
           ds == [k \in 1..n |-> cs[At(k)]]
<1>1. Len(cs) \in Nat /\ P \in SUBSET (1..Len(cs)) /\ P \subseteq Int
  BY EntriesOf
<1>2. IsFiniteSet(P)
  BY <1>1, FS_Interval, FS_Subset
<1>3. n \in Nat /\ \A k \in 1..n : At(k) \in P
  BY <1>1, <1>2, PlacesNumber
<1>4. \A k \in 1..n : ds[k] \in Range(cs)
  BY <1>3 DEF Range
<1>5. IsEntryList(ds)
  BY <1>3, <1>4, EntriesOf, GivenList
<1> QED
  BY <1>5 DEF KeepOnly

(* SetToSeq lists a finite set.                                                                  *)
LEMMA SetListed ==
    ASSUME NEW S, IsFiniteSet(S)
    PROVE  /\ Cardinality(S) \in Nat
           /\ SetToSeq(S) \in [1..Cardinality(S) -> S]
<1>1. Cardinality(S) \in Nat /\ ExistsBijection(1..Cardinality(S), S)
  BY FS_CardinalityType
<1>2. PICK f \in Bijection(1..Cardinality(S), S) : TRUE
  BY <1>1 DEF ExistsBijection
<1>3. f \in [1..Cardinality(S) -> S] /\ IsInjective(f)
  BY <1>2 DEF Bijection, Injection
<1> QED
  BY <1>1, <1>3 DEF SetToSeq

(* A fresh entry of a type is an entry.                                                          *)
LEMMA PlainEntry ==
    ASSUME NEW type
    PROVE  "id" \in DOMAIN Plain(type) /\ IsSetting(Plain(type).id)
  BY DEF Plain, IsSetting, None, Value

(* The entries that a variant adds and removes leave a list.                                     *)
LEMMA VariantList ==
    ASSUME NEW cs, IsEntryList(cs), NEW add, IsFiniteSet(add), NEW remove
    PROVE  IsEntryList(RemoveComponents(AddComponents(cs, add), remove))
<1> DEFINE T == {t \in add : PositionsOf(cs, t) = {}}
           new == SetToSeq(T)
           ds == [k \in DOMAIN new |-> Plain(new[k])]
<1>1. IsFiniteSet(T)
  BY FS_Subset
<1>2. Cardinality(T) \in Nat /\ DOMAIN new = 1..Cardinality(T)
  BY <1>1, SetListed
<1>3. IsEntryList(ds)
  BY <1>2, PlainEntry, GivenList
<1>4. IsEntryList(AddComponents(cs, add))
  BY <1>3, JoinedList DEF AddComponents
<1> QED
  BY <1>4, KeptList DEF RemoveComponents

(* Substitution and the settings of an !extend leave an entry an entry.                          *)
LEMMA SubstitutedEntry ==
    ASSUME NEW e, "id" \in DOMAIN e, IsSetting(e.id)
    PROVE  "id" \in DOMAIN apply_to_value(e) /\ IsSetting(apply_to_value(e).id)
<1>1. "id" \in DOMAIN apply_to_value(e) /\ apply_to_value(e).id = resolve_string(e.id)
  BY DEF apply_to_value
<1>2. IsSetting(resolve_string(e.id))
  BY DEF resolve_string, IsSetting, Str, Value
<1> QED
  BY <1>1, <1>2

LEMMA MergedEntry ==
    ASSUME NEW e, "id" \in DOMAIN e, IsSetting(e.id), NEW src, IsSetting(src.id)
    PROVE  "id" \in DOMAIN deep_merge(e, src) /\ IsSetting(deep_merge(e, src).id)
<1>1. /\ "id" \in DOMAIN deep_merge(e, src)
      /\ deep_merge(e, src).id = IF src.id = None THEN e.id ELSE src.id
  BY DEF deep_merge
<1> QED
  BY <1>1

-----------------------------------------------------------------------------
(* From stage to stage.                                                                          *)

(* No stage occurs twice in the list of stages.                                                  *)
LEMMA Stages ==
    /\ Len(StageSeq) = 21
    /\ \A j, k \in 1..20 : StageSeq[j] = StageSeq[k] => j = k
  BY DEF StageSeq

(* Each stage is followed by the next one of the list.                                           *)
LEMMA FollowerIs == \A k \in 1..20 : Follower(StageSeq[k]) = StageSeq[k + 1]
<1> SUFFICES ASSUME NEW k \in 1..20 PROVE Follower(StageSeq[k]) = StageSeq[k + 1]
  OBVIOUS
<1>1. (CHOOSE j \in 1..20 : StageSeq[j] = StageSeq[k]) = k
  BY Stages
<1>2. Len(StageSeq) - 1 = 20 /\ 1 + k = k + 1
  BY Stages
<1> QED
  BY <1>1, <1>2 DEF Follower

LEMMA Followers ==
    /\ Follower("PackageMerge") = "Substitutions"
    /\ Follower("Substitutions") = "ExtendRemove"
    /\ Follower("ExtendRemove") = "VariantResolution"
    /\ Follower("VariantResolution") = "ExternalComponents"
    /\ Follower("ExternalComponents") = "Preload"
    /\ Follower("Preload") = "ComponentLoading"
    /\ Follower("ComponentLoading") = "AutoLoad"
    /\ Follower("AutoLoad") = "Dependencies"
    /\ Follower("Dependencies") = "SchemaValidation"
    /\ Follower("SchemaValidation") = "CollectIds"
    /\ Follower("CollectIds") = "GenerateIds"
    /\ Follower("GenerateIds") = "CrossRefs"
    /\ Follower("CrossRefs") = "FinalValidation"
    /\ Follower("FinalValidation") = "PinConflicts"
    /\ Follower("PinConflicts") = "PinCapabilities"
    /\ Follower("PinCapabilities") = "ExclusiveGroup"
    /\ Follower("ExclusiveGroup") = "ProfileValidation"
    /\ Follower("ProfileValidation") = "SecretFields"
    /\ Follower("SecretFields") = "BuildDag"
    /\ Follower("BuildDag") = "Valid"
  BY FollowerIs DEF StageSeq

(* The stages from a point on: what they may rely on is below.                                   *)
AfterGroups == {"ProfileValidation", "SecretFields", "BuildDag", "Valid"}
AfterCaps == {"ExclusiveGroup"} \cup AfterGroups
AfterPins == {"PinCapabilities"} \cup AfterCaps
AfterRefs == {"FinalValidation", "PinConflicts"} \cup AfterPins
AfterIds == {"CrossRefs"} \cup AfterRefs
AfterCollect == {"GenerateIds"} \cup AfterIds
AfterChecks == {"SchemaValidation", "CollectIds"} \cup AfterCollect
AfterAutoLoad == {"Dependencies"} \cup AfterChecks
AfterLoading == {"AutoLoad"} \cup AfterAutoLoad
AfterPreload == {"ComponentLoading"} \cup AfterLoading
Rewriting == {"PackageMerge", "Substitutions", "ExtendRemove", "VariantResolution"}

(* Every step but a stutter is the step of the stage the pipeline is in.                         *)
LEMMA StepOfStage ==
    ASSUME [Next]_vars
    PROVE  \/ stage = "PackageMerge" /\ stage_1_merge_packages
           \/ stage = "Substitutions" /\ stage_2_apply_substitutions
           \/ stage = "ExtendRemove" /\ stage_3_process_extend_remove
           \/ stage = "VariantResolution" /\ stage_3_5_resolve_variant
           \/ stage = "ExternalComponents" /\ stage_4_resolve_external_components
           \/ stage = "Preload" /\ stage_5_preload_esphome_block
           \/ stage = "ComponentLoading" /\ stage_6_load_components
           \/ stage = "AutoLoad" /\ resolve_auto_load
           \/ stage = "Dependencies" /\ CheckDependencies
           \/ stage = "SchemaValidation" /\ stage_7_validate_schemas
           \/ stage = "CollectIds" /\ CollectIds
           \/ stage = "GenerateIds" /\ GenerateIds
           \/ stage = "CrossRefs" /\ CrossRefs
           \/ stage = "FinalValidation" /\ stage_9_final_validation
           \/ stage = "PinConflicts" /\ stage_10_check_pin_conflicts
           \/ stage = "PinCapabilities" /\ PinCapabilities
           \/ stage = "ExclusiveGroup" /\ stage_11_check_exclusive_groups
           \/ stage = "ProfileValidation" /\ stage_12_validate_profile
           \/ stage = "SecretFields" /\ stage_13_check_secret_fields
           \/ stage = "BuildDag" /\ BuildDag
           \/ UNCHANGED vars
<1>1. stage_1_merge_packages => stage = "PackageMerge"
  BY DEF stage_1_merge_packages
<1>2. stage_2_apply_substitutions => stage = "Substitutions"
  BY DEF stage_2_apply_substitutions
<1>3. stage_3_process_extend_remove => stage = "ExtendRemove"
  BY DEF stage_3_process_extend_remove
<1>4. stage_3_5_resolve_variant => stage = "VariantResolution"
  BY DEF stage_3_5_resolve_variant
<1>5. stage_4_resolve_external_components => stage = "ExternalComponents"
  BY DEF stage_4_resolve_external_components
<1>6. stage_5_preload_esphome_block => stage = "Preload"
  BY DEF stage_5_preload_esphome_block
<1>7. stage_6_load_components => stage = "ComponentLoading"
  BY DEF stage_6_load_components
<1>8. resolve_auto_load => stage = "AutoLoad"
  BY DEF resolve_auto_load
<1>9. CheckDependencies => stage = "Dependencies"
  BY DEF CheckDependencies
<1>10. stage_7_validate_schemas => stage = "SchemaValidation"
  BY DEF stage_7_validate_schemas
<1>11. CollectIds => stage = "CollectIds"
  BY DEF CollectIds
<1>12. GenerateIds => stage = "GenerateIds"
  BY DEF GenerateIds
<1>13. CrossRefs => stage = "CrossRefs"
  BY DEF CrossRefs
<1>14. stage_9_final_validation => stage = "FinalValidation"
  BY DEF stage_9_final_validation
<1>15. stage_10_check_pin_conflicts => stage = "PinConflicts"
  BY DEF stage_10_check_pin_conflicts
<1>16. PinCapabilities => stage = "PinCapabilities"
  BY DEF PinCapabilities
<1>17. stage_11_check_exclusive_groups => stage = "ExclusiveGroup"
  BY DEF stage_11_check_exclusive_groups
<1>18. stage_12_validate_profile => stage = "ProfileValidation"
  BY DEF stage_12_validate_profile
<1>19. stage_13_check_secret_fields => stage = "SecretFields"
  BY DEF stage_13_check_secret_fields
<1>20. BuildDag => stage = "BuildDag"
  BY DEF BuildDag
<1> QED
  BY <1>1, <1>2, <1>3, <1>4, <1>5, <1>6, <1>7, <1>8, <1>9, <1>10, <1>11, <1>12, <1>13, <1>14, <1>15, <1>16, <1>17, <1>18, <1>19, <1>20 DEF Next, Done

(* A step stays in its stage, rejects the configuration or goes on to the next stage; and each   *)
(* variable changes only in the stages that are about it.                                        *)
StageStep ==
    /\ \/ stage' = stage
       \/ stage' = "Invalid"
       \/ stage \in (Rewriting \cup {"ExternalComponents", "Preload"} \cup AfterPreload) \ {"Valid"}
          /\ stage' = Follower(stage)
    /\ config' = config \/ stage \in Rewriting \/ (stage = "GenerateIds" /\ stage' = stage)
    /\ UNCHANGED <<resolved, work>> \/ stage \in {"ComponentLoading", "AutoLoad"}
    /\ ids' = ids \/ stage \in {"CollectIds", "GenerateIds"}
    /\ tracker' = tracker \/ stage = "PinConflicts"
    /\ order' = order \/ stage = "BuildDag"

LEMMA StageSteps ==
    ASSUME [Next]_vars
    PROVE  StageStep
<1> USE DEF StageStep, Leave, Loop, Rewriting, AfterPreload, AfterLoading, AfterAutoLoad, AfterChecks,
            AfterCollect, AfterIds, AfterRefs, AfterPins, AfterCaps, AfterGroups
<1>1. CASE stage_1_merge_packages
  BY <1>1 DEF stage_1_merge_packages
<1>2. CASE stage_2_apply_substitutions
  BY <1>2 DEF stage_2_apply_substitutions
<1>3. CASE stage_3_process_extend_remove
  BY <1>3 DEF stage_3_process_extend_remove, ExtendRemoveRound
<1>4. CASE stage_3_5_resolve_variant
  BY <1>4 DEF stage_3_5_resolve_variant, ApplyVariant
<1>5. CASE stage_4_resolve_external_components
  BY <1>5 DEF stage_4_resolve_external_components
<1>6. CASE stage_5_preload_esphome_block
  BY <1>6 DEF stage_5_preload_esphome_block
<1>7. CASE stage_6_load_components
  BY <1>7 DEF stage_6_load_components
<1>8. CASE resolve_auto_load
  BY <1>8 DEF resolve_auto_load
<1>9. CASE CheckDependencies
  BY <1>9 DEF CheckDependencies
<1>10. CASE stage_7_validate_schemas
  BY <1>10 DEF stage_7_validate_schemas
<1>11. CASE CollectIds
  BY <1>11 DEF CollectIds
<1>12. CASE GenerateIds
  BY <1>12 DEF GenerateIds
<1>13. CASE CrossRefs
  BY <1>13 DEF CrossRefs
<1>14. CASE stage_9_final_validation
  BY <1>14 DEF stage_9_final_validation
<1>15. CASE stage_10_check_pin_conflicts
  BY <1>15 DEF stage_10_check_pin_conflicts
<1>16. CASE PinCapabilities
  BY <1>16 DEF PinCapabilities
<1>17. CASE stage_11_check_exclusive_groups
  BY <1>17 DEF stage_11_check_exclusive_groups
<1>18. CASE stage_12_validate_profile
  BY <1>18 DEF stage_12_validate_profile
<1>19. CASE stage_13_check_secret_fields
  BY <1>19 DEF stage_13_check_secret_fields
<1>20. CASE BuildDag
  BY <1>20 DEF BuildDag
<1>21. CASE UNCHANGED vars
  BY <1>21 DEF vars
<1> QED
  BY StepOfStage, <1>1, <1>2, <1>3, <1>4, <1>5, <1>6, <1>7, <1>8, <1>9, <1>10, <1>11, <1>12, <1>13, <1>14, <1>15, <1>16, <1>17, <1>18, <1>19, <1>20, <1>21

-----------------------------------------------------------------------------
(* Generated ids.                                                                                *)

(* What slugify makes of a name is a string, and its suffix a sequence of numbers.               *)
LEMMA SlugIs ==
    ASSUME NEW name
    PROVE  \E text, suffix : suffix \in Seq(Nat) /\ slugify(name) = Value("str", text, suffix, 0)
<1>1. CASE name.tag = "placeholder" \/ name.text \notin DOMAIN Slug
  <2>1. slugify(name) = Value("str", name.text, <<>>, 0) /\ <<>> \in Seq(Nat)
    BY <1>1 DEF slugify, Str
  <2> QED
    BY <2>1
<1>2. CASE ~(name.tag = "placeholder" \/ name.text \notin DOMAIN Slug)
  <2>1. /\ slugify(name) = Value("str", Slug[name.text].text, Slug[name.text].suffix, 0)
        /\ Slug[name.text].suffix \in Seq(Nat)
    BY <1>2, SlugAssumption DEF slugify
  <2> QED
    BY <2>1
<1> QED
  BY <1>1, <1>2

(* One more number of a suffix is another suffix, for each number another one.                   *)
LEMMA SuffixesDiffer ==
    ASSUME NEW suffix \in Seq(Nat), NEW j \in Nat, NEW k \in Nat, Append(suffix, j) = Append(suffix, k)
    PROVE  j = k
<1>1. /\ Append(suffix, j)[Len(suffix) + 1] = j
      /\ Append(suffix, k)[Len(suffix) + 1] = k
  OBVIOUS
<1> QED
  BY <1>1

(* The id that is generated for a name is a string that the table does not have: of one number   *)
(* more than the table has ids, one is free.                                                     *)
LEMMA MadeUnique ==
    ASSUME NEW name, NEW table
    PROVE  LET id == make_unique(slugify(name), table) IN
           id.tag = "str" /\ (IsFiniteSet(table) => id \notin table)
<1> DEFINE base == slugify(name)
           Candidate(n) == [base EXCEPT !.suffix = Append(@, n)]
           N == 2..(Cardinality(table) + 2)
           free == {n \in N : Candidate(n) \notin table}
           id == make_unique(base, table)
<1>1. PICK text, suffix : suffix \in Seq(Nat) /\ base = Value("str", text, suffix, 0)
  BY SlugIs
<1>2. base.suffix = suffix /\ "tag" \in DOMAIN base /\ "suffix" \in DOMAIN base
  BY <1>1 DEF Value
<1>4. base.tag = "str"
  BY <1>1 DEF Value
<1> HIDE DEF base
<1>3. \A n : Candidate(n).tag = "str" /\ Candidate(n).suffix = Append(suffix, n)
  BY <1>2, <1>4
<1>5. id = IF base \notin table THEN base ELSE Candidate(First(free))
  BY DEF make_unique
<1> HIDE DEF Candidate, id
<1>6. id.tag = "str"
  BY <1>3, <1>4, <1>5
<1>7. ASSUME IsFiniteSet(table), base \in table PROVE id \notin table
  <2>1. Cardinality(table) \in Nat
    BY <1>7, FS_CardinalityType
  <2>2. N \subseteq Nat /\ IsFiniteSet(N) /\ Cardinality(N) = Cardinality(table) + 1
    <3>1. PICK m \in Nat : m = Cardinality(table)
      BY <2>1
    <3>2. 2 \in Int /\ m + 2 \in Int /\ 2..(m + 2) \subseteq Nat /\ ~(2 > m + 2) /\ (m + 2) - 2 + 1 = m + 1
      OBVIOUS
    <3>3. IsFiniteSet(2..(m + 2)) /\ Cardinality(2..(m + 2)) = (m + 2) - 2 + 1
      BY <3>2, FS_Interval
    <3> QED
      BY <3>1, <3>2, <3>3
  <2>3. free # {}
    <3> SUFFICES ASSUME free = {} PROVE FALSE
      OBVIOUS
    <3> DEFINE f == [n \in N |-> Candidate(n)]
    <3>1. f \in [N -> table]
      OBVIOUS
    <3>2. \A j, k \in N : f[j] = f[k] => j = k
      <4> SUFFICES ASSUME NEW j \in N, NEW k \in N, f[j] = f[k] PROVE j = k
        OBVIOUS
      <4>1. Append(suffix, j) = Append(suffix, k)
        BY <1>3
      <4> QED
        BY <1>1, <2>2, <4>1, SuffixesDiffer
    <3>3. f \in Injection(N, table)
      BY <3>1, <3>2 DEF Injection, IsInjective
    <3>4. Cardinality(N) <= Cardinality(table)
      BY <1>7, <3>3, FS_Injection
    <3> QED
      BY <2>1, <2>2, <3>4
  <2>4. First(free) \in free
    BY <2>2, <2>3, FirstIn
  <2> QED
    BY <1>5, <1>7, <2>4
<1>8. IsFiniteSet(table) => id \notin table
  BY <1>5, <1>7
<1> QED
  BY <1>6, <1>8 DEF id, base

-----------------------------------------------------------------------------
(* The configuration stays a list of entries.                                                    *)

ListInv ==
    /\ "components" \in DOMAIN config /\ "platform" \in DOMAIN config
    /\ IsEntryList(config.components)

(* Changing the entries changes nothing else of the configuration.                               *)
LEMMA Rewritten ==
    ASSUME ListInv, NEW cs, IsEntryList(cs), config' = [config EXCEPT !.components = cs]
    PROVE  ListInv'
  BY DEF ListInv

(* The step that generates an id, if it does.                                                    *)
LEMMA GeneratesId ==
    ASSUME ListInv, cursor \in Nat \ {0}, GenerateIds, ~(cursor > Len(Components))
    PROVE  /\ cursor \in DOMAIN Components
           /\ cursor' = cursor + 1 /\ stage' = stage
           /\ LET c == Components[cursor]
                  id == make_unique(slugify(c.name), ids)
              IN  \/ /\ c.id = None /\ IsStr(c.name)
                     /\ config' = [config EXCEPT !.components =
                                     [Components EXCEPT ![cursor] = [c EXCEPT !.id = id]]]
                     /\ ids' = ids \cup {id}
                  \/ ~(c.id = None /\ IsStr(c.name)) /\ UNCHANGED <<config, ids>>
<1>1. Len(Components) \in Nat /\ DOMAIN Components = 1..Len(Components)
  BY EntriesOf DEF ListInv, Components
<1>2. cursor \in 1..Len(Components)
  BY <1>1
<1> QED
  BY <1>1, <1>2 DEF GenerateIds, Loop, Components, ListInv

(* ListInv is inductive.                                                                         *)
LEMMA ListStep ==
    ASSUME ListInv, cursor \in Nat \ {0}, [Next]_vars
    PROVE  ListInv'
<1>0. IsEntryList(Components)
  BY DEF ListInv, Components
<1>1. CASE config' = config
  BY <1>1 DEF ListInv
<1>2. CASE stage_1_merge_packages /\ config' # config
  <2>1. PICK name \in DOMAIN Packages :
           config' = [config EXCEPT !.components = @ \o Packages[name].components,
                                    !.subs = @ @@ Packages[name].subs]
    BY <1>2 DEF stage_1_merge_packages
  <2>2. IsEntryList(Components \o Packages[name].components)
    BY <1>0, JoinedList, ConfigsAssumption
  <2>3. config'.components = Components \o Packages[name].components
    BY <2>1 DEF ListInv, Components
  <2> QED
    BY <2>1, <2>2, <2>3 DEF ListInv
<1>3. CASE stage_2_apply_substitutions
  <2> DEFINE ds == [i \in DOMAIN Components |-> apply_to_value(Components[i])]
  <2>1. config' = [config EXCEPT !.components = ds]
    BY <1>3 DEF stage_2_apply_substitutions, Components
  <2>2. /\ Len(Components) \in Nat /\ DOMAIN Components = 1..Len(Components)
        /\ \A i \in DOMAIN Components :
              "id" \in DOMAIN Components[i] /\ IsSetting(Components[i].id)
    BY <1>0, EntriesOf DEF IsEntryList
  <2>3. \A i \in DOMAIN Components : "id" \in DOMAIN ds[i] /\ IsSetting(ds[i].id)
    BY <2>2, SubstitutedEntry
  <2>4. IsEntryList(ds)
    BY <2>2, <2>3, GivenList
  <2> QED
    BY <2>1, <2>4, Rewritten
<1>4. CASE stage_3_process_extend_remove /\ config' # config
  <2> DEFINE c == Components[cursor]
             rest == TakeOut(Components, cursor)
             targets == PositionsOf(rest, c.type)
  <2>1. ~(cursor > Len(Components)) /\ ExtendRemoveRound(c, rest)
    BY <1>4 DEF stage_3_process_extend_remove
  <2>2. cursor \in DOMAIN Components
    BY <1>0, <2>1, EntriesOf
  <2>3. IsEntryList(rest)
    BY <1>0, <2>2, ShorterList DEF TakeOut
  <2>4. targets \subseteq DOMAIN rest /\ targets \subseteq Nat
    BY <2>3, EntriesOf DEF PositionsOf
  <2>5. ASSUME targets # {} PROVE First(targets) \in DOMAIN rest
    BY <2>4, <2>5, FirstIn
  <2>6. \A i \in DOMAIN rest : "id" \in DOMAIN rest[i] /\ IsSetting(rest[i].id)
    BY <2>3 DEF IsEntryList
  <2>7. IsSetting(c.id)
    BY <1>0, <2>2 DEF IsEntryList
  <2>8. ASSUME targets # {}
        PROVE  IsEntryList([rest EXCEPT ![First(targets)] = deep_merge(@, c)])
    <3>1. PICK i \in DOMAIN rest : i = First(targets)
      BY <2>5, <2>8
    <3>2. "id" \in DOMAIN deep_merge(rest[i], c) /\ IsSetting(deep_merge(rest[i], c).id)
      BY <2>6, <2>7, MergedEntry
    <3>3. IsEntryList([rest EXCEPT ![i] = deep_merge(rest[i], c)])
      BY <2>3, <3>2, ChangedList
    <3> QED
      BY <3>1, <3>3
  <2>9. ASSUME targets # {} PROVE IsEntryList(RemoveAt(rest, First(targets)))
    BY <2>3, <2>5, <2>9, ShorterList
  <2>10. \E ds : IsEntryList(ds) /\ config' = [config EXCEPT !.components = ds]
    BY <1>4, <2>1, <2>3, <2>8, <2>9 DEF ExtendRemoveRound
  <2> QED
    BY <2>10, Rewritten
<1>5. CASE stage_3_5_resolve_variant /\ config' # config
  <2>1. PICK v : /\ config.solution \in DOMAIN Solutions
                 /\ v \in Range(Solutions[config.solution].variants) /\ ApplyVariant(v)
    BY <1>5 DEF stage_3_5_resolve_variant
  <2>2. IsEntryList(RemoveComponents(AddComponents(Components, v.add_components),
                                     v.remove_components))
    BY <1>0, <2>1, VariantList, SolutionsAssumption
  <2> QED
    BY <2>1, <2>2, Rewritten DEF ApplyVariant, Components
<1>6. CASE GenerateIds /\ config' # config
  <2> DEFINE c == Components[cursor]
             id == make_unique(slugify(c.name), ids)
             e == [c EXCEPT !.id = id]
  <2>1. ~(cursor > Len(Components))
    BY <1>6 DEF GenerateIds
  <2>2. cursor \in DOMAIN Components
        /\ config' = [config EXCEPT !.components = [Components EXCEPT ![cursor] = e]]
    BY <1>6, <2>1, GeneratesId
  <2>3. id.tag = "str"
    BY MadeUnique
  <2>4. "id" \in DOMAIN c
    BY <1>0, <2>2 DEF IsEntryList
  <2> HIDE DEF c, id
  <2>5. "id" \in DOMAIN e /\ IsSetting(e.id)
    BY <2>3, <2>4 DEF IsSetting
  <2>6. IsEntryList([Components EXCEPT ![cursor] = e])
    BY <1>0, <2>2, <2>5, ChangedList
  <2> QED
    BY <2>2, <2>6, Rewritten
<1>7. CASE config' # config
  <2>1. StageStep
    BY StageSteps
  <2> QED
    BY <1>2, <1>3, <1>4, <1>5, <1>6, <1>7, <2>1, StepOfStage DEF StageStep, Rewriting, vars
<1> QED
  BY <1>1, <1>7

(* Once the registry was consulted, an entry only changes by getting an id.                      *)
LEMMA OnlyIdsChange ==
    ASSUME ListInv, cursor \in Nat \ {0}, [Next]_vars, stage \notin Rewriting
    PROVE  /\ DOMAIN config' = DOMAIN config
           /\ \A f \in DOMAIN config \ {"components"} : config'[f] = config[f]
           /\ DOMAIN Components' = DOMAIN Components
           /\ \A i \in DOMAIN Components :
                 /\ Components'[i].directive = Components[i].directive
                 /\ Components'[i].type = Components[i].type
                 /\ Components'[i].platform = Components[i].platform
                 /\ Components'[i].name = Components[i].name
                 /\ Components'[i].ref = Components[i].ref
<1>1. CASE config' = config
  BY <1>1 DEF Components
<1>2. CASE config' # config
  <2>1. stage = "GenerateIds" /\ stage # "Valid"
    BY <1>2, StageSteps DEF StageStep
  <2>2. GenerateIds
    BY <1>2, <2>1, StepOfStage DEF vars
  <2>3. ~(cursor > Len(Components))
    BY <1>2, <2>2 DEF GenerateIds
  <2>4. PICK id : config' = [config EXCEPT !.components =
                       [Components EXCEPT ![cursor] = [Components[cursor] EXCEPT !.id = id]]]
    BY <1>2, <2>2, <2>3, GeneratesId
  <2>5. "components" \in DOMAIN config
    BY DEF ListInv
  <2>6. Components' = [Components EXCEPT ![cursor] = [Components[cursor] EXCEPT !.id = id]]
    BY <2>4, <2>5 DEF Components
  <2>7. \A f \in DOMAIN config \ {"components"} : config'[f] = config[f]
    BY <2>4
  <2>8. DOMAIN config' = DOMAIN config /\ DOMAIN Components' = DOMAIN Components
    BY <2>4, <2>6
  <2>9. ASSUME NEW i \in DOMAIN Components
        PROVE  /\ Components'[i].directive = Components[i].directive
               /\ Components'[i].type = Components[i].type
               /\ Components'[i].platform = Components[i].platform
               /\ Components'[i].name = Components[i].name
               /\ Components'[i].ref = Components[i].ref
    BY <2>6
  <2> QED
    BY <2>7, <2>8, <2>9
<1> QED
  BY <1>1, <1>2

-----------------------------------------------------------------------------
(* The selection.                                                                                *)

(* The selection is what is written down and what it loads; what is not in the worklist has been *)
(* expanded.                                                                                     *)
Closing ==
    /\ Selected \subseteq resolved /\ resolved \subseteq DOMAIN Registry /\ work \subseteq resolved
    /\ \A id \in resolved : id \in Selected \/ \E by \in resolved : id \in Registry[by].auto_load
    /\ \A id \in resolved \ work : Registry[id].auto_load \subseteq resolved

OneOfGroup ==
    \A a, b \in resolved :
        a # b => Registry[a].exclusive_group = "none"
                   \/ Registry[a].exclusive_group # Registry[b].exclusive_group

SelInv ==
    /\ stage \in AfterLoading => Closing
    /\ stage \in AfterAutoLoad => work = {}
    /\ stage \in AfterChecks => check_dependencies /\ check_conflicts
    /\ stage \in AfterGroups => OneOfGroup

(* What an entry is called depends on its type and its platform.                                 *)
LEMMA SameName ==
    ASSUME NEW c, NEW d, c.directive = d.directive, c.type = d.type, c.platform = d.platform
    PROVE  component_effective_id(c) = component_effective_id(d)
  BY DEF component_effective_id

(* The selection does not change after stage 3.5.                                                *)
LEMMA SelectedKept ==
    ASSUME ListInv, cursor \in Nat \ {0}, [Next]_vars, stage \notin Rewriting
    PROVE  Selected' = Selected
<1>1. /\ DOMAIN Components' = DOMAIN Components
      /\ \A i \in DOMAIN Components :
            /\ Components'[i].directive = Components[i].directive
            /\ Components'[i].type = Components[i].type
            /\ Components'[i].platform = Components[i].platform
  BY OnlyIdsChange
<1>2. PICK cs : cs = Components'
  OBVIOUS
<1>3. \A i \in DOMAIN Components :
         component_effective_id(cs[i]) = component_effective_id(Components[i])
  BY <1>1, <1>2, SameName
<1>4. Selected' = {component_effective_id(cs[i]) : i \in DOMAIN cs}
  BY <1>2 DEF Selected, component_effective_id
<1>5. DOMAIN cs = DOMAIN Components
  BY <1>1, <1>2
<1> QED
  BY <1>3, <1>4, <1>5 DEF Selected

(* SelInv is inductive.                                                                          *)
LEMMA SelStep ==
    ASSUME ListInv, cursor \in Nat \ {0}, SelInv, [Next]_vars
    PROVE  SelInv'
<1> USE DEF AfterPreload, AfterLoading, AfterAutoLoad, AfterChecks, AfterCollect, AfterIds,
            AfterRefs, AfterPins, AfterCaps, AfterGroups
<1>0. StageStep
  BY StageSteps
<1>1. CASE stage' \notin AfterLoading
  BY <1>1 DEF SelInv
<1>2. CASE stage = "ComponentLoading" /\ stage' \in AfterLoading
  <2>1. stage_6_load_components
    BY <1>2, StepOfStage DEF vars
  <2>2. stage' = "AutoLoad" /\ Selected \subseteq DOMAIN Registry /\ resolved' = Selected
        /\ work' = Selected
    BY <1>2, <2>1, Followers DEF stage_6_load_components, Leave
  <2>3. Selected' = Selected
    BY <1>2, SelectedKept DEF Rewriting
  <2> QED
    BY <2>2, <2>3 DEF SelInv, Closing
<1>3. CASE stage = "AutoLoad" /\ stage' # "Invalid" /\ resolve_auto_load
  <2>1. Selected' = Selected
    BY <1>3, SelectedKept DEF Rewriting
  <2>2. Closing
    BY <1>3 DEF SelInv
  <2>3. CASE work = {}
    <3>1. stage' = "Dependencies" /\ resolved' = resolved /\ work' = work
      BY <1>3, <2>3, Followers DEF resolve_auto_load, Leave
    <3> QED
      BY <2>1, <2>2, <2>3, <3>1 DEF SelInv, Closing
  <2>4. CASE work # {}
    <3>1. PICK id \in work : /\ resolved' = resolved \cup AutoLoad(id)
                             /\ work' = (work \ {id}) \cup Inserted(id)
                             /\ stage' = stage
      BY <1>3, <2>4 DEF resolve_auto_load
    <3>2. id \in resolved /\ id \in DOMAIN Registry /\ AutoLoad(id) = Registry[id].auto_load
      BY <2>2 DEF Closing, AutoLoad
    <3>3. Registry[id].auto_load \subseteq DOMAIN Registry
      BY <3>2, RegistryAssumption
    <3>4. Closing'
      BY <2>1, <2>2, <3>1, <3>2, <3>3 DEF Closing, Inserted
    <3> QED
      BY <1>3, <3>1, <3>4 DEF SelInv
  <2> QED
    BY <2>3, <2>4
<1>4. CASE stage \in AfterAutoLoad /\ stage' \in AfterLoading
  <2>1. resolved' = resolved /\ work' = work /\ Selected' = Selected
    BY <1>0, <1>4, SelectedKept DEF StageStep, Rewriting
  <2>2. Closing' /\ work' = {}
    BY <1>4, <2>1 DEF SelInv, Closing
  <2>3. stage' \in AfterChecks => check_dependencies /\ check_conflicts
    <3>1. CASE stage = "Dependencies" /\ stage' # stage
      <4>1. CheckDependencies
        BY <3>1, StepOfStage DEF vars
      <4> QED
        BY <1>4, <3>1, <4>1 DEF CheckDependencies, Leave
    <3>2. CASE stage # "Dependencies" \/ stage' = stage
      BY <1>4, <3>2 DEF SelInv
    <3> QED
      BY <3>1, <3>2
  <2>4. stage' \in AfterGroups => OneOfGroup
    <3>1. CASE stage = "ExclusiveGroup" /\ stage' \in AfterGroups
      <4>1. stage_11_check_exclusive_groups
        BY <3>1, StepOfStage DEF vars
      <4>2. Loaded = resolved
        BY <1>4 DEF SelInv, Closing, Loaded
      <4> QED
        BY <3>1, <4>1, <4>2 DEF stage_11_check_exclusive_groups, Leave, OneOfGroup
    <3>2. CASE stage \in AfterGroups
      BY <3>2 DEF SelInv
    <3>3. CASE stage \notin AfterGroups \cup {"ExclusiveGroup"}
      BY <1>0, <1>4, <3>3, Followers DEF StageStep
    <3> QED
      BY <3>1, <3>2, <3>3
  <2>5. /\ check_dependencies' <=> check_dependencies
        /\ check_conflicts' <=> check_conflicts
        /\ OneOfGroup' <=> OneOfGroup
    BY <2>1 DEF check_dependencies, check_conflicts, OneOfGroup, Loaded
  <2> QED
    BY <2>2, <2>3, <2>4, <2>5 DEF SelInv
<1>5. CASE stage \notin AfterLoading \cup {"ComponentLoading"} /\ stage' \in AfterLoading
  BY <1>0, <1>5, Followers DEF StageStep, Rewriting
<1>6. CASE stage = "AutoLoad" /\ stage' \in AfterLoading /\ ~resolve_auto_load
  <2>1. UNCHANGED vars
    BY <1>6, StepOfStage
  <2> QED
    BY <2>1 DEF vars, SelInv, Closing, check_dependencies, check_conflicts, OneOfGroup, Loaded,
                Selected, Components
<1> QED
  BY <1>1, <1>2, <1>3, <1>4, <1>5, <1>6

(* What SelInv says of an accepted configuration.                                                *)
LEMMA SelectionSoundFrom == SelInv => SelectionSound
<1> SUFFICES ASSUME SelInv, Accepted PROVE SelectionSound
  BY DEF SelectionSound
<1>1. Closing /\ work = {} /\ check_dependencies /\ check_conflicts /\ OneOfGroup
  BY DEF SelInv, Accepted, AfterLoading, AfterAutoLoad, AfterChecks, AfterCollect, AfterIds,
         AfterRefs, AfterPins, AfterCaps, AfterGroups
<1>2. Loaded = resolved
  BY <1>1 DEF Closing, Loaded
<1>3. ASSUME NEW id \in resolved
      PROVE  /\ id \in Selected \/ \E by \in resolved : id \in Registry[by].auto_load
             /\ Registry[id].auto_load \cup Registry[id].dependencies \subseteq resolved
             /\ Registry[id].conflicts_with \cap resolved = {}
  BY <1>1, <1>2 DEF Closing, check_dependencies, check_conflicts
<1>4. \A id \in resolved : \A other \in resolved \ {id} :
         Registry[id].exclusive_group = "none"
           \/ Registry[other].exclusive_group # Registry[id].exclusive_group
  BY <1>1 DEF OneOfGroup
<1> QED
  BY <1>1, <1>3, <1>4 DEF SelectionSound, Closing

-----------------------------------------------------------------------------
(* Entity ids.                                                                                   *)

(* The table holds the ids of a list, no two entries have the same one and none is a number.     *)
TableOf(cs) == {cs[i].id : i \in {j \in DOMAIN cs : IsStr(cs[j].id)}}

DistinctIds(cs) ==
    /\ \A i, j \in DOMAIN cs : i # j /\ IsStr(cs[i].id) => cs[i].id # cs[j].id
    /\ \A i \in DOMAIN cs : cs[i].id.tag # "num"

NamedHaveIds(cs, n) == \A i \in DOMAIN cs : i < n /\ IsStr(cs[i].name) => cs[i].id # None

IdInv ==
    /\ stage \in AfterCollect =>
          IsFiniteSet(ids) /\ ids = TableOf(Components) /\ DistinctIds(Components)
    /\ stage = "GenerateIds" => NamedHaveIds(Components, cursor)
    /\ stage \in AfterIds => \A i \in DOMAIN Components :
                                IsStr(Components[i].name) => Components[i].id # None
    /\ stage \in AfterRefs => \A i \in DOMAIN Components : check_cross_refs(Components[i])

(* A list has finitely many ids.                                                                 *)
LEMMA TableFinite ==
    ASSUME NEW cs, IsEntryList(cs)
    PROVE  IsFiniteSet(TableOf(cs))
<1> DEFINE J == {j \in DOMAIN cs : IsStr(cs[j].id)}
           f == [j \in J |-> cs[j].id]
<1>1. Len(cs) \in Nat /\ J \in SUBSET (1..Len(cs))
  BY EntriesOf
<1>2. IsFiniteSet(1..Len(cs))
  BY <1>1, FS_Interval
<1>3. IsFiniteSet(J)
  BY <1>1, <1>2, FS_Subset
<1>4. f \in Surjection(J, TableOf(cs))
  BY DEF Surjection, TableOf
<1> QED
  BY <1>3, <1>4, FS_Surjection

(* An entry without an id that gets a new one.                                                   *)
LEMMA IdAdded ==
    ASSUME NEW cs, IsEntryList(cs), DistinctIds(cs), NEW n \in DOMAIN cs, cs[n].id = None,
           NEW id, id.tag = "str", id \notin TableOf(cs), NamedHaveIds(cs, n),
           NEW ds, ds = [cs EXCEPT ![n] = [cs[n] EXCEPT !.id = id]]
    PROVE  /\ TableOf(ds) = TableOf(cs) \cup {id} /\ DistinctIds(ds)
           /\ NamedHaveIds(ds, n + 1)
<1>1. "id" \in DOMAIN cs[n] /\ n \in Nat /\ \A i \in DOMAIN cs : i \in Nat
  BY EntriesOf DEF IsEntryList
<1>2. /\ DOMAIN ds = DOMAIN cs
      /\ ds[n].id = id /\ ds[n].name = cs[n].name
      /\ \A i \in DOMAIN cs \ {n} : ds[i] = cs[i]
  <2>1. PICK e : e = [cs[n] EXCEPT !.id = id]
    OBVIOUS
  <2>2. e.id = id /\ e.name = cs[n].name
    BY <1>1, <2>1
  <2>3. ds = [cs EXCEPT ![n] = e]
    BY <2>1
  <2> QED
    BY <2>2, <2>3
<1>3. ~IsStr(cs[n].id) /\ IsStr(id) /\ id # None /\ id.tag # "num"
  <2>1. None.tag = "none"
    BY DEF None, Value
  <2> QED
    BY <2>1 DEF IsStr
<1>4. TableOf(ds) = TableOf(cs) \cup {id}
  BY <1>2, <1>3 DEF TableOf
<1>5. ASSUME NEW i \in DOMAIN cs \ {n} PROVE cs[i].id # id
  BY <1>3 DEF TableOf
<1>6. DistinctIds(ds)
  BY <1>2, <1>3, <1>5 DEF DistinctIds
<1>7. ASSUME NEW i \in DOMAIN ds, i < n + 1, IsStr(ds[i].name) PROVE ds[i].id # None
  <2>1. CASE i = n
    BY <1>2, <1>3, <2>1
  <2>2. CASE i # n
    <3>1. i < n /\ i \in DOMAIN cs /\ ds[i] = cs[i]
      BY <1>1, <1>2, <1>7, <2>2
    <3> QED
      BY <1>7, <3>1 DEF NamedHaveIds
  <2> QED
    BY <2>1, <2>2
<1> QED
  BY <1>4, <1>6, <1>7 DEF NamedHaveIds

(* IdInv is inductive.                                                                           *)
LEMMA IdStep ==
    ASSUME ListInv, cursor \in Nat \ {0}, IdInv, [Next]_vars
    PROVE  IdInv'
<1> USE DEF AfterPreload, AfterLoading, AfterAutoLoad, AfterChecks, AfterCollect, AfterIds,
            AfterRefs, AfterPins, AfterCaps, AfterGroups
<1>0. StageStep /\ IsEntryList(Components)
  BY StageSteps DEF ListInv, Components
<1>a. Len(Components) \in Nat /\ DOMAIN Components = 1..Len(Components)
  BY <1>0, EntriesOf
<1>1. CASE stage' \notin AfterCollect
  BY <1>1 DEF IdInv
<1>2. CASE stage = "CollectIds" /\ stage' \in AfterCollect
  <2>1. CollectIds
    BY <1>2, StepOfStage DEF vars
  <2>2. stage' = "GenerateIds" /\ cursor' = 1 /\ Components' = Components
        /\ ids' = TableOf(Components)
    BY <1>2, <2>1, Followers DEF CollectIds, Leave, Components, TableOf
  <2>3. DistinctIds(Components)
    BY <1>2, <2>1 DEF CollectIds, Leave, DistinctIds
  <2>4. NamedHaveIds(Components, 1)
    BY <1>a DEF NamedHaveIds
  <2> QED
    BY <1>0, <2>2, <2>3, <2>4, TableFinite DEF IdInv
<1>3. CASE stage = "GenerateIds" /\ GenerateIds /\ cursor > Len(Components)
  <2>1. Components' = Components /\ ids' = ids /\ stage' = "CrossRefs"
    BY <1>3, Followers DEF GenerateIds, Leave, Components
  <2>2. \A i \in DOMAIN Components : i < cursor
    BY <1>3, <1>a
  <2> QED
    BY <1>3, <2>1, <2>2 DEF IdInv, NamedHaveIds
<1>4. CASE stage = "GenerateIds" /\ GenerateIds /\ ~(cursor > Len(Components))
  <2> DEFINE c == Components[cursor]
             id == make_unique(slugify(c.name), ids)
             ds == [Components EXCEPT ![cursor] = [c EXCEPT !.id = id]]
  <2>1. cursor \in DOMAIN Components /\ cursor' = cursor + 1 /\ stage' = stage
    BY <1>4, GeneratesId
  <2>2. /\ IsFiniteSet(ids) /\ ids = TableOf(Components) /\ DistinctIds(Components)
        /\ NamedHaveIds(Components, cursor)
    BY <1>4 DEF IdInv
  <2>3. CASE c.id = None /\ IsStr(c.name)
    <3>1. config' = [config EXCEPT !.components = ds] /\ ids' = ids \cup {id}
      BY <1>4, <2>3, GeneratesId
    <3>2. Components' = ds
      BY <3>1 DEF Components, ListInv
    <3>3. id.tag = "str" /\ id \notin ids
      BY <2>2, MadeUnique
    <3>4. PICK new : new = id
      OBVIOUS
    <3>5. PICK es : es = [Components EXCEPT ![cursor] = [Components[cursor] EXCEPT !.id = new]]
      OBVIOUS
    <3>6. /\ TableOf(es) = TableOf(Components) \cup {new} /\ DistinctIds(es)
          /\ NamedHaveIds(es, cursor + 1)
      <4>1. ASSUME NEW cs, cs = Components, NEW n, n = cursor
            PROVE  /\ TableOf(es) = TableOf(cs) \cup {new} /\ DistinctIds(es)
                   /\ NamedHaveIds(es, n + 1)
        <5>1. IsEntryList(cs) /\ DistinctIds(cs) /\ n \in DOMAIN cs /\ cs[n].id = None
              /\ new.tag = "str" /\ new \notin TableOf(cs) /\ NamedHaveIds(cs, n)
              /\ es = [cs EXCEPT ![n] = [cs[n] EXCEPT !.id = new]]
          BY <1>0, <2>1, <2>2, <2>3, <3>3, <3>4, <3>5, <4>1
        <5> QED
          BY <5>1, IdAdded
      <4> QED
        BY <4>1
    <3>7. IsFiniteSet(ids \cup {new})
      BY <2>2, FS_AddElement
    <3>8. es = ds /\ Components' = es /\ ids' = ids \cup {new}
      BY <3>1, <3>2, <3>4, <3>5
    <3> HIDE DEF ds, id, c
    <3> QED
      BY <1>4, <2>1, <2>2, <3>6, <3>7, <3>8 DEF IdInv
  <2>4. CASE ~(c.id = None /\ IsStr(c.name))
    <3>1. Components' = Components /\ ids' = ids
      BY <1>4, <2>4, GeneratesId DEF Components
    <3>2. NamedHaveIds(Components, cursor + 1)
      <4> SUFFICES ASSUME NEW i \in DOMAIN Components, i < cursor + 1, IsStr(Components[i].name)
                   PROVE  Components[i].id # None
        BY DEF NamedHaveIds
      <4>1. i < cursor \/ i = cursor
        BY <1>a, <2>1
      <4> QED
        BY <2>2, <2>4, <4>1 DEF NamedHaveIds
    <3> QED
      BY <1>4, <2>1, <2>2, <3>1, <3>2 DEF IdInv
  <2> QED
    BY <2>3, <2>4
<1>5. CASE stage \in AfterIds /\ stage' \in AfterCollect
  <2>1. config' = config /\ ids' = ids /\ stage' \in AfterIds
    BY <1>0, <1>5, Followers DEF StageStep, Rewriting
  <2>2. stage' \in AfterRefs => \A i \in DOMAIN Components : check_cross_refs(Components[i])
    <3>1. CASE stage = "CrossRefs" /\ stage' # stage
      <4>1. CrossRefs
        BY <3>1, StepOfStage DEF vars
      <4> QED
        BY <2>1, <3>1, <4>1 DEF CrossRefs, Leave
    <3>2. CASE stage # "CrossRefs" \/ stage' = stage
      BY <1>5, <3>2 DEF IdInv
    <3> QED
      BY <3>1, <3>2
  <2> QED
    BY <1>5, <2>1, <2>2 DEF IdInv, Components, TableOf, DistinctIds, NamedHaveIds, check_cross_refs
<1>6. CASE stage \notin AfterCollect \cup {"CollectIds"} /\ stage' \in AfterCollect
  BY <1>0, <1>6, Followers DEF StageStep, Rewriting
<1>7. CASE UNCHANGED vars
  BY <1>7 DEF vars, IdInv, Components, TableOf, DistinctIds, NamedHaveIds, check_cross_refs
<1>8. CASE stage = "GenerateIds"
  BY <1>3, <1>4, <1>7, <1>8, StepOfStage
<1> QED
  BY <1>1, <1>2, <1>5, <1>6, <1>8

(* What IdInv says of an accepted configuration.                                                 *)
LEMMA EntityIdsResolveFrom == ListInv /\ IdInv => EntityIdsResolve
<1> SUFFICES ASSUME ListInv, IdInv, Accepted PROVE EntityIdsResolve
  BY DEF EntityIdsResolve
<1>1. /\ ids = TableOf(Components) /\ DistinctIds(Components)
      /\ \A i \in DOMAIN Components : IsStr(Components[i].name) => Components[i].id # None
      /\ \A i \in DOMAIN Components : check_cross_refs(Components[i])
  BY DEF IdInv, Accepted, AfterCollect, AfterIds, AfterRefs, AfterPins, AfterCaps, AfterGroups
<1>2. \A i \in DOMAIN Components : IsSetting(Components[i].id)
  BY DEF ListInv, IsEntryList, Components
<1>3. ASSUME NEW i \in DOMAIN Components, IsStr(Components[i].name), Components[i].id # Null
      PROVE  IsStr(Components[i].id)
  BY <1>1, <1>2, <1>3 DEF IsSetting, DistinctIds, IsStr
<1>4. ASSUME NEW i \in DOMAIN Components, IsStr(Components[i].ref), Components[i].ref # Str("")
      PROVE  \E j \in DOMAIN Components : Components[j].id = Components[i].ref
  BY <1>1, <1>4 DEF check_cross_refs, TableOf
<1> QED
  BY <1>1, <1>3, <1>4 DEF EntityIdsResolve, DistinctIds

-----------------------------------------------------------------------------
(* GPIOs.                                                                                        *)

(* The pins asked for by the entries before position n, and by all of them.                      *)
Asked(n) == UNION {extract_pins(i) : i \in {j \in DOMAIN Components : j < n}}
AllAsked == UNION {extract_pins(i) : i \in DOMAIN Components}

OneOwner == \A a, b \in tracker : a.gpio = b.gpio => a = b

PinInv ==
    /\ stage \in AfterPreload => config.platform \in DOMAIN PlatformChip
    /\ stage \notin AfterPins \cup {"PinConflicts", "Invalid"} => tracker = {}
    /\ stage = "PinConflicts" =>
          tracker \subseteq Asked(cursor) /\ OneOwner /\ (~fatal => tracker = Asked(cursor))
    /\ stage \in AfterPins => tracker = AllAsked /\ OneOwner
    /\ stage \in AfterCaps =>
          \A a \in tracker : validate_pin_capabilities(PlatformChip[config.platform], a)

(* The fields that name pins are numbered: no two have the same number.                          *)
LEMMA FieldNumber ==
    \A f, g \in Range(PinFields) :
        /\ FieldIndex(f) \in Int
        /\ FieldIndex(f) = FieldIndex(g) => f = g
<1>1. DOMAIN PinFields \subseteq Int
  BY DEF PinFields
<1>2. \A f \in Range(PinFields) : FieldIndex(f) \in DOMAIN PinFields /\ PinFields[FieldIndex(f)] = f
  BY DEF FieldIndex, Range
<1> QED
  BY <1>1, <1>2

(* A use of a pin is told by its entry, its field and its number.                                *)
LEMMA UseIs ==
    ASSUME NEW i, NEW u \in extract_pins(i)
    PROVE  u.field \in Range(PinFields) /\ u = [gpio |-> u.gpio, owner |-> i, field |-> u.field]
           /\ u.gpio \in 0..255
<1>1. PICK f \in Range(PinFields) :
         /\ Components[i].pins[f].num \in 0..255
         /\ u = [gpio |-> Components[i].pins[f].num, owner |-> i, field |-> f]
  BY DEF extract_pins
<1>2. u.gpio = Components[i].pins[f].num /\ u.field = f
  BY <1>1
<1> QED
  BY <1>1, <1>2

(* While the configuration does not change, neither do the pins asked for.                       *)
LEMMA AskedKept ==
    ASSUME config' = config
    PROVE  AllAsked' = AllAsked /\ \A n : (Asked(n))' = Asked(n)
<1>1. AllAsked' = AllAsked
  BY DEF AllAsked, extract_pins, Components
<1>2. ASSUME NEW n PROVE (Asked(n))' = Asked(n)
  BY DEF Asked, extract_pins, Components
<1> QED
  BY <1>1, <1>2

(* PinInv is inductive.                                                                          *)
LEMMA PinStep ==
    ASSUME ListInv, cursor \in Nat \ {0}, fatal \in BOOLEAN, PinInv, [Next]_vars
    PROVE  PinInv'
<1> USE DEF AfterPreload, AfterLoading, AfterAutoLoad, AfterChecks, AfterCollect, AfterIds,
            AfterRefs, AfterPins, AfterCaps, AfterGroups
<1>0. StageStep /\ IsEntryList(Components)
  BY StageSteps DEF ListInv, Components
<1>a. Len(Components) \in Nat /\ DOMAIN Components = 1..Len(Components)
  BY <1>0, EntriesOf
<1>1. stage' \in AfterPreload => config'.platform \in DOMAIN PlatformChip
  <2> SUFFICES ASSUME stage' \in AfterPreload PROVE config'.platform \in DOMAIN PlatformChip
    OBVIOUS
  <2>1. CASE stage = "Preload"
    <3>1. stage_5_preload_esphome_block
      BY <2>1, StepOfStage DEF vars
    <3> QED
      BY <3>1 DEF stage_5_preload_esphome_block, Leave
  <2>2. CASE stage \in AfterPreload
    <3>1. config'.platform = config.platform
      BY <2>2, OnlyIdsChange DEF ListInv, Rewriting
    <3> QED
      BY <2>2, <3>1 DEF PinInv
  <2>3. CASE stage \notin AfterPreload \cup {"Preload"}
    BY <1>0, <2>3, Followers DEF StageStep, Rewriting
  <2> QED
    BY <2>1, <2>2, <2>3
<1>2. CASE stage \notin AfterPins \cup {"PinConflicts", "Invalid"}
  <2>1. tracker = {} /\ tracker' = {}
    BY <1>0, <1>2 DEF PinInv, StageStep
  <2>2. CASE stage' = "PinConflicts"
    <3>1. stage = "FinalValidation"
      BY <1>0, <1>2, <2>2, Followers DEF StageStep, Rewriting
    <3>2. stage_9_final_validation
      BY <2>2, <3>1, StepOfStage DEF vars
    <3>3. cursor' = 1 /\ config' = config
      BY <3>2 DEF stage_9_final_validation, Leave
    <3>4. DOMAIN Components' = DOMAIN Components /\ {j \in DOMAIN Components : j < 1} = {}
      BY <1>a, <3>3 DEF Components
    <3>5. Asked(cursor)' = {}
      BY <3>3, <3>4 DEF Asked
    <3> QED
      BY <1>1, <2>1, <2>2, <3>5 DEF PinInv, OneOwner
  <2>3. CASE stage' # "PinConflicts"
    <3>1. stage' \notin AfterPins
      BY <1>0, <1>2, <2>3, Followers DEF StageStep, Rewriting
    <3> QED
      BY <1>1, <2>1, <2>3, <3>1 DEF PinInv
  <2> QED
    BY <2>2, <2>3
<1>3. CASE stage = "PinConflicts" /\ stage_10_check_pin_conflicts /\ cursor > Len(Components)
  <2>1. tracker' = tracker /\ config' = config
        /\ stage' = IF fatal THEN "Invalid" ELSE "PinCapabilities"
    BY <1>3, Followers DEF stage_10_check_pin_conflicts, Leave
  <2>2. Asked(cursor) = AllAsked
    <3>1. {j \in DOMAIN Components : j < cursor} = DOMAIN Components
      BY <1>3, <1>a
    <3> QED
      BY <3>1 DEF Asked, AllAsked
  <2>3. AllAsked' = AllAsked /\ (OneOwner' <=> OneOwner)
    BY <2>1, AskedKept DEF OneOwner
  <2>4. CASE fatal
    BY <1>1, <2>1, <2>4 DEF PinInv
  <2>5. CASE ~fatal
    BY <1>1, <1>3, <2>1, <2>2, <2>3, <2>5 DEF PinInv
  <2> QED
    BY <2>4, <2>5
<1>4. CASE stage = "PinConflicts" /\ stage_10_check_pin_conflicts /\ ~(cursor > Len(Components))
  <2> DEFINE usages == extract_pins(cursor)
             granted == {u \in usages : u.gpio \notin Taken /\ \A w \in usages :
                              w.gpio = u.gpio => FieldIndex(u.field) <= FieldIndex(w.field)}
  <2>1. /\ tracker' = tracker \cup granted /\ cursor' = cursor + 1 /\ stage' = stage
        /\ fatal' = (fatal \/ granted # usages) /\ config' = config
    BY <1>4 DEF stage_10_check_pin_conflicts, Loop
  <2>2. tracker \subseteq Asked(cursor) /\ OneOwner /\ (~fatal => tracker = Asked(cursor))
    BY <1>4 DEF PinInv
  <2>3. Asked(cursor)' = Asked(cursor) \cup usages
    <3>1. {j \in DOMAIN Components : j < cursor + 1}
            = {j \in DOMAIN Components : j < cursor} \cup {cursor}
      BY <1>4, <1>a
    <3>2. PICK n : n = cursor + 1
      OBVIOUS
    <3>3. Asked(cursor)' = (Asked(n))'
      BY <2>1, <3>2 DEF Asked
    <3>4. (Asked(n))' = Asked(n)
      BY <2>1, AskedKept
    <3>5. Asked(n) = Asked(cursor) \cup usages
      BY <3>1, <3>2 DEF Asked
    <3> QED
      BY <3>3, <3>4, <3>5
  <2>4. \A u, v \in granted : u.gpio = v.gpio => u = v
    <3> SUFFICES ASSUME NEW u \in granted, NEW v \in granted, u.gpio = v.gpio PROVE u = v
      OBVIOUS
    <3>1. /\ u.field \in Range(PinFields) /\ u = [gpio |-> u.gpio, owner |-> cursor, field |-> u.field]
          /\ v.field \in Range(PinFields) /\ v = [gpio |-> v.gpio, owner |-> cursor, field |-> v.field]
      BY UseIs
    <3>2. FieldIndex(u.field) <= FieldIndex(v.field) /\ FieldIndex(v.field) <= FieldIndex(u.field)
      OBVIOUS
    <3>3. u.field = v.field
      BY <3>1, <3>2, FieldNumber
    <3> QED
      BY <3>1, <3>3
  <2>5. \A u \in granted, a \in tracker : u.gpio # a.gpio
    BY DEF Taken
  <2>6. granted \subseteq usages
    OBVIOUS
  <2> HIDE DEF granted, usages
  <2>7. OneOwner'
    BY <2>1, <2>2, <2>4, <2>5 DEF OneOwner
  <2>8. tracker' \subseteq Asked(cursor)' /\ (~fatal' => tracker' = Asked(cursor)')
    BY <2>1, <2>2, <2>3, <2>6
  <2> QED
    BY <1>1, <1>4, <2>1, <2>7, <2>8 DEF PinInv
<1>5. CASE stage \in AfterPins
  <2>1. config' = config /\ tracker' = tracker /\ stage' \in AfterPins \cup {"Invalid"}
    BY <1>0, <1>5, Followers DEF StageStep, Rewriting
  <2>2. AllAsked' = AllAsked /\ (OneOwner' <=> OneOwner)
    BY <2>1, AskedKept DEF OneOwner
  <2>3. stage' \in AfterCaps =>
           \A a \in tracker : validate_pin_capabilities(PlatformChip[config.platform], a)
    <3>1. CASE stage = "PinCapabilities" /\ stage' # stage
      <4>1. PinCapabilities
        BY <3>1, StepOfStage DEF vars
      <4> QED
        BY <3>1, <4>1 DEF PinCapabilities, Leave
    <3>2. CASE stage # "PinCapabilities" \/ stage' = stage
      BY <1>5, <3>2 DEF PinInv
    <3> QED
      BY <3>1, <3>2
  <2> QED
    BY <1>1, <1>5, <2>1, <2>2, <2>3 DEF PinInv, validate_pin_capabilities
<1>6. CASE stage = "Invalid"
  <2>1. stage' = "Invalid"
    BY <1>0, <1>6 DEF StageStep, Rewriting
  <2> QED
    BY <1>1, <2>1 DEF PinInv
<1>7. CASE UNCHANGED vars
  <2>1. config' = config /\ stage' = stage /\ cursor' = cursor /\ fatal' = fatal
        /\ tracker' = tracker
    BY <1>7 DEF vars
  <2>2. PICK n : n = cursor
    OBVIOUS
  <2>3. Asked(cursor)' = Asked(cursor)
    <3>1. Asked(cursor)' = (Asked(n))' /\ Asked(cursor) = Asked(n)
      BY <2>1, <2>2 DEF Asked
    <3> QED
      BY <2>1, <3>1, AskedKept
  <2>4. AllAsked' = AllAsked /\ (OneOwner' <=> OneOwner)
    BY <2>1, AskedKept DEF OneOwner
  <2> QED
    BY <2>1, <2>3, <2>4 DEF PinInv, validate_pin_capabilities
<1>8. CASE stage = "PinConflicts"
  BY <1>3, <1>4, <1>7, <1>8, StepOfStage
<1> QED
  BY <1>2, <1>5, <1>6, <1>8

(* What PinInv says of an accepted configuration.                                                *)
LEMMA PinsGrantedFrom == PinInv => PinsGranted
<1> SUFFICES ASSUME PinInv, Accepted PROVE PinsGranted
  BY DEF PinsGranted
<1> DEFINE chip == PlatformChip[config.platform]
           caps == Capabilities[chip]
<1>1. /\ config.platform \in DOMAIN PlatformChip /\ tracker = AllAsked /\ OneOwner
      /\ \A a \in tracker : validate_pin_capabilities(chip, a)
  BY DEF PinInv, Accepted, AfterPreload, AfterLoading, AfterAutoLoad, AfterChecks, AfterCollect,
         AfterIds, AfterRefs, AfterPins, AfterCaps, AfterGroups
<1>2. caps.max_gpio \in Nat
  BY <1>1, CapabilitiesAssumption
<1>3. ASSUME NEW a \in AllAsked
      PROVE  /\ a.gpio \in 0..caps.max_gpio \ caps.flash_reserved
             /\ a.field \in InputFields \/ a.gpio \notin caps.input_only
  <2>1. /\ a.gpio <= caps.max_gpio /\ a.gpio \notin caps.flash_reserved
        /\ a.field \in InputFields \/ a.gpio \notin caps.input_only
    BY <1>1 DEF validate_pin_capabilities
  <2>2. a.gpio \in 0..255
    BY UseIs DEF AllAsked
  <2> QED
    BY <1>2, <2>1, <2>2
<1>4. PinsGranted <=> /\ tracker = AllAsked
                      /\ \A a, b \in AllAsked : a.gpio = b.gpio => a = b
                      /\ \A a \in AllAsked :
                            /\ a.gpio \in 0..caps.max_gpio \ caps.flash_reserved
                            /\ a.field \in InputFields \/ a.gpio \notin caps.input_only
  BY DEF PinsGranted, AllAsked, Accepted
<1> QED
  BY <1>1, <1>3, <1>4 DEF OneOwner

-----------------------------------------------------------------------------
(* The initialisation order.                                                                     *)

OrderType ==
    /\ order \in Seq(resolved)
    /\ stage \notin {"BuildDag", "Valid"} => order = <<>>

(* One round of the topological order: a component that is ready is appended, or none is left,   *)
(* or the ones that are left wait for each other.                                                *)
LEMMA OrderRound ==
    ASSUME OrderType, stage = "BuildDag", BuildDag
    PROVE  /\ resolved' = resolved
           /\ \/ Ordered = resolved /\ order' = order /\ stage' = "Valid"
              \/ /\ stage' = stage
                 /\ \E next \in resolved \ Ordered :
                       order' = Append(order, next) /\ Prerequisites(next) \subseteq Ordered
              \/ /\ Ordered # resolved /\ order' = OrderWithCycle /\ stage' = "Valid"
                 /\ ~ \E id \in resolved \ Ordered : Prerequisites(id) \subseteq Ordered
<1> DEFINE ready == {id \in resolved \ Ordered : Prerequisites(id) \subseteq Ordered}
           next == CHOOSE id \in ready : TRUE
<1>1. CASE ready # {}
  <2>1. order' = Append(order, next) /\ stage' = stage /\ resolved' = resolved
    BY <1>1 DEF BuildDag
  <2>2. next \in ready
    BY <1>1
  <2> QED
    BY <2>1, <2>2
<1>2. CASE ready = {}
  <2>1. /\ order' = IF Ordered = resolved THEN order ELSE OrderWithCycle
        /\ stage' = "Valid" /\ resolved' = resolved
    BY <1>2, Followers DEF BuildDag, Leave
  <2> QED
    BY <1>2, <2>1
<1> QED
  BY <1>1, <1>2

(* The order that is made of a graph with a cycle lists components of the selection.             *)
LEMMA CycleOrder ==
    ASSUME OrderType, IsFiniteSet(resolved)
    PROVE  OrderWithCycle \in Seq(resolved)
<1> DEFINE P == {k \in DOMAIN order : HasEdge(order[k])}
           n == Cardinality(P)
           At(k) == CHOOSE i \in P : Place(i, P) = k
           kept == [k \in 1..n |-> order[At(k)]]
           rest == SetToSeq(resolved \ Ordered)
<1>1. /\ order \in Seq(resolved) /\ Len(order) \in Nat
      /\ P \in SUBSET (1..Len(order)) /\ P \subseteq Int
  BY DEF OrderType
<1>2. IsFiniteSet(P)
  BY <1>1, FS_Interval, FS_Subset
<1>3. n \in Nat /\ \A k \in 1..n : At(k) \in P
  BY <1>1, <1>2, PlacesNumber
<1>4. kept \in Seq(resolved)
  <2>1. \A i \in P : order[i] \in resolved
    BY <1>1
  <2> HIDE DEF P, n, At
  <2>2. \A k \in 1..n : order[At(k)] \in resolved
    BY <1>3, <2>1
  <2> QED
    BY <1>3, <2>2
<1>5. rest \in Seq(resolved)
  <2>1. IsFiniteSet(resolved \ Ordered)
    BY FS_Subset
  <2>2. PICK m \in Nat : rest \in [1..m -> resolved \ Ordered]
    BY <2>1, SetListed
  <2> HIDE DEF rest
  <2> QED
    BY <2>2
<1>6. OrderWithCycle = kept \o rest
  BY DEF OrderWithCycle, KeepOnly
<1> HIDE DEF kept, rest
<1> QED
  BY <1>4, <1>5, <1>6

(* The selection is finite when the order is made.                                               *)
LEMMA SelectionFinite ==
    ASSUME SelInv, stage = "BuildDag"
    PROVE  resolved \subseteq DOMAIN Registry /\ IsFiniteSet(resolved)
<1>1. Closing
  BY DEF SelInv, AfterLoading, AfterAutoLoad, AfterChecks, AfterCollect, AfterIds,
         AfterRefs, AfterPins, AfterCaps, AfterGroups
<1>2. resolved \in SUBSET DOMAIN Registry /\ IsFiniteSet(DOMAIN Registry)
  BY <1>1, RegistryAssumption DEF Closing
<1> QED
  BY <1>2, FS_Subset

(* OrderType is inductive.                                                                       *)
LEMMA OrderTypeStep ==
    ASSUME OrderType, SelInv, [Next]_vars
    PROVE  OrderType'
<1>0. StageStep
  BY StageSteps
<1>1. CASE stage = "BuildDag" /\ BuildDag
  <2>1. CASE order' = order /\ resolved' = resolved /\ stage' = "Valid"
    BY <2>1 DEF OrderType
  <2>2. CASE /\ resolved' = resolved /\ stage' = stage
             /\ \E next \in resolved \ Ordered : order' = Append(order, next)
    BY <1>1, <2>2 DEF OrderType
  <2>3. CASE resolved' = resolved /\ stage' = "Valid" /\ order' = OrderWithCycle
    <3>1. OrderWithCycle \in Seq(resolved)
      BY <1>1, CycleOrder, SelectionFinite
    <3> QED
      BY <2>3, <3>1 DEF OrderType
  <2> QED
    BY <1>1, <2>1, <2>2, <2>3, OrderRound
<1>2. CASE UNCHANGED vars
  BY <1>2 DEF vars, OrderType
<1>3. CASE stage = "Valid"
  <2>1. UNCHANGED vars
    BY <1>3, StepOfStage
  <2> QED
    BY <1>2, <2>1
<1>4. CASE stage \notin {"BuildDag", "Valid"}
  <2>1. order = <<>> /\ order' = order
    BY <1>0, <1>4 DEF OrderType, StageStep
  <2> QED
    BY <2>1 DEF OrderType
<1> QED
  BY <1>1, <1>2, <1>3, <1>4, StepOfStage

(* The registry can be layered, so it has no cycle. TLC shows it of the default registry         *)
(* (MCConfigPipeline.CatalogueLayered).                                                          *)
Layered == \E layer \in [DOMAIN Registry -> Nat] : LayeredBy(layer)

(* In a layered registry something is ready as long as something is left.                        *)
LEMMA SomethingReady ==
    ASSUME Layered, resolved \subseteq DOMAIN Registry, resolved \ Ordered # {}
    PROVE  \E id \in resolved \ Ordered : Prerequisites(id) \subseteq Ordered
<1>1. PICK layer \in [DOMAIN Registry -> Nat] :
        \A id \in DOMAIN Registry :
            \A other \in (Registry[id].auto_load \cup Registry[id].dependencies) \cap DOMAIN Registry :
                layer[other] < layer[id]
  BY DEF Layered, LayeredBy
<1> DEFINE T == resolved \ Ordered
           K == {layer[id] : id \in T}
<1>2. K \subseteq Nat /\ K # {}
  BY <1>1
<1>3. First(K) \in K /\ \A k \in K : First(K) <= k
  BY <1>2, FirstIn
<1>4. PICK id \in T : layer[id] = First(K)
  BY <1>3
<1>5. ASSUME NEW other \in Prerequisites(id) PROVE other \in Ordered
  <2>1. /\ other \in resolved /\ other \in DOMAIN Registry /\ id \in DOMAIN Registry
        /\ other \in Registry[id].auto_load \cup Registry[id].dependencies
    BY DEF Prerequisites
  <2>2. layer[other] < layer[id] /\ layer[other] \in Nat /\ layer[id] \in Nat
    BY <1>1, <2>1
  <2>3. ~(layer[id] <= layer[other])
    BY <2>2
  <2>4. layer[other] \notin K
    BY <1>3, <1>4, <2>3
  <2>5. other \notin T
    BY <2>4
  <2> QED
    BY <2>1, <2>5
<1> QED
  BY <1>4, <1>5

(* The order so far: every component once and after all it waits for.                            *)
OrderSound ==
    /\ IsInjective(order)
    /\ \A k \in DOMAIN order : Prerequisites(order[k]) \subseteq {order[j] : j \in 1..(k - 1)}

OrderInv == OrderSound /\ (stage = "Valid" => Ordered = resolved)

(* A component that is ready may be appended.                                                    *)
LEMMA OrderAppend ==
    ASSUME OrderType, OrderSound, NEW next \in resolved \ Ordered, Prerequisites(next) \subseteq Ordered,
           order' = Append(order, next), resolved' = resolved
    PROVE  OrderSound'
<1> DEFINE n == Len(order)
<1>1. /\ order \in Seq(resolved) /\ n \in Nat /\ DOMAIN order = 1..n
      /\ order' \in Seq(resolved) /\ DOMAIN order' = 1..(n + 1) /\ order'[n + 1] = next
      /\ \A k \in 1..n : order'[k] = order[k]
  BY DEF OrderType
<1>2. next \notin {order[k] : k \in 1..n} /\ Prerequisites(next) \subseteq {order[k] : k \in 1..n}
  BY <1>1 DEF Ordered, Range
<1>3. \A id : Prerequisites(id)' = Prerequisites(id)
  BY DEF Prerequisites
<1> HIDE DEF n
<1>4. IsInjective(order)'
  <2>1. \A j, k \in 1..n : order[j] = order[k] => j = k
    BY <1>1 DEF OrderSound, IsInjective
  <2>2. \A j, k \in 1..(n + 1) : order'[j] = order'[k] => j = k
    BY <1>1, <1>2, <2>1
  <2> QED
    BY <1>1, <2>2 DEF IsInjective
<1>5. ASSUME NEW k \in 1..(n + 1)
      PROVE  Prerequisites(order'[k]) \subseteq {order'[j] : j \in 1..(k - 1)}
  <2>1. CASE k \in 1..n
    <3>1. Prerequisites(order[k]) \subseteq {order[j] : j \in 1..(k - 1)}
      BY <1>1, <2>1 DEF OrderSound
    <3>2. \A j \in 1..(k - 1) : order'[j] = order[j]
      BY <1>1, <2>1
    <3> QED
      BY <1>1, <2>1, <3>1, <3>2
  <2>2. CASE k = n + 1
    <3>1. k - 1 = n
      BY <1>1, <2>2
    <3> QED
      BY <1>1, <1>2, <2>2, <3>1
  <2>3. k \in 1..n \/ k = n + 1
    <3> HIDE DEF n
    <3>1. n \in Nat
      BY <1>1
    <3> QED
      BY <3>1
  <2> QED
    BY <2>1, <2>2, <2>3
<1>6. \A k \in DOMAIN order' : (Prerequisites(order[k]))' \subseteq {order'[j] : j \in 1..(k - 1)}
  BY <1>1, <1>5 DEF Prerequisites
<1> QED
  BY <1>4, <1>6 DEF OrderSound

(* OrderInv is inductive.                                                                        *)
LEMMA OrderStep ==
    ASSUME Layered, OrderType, SelInv, OrderInv, [Next]_vars
    PROVE  OrderInv'
<1>0. StageStep
  BY StageSteps
<1>1. CASE stage = "BuildDag" /\ BuildDag
  <2>1. resolved \subseteq DOMAIN Registry
    BY <1>1, SelectionFinite
  <2>2. CASE Ordered = resolved /\ order' = order /\ resolved' = resolved /\ stage' = "Valid"
    BY <2>2 DEF OrderInv, OrderSound, Ordered, Prerequisites
  <2>3. ASSUME NEW next \in resolved \ Ordered, order' = Append(order, next), resolved' = resolved,
               stage' = stage, Prerequisites(next) \subseteq Ordered
        PROVE  OrderInv'
    <3>1. OrderSound'
      BY <2>3, OrderAppend DEF OrderInv
    <3> QED
      BY <1>1, <2>3, <3>1 DEF OrderInv
  <2>4. Ordered # resolved =>
           \E id \in resolved \ Ordered : Prerequisites(id) \subseteq Ordered
    <3>1. Ordered \subseteq resolved
      BY DEF OrderType, Ordered, Range
    <3> QED
      BY <2>1, <3>1, SomethingReady
  <2> QED
    BY <1>1, <2>2, <2>3, <2>4, OrderRound
<1>2. CASE UNCHANGED vars
  BY <1>2 DEF vars, OrderInv, OrderSound, Ordered, Prerequisites
<1>3. CASE stage \notin {"BuildDag", "Valid"}
  <2>1. order' = <<>> /\ stage' # "Valid"
    BY <1>0, <1>3, Followers DEF OrderType, StageStep, Rewriting, AfterPreload, AfterLoading,
       AfterAutoLoad, AfterChecks, AfterCollect, AfterIds, AfterRefs, AfterPins, AfterCaps, AfterGroups
  <2>2. IsInjective(order') /\ DOMAIN order' = {}
    BY <2>1 DEF IsInjective
  <2> QED
    BY <2>1, <2>2 DEF OrderInv, OrderSound, IsInjective
<1> QED
  BY <1>1, <1>2, <1>3, StepOfStage

(* What the order is like in an accepted configuration.                                          *)
LEMMA DependenciesFirstFrom == SelInv /\ OrderType /\ OrderInv => DependenciesFirst
<1> SUFFICES ASSUME SelInv, OrderType, OrderInv, Accepted PROVE DependenciesFirst
  BY DEF DependenciesFirst
<1>1. SelectionSound
  BY SelectionSoundFrom
<1>2. ASSUME NEW k \in DOMAIN order
      PROVE  Registry[order[k]].auto_load \cup Registry[order[k]].dependencies
                \subseteq {order[j] : j \in 1..(k - 1)}
  <2>1. order[k] \in resolved
    BY DEF OrderType
  <2>2. /\ order[k] \in DOMAIN Registry
        /\ Registry[order[k]].auto_load \cup Registry[order[k]].dependencies \subseteq resolved
    BY <1>1, <2>1 DEF SelectionSound
  <2>3. Prerequisites(order[k]) = Registry[order[k]].auto_load \cup Registry[order[k]].dependencies
    BY <2>2 DEF Prerequisites
  <2> QED
    BY <2>3 DEF OrderInv, OrderSound
<1> QED
  BY <1>2 DEF DependenciesFirst, OrderInv, OrderSound, Accepted

-----------------------------------------------------------------------------
(* The control of the pipeline.                                                                  *)

(* The loop variables: positions start at 1, an error only counts inside a loop, the worklist is *)
(* part of the selection, and exactly a rejected configuration names the stage that rejected it. *)
ControlInv ==
    /\ stage \in Range(StageSeq) \cup {"Invalid"}
    /\ cursor \in Nat \ {0}
    /\ fatal \in BOOLEAN
    /\ work \subseteq resolved
    /\ failed = "none" <=> stage # "Invalid"

(* A step ends its stage or stays in it, and what it does to the loop variables.                 *)
ControlStep ==
    /\ \/ UNCHANGED <<stage, failed>> /\ stage # "Invalid"
          /\ cursor' \in {cursor, cursor + 1} /\ fatal' \in {fatal, TRUE, FALSE}
       \/ stage' = "Invalid" /\ failed' = stage /\ stage \in Range(StageSeq) \ {"Valid"}
          /\ cursor' = 1 /\ fatal' = FALSE
       \/ stage' = Follower(stage) /\ failed' = failed /\ stage \in Range(StageSeq) \ {"Valid"}
          /\ cursor' = 1 /\ fatal' = FALSE
    /\ UNCHANGED <<resolved, work>> \/ work' \subseteq resolved'

LEMMA ControlSteps ==
    ASSUME ControlInv, [Next]_vars
    PROVE  ControlStep \/ UNCHANGED vars
<1>0. stage # "Invalid" => stage \in Range(StageSeq)
  BY DEF ControlInv
<1> USE DEF ControlStep, Leave, Loop, ControlInv
<1>1. CASE stage_1_merge_packages
  BY <1>0, <1>1 DEF stage_1_merge_packages
<1>2. CASE stage_2_apply_substitutions
  BY <1>0, <1>2 DEF stage_2_apply_substitutions
<1>3. CASE stage_3_process_extend_remove
  BY <1>0, <1>3 DEF stage_3_process_extend_remove, ExtendRemoveRound
<1>4. CASE stage_3_5_resolve_variant
  BY <1>0, <1>4 DEF stage_3_5_resolve_variant, ApplyVariant
<1>5. CASE stage_4_resolve_external_components
  BY <1>0, <1>5 DEF stage_4_resolve_external_components
<1>6. CASE stage_5_preload_esphome_block
  BY <1>0, <1>6 DEF stage_5_preload_esphome_block
<1>7. CASE stage_6_load_components
  BY <1>0, <1>7 DEF stage_6_load_components
<1>8. CASE resolve_auto_load
  BY <1>0, <1>8 DEF resolve_auto_load, Inserted
<1>9. CASE CheckDependencies
  BY <1>0, <1>9 DEF CheckDependencies
<1>10. CASE stage_7_validate_schemas
  BY <1>0, <1>10 DEF stage_7_validate_schemas
<1>11. CASE CollectIds
  BY <1>0, <1>11 DEF CollectIds
<1>12. CASE GenerateIds
  BY <1>0, <1>12 DEF GenerateIds
<1>13. CASE CrossRefs
  BY <1>0, <1>13 DEF CrossRefs
<1>14. CASE stage_9_final_validation
  BY <1>0, <1>14 DEF stage_9_final_validation
<1>15. CASE stage_10_check_pin_conflicts
  BY <1>0, <1>15 DEF stage_10_check_pin_conflicts
<1>16. CASE PinCapabilities
  BY <1>0, <1>16 DEF PinCapabilities
<1>17. CASE stage_11_check_exclusive_groups
  BY <1>0, <1>17 DEF stage_11_check_exclusive_groups
<1>18. CASE stage_12_validate_profile
  BY <1>0, <1>18 DEF stage_12_validate_profile
<1>19. CASE stage_13_check_secret_fields
  BY <1>0, <1>19 DEF stage_13_check_secret_fields
<1>20. CASE BuildDag
  BY <1>0, <1>20 DEF BuildDag
<1> QED
  BY StepOfStage, <1>1, <1>2, <1>3, <1>4, <1>5, <1>6, <1>7, <1>8, <1>9, <1>10, <1>11, <1>12, <1>13, <1>14, <1>15, <1>16, <1>17, <1>18, <1>19, <1>20

(* "Invalid" is no stage.                                                                        *)
LEMMA NotInvalid == "Invalid" \notin Range(StageSeq) /\ "none" \notin Range(StageSeq)
  BY DEF StageSeq, Range

(* The follower of a stage is a stage.                                                           *)
LEMMA FollowerStage ==
    ASSUME NEW s \in Range(StageSeq) \ {"Valid"}
    PROVE  Follower(s) \in Range(StageSeq) /\ Follower(s) # "Invalid" /\ s # "none"
<1>1. DOMAIN StageSeq = 1..21 /\ \A k \in 1..21 : StageSeq[k] \notin {"Invalid", "none"}
  <2>1. DOMAIN StageSeq = 1..21
    BY DEF StageSeq
  <2>2. ASSUME NEW k \in 1..21 PROVE StageSeq[k] \notin {"Invalid", "none"}
    BY <2>2 DEF StageSeq
  <2> QED
    BY <2>1, <2>2
<1>2. PICK k \in 1..21 : s = StageSeq[k]
  BY <1>1 DEF Range
<1>3. k # 21
  BY <1>2 DEF StageSeq
<1>4. k \in 1..20 /\ k + 1 \in 1..21
  BY <1>3
<1>5. Follower(s) = StageSeq[k + 1]
  BY <1>2, <1>4, FollowerIs
<1> QED
  BY <1>1, <1>2, <1>4, <1>5 DEF Range

(* ControlInv is inductive.                                                                      *)
LEMMA ControlInvStep ==
    ASSUME ControlInv, [Next]_vars
    PROVE  ControlInv'
<1>1. CASE UNCHANGED vars
  BY <1>1 DEF vars, ControlInv
<1>2. CASE ControlStep
  <2>1. work' \subseteq resolved'
    BY <1>2 DEF ControlStep, ControlInv
  <2>2. cursor' \in Nat \ {0}
    <3>1. cursor' \in {cursor, cursor + 1, 1} /\ cursor \in Nat \ {0}
      BY <1>2 DEF ControlStep, ControlInv
    <3> QED
      BY <3>1
  <2>4. fatal' \in BOOLEAN
    BY <1>2, Zenon DEF ControlStep, ControlInv
  <2>3. stage' \in Range(StageSeq) \cup {"Invalid"} /\ (failed' = "none" <=> stage' # "Invalid")
    <3>1. CASE stage' = "Invalid" /\ failed' = stage /\ stage \in Range(StageSeq) \ {"Valid"}
      BY <3>1, FollowerStage
    <3>2. CASE stage' = Follower(stage) /\ failed' = failed /\ stage \in Range(StageSeq) \ {"Valid"}
      <4>1. stage # "Invalid"
        BY <3>2, NotInvalid
      <4> QED
        BY <3>2, <4>1, FollowerStage DEF ControlInv
    <3>3. CASE UNCHANGED <<stage, failed>>
      BY <3>3 DEF ControlInv
    <3> QED
      BY <1>2, <3>1, <3>2, <3>3 DEF ControlStep
  <2> QED
    BY <2>1, <2>2, <2>3, <2>4 DEF ControlInv
<1> QED
  BY <1>1, <1>2, ControlSteps

LEMMA ControlInit == Init => ControlInv
<1>1. "PackageMerge" \in Range(StageSeq)
  BY DEF StageSeq, Range
<1> SUFFICES ASSUME Init PROVE ControlInv
  OBVIOUS
<1>2. fatal \in BOOLEAN
  BY Zenon DEF Init
<1>3. failed = "none" /\ stage = "PackageMerge" /\ cursor = 1 /\ work = {}
  BY DEF Init
<1> QED
  BY <1>1, <1>2, <1>3 DEF ControlInv


-----------------------------------------------------------------------------
(* The theorems.                                                                                 *)

(* What is true between any two steps of a run.                                                  *)
PipelineInv ==
    ControlInv /\ ListInv /\ SelInv /\ IdInv /\ PinInv /\ OrderType

(* A run starts with nothing selected, no id collected, no pin granted and no order.             *)
LEMMA PipelineInit == Init => PipelineInv /\ OrderInv
<1> SUFFICES ASSUME Init PROVE PipelineInv /\ OrderInv
  OBVIOUS
<1> USE DEF AfterPreload, AfterLoading, AfterAutoLoad, AfterChecks, AfterCollect, AfterIds,
            AfterRefs, AfterPins, AfterCaps, AfterGroups
<1>1. config \in Configs /\ stage = "PackageMerge" /\ tracker = {} /\ order = <<>>
  BY DEF Init
<1>2. ControlInv
  BY ControlInit
<1>3. ListInv
  BY <1>1, ConfigsAssumption DEF ListInv
<1>4. SelInv /\ IdInv /\ PinInv
  BY <1>1 DEF SelInv, IdInv, PinInv
<1>5. OrderType
  BY <1>1 DEF OrderType
<1>6. OrderInv
  BY <1>1 DEF OrderInv, OrderSound, IsInjective
<1> QED
  BY <1>2, <1>3, <1>4, <1>5, <1>6 DEF PipelineInv

(* Every stage preserves it.                                                                     *)
LEMMA PipelineStep == PipelineInv /\ [Next]_vars => PipelineInv'
<1> SUFFICES ASSUME PipelineInv, [Next]_vars PROVE PipelineInv'
  OBVIOUS
<1>1. ControlInv /\ ListInv /\ SelInv /\ IdInv /\ PinInv /\ OrderType
  BY DEF PipelineInv
<1>2. cursor \in Nat \ {0} /\ fatal \in BOOLEAN
  BY <1>1 DEF ControlInv
<1>3. ControlInv' /\ ListInv' /\ OrderType'
  BY <1>1, <1>2, ControlInvStep, ListStep, OrderTypeStep
<1>4. SelInv' /\ IdInv' /\ PinInv'
  BY <1>1, <1>2, SelStep, IdStep, PinStep
<1> QED
  BY <1>3, <1>4 DEF PipelineInv

LEMMA PipelineInvariant == Spec => []PipelineInv
<1>1. Init => PipelineInv
  BY PipelineInit
<1> QED
  BY <1>1, PipelineStep, PTL DEF Spec

(* Whatever is submitted, and whatever packages, directives and variants rewrite of it, the      *)
(* pipeline works on a list of entries (process_extend_remove and apply_variant take entries out *)
(* of the list they walk over and never step outside it), its worklist and its order stay within *)
(* the selection, and a rejected configuration, and no other, names the stage that rejected it.  *)
THEOREM TypeCorrect == Spec => []TypeOK
<1>1. PipelineInv => TypeOK
  <2> SUFFICES ASSUME PipelineInv PROVE TypeOK
    OBVIOUS
  <2>1. ControlInv /\ ListInv /\ OrderType
    BY DEF PipelineInv
  <2>2. {"components", "platform"} \subseteq DOMAIN config /\ IsEntryList(Components)
    BY <2>1 DEF ListInv, Components
  <2>3. Ordered \subseteq resolved
    BY <2>1 DEF OrderType, Ordered, Range
  <2> QED
    BY <2>1, <2>2, <2>3 DEF TypeOK, ControlInv
<1> QED
  BY <1>1, PipelineInvariant, PTL

(* For every catalogue and every configuration, what validate accepts (pipeline.rs) is closed    *)
(* under AUTO_LOAD and under dependencies, free of conflicts, with at most one member of an      *)
(* exclusive group, and contains nothing nobody asked for.                                       *)
THEOREM SelectionSoundInvariant == Spec => []SelectionSound
<1>1. PipelineInv => SelectionSound
  BY SelectionSoundFrom DEF PipelineInv
<1> QED
  BY <1>1, PipelineInvariant, PTL

(* For every list of names, however many of them become the same slug and whatever ids were      *)
(* given by hand, the three passes of stage 8 leave every named entity with an id of its own,    *)
(* except one whose id is written as null, and every reference with an entity: make_unique       *)
(* always finds a free number.                                                                   *)
THEOREM EntityIdsResolveInvariant == Spec => []EntityIdsResolve
<1>1. PipelineInv => EntityIdsResolve
  BY EntityIdsResolveFrom DEF PipelineInv
<1> QED
  BY <1>1, PipelineInvariant, PTL

(* For every chip and every list of entries, the tracker stage 10 fills holds all numeric pins   *)
(* of an accepted configuration, each GPIO for one field of one component, within the chip's     *)
(* range, off its flash pins and, where the GPIO only reads, for a field that reads.             *)
THEOREM PinsGrantedInvariant == Spec => []PinsGranted
<1>1. PipelineInv => PinsGranted
  BY PinsGrantedFrom DEF PipelineInv
<1> QED
  BY <1>1, PipelineInvariant, PTL

(* If the registry is layered, compute_order never falls back to appending the components of a   *)
(* cycle as they come: the order of an accepted configuration has every component once, after    *)
(* all it loads or depends on.                                                                   *)
THEOREM DependenciesFirstInvariant ==
    ASSUME Layered
    PROVE  Spec => []DependenciesFirst
<1>1. Init => OrderInv
  BY PipelineInit
<1>2. PipelineInv /\ OrderInv /\ [Next]_vars => OrderInv'
  BY OrderStep DEF PipelineInv
<1>3. PipelineInv /\ OrderInv => DependenciesFirst
  BY DependenciesFirstFrom DEF PipelineInv
<1> QED
  BY <1>1, <1>2, <1>3, PipelineInvariant, PTL DEF Spec
-----------------------------------------------------------------------------
(* The rounds run out.                                                                           *)

(* Taking an entry out makes a list shorter by one.                                              *)
LEMMA ShorterLen ==
    ASSUME NEW cs, IsEntryList(cs), NEW i \in DOMAIN cs
    PROVE  Len(RemoveAt(cs, i)) = Len(cs) - 1
<1> DEFINE S == Range(cs)
<1>1. cs \in Seq(S) /\ Len(cs) \in Nat /\ i \in 1..Len(cs)
  BY EntriesOf
<1>2. /\ SubSeq(cs, 1, i - 1) \in Seq(S) /\ Len(SubSeq(cs, 1, i - 1)) = i - 1
      /\ SubSeq(cs, i + 1, Len(cs)) \in Seq(S) /\ Len(SubSeq(cs, i + 1, Len(cs))) = Len(cs) - i
  BY <1>1
<1>3. PICK a, b : a = SubSeq(cs, 1, i - 1) /\ b = SubSeq(cs, i + 1, Len(cs))
  OBVIOUS
<1>4. a \in Seq(S) /\ b \in Seq(S) /\ Len(a) = i - 1 /\ Len(b) = Len(cs) - i
  BY <1>2, <1>3
<1>5. Len(a \o b) = Len(a) + Len(b)
  BY <1>4
<1>6. RemoveAt(cs, i) = a \o b
  BY <1>3 DEF RemoveAt
<1> QED
  BY <1>1, <1>4, <1>5, <1>6

(* A stage that is over leaves fewer stages to come.                                             *)
LEMMA FewerStages ==
    ASSUME ControlInv, ControlStep
    PROVE  stage' = stage \/ StagesLeft(stage') < StagesLeft(stage)
<1> SUFFICES ASSUME stage' # stage PROVE StagesLeft(stage') < StagesLeft(stage)
  OBVIOUS
<1>1. /\ stage \in Range(StageSeq) \ {"Valid"} /\ stage # "Invalid"
      /\ stage' = "Invalid" \/ stage' = Follower(stage)
  BY NotInvalid DEF ControlStep
<1>2. DOMAIN StageSeq = 1..21 /\ StageSeq[21] = "Valid"
  BY DEF StageSeq
<1>3. PICK k \in 1..20 : stage = StageSeq[k]
  BY <1>1, <1>2 DEF Range
<1>4. \A j, l \in 1..21 : StageSeq[j] = StageSeq[l] => j = l
  BY DEF StageSeq
<1>5. ASSUME NEW l \in 1..21 PROVE StagesLeft(StageSeq[l]) = 21 - l
  <2>1. StageSeq[l] # "Invalid"
    BY <1>2, NotInvalid DEF Range
  <2>2. (CHOOSE j \in 1..21 : StageSeq[j] = StageSeq[l]) = l
    BY <1>4
  <2> QED
    BY <2>1, <2>2, Stages DEF StagesLeft
<1>6. StagesLeft(stage) = 21 - k
  BY <1>3, <1>5
<1>7. CASE stage' = "Invalid"
  BY <1>6, <1>7 DEF StagesLeft
<1>8. CASE stage' = Follower(stage)
  <2>1. stage' = StageSeq[k + 1] /\ k + 1 \in 1..21
    BY <1>3, <1>8, FollowerIs
  <2>2. StagesLeft(stage') = 21 - (k + 1)
    BY <1>5, <2>1
  <2> QED
    BY <1>6, <2>2
<1> QED
  BY <1>1, <1>7, <1>8

(* Stage 1 walks over the packages of the configuration, which it does not change.               *)
PackInv ==
    stage = "PackageMerge" => "packages" \in DOMAIN config /\ config.packages \in Seq(STRING)

LEMMA PackStep ==
    ASSUME PackInv, [Next]_vars
    PROVE  PackInv'
<1> SUFFICES ASSUME stage' = "PackageMerge"
             PROVE  "packages" \in DOMAIN config' /\ config'.packages \in Seq(STRING)
  BY DEF PackInv
<1>1. stage = "PackageMerge"
  BY StageSteps, Followers DEF StageStep, Rewriting, AfterPreload, AfterLoading, AfterAutoLoad,
         AfterChecks, AfterCollect, AfterIds, AfterRefs, AfterPins, AfterCaps, AfterGroups
<1>2. CASE config' = config
  BY <1>1, <1>2 DEF PackInv
<1>3. CASE config' # config
  <2>1. stage_1_merge_packages
    BY <1>1, <1>3, StepOfStage DEF vars
  <2>2. PICK cs, subs : config' = [config EXCEPT !.components = cs, !.subs = subs]
    BY <1>3, <2>1 DEF stage_1_merge_packages
  <2> QED
    BY <1>1, <2>2 DEF PackInv
<1> QED
  BY <1>2, <1>3

(* A round brings the end of its loop nearer: for each loop.                                     *)
Nearer == RoundsLeft' \in Nat /\ RoundsLeft' < RoundsLeft

LEMMA MergeRound ==
    ASSUME PackInv, cursor \in Nat \ {0}, stage_1_merge_packages, stage' = stage
    PROVE  Nearer
<1>1. stage = "PackageMerge" /\ config.packages \in Seq(STRING)
  BY DEF stage_1_merge_packages, PackInv
<1>2. Follower("PackageMerge") # stage /\ stage # "Invalid"
  BY <1>1, Followers
<1>3. ~(cursor > Len(config.packages)) /\ cursor' = cursor + 1
  BY <1>1, <1>2 DEF stage_1_merge_packages, Leave
<1>4. config'.packages = config.packages
  <2>1. CASE config' = config
    BY <2>1
  <2>2. CASE config' # config
    <3>1. PICK cs, subs : config' = [config EXCEPT !.components = cs, !.subs = subs]
      BY <2>2 DEF stage_1_merge_packages
    <3> QED
      BY <1>1, <3>1 DEF PackInv
  <2> QED
    BY <2>1, <2>2
<1>5. /\ RoundsLeft = Len(config.packages) + 2 - cursor
      /\ RoundsLeft' = Len(config.packages) + 2 - cursor'
  BY <1>1, <1>4 DEF RoundsLeft
<1>6. Len(config.packages) \in Nat
  BY <1>1
<1> QED
  BY <1>3, <1>5, <1>6 DEF Nearer

(* The loops over the entries: the index moves on, or the list is shorter by one or two.         *)
LEMMA EntryRound ==
    ASSUME ListInv, ListInv', cursor \in Nat \ {0}, ~(cursor > Len(Components)),
           stage \in {"ExtendRemove", "GenerateIds", "PinConflicts"}, stage' = stage,
           \/ cursor' = cursor + 1 /\ Len(Components') = Len(Components)
           \/ cursor' = cursor /\ Len(Components') \in {Len(Components) - 1, Len(Components) - 2}
    PROVE  Nearer
<1>1. Len(Components) \in Nat
  BY EntriesOf DEF ListInv, Components
<1>2. /\ RoundsLeft = Len(Components) + 2 - cursor
      /\ RoundsLeft' = Len(Components') + 2 - cursor'
  BY DEF RoundsLeft
<1> QED
  BY <1>1, <1>2 DEF Nearer

LEMMA DirectiveRound ==
    ASSUME ListInv, ListInv', cursor \in Nat \ {0}, stage_3_process_extend_remove, stage' = stage
    PROVE  Nearer
<1> DEFINE c == Components[cursor]
           rest == TakeOut(Components, cursor)
           targets == PositionsOf(rest, c.type)
<1>1. stage = "ExtendRemove" /\ IsEntryList(Components) /\ "components" \in DOMAIN config
  BY DEF stage_3_process_extend_remove, ListInv, Components
<1>2. ~(cursor > Len(Components)) /\ ExtendRemoveRound(c, rest)
  BY <1>1, Followers DEF stage_3_process_extend_remove, Leave
<1>3. cursor \in DOMAIN Components /\ Len(Components) \in Nat
  BY <1>1, <1>2, EntriesOf
<1>4. IsEntryList(rest) /\ Len(rest) = Len(Components) - 1
  BY <1>1, <1>3, ShorterList, ShorterLen DEF TakeOut
<1>5. ASSUME targets # {} PROVE First(targets) \in DOMAIN rest
  <2>1. targets \subseteq DOMAIN rest /\ targets \subseteq Nat
    BY <1>4, EntriesOf DEF PositionsOf
  <2> QED
    BY <1>5, <2>1, FirstIn
<1>6. CASE c.directive = "none" /\ cursor' = cursor + 1 /\ config' = config
  BY <1>1, <1>2, <1>6, EntryRound DEF Components
<1>7. CASE /\ cursor' = cursor
           /\ \E ds : /\ config' = [config EXCEPT !.components = ds]
                      /\ Len(ds) \in {Len(Components) - 1, Len(Components) - 2}
  <2>1. Len(Components') \in {Len(Components) - 1, Len(Components) - 2}
    BY <1>1, <1>7 DEF Components
  <2> QED
    BY <1>1, <1>2, <1>7, <2>1, EntryRound
<1>8. Len([rest EXCEPT ![First(targets)] = deep_merge(@, c)]) = Len(Components) - 1
  <2> HIDE DEF targets
  <2>1. rest \in Seq(Range(rest)) /\ DOMAIN rest = 1..Len(rest) /\ Len(rest) \in Nat
    BY <1>4, EntriesOf
  <2> HIDE DEF rest, c
  <2> DEFINE ds == [rest EXCEPT ![First(targets)] = deep_merge(@, c)]
  <2>2. DOMAIN ds = 1..Len(rest)
    BY <2>1
  <2>3. Len(ds) = Len(rest)
    BY <2>1, <2>2
  <2> QED
    BY <1>4, <2>3
<1>9. ASSUME targets # {}
      PROVE  Len(RemoveAt(rest, First(targets))) = Len(Components) - 2
  <2>1. Len(RemoveAt(rest, First(targets))) = Len(rest) - 1
    BY <1>4, <1>5, <1>9, ShorterLen
  <2> QED
    BY <1>3, <1>4, <2>1
<1> QED
  BY <1>2, <1>4, <1>6, <1>7, <1>8, <1>9 DEF ExtendRemoveRound

LEMMA IdRound ==
    ASSUME ListInv, ListInv', cursor \in Nat \ {0}, GenerateIds, stage' = stage
    PROVE  Nearer
<1>1. stage = "GenerateIds" /\ "components" \in DOMAIN config
  BY DEF GenerateIds, ListInv
<1>2. ~(cursor > Len(Components)) /\ cursor' = cursor + 1
  BY <1>1, Followers DEF GenerateIds, Leave
<1>3. Len(Components) \in Nat /\ DOMAIN Components = 1..Len(Components)
      /\ Len(Components') \in Nat /\ DOMAIN Components' = 1..Len(Components')
  BY EntriesOf DEF ListInv, Components
<1>4. DOMAIN Components' = DOMAIN Components
  BY <1>1, OnlyIdsChange DEF Rewriting, Next
<1>5. Len(Components') = Len(Components)
  <2>1. PICK m \in Nat, n \in Nat : m = Len(Components') /\ n = Len(Components)
    BY <1>3
  <2>2. 1..m = 1..n
    BY <1>3, <1>4, <2>1
  <2> QED
    BY <2>1, <2>2
<1> QED
  BY <1>1, <1>2, <1>5, EntryRound

LEMMA PinRound ==
    ASSUME ListInv, ListInv', cursor \in Nat \ {0}, stage_10_check_pin_conflicts, stage' = stage
    PROVE  Nearer
<1>1. stage = "PinConflicts"
  BY DEF stage_10_check_pin_conflicts
<1>2. ~(cursor > Len(Components)) /\ cursor' = cursor + 1 /\ config' = config
  BY <1>1, Followers DEF stage_10_check_pin_conflicts, Leave
<1> QED
  BY <1>1, <1>2, EntryRound DEF Components

(* A round of AUTO_LOAD moves components from the registry to the worklist and takes one off it. *)
LEMMA LoadRound ==
    ASSUME SelInv, resolve_auto_load, stage' = stage
    PROVE  Nearer
<1>1. stage = "AutoLoad" /\ Closing
  BY DEF resolve_auto_load, SelInv, AfterLoading
<1>2. work # {}
  BY <1>1, Followers DEF resolve_auto_load, Leave
<1>3. PICK id \in work : /\ resolved' = resolved \cup AutoLoad(id)
                         /\ work' = (work \ {id}) \cup Inserted(id)
  BY <1>2 DEF resolve_auto_load
<1> DEFINE all == DOMAIN Registry
           new == Inserted(id)
           rest == work \ {id}
           far == all \ resolved
<1>4. /\ id \in all /\ AutoLoad(id) \subseteq all /\ work \subseteq resolved /\ resolved \subseteq all
  BY <1>1, RegistryAssumption DEF Closing, AutoLoad
<1>5. new \subseteq far /\ rest \cap new = {} /\ far \cap new = new /\ all \ resolved' = far \ new
  BY <1>3, <1>4 DEF Inserted
<1>6. IsFiniteSet(all)
  BY RegistryAssumption
<1>7. IsFiniteSet(far) /\ IsFiniteSet(work) /\ IsFiniteSet(new)
  <2>1. far \in SUBSET all /\ work \in SUBSET all /\ new \in SUBSET all
    BY <1>4, <1>5
  <2> QED
    BY <1>6, <2>1, FS_Subset
<1> HIDE DEF new, far
<1>8. IsFiniteSet(rest) /\ Cardinality(rest) = Cardinality(work) - 1
  BY <1>3, <1>7, FS_RemoveElement
<1> HIDE DEF rest
<1>9. Cardinality(rest \cup new) = Cardinality(rest) + Cardinality(new) - Cardinality({})
  BY <1>5, <1>7, <1>8, FS_Union
<1>10. IsFiniteSet(far \ new) /\ Cardinality(far \ new) = Cardinality(far) - Cardinality(new)
  BY <1>5, <1>7, FS_Difference
<1>11. /\ Cardinality(work) \in Nat /\ Cardinality(rest) \in Nat /\ Cardinality(new) \in Nat
       /\ Cardinality(far) \in Nat /\ Cardinality(far \ new) \in Nat /\ Cardinality({}) = 0
  BY <1>7, <1>8, <1>10, FS_CardinalityType, FS_EmptySet
<1>12. /\ RoundsLeft = Cardinality(work) + Cardinality(far)
       /\ RoundsLeft' = Cardinality(work') + Cardinality(all \ resolved')
  BY <1>1 DEF RoundsLeft, far
<1>13. RoundsLeft' = Cardinality(rest \cup new) + Cardinality(far \ new)
  BY <1>3, <1>5, <1>12 DEF rest, new
<1> QED
  BY <1>8, <1>9, <1>10, <1>11, <1>12, <1>13 DEF Nearer

(* A round of the topological order places one component more.                                   *)
LEMMA DagRound ==
    ASSUME SelInv, OrderType, BuildDag, stage' = stage
    PROVE  Nearer
<1>1. stage = "BuildDag"
  BY DEF BuildDag
<1>2. PICK next \in resolved \ Ordered : order' = Append(order, next) /\ resolved' = resolved
  BY <1>1, OrderRound
<1>3. Ordered' = Ordered \cup {next}
  BY <1>2 DEF OrderType, Ordered, Range
<1>4. IsFiniteSet(resolved \ Ordered)
  BY <1>1, SelectionFinite, FS_Subset
<1>5. resolved' \ Ordered' = (resolved \ Ordered) \ {next}
  BY <1>2, <1>3
<1>6. /\ Cardinality((resolved \ Ordered) \ {next}) = Cardinality(resolved \ Ordered) - 1
      /\ IsFiniteSet((resolved \ Ordered) \ {next})
  BY <1>2, <1>4, FS_RemoveElement
<1>7. /\ Cardinality(resolved \ Ordered) \in Nat
      /\ Cardinality((resolved \ Ordered) \ {next}) \in Nat
  BY <1>4, <1>6, FS_CardinalityType
<1>8. /\ RoundsLeft = Cardinality(resolved \ Ordered)
      /\ RoundsLeft' = Cardinality(resolved' \ Ordered')
  BY <1>1 DEF RoundsLeft
<1> QED
  BY <1>5, <1>6, <1>7, <1>8 DEF Nearer

(* A step that stays in its stage is a round of one of the loops.                                *)
LEMMA StaysInLoop ==
    ASSUME [Next]_vars, stage' = stage
    PROVE  \/ stage_1_merge_packages \/ stage_3_process_extend_remove \/ resolve_auto_load
           \/ GenerateIds \/ stage_10_check_pin_conflicts \/ BuildDag \/ UNCHANGED vars
<1> USE Followers DEF Leave
<1>1. ~(stage = "Substitutions" /\ stage_2_apply_substitutions)
  BY DEF stage_2_apply_substitutions
<1>2. ~(stage = "VariantResolution" /\ stage_3_5_resolve_variant)
  BY DEF stage_3_5_resolve_variant, ApplyVariant
<1>3. ~(stage = "ExternalComponents" /\ stage_4_resolve_external_components)
  BY DEF stage_4_resolve_external_components
<1>4. ~(stage = "Preload" /\ stage_5_preload_esphome_block)
  BY DEF stage_5_preload_esphome_block
<1>5. ~(stage = "ComponentLoading" /\ stage_6_load_components)
  BY DEF stage_6_load_components
<1>6. ~(stage = "Dependencies" /\ CheckDependencies)
  BY DEF CheckDependencies
<1>7. ~(stage = "SchemaValidation" /\ stage_7_validate_schemas)
  BY DEF stage_7_validate_schemas
<1>8. ~(stage = "CollectIds" /\ CollectIds)
  BY DEF CollectIds
<1>9. ~(stage = "CrossRefs" /\ CrossRefs)
  BY DEF CrossRefs
<1>10. ~(stage = "FinalValidation" /\ stage_9_final_validation)
  BY DEF stage_9_final_validation
<1>11. ~(stage = "PinCapabilities" /\ PinCapabilities)
  BY DEF PinCapabilities
<1>12. ~(stage = "ExclusiveGroup" /\ stage_11_check_exclusive_groups)
  BY DEF stage_11_check_exclusive_groups
<1>13. ~(stage = "ProfileValidation" /\ stage_12_validate_profile)
  BY DEF stage_12_validate_profile
<1>14. ~(stage = "SecretFields" /\ stage_13_check_secret_fields)
  BY DEF stage_13_check_secret_fields
<1> QED
  BY <1>1, <1>2, <1>3, <1>4, <1>5, <1>6, <1>7, <1>8, <1>9, <1>10, <1>11, <1>12, <1>13, <1>14,
     StepOfStage

(* Every step of the pipeline brings its end nearer, whatever the registry, the packages and the *)
(* configuration: no directive, package, AUTO_LOAD circle or dependency circle can keep          *)
(* validate (pipeline.rs) from returning, only the number of rounds depends on them.             *)
THEOREM StepsRunOutTheorem == Spec => StepsRunOut
<1>1. Init => PackInv
  BY ConfigsAssumption DEF Init, PackInv
<1>2. PackInv /\ [Next]_vars => PackInv'
  BY PackStep
<1>3. PackInv /\ PipelineInv /\ [Next]_vars =>
        [\/ StagesLeft(stage') < StagesLeft(stage)
         \/ stage' = stage /\ RoundsLeft' \in Nat /\ RoundsLeft' < RoundsLeft]_vars
  <2> SUFFICES ASSUME PackInv, PipelineInv, [Next]_vars, ~UNCHANGED vars
               PROVE  StagesLeft(stage') < StagesLeft(stage) \/ (stage' = stage /\ Nearer)
    BY DEF Nearer
  <2>1. /\ ControlInv /\ ListInv /\ ListInv' /\ SelInv /\ OrderType /\ cursor \in Nat \ {0}
    BY PipelineStep DEF PipelineInv, ControlInv
  <2>2. stage' = stage \/ StagesLeft(stage') < StagesLeft(stage)
    BY <2>1, ControlSteps, FewerStages
  <2>3. ASSUME stage' = stage PROVE Nearer
    BY <2>1, <2>3, StaysInLoop, MergeRound, DirectiveRound, LoadRound, IdRound, PinRound, DagRound
  <2> QED
    BY <2>2, <2>3
<1> QED
  BY <1>1, <1>2, <1>3, PipelineInvariant, PTL DEF Spec, StepsRunOut

-----------------------------------------------------------------------------
(* The least selection.                                                                          *)

(* Sets of components with all that is written down and all that their members load.             *)
ClosedSelection(C) ==
    Selected \subseteq C /\ \A id \in C \cap DOMAIN Registry : Registry[id].auto_load \subseteq C

(* Nothing is selected that some closed set does without.                                        *)
LeastSelection == stage \in AfterLoading => \A C : ClosedSelection(C) => resolved \subseteq C

(* What AUTO_LOAD selects is the least set that is closed: SelectionSound says that something    *)
(* selected loads a component nobody wrote down, and two that load each other could vouch for    *)
(* one another; here every component is one that is written down or is reached from such.        *)
THEOREM LeastSelectionInvariant == Spec => []LeastSelection
<1> USE DEF AfterPreload, AfterLoading, AfterAutoLoad, AfterChecks, AfterCollect, AfterIds,
            AfterRefs, AfterPins, AfterCaps, AfterGroups
<1>1. Init => LeastSelection
  BY DEF Init, LeastSelection
<1>2. PipelineInv /\ LeastSelection /\ [Next]_vars => LeastSelection'
  <2> SUFFICES ASSUME PipelineInv, LeastSelection, [Next]_vars, stage' \in AfterLoading,
                      NEW C, ClosedSelection(C)'
               PROVE  resolved' \subseteq C
    BY DEF LeastSelection
  <2>0. StageStep /\ ListInv /\ cursor \in Nat \ {0} /\ SelInv
    BY StageSteps DEF PipelineInv, ControlInv
  <2>1. stage \in AfterLoading \cup {"ComponentLoading"}
    BY <2>0, Followers DEF StageStep, Rewriting
  <2>2. Selected' = Selected /\ ClosedSelection(C)
    <3>1. Selected' = Selected
      BY <2>0, <2>1, SelectedKept DEF Rewriting
    <3> QED
      BY <3>1 DEF ClosedSelection
  <2>3. CASE stage = "ComponentLoading"
    <3>1. stage_6_load_components
      BY <2>3, StepOfStage DEF vars
    <3> QED
      BY <2>2, <3>1 DEF stage_6_load_components, ClosedSelection
  <2>4. CASE stage \in AfterLoading /\ resolved' = resolved
    BY <2>2, <2>4 DEF LeastSelection
  <2>5. CASE stage = "AutoLoad" /\ resolve_auto_load /\ work # {}
    <3>1. PICK id \in work : resolved' = resolved \cup AutoLoad(id)
      BY <2>5 DEF resolve_auto_load
    <3>2. id \in resolved /\ resolved \subseteq DOMAIN Registry /\ resolved \subseteq C
      BY <2>0, <2>2, <2>5 DEF SelInv, Closing, LeastSelection
    <3> QED
      BY <2>2, <3>1, <3>2 DEF ClosedSelection, AutoLoad
  <2>6. CASE stage = "AutoLoad" /\ (~resolve_auto_load \/ work = {})
    <3>1. resolved' = resolved
      BY <2>6, StepOfStage DEF resolve_auto_load, vars
    <3> QED
      BY <2>4, <2>6, <3>1
  <2>7. CASE stage \in AfterAutoLoad
    BY <2>0, <2>4, <2>7 DEF StageStep
  <2> QED
    BY <2>1, <2>3, <2>5, <2>6, <2>7
<1> QED
  BY <1>1, <1>2, PipelineInvariant, PTL DEF Spec
=============================================================================
