--------------------------- MODULE AdoptionProofs ---------------------------
(***************************************************************************)
(* Theorems about Adoption for every set of invocations, every recipe and  *)
(* any number of user changes.                                             *)
(*                                                                         *)
(* The argument: while an invocation has not been torn down, created_files *)
(* is exactly the prefix of its recipe it has copied, each of these files  *)
(* is its own unless the user removed one (O_EXCL), so no step of another  *)
(* invocation writes or unlinks it; and an evidence file only appears when *)
(* its invocation has checked every target and will not roll back.         *)
(***************************************************************************)
EXTENDS Adoption, TLAPS

Checking == {"digest", "publish", "linked", "adopted"}
Linked(a) == \E p \in Paths : evidence[p] = a

\* created_files is the copied prefix of the recipe.
Progress(a) ==
  /\ pc[a] \in {"idle", "refused", "failed"} => created[a] = 0
  /\ pc[a] \in {"idle", "parents", "open", "write"} => at[a] = created[a] + 1
  /\ pc[a] \in {"open", "write"} => at[a] <= Len(Recipe[a])
  /\ pc[a] = "hash" => at[a] = created[a] /\ created[a] >= 1
  /\ pc[a] \in {"verify", "recheck"} \cup Checking => created[a] = Len(Recipe[a])
  /\ pc[a] = "recheck" => at[a] >= 1

\* A created file, and the one being copied, is the invocation's own, or the
\* user removed one there.
Owned(a) ==
  /\ \A t \in CreatedFiles(a) : t \in removed \/ file[t].by = a
  /\ pc[a] = "write" => \/ Recipe[a][at[a]] \in removed
                        \/ file[Recipe[a][at[a]]].by = a

\* A file of a live or torn-down invocation is in created_files, or is the
\* one being copied.
OwnIsCreated(a) ==
  pc[a] \notin {"raised", "crashed"} =>
    \A t \in Targets : file[t].by = a =>
      \/ t \in CreatedFiles(a)
      \/ pc[a] = "write" /\ t = Recipe[a][at[a]]

\* What the rehash after the verifiers has established so far.
Verified(a, t) == t \in changed[a] \cup removed \/ file[t].bytes = Payload[a]
Rechecked(a) ==
  /\ pc[a] = "recheck" =>
       \A i \in 1..Len(Recipe[a]) : i < at[a] => Verified(a, Recipe[a][i])
  /\ pc[a] \in Checking \/ Linked(a) => \A t \in TargetsOf(a) : Verified(a, t)

\* The receipt was composed from a tree that held the bound bytes.
Recorded(a) ==
  pc[a] \in {"publish", "linked", "adopted"} \/ Linked(a) =>
    \A t \in TargetsOf(a) \ (changed[a] \cup removed) :
      receipt[a][t].bytes = Payload[a]

\* Evidence belongs to an invocation that is past its last check.
Evidence(a) ==
  /\ Linked(a) => /\ pc[a] \in {"linked", "adopted", "raised", "crashed"}
                  /\ created[a] = Len(Recipe[a])
  /\ pc[a] \in {"linked", "adopted"} /\ ReceiptPath[a] # NoPath =>
       evidence[ReceiptPath[a]] = a

Good(a) ==
  /\ Progress(a)
  /\ Owned(a)
  /\ OwnIsCreated(a)
  /\ Rechecked(a)
  /\ Recorded(a)
  /\ Evidence(a)

IInv == TypeOK /\ \A a \in Adopters : Good(a)

-----------------------------------------------------------------------------
(* Facts about the constants.                                               *)

\* A recipe lists distinct targets by index (validate_recipe).
LEMMA RecipeTargets ==
  ASSUME NEW a \in Adopters
  PROVE  /\ Len(Recipe[a]) \in Nat
         /\ \A i \in 1..Len(Recipe[a]) : Recipe[a][i] \in Targets
         /\ \A i, j \in 1..Len(Recipe[a]) : Recipe[a][i] = Recipe[a][j] => i = j
  BY RecipeAssumption

\* What a target path can hold.
LEMMA FileTypes ==
  /\ Absent \in Files
  /\ \A w \in Adopters \cup {User} : \A b \in Bytes : [by |-> w, bytes |-> b] \in Files
  /\ \A f \in Files : f # Absent => f.by \in Adopters \cup {User} /\ f.bytes \in Bytes
  /\ \A a \in Adopters : Payload[a] \in Bytes /\ Absent.by # a /\ User # a
                        /\ Absent.bytes # Payload[a] /\ a # NoPath
  /\ {"partial", "other"} \subseteq Bytes
  BY ActorAssumption, PayloadAssumption DEF Files, Absent, Bytes, PayloadSet

-----------------------------------------------------------------------------
(* An invocation that is not stepping.                                      *)

\* What the others may do to x: nothing to its own state, to its receipt or
\* to its files, except that the user may change files and a removed path may
\* come to hold anything.
Undisturbed(x) ==
  /\ pc'[x] = pc[x] /\ at'[x] = at[x] /\ created'[x] = created[x]
  /\ receipt'[x] = receipt[x]
  /\ changed[x] \subseteq changed'[x]
  /\ removed \subseteq removed'
  /\ \A t \in Targets : file[t].by = x =>
       \/ t \in removed'
       \/ file'[t].by = x /\ (file'[t].bytes = file[t].bytes \/ t \in changed'[x])
  /\ \A t \in Targets : file'[t].by = x => file[t].by = x
  /\ \A p \in Paths : evidence'[p] = x <=> evidence[p] = x

LEMMA UndisturbedIsGood ==
  ASSUME IInv, NEW x \in Adopters, Undisturbed(x)
  PROVE  Good(x)'
<1>1. Good(x) /\ created[x] \in Nat /\ created[x] <= Len(Recipe[x])
  BY DEF IInv, TypeOK
<1> USE RecipeTargets
<1>2. CreatedFiles(x) \subseteq Targets /\ TargetsOf(x) \subseteq Targets
      /\ CreatedFiles(x)' = CreatedFiles(x)
  BY <1>1 DEF CreatedFiles, TargetsOf, Undisturbed
<1>3. Linked(x)' <=> Linked(x)
  BY DEF Linked, Undisturbed
<1>4. created[x] = Len(Recipe[x]) => TargetsOf(x) = CreatedFiles(x)
  BY DEF CreatedFiles, TargetsOf
<1>5. Progress(x)'
  BY <1>1 DEF Good, Progress, Undisturbed
<1>6. Owned(x)'
  <2>1. \A t \in CreatedFiles(x) : t \in removed' \/ file'[t].by = x
    BY <1>1, <1>2 DEF Good, Owned, Undisturbed
  <2>2. pc[x] = "write" => Recipe[x][at[x]] \in Targets
    BY <1>1 DEF Good, Progress
  <2>3. QED
    BY <1>1, <1>2, <2>1, <2>2 DEF Good, Owned, Undisturbed
<1>7. OwnIsCreated(x)'
  BY <1>1, <1>2 DEF Good, OwnIsCreated, Undisturbed
<1>8. ASSUME created[x] = Len(Recipe[x]), NEW t \in TargetsOf(x), Verified(x, t)
      PROVE  Verified(x, t)'
  BY <1>1, <1>2, <1>4, <1>8 DEF Verified, Good, Owned, Undisturbed
<1>9. Rechecked(x)'
  <2>1. ASSUME pc'[x] = "recheck", NEW i \in 1..Len(Recipe[x]), i < at'[x]
        PROVE  Verified(x, Recipe[x][i])'
    <3>1. created[x] = Len(Recipe[x]) /\ Verified(x, Recipe[x][i])
      BY <1>1, <2>1 DEF Good, Progress, Rechecked, Undisturbed
    <3>2. Recipe[x][i] \in TargetsOf(x)
      BY DEF TargetsOf
    <3>3. QED
      BY <3>1, <3>2, <1>8
  <2>2. ASSUME pc'[x] \in Checking \/ Linked(x)', NEW t \in TargetsOf(x)
        PROVE  Verified(x, t)'
    <3>1. created[x] = Len(Recipe[x]) /\ Verified(x, t)
      BY <1>1, <1>3, <2>2 DEF Good, Progress, Evidence, Rechecked, Undisturbed
    <3>2. QED
      BY <3>1, <1>8
  <2>3. QED
    BY <2>1, <2>2 DEF Rechecked, TargetsOf
<1>10. Recorded(x)'
  BY <1>1, <1>3 DEF Good, Recorded, Undisturbed, TargetsOf
<1>11. Evidence(x)'
  <2>1. Linked(x)' => /\ pc'[x] \in {"linked", "adopted", "raised", "crashed"}
                      /\ created'[x] = Len(Recipe[x])
    BY <1>1, <1>3 DEF Good, Evidence, Undisturbed
  <2>2. ReceiptPath[x] # NoPath => ReceiptPath[x] \in Paths
    BY DEF Paths
  <2>3. pc'[x] \in {"linked", "adopted"} /\ ReceiptPath[x] # NoPath =>
          evidence'[ReceiptPath[x]] = x
    BY <1>1, <2>2 DEF Good, Evidence, Undisturbed
  <2>4. QED
    BY <2>1, <2>3 DEF Evidence
<1>12. QED
  BY <1>5, <1>6, <1>7, <1>9, <1>10, <1>11 DEF Good

-----------------------------------------------------------------------------
(* The initial states, and one lemma per step of an invocation.             *)

LEMMA InitIInv == Init => IInv
<1> SUFFICES ASSUME Init PROVE IInv
  OBVIOUS
<1> USE DEF Init
<1>1. TypeOK
  <2>1. file \in [Targets -> Files]
    BY FileTypes
  <2>2. dirs \subseteq Dirs
    BY ParentAssumption
  <2>3. QED
    BY <2>1, <2>2, RecipeTargets, BoundsAssumption DEF TypeOK, Stages
<1>2. ASSUME NEW a \in Adopters
      PROVE  Good(a)
  <2>1. \A t \in Targets : file[t].by # a
    BY FileTypes
  <2>2. ~Linked(a)
    BY FileTypes DEF Linked
  <2>3. CreatedFiles(a) = {}
    BY DEF CreatedFiles
  <2>4. QED
    BY <2>1, <2>2, <2>3, RecipeTargets
       DEF Good, Progress, Owned, OwnIsCreated, Rechecked, Recorded, Evidence, Checking
<1>3. QED
  BY <1>1, <1>2 DEF IInv

\* A step of a that changes no file, no history and no evidence leaves every
\* other invocation undisturbed.
LEMMA QuietStep ==
  ASSUME IInv, NEW a \in Adopters,
         \A x \in Adopters \ {a} :
           /\ pc'[x] = pc[x] /\ at'[x] = at[x] /\ created'[x] = created[x]
           /\ receipt'[x] = receipt[x] /\ changed'[x] = changed[x],
         UNCHANGED <<file, removed, evidence>>
  PROVE  \A x \in Adopters \ {a} : Good(x)'
  BY UndisturbedIsGood DEF Undisturbed

LEMMA PreflightIInv ==
  ASSUME IInv, NEW a \in Adopters, Preflight(a)
  PROVE  IInv'
<1> USE DEF Preflight, Goto
<1>1. TypeOK /\ Good(a)
  BY DEF IInv
<1>2. TypeOK'
  BY <1>1 DEF TypeOK, Stages, Running, Ended
<1>3. Good(a)'
  <2>1. Progress(a)'
    BY <1>1 DEF TypeOK, Good, Progress, Checking
  <2>2. Owned(a)' /\ OwnIsCreated(a)'
    BY <1>1 DEF TypeOK, Good, Owned, OwnIsCreated, CreatedFiles
  <2>3. Rechecked(a)' /\ Recorded(a)' /\ Evidence(a)'
    BY <1>1 DEF TypeOK, Good, Rechecked, Recorded, Evidence, Linked, Checking
  <2>4. QED
    BY <2>1, <2>2, <2>3 DEF Good
<1>4. \A x \in Adopters \ {a} : Good(x)'
  BY <1>1, QuietStep DEF TypeOK
<1>5. QED
  BY <1>2, <1>3, <1>4 DEF IInv

\* Adding directories to one invocation's keeps the type of madeDirs.
LEMMA GrownSets ==
  ASSUME NEW f \in [Adopters -> SUBSET Dirs], NEW a \in Adopters, NEW new \in SUBSET Dirs
  PROVE  [f EXCEPT ![a] = @ \cup new] \in [Adopters -> SUBSET Dirs]
  OBVIOUS

LEMMA MakeParentsIInv ==
  ASSUME IInv, NEW a \in Adopters, MakeParents(a)
  PROVE  IInv'
<1> USE DEF MakeParents, Goto
<1>1. TypeOK /\ Good(a)
  BY DEF IInv
<1>2. TypeOK'
  <2>1. at' \in [Adopters -> Nat]
    BY <1>1 DEF TypeOK
  <2>2. pc' \in [Adopters -> Stages]
    BY <1>1 DEF TypeOK, Stages, Running, Ended
  <2>3. dirs' \subseteq Dirs /\ madeDirs' \in [Adopters -> SUBSET Dirs]
    <3>1. CASE at[a] <= Len(Recipe[a])
      <4>1. at[a] \in 1..Len(Recipe[a])
        BY <1>1, <3>1, RecipeTargets DEF TypeOK, Good, Progress
      <4>2. Parent[Recipe[a][at[a]]] \in Dirs \cup {Root}
        BY <4>1, RecipeTargets, ParentAssumption
      <4>3. dirs' \subseteq Dirs
        BY <1>1, <3>1, <4>2 DEF TypeOK
      <4>4. PICK new \in SUBSET Dirs : madeDirs' = madeDirs \/
                                      madeDirs' = [madeDirs EXCEPT ![a] = @ \cup new]
        BY <1>1, <3>1, <4>2 DEF TypeOK
      <4>5. madeDirs' \in [Adopters -> SUBSET Dirs]
        <5>1. madeDirs \in [Adopters -> SUBSET Dirs]
          BY <1>1 DEF TypeOK
        <5>2. QED
          BY ONLY <4>4, <5>1, GrownSets
      <4>6. QED
        BY <4>3, <4>5
    <3>2. CASE ~(at[a] <= Len(Recipe[a]))
      BY <1>1, <3>2 DEF TypeOK
    <3>3. QED
      BY <3>1, <3>2
  <2>4. QED
    BY <1>1, <2>1, <2>2, <2>3 DEF TypeOK
<1>3. Good(a)'
  <2>1. Progress(a)'
    BY <1>1, RecipeTargets DEF TypeOK, Good, Progress, Checking
  <2>2. Owned(a)' /\ OwnIsCreated(a)'
    BY <1>1 DEF TypeOK, Good, Owned, OwnIsCreated, CreatedFiles
  <2>3. Rechecked(a)' /\ Recorded(a)' /\ Evidence(a)'
    BY <1>1 DEF TypeOK, Good, Rechecked, Recorded, Evidence, Linked, Checking
  <2>4. QED
    BY <2>1, <2>2, <2>3 DEF Good
<1>4. \A x \in Adopters \ {a} : Good(x)'
  BY <1>1, QuietStep DEF TypeOK
<1>5. QED
  BY <1>2, <1>3, <1>4 DEF IInv

LEMMA OpenTargetIInv ==
  ASSUME IInv, NEW a \in Adopters, OpenTarget(a)
  PROVE  IInv'
<1> DEFINE t == Recipe[a][at[a]]
<1> USE DEF OpenTarget, Goto
<1>1. TypeOK /\ Good(a)
  BY DEF IInv
<1>2. at[a] = created[a] + 1 /\ at[a] \in 1..Len(Recipe[a]) /\ t \in Targets
  BY <1>1, RecipeTargets DEF TypeOK, Good, Progress
<1>3. TypeOK'
  <2>1. [by |-> a, bytes |-> "partial"] \in Files
    BY FileTypes
  <2>2. file' \in [Targets -> Files]
    BY <1>1, <2>1 DEF TypeOK
  <2>3. pc' \in [Adopters -> Stages]
    BY <1>1 DEF TypeOK, Stages, Running, Ended
  <2>4. QED
    BY <1>1, <2>2, <2>3 DEF TypeOK
<1>4. /\ \A u \in Targets : u # t \/ Exists(t) => file'[u] = file[u]
      /\ \A u \in Targets : file'[u] # file[u] => file'[u].by = a /\ pc'[a] = "write"
  BY <1>1, <1>2 DEF TypeOK
<1>5. Good(a)'
  <2>1. Progress(a)'
    BY <1>1 DEF TypeOK, Good, Progress, Checking
  <2>2. Owned(a)' /\ CreatedFiles(a)' = CreatedFiles(a)
    <3>1. CreatedFiles(a) \subseteq Targets
      BY <1>1, RecipeTargets DEF TypeOK, CreatedFiles
    <3>2. CreatedFiles(a)' = CreatedFiles(a)
      BY DEF CreatedFiles
    <3>3. \A u \in CreatedFiles(a) : u \in removed' \/ file'[u].by = a
      BY <1>1, <1>4, <3>1 DEF Good, Owned
    <3>4. pc'[a] = "write" => file'[t].by = a
      BY <1>1, <1>2 DEF TypeOK
    <3>5. QED
      BY <3>2, <3>3, <3>4 DEF Owned
  <2>3. OwnIsCreated(a)'
    BY <1>1, <1>2, <1>4, <2>2 DEF TypeOK, Good, OwnIsCreated
  <2>4. Rechecked(a)' /\ Recorded(a)' /\ Evidence(a)'
    BY <1>1 DEF TypeOK, Good, Rechecked, Recorded, Evidence, Linked, Checking
  <2>5. QED
    BY <2>1, <2>2, <2>3, <2>4 DEF Good
<1>6. ASSUME NEW x \in Adopters \ {a}
      PROVE  Good(x)'
  <2>1. Absent.by # x
    BY FileTypes
  <2>2. Undisturbed(x)
    BY <1>1, <1>4, <2>1 DEF TypeOK, Undisturbed, Exists
  <2>3. QED
    BY <2>2, UndisturbedIsGood
<1>7. QED
  BY <1>3, <1>5, <1>6 DEF IInv

LEMMA WriteTargetIInv ==
  ASSUME IInv, NEW a \in Adopters, WriteTarget(a)
  PROVE  IInv'
<1> DEFINE t == Recipe[a][at[a]]
<1> USE DEF WriteTarget, Goto
<1>1. TypeOK /\ Good(a)
  BY DEF IInv
<1>2. at[a] = created[a] + 1 /\ at[a] \in 1..Len(Recipe[a]) /\ t \in Targets
  BY <1>1, RecipeTargets DEF TypeOK, Good, Progress
<1>3. TypeOK'
  <2>1. \A b \in {Payload[a], "other"} : [by |-> a, bytes |-> b] \in Files
    BY FileTypes
  <2>2. file' \in [Targets -> Files]
    <3>1. file \in [Targets -> Files]
      BY <1>1 DEF TypeOK
    <3>2. \/ file' = file
          \/ \E b \in {Payload[a], "other"} :
               file' = [file EXCEPT ![t] = [by |-> a, bytes |-> b]]
      OBVIOUS
    <3>3. QED
      BY ONLY <2>1, <3>1, <3>2
  <2>3. pc' \in [Adopters -> Stages]
    BY <1>1 DEF TypeOK, Stages, Running, Ended
  <2>4. created' \in [Adopters -> Nat] /\ \A x \in Adopters : created'[x] <= Len(Recipe[x])
    BY <1>1, <1>2, RecipeTargets DEF TypeOK
  <2>5. QED
    BY <1>1, <2>2, <2>3, <2>4 DEF TypeOK
<1>4. /\ \A u \in Targets : file'[u].by = file[u].by
      /\ \A u \in Targets : file'[u] # file[u] => file[u].by = a
  <2>1. CASE file[t].by = a
    <3>1. PICK f : file' = [file EXCEPT ![t] = f] /\ f.by = a
      BY <2>1
    <3>2. QED
      BY <1>1, <1>2, <2>1, <3>1 DEF TypeOK
  <2>2. CASE file[t].by # a
    BY <2>2
  <2>3. QED
    BY <2>1, <2>2
<1>5. CreatedFiles(a)' = CreatedFiles(a) \cup {t} /\ CreatedFiles(a) \subseteq Targets
  BY <1>1, <1>2, RecipeTargets DEF TypeOK, CreatedFiles
<1>6. Good(a)'
  <2>1. Progress(a)'
    BY <1>1, <1>2 DEF TypeOK, Good, Progress, Checking
  <2>2. Owned(a)'
    <3>1. t \in removed \/ file[t].by = a
      BY <1>1, <1>2 DEF Good, Owned
    <3>2. QED
      BY <1>1, <1>2, <1>4, <1>5, <3>1 DEF TypeOK, Good, Owned
  <2>3. OwnIsCreated(a)'
    BY <1>1, <1>4, <1>5 DEF TypeOK, Good, OwnIsCreated
  <2>4. Rechecked(a)' /\ Recorded(a)' /\ Evidence(a)' 
    BY <1>1 DEF TypeOK, Good, Rechecked, Recorded, Evidence, Linked, Checking
  <2>5. QED
    BY <2>1, <2>2, <2>3, <2>4 DEF Good
<1>7. ASSUME NEW x \in Adopters \ {a}
      PROVE  Good(x)'
  <2>1. Undisturbed(x)
    BY <1>1, <1>4 DEF TypeOK, Undisturbed
  <2>2. QED
    BY <2>1, UndisturbedIsGood
<1>8. QED
  BY <1>3, <1>6, <1>7 DEF IInv

LEMMA HashTargetIInv ==
  ASSUME IInv, NEW a \in Adopters, HashTarget(a)
  PROVE  IInv'
<1> USE DEF HashTarget, Goto
<1>1. TypeOK /\ Good(a)
  BY DEF IInv
<1>2. TypeOK'
  <2>1. at' \in [Adopters -> Nat]
    BY <1>1 DEF TypeOK
  <2>2. pc' \in [Adopters -> Stages]
    BY <1>1 DEF TypeOK, Stages, Running, Ended
  <2>3. QED
    BY <1>1, <2>1, <2>2 DEF TypeOK
<1>3. Good(a)'
  <2>1. Progress(a)'
    BY <1>1 DEF TypeOK, Good, Progress, Checking
  <2>2. Owned(a)' /\ OwnIsCreated(a)'
    BY <1>1 DEF TypeOK, Good, Owned, OwnIsCreated, CreatedFiles
  <2>3. Rechecked(a)' /\ Recorded(a)' /\ Evidence(a)'
    BY <1>1 DEF TypeOK, Good, Rechecked, Recorded, Evidence, Linked, Checking
  <2>4. QED
    BY <2>1, <2>2, <2>3 DEF Good
<1>4. \A x \in Adopters \ {a} : Good(x)'
  BY <1>1, QuietStep DEF TypeOK
<1>5. QED
  BY <1>2, <1>3, <1>4 DEF IInv

LEMMA RunVerifierIInv ==
  ASSUME IInv, NEW a \in Adopters, RunVerifier(a)
  PROVE  IInv'
<1> USE DEF RunVerifier, Goto
<1>1. TypeOK /\ Good(a)
  BY DEF IInv
<1>2. TypeOK'
  <2>1. at' \in [Adopters -> Nat]
    BY <1>1 DEF TypeOK
  <2>2. pc' \in [Adopters -> Stages]
    BY <1>1 DEF TypeOK, Stages, Running, Ended
  <2>3. changed' \in [Adopters -> SUBSET Targets]
    BY <1>1 DEF TypeOK
  <2>4. QED
    BY <1>1, <2>1, <2>2, <2>3 DEF TypeOK
<1>3. Good(a)'
  <2>1. Progress(a)'
    BY <1>1 DEF TypeOK, Good, Progress, Checking
  <2>2. Owned(a)' /\ OwnIsCreated(a)'
    BY <1>1 DEF TypeOK, Good, Owned, OwnIsCreated, CreatedFiles
  <2>3. ~Linked(a)
    BY <1>1 DEF Good, Evidence
  <2>4. Rechecked(a)' /\ Recorded(a)' /\ Evidence(a)'
    BY <1>1, <2>3 DEF TypeOK, Rechecked, Recorded, Evidence, Linked, Checking
  <2>5. QED
    BY <2>1, <2>2, <2>4 DEF Good
<1>4. \A x \in Adopters \ {a} : Good(x)'
  BY <1>1, QuietStep DEF TypeOK
<1>5. QED
  BY <1>2, <1>3, <1>4 DEF IInv

LEMMA RecheckIInv ==
  ASSUME IInv, NEW a \in Adopters, Recheck(a)
  PROVE  IInv'
<1> USE DEF Recheck, Goto
<1>1. TypeOK /\ Good(a)
  BY DEF IInv
<1>2. TypeOK'
  <2>1. at' \in [Adopters -> Nat]
    BY <1>1 DEF TypeOK
  <2>2. pc' \in [Adopters -> Stages]
    BY <1>1 DEF TypeOK, Stages, Running, Ended
  <2>3. QED
    BY <1>1, <2>1, <2>2 DEF TypeOK
<1>3. Good(a)'
  <2>1. Progress(a)'
    BY <1>1 DEF TypeOK, Good, Progress, Checking
  <2>2. Owned(a)' /\ OwnIsCreated(a)'
    BY <1>1 DEF TypeOK, Good, Owned, OwnIsCreated, CreatedFiles
  <2>3. ~Linked(a) /\ ~Linked(a)'
    BY <1>1 DEF Good, Evidence, Linked
  <2>4. Rechecked(a)'
    <3>1. \A i \in 1..Len(Recipe[a]) : i < at[a] => Verified(a, Recipe[a][i])
      BY <1>1 DEF Good, Rechecked
    <3>2. \A t \in Targets : Verified(a, t)' <=> Verified(a, t)
      BY DEF Verified
    <3>3. CASE at[a] > Len(Recipe[a])
      <4>1. \A t \in TargetsOf(a) : Verified(a, t)
        <5>1. ASSUME NEW i \in 1..Len(Recipe[a]) PROVE Verified(a, Recipe[a][i])
          BY <1>1, <3>1, <3>3, RecipeTargets DEF TypeOK
        <5>2. QED
          BY <5>1 DEF TargetsOf
      <4>2. QED
        BY <1>1, <2>3, <3>1, <3>3, <4>1, RecipeTargets DEF TypeOK, Rechecked, Verified
    <3>4. CASE at[a] <= Len(Recipe[a]) /\ Exact(a, Recipe[a][at[a]])
      <4>1. Verified(a, Recipe[a][at[a]])
        BY <3>4 DEF Exact, Verified
      <4>2. \A i \in 1..Len(Recipe[a]) : i < at[a] + 1 => Verified(a, Recipe[a][i])
        BY <1>1, <3>1, <4>1 DEF TypeOK
      <4>3. pc' = pc /\ at'[a] = at[a] + 1
        BY <1>1, <3>4, RecipeTargets DEF TypeOK
      <4>4. QED
        BY <2>3, <4>2, <4>3 DEF Rechecked, Checking, Verified
    <3>5. CASE at[a] <= Len(Recipe[a]) /\ ~Exact(a, Recipe[a][at[a]])
      BY <1>1, <2>3, <3>5, RecipeTargets DEF TypeOK, Rechecked, Checking
    <3>6. QED
      BY <1>1, <3>3, <3>4, <3>5, RecipeTargets DEF TypeOK
  <2>5. Recorded(a)' /\ Evidence(a)'
    BY <1>1, <2>3 DEF TypeOK, Recorded, Evidence
  <2>6. QED
    BY <2>1, <2>2, <2>4, <2>5 DEF Good
<1>4. \A x \in Adopters \ {a} : Good(x)'
  BY <1>1, QuietStep DEF TypeOK
<1>5. QED
  BY <1>2, <1>3, <1>4 DEF IInv

LEMMA DigestTreeIInv ==
  ASSUME IInv, NEW a \in Adopters, DigestTree(a)
  PROVE  IInv'
<1> USE DEF DigestTree, Goto
<1>1. TypeOK /\ Good(a)
  BY DEF IInv
<1>2. TypeOK'
  <2>1. pc' \in [Adopters -> Stages]
    BY <1>1 DEF TypeOK, Stages, Running, Ended
  <2>2. receipt' \in [Adopters -> [Targets -> Files] \cup {NoReceipt}]
    BY <1>1 DEF TypeOK
  <2>3. QED
    BY <1>1, <2>1, <2>2 DEF TypeOK
<1>3. Good(a)'
  <2>1. Progress(a)'
    BY <1>1 DEF TypeOK, Good, Progress, Checking
  <2>2. Owned(a)' /\ OwnIsCreated(a)'
    BY <1>1 DEF TypeOK, Good, Owned, OwnIsCreated, CreatedFiles
  <2>3. ~Linked(a) /\ ~Linked(a)'
    BY <1>1 DEF Good, Evidence, Linked
  <2>4. \A t \in TargetsOf(a) : Verified(a, t) /\ Verified(a, t)'
    BY <1>1 DEF Good, Rechecked, Checking, Verified
  <2>5. Rechecked(a)' /\ Evidence(a)'
    BY <1>1, <2>3, <2>4 DEF TypeOK, Rechecked, Evidence, Checking
  <2>6. Recorded(a)'
    BY <1>1, <2>3, <2>4 DEF TypeOK, Recorded, Verified
  <2>7. QED
    BY <2>1, <2>2, <2>5, <2>6 DEF Good
<1>4. \A x \in Adopters \ {a} : Good(x)'
  BY <1>1, QuietStep DEF TypeOK
<1>5. QED
  BY <1>2, <1>3, <1>4 DEF IInv

LEMMA PublishIInv ==
  ASSUME IInv, NEW a \in Adopters, Publish(a)
  PROVE  IInv'
<1> USE DEF Publish, Goto
<1>1. TypeOK /\ Good(a)
  BY DEF IInv
<1>2. ReceiptPath[a] # NoPath => ReceiptPath[a] \in Paths
  BY DEF Paths
<1>3. TypeOK'
  <2>1. pc' \in [Adopters -> Stages]
    BY <1>1 DEF TypeOK, Stages, Running, Ended
  <2>2. evidence' \in [Paths -> Adopters \cup {NoPath}]
    BY <1>1 DEF TypeOK
  <2>3. QED
    BY <1>1, <2>1, <2>2 DEF TypeOK
<1>4. Good(a)'
  <2>1. Progress(a)'
    BY <1>1 DEF TypeOK, Good, Progress, Checking
  <2>2. Owned(a)' /\ OwnIsCreated(a)'
    BY <1>1 DEF TypeOK, Good, Owned, OwnIsCreated, CreatedFiles
  <2>3. ~Linked(a) /\ (Linked(a)' => pc'[a] = "linked")
    BY <1>1 DEF TypeOK, Good, Evidence, Linked
  <2>4. Rechecked(a)'
    BY <1>1, <2>3 DEF TypeOK, Good, Rechecked, Checking, Verified
  <2>5. Recorded(a)'
    BY <1>1, <2>3 DEF TypeOK, Good, Recorded
  <2>6. Evidence(a)'
    BY <1>1, <1>2, <2>3 DEF TypeOK, Good, Progress, Evidence, Checking
  <2>7. QED
    BY <2>1, <2>2, <2>4, <2>5, <2>6 DEF Good
<1>5. ASSUME NEW x \in Adopters \ {a}
      PROVE  Good(x)'
  <2>1. \A p \in Paths : evidence'[p] = x <=> evidence[p] = x
    BY <1>1, FileTypes DEF TypeOK
  <2>2. Undisturbed(x)
    BY <1>1, <2>1 DEF TypeOK, Undisturbed
  <2>3. QED
    BY <2>2, UndisturbedIsGood
<1>6. QED
  BY <1>3, <1>4, <1>5 DEF IInv

LEMMA ReturnIInv ==
  ASSUME IInv, NEW a \in Adopters, Return(a)
  PROVE  IInv'
<1> USE DEF Return, Goto
<1>1. TypeOK /\ Good(a)
  BY DEF IInv
<1>2. TypeOK'
  BY <1>1 DEF TypeOK, Stages, Running, Ended
<1>3. Good(a)'
  <2>1. Progress(a)'
    BY <1>1 DEF TypeOK, Good, Progress, Checking
  <2>2. Owned(a)' /\ OwnIsCreated(a)'
    BY <1>1 DEF TypeOK, Good, Owned, OwnIsCreated, CreatedFiles
  <2>3. Rechecked(a)' /\ Recorded(a)'
    BY <1>1 DEF TypeOK, Good, Rechecked, Recorded, Linked, Checking, Verified
  <2>4. Evidence(a)'
    BY <1>1 DEF TypeOK, Good, Progress, Evidence, Linked, Checking
  <2>5. QED
    BY <2>1, <2>2, <2>3, <2>4 DEF Good
<1>4. \A x \in Adopters \ {a} : Good(x)'
  BY <1>1, QuietStep DEF TypeOK
<1>5. QED
  BY <1>2, <1>3, <1>4 DEF IInv

\* The unlink loop only takes paths of created_files, which no other
\* invocation holds.
LEMMA RollbackIInv ==
  ASSUME IInv, NEW a \in Adopters, Rollback(a)
  PROVE  IInv'
<1> DEFINE t == Recipe[a][created[a]]
<1> USE DEF Rollback, Goto
<1>1. TypeOK /\ Good(a)
  BY DEF IInv
<1>2. ~Linked(a) /\ ~Linked(a)'
  BY <1>1 DEF Good, Evidence, Linked
<1>3. CASE created[a] = 0
  <2>1. TypeOK'
    <3>1. pc' \in [Adopters -> Stages]
      BY <1>1, <1>3 DEF TypeOK, Stages, Running, Ended
    <3>2. dirs' \subseteq Dirs
      BY <1>1, <1>3 DEF TypeOK
    <3>3. QED
      BY <1>1, <1>3, <3>1, <3>2 DEF TypeOK
  <2>2. Good(a)'
    <3>1. Progress(a)'
      BY <1>1, <1>3 DEF TypeOK, Progress, Checking
    <3>2. Owned(a)' /\ OwnIsCreated(a)'
      BY <1>1, <1>3 DEF TypeOK, Good, Owned, OwnIsCreated, CreatedFiles
    <3>3. Rechecked(a)' /\ Recorded(a)' /\ Evidence(a)'
      BY <1>1, <1>2, <1>3 DEF TypeOK, Rechecked, Recorded, Evidence, Checking
    <3>4. QED
      BY <3>1, <3>2, <3>3 DEF Good
  <2>3. \A x \in Adopters \ {a} : Good(x)'
    <3>1. /\ UNCHANGED <<file, at, created, receipt, changed, removed, evidence>>
          /\ pc' = [pc EXCEPT ![a] = "failed"]
      BY <1>3
    <3>2. QED
      BY <1>1, <3>1, QuietStep DEF TypeOK
  <2>4. QED
    BY <2>1, <2>2, <2>3 DEF IInv
<1>4. CASE created[a] > 0
  <2>1. created[a] \in 1..Len(Recipe[a]) /\ t \in Targets /\ t \in CreatedFiles(a)
    BY <1>1, <1>4, RecipeTargets DEF TypeOK, CreatedFiles
  <2>2. CreatedFiles(a)' = CreatedFiles(a) \ {t} /\ CreatedFiles(a) \subseteq Targets
    <3>1. created'[a] = created[a] - 1
      BY <1>1, <1>4 DEF TypeOK
    <3>2. 1..created[a] = (1..(created[a] - 1)) \cup {created[a]}
      BY <1>1, <2>1, RecipeTargets DEF TypeOK
    <3>3. \A i \in 1..(created[a] - 1) : Recipe[a][i] # t
      BY <1>1, <2>1, RecipeTargets DEF TypeOK
    <3>4. \A i \in 1..created[a] : Recipe[a][i] \in Targets
      BY <1>1, RecipeTargets DEF TypeOK
    <3>5. QED
      BY <3>1, <3>2, <3>3, <3>4 DEF CreatedFiles
  <2>3. TypeOK'
    <3>1. file' \in [Targets -> Files]
      <4>1. file \in [Targets -> Files] /\ Absent \in Files
        BY <1>1, FileTypes DEF TypeOK
      <4>2. file' = [file EXCEPT ![t] = Absent]
        BY <1>4
      <4>3. QED
        BY ONLY <4>1, <4>2
    <3>2. created' \in [Adopters -> Nat]
      BY <1>1, <1>4 DEF TypeOK
    <3>3. ASSUME NEW x \in Adopters PROVE created'[x] <= Len(Recipe[x])
      <4>1. created[x] \in Nat /\ Len(Recipe[x]) \in Nat /\ created[x] <= Len(Recipe[x])
        BY <1>1, RecipeTargets DEF TypeOK
      <4>2. created'[x] = created[x] \/ created'[x] = created[x] - 1
        BY <1>1, <1>4 DEF TypeOK
      <4>3. QED
        BY <4>1, <4>2
    <3>4. QED
      BY <1>1, <1>4, <3>1, <3>2, <3>3 DEF TypeOK
  <2>4. /\ file'[t] = Absent
        /\ \A u \in Targets : u # t => file'[u] = file[u]
        /\ pc'[a] = "rollback"
    BY <1>1, <1>4, <2>1 DEF TypeOK
  <2>5. Good(a)'
    <3>1. Progress(a)'
      BY <2>4 DEF Progress, Checking
    <3>2. Owned(a)'
      BY <1>1, <1>4, <2>2, <2>4 DEF Good, Owned
    <3>3. OwnIsCreated(a)'
      BY <1>1, <1>4, <2>2, <2>4, FileTypes DEF Good, OwnIsCreated
    <3>4. Rechecked(a)' /\ Recorded(a)' /\ Evidence(a)'
      BY <1>2, <2>4 DEF Rechecked, Recorded, Evidence, Checking
    <3>5. QED
      BY <3>1, <3>2, <3>3, <3>4 DEF Good
  <2>6. ASSUME NEW x \in Adopters \ {a}
        PROVE  Good(x)'
    <3>1. file[t].by = x => t \in removed
      BY <1>1, <2>1 DEF Good, Owned
    <3>2. Absent.by # x
      BY FileTypes
    <3>3. Undisturbed(x)
      BY <1>1, <1>4, <2>4, <3>1, <3>2 DEF TypeOK, Undisturbed
    <3>4. QED
      BY <3>3, UndisturbedIsGood
  <2>7. QED
    BY <2>3, <2>5, <2>6 DEF IInv
<1>5. QED
  BY <1>1, <1>3, <1>4 DEF TypeOK

\* An escaping exception or a kill only stops the invocation.
LEMMA StopIInv ==
  ASSUME IInv, NEW a \in Adopters, RaiseOther(a) \/ Crash(a)
  PROVE  IInv'
<1> USE DEF RaiseOther, Crash, Goto
<1>1. TypeOK /\ Good(a)
  BY DEF IInv
<1>2. TypeOK' /\ pc'[a] \in {"raised", "crashed"}
  BY <1>1 DEF TypeOK, Stages, Running, Ended
<1>3. Good(a)'
  <2>1. Progress(a)' /\ OwnIsCreated(a)'
    BY <1>2 DEF Progress, OwnIsCreated, Checking
  <2>2. Owned(a)'
    BY <1>1, <1>2 DEF Good, Owned, CreatedFiles
  <2>3. Rechecked(a)' /\ Recorded(a)' /\ Evidence(a)'
    BY <1>1, <1>2 DEF TypeOK, Good, Rechecked, Recorded, Evidence, Linked, Checking, Verified
  <2>4. QED
    BY <2>1, <2>2, <2>3 DEF Good
<1>4. \A x \in Adopters \ {a} : Good(x)'
  BY <1>1, QuietStep DEF TypeOK
<1>5. QED
  BY <1>2, <1>3, <1>4 DEF IInv

\* The user disturbs no invocation beyond what the histories record.
LEMMA UserChangeIInv ==
  ASSUME IInv, NEW t \in Targets, NEW f \in Files, UserChange(t, f),
         removed \subseteq removed', removed' \subseteq Targets,
         \/ f.by = file[t].by
         \/ f.by = User /\ ~Exists(t)
         \/ f = Absent /\ t \in removed'
  PROVE  IInv'
<1> USE DEF UserChange
<1>1. TypeOK
  BY DEF IInv
<1>2. TypeOK'
  <2>1. file' \in [Targets -> Files]
    BY <1>1 DEF TypeOK
  <2>2. changed' \in [Adopters -> SUBSET Targets]
    BY <1>1 DEF TypeOK
  <2>3. edits' \in 0..MaxEdits
    BY <1>1, BoundsAssumption DEF TypeOK
  <2>4. QED
    BY <1>1, <2>1, <2>2, <2>3 DEF TypeOK
<1>3. ASSUME NEW x \in Adopters
      PROVE  Good(x)'
  <2>1. Absent.by # x /\ User # x
    BY FileTypes
  <2>2. t \in changed'[x] /\ changed[x] \subseteq changed'[x]
    OBVIOUS
  <2>3. \A u \in Targets : u # t => file'[u] = file[u]
    BY <1>1 DEF TypeOK
  <2>4. file'[t] = f
    BY <1>1 DEF TypeOK
  <2>5. Undisturbed(x)
    <3>1. \A u \in Targets : file[u].by = x =>
            \/ u \in removed'
            \/ file'[u].by = x /\ (file'[u].bytes = file[u].bytes \/ u \in changed'[x])
      BY <2>1, <2>2, <2>3, <2>4 DEF Exists
    <3>2. \A u \in Targets : file'[u].by = x => file[u].by = x
      BY <2>1, <2>3, <2>4
    <3>3. QED
      BY <2>2, <3>1, <3>2 DEF Undisturbed
  <2>6. QED
    BY <2>5, UndisturbedIsGood
<1>4. QED
  BY <1>2, <1>3 DEF IInv

LEMMA UserIInv ==
  ASSUME IInv, NEW t \in Targets, UserEdits(t) \/ UserCreates(t) \/ UserRemoves(t)
  PROVE  IInv'
<1>1. TypeOK
  BY DEF IInv
<1>2. CASE UserEdits(t)
  <2>1. file[t].by \in Adopters \cup {User}
    BY <1>1, <1>2, FileTypes DEF UserEdits, Exists, TypeOK
  <2>2. [by |-> file[t].by, bytes |-> "other"] \in Files
    BY <2>1, FileTypes
  <2>3. UserChange(t, [by |-> file[t].by, bytes |-> "other"]) /\ removed' = removed
    BY <1>2 DEF UserEdits
  <2>4. removed \subseteq Targets
    BY <1>1 DEF TypeOK
  <2>5. QED
    BY <2>2, <2>3, <2>4, UserChangeIInv
<1>3. CASE UserCreates(t)
  <2>1. [by |-> User, bytes |-> "other"] \in Files
    BY FileTypes
  <2>2. UserChange(t, [by |-> User, bytes |-> "other"]) /\ removed' = removed /\ ~Exists(t)
    BY <1>3 DEF UserCreates
  <2>3. removed \subseteq Targets
    BY <1>1 DEF TypeOK
  <2>4. QED
    BY <2>1, <2>2, <2>3, UserChangeIInv
<1>4. CASE UserRemoves(t)
  <2>1. UserChange(t, Absent) /\ removed' = removed \cup {t}
    BY <1>4 DEF UserRemoves
  <2>2. removed \subseteq Targets
    BY <1>1 DEF TypeOK
  <2>3. QED
    BY <2>1, <2>2, FileTypes, UserChangeIInv
<1>5. QED
  BY <1>2, <1>3, <1>4

-----------------------------------------------------------------------------
(* The theorems.                                                            *)

\* The inductive invariant is preserved by every step.
LEMMA NextIInv == IInv /\ [Next]_vars => IInv'
<1> SUFFICES ASSUME IInv, [Next]_vars PROVE IInv'
  OBVIOUS
<1>1. ASSUME NEW a \in Adopters, Invocation(a) PROVE IInv'
  BY <1>1, PreflightIInv, MakeParentsIInv, OpenTargetIInv, WriteTargetIInv,
     HashTargetIInv, RunVerifierIInv, RecheckIInv, DigestTreeIInv, PublishIInv,
     ReturnIInv, RollbackIInv DEF Invocation
<1>2. CASE UNCHANGED vars
  <2>1. TypeOK'
    BY <1>2 DEF vars, IInv, TypeOK
  <2>2. ASSUME NEW x \in Adopters PROVE Good(x)'
    <3>1. Undisturbed(x)
      BY <1>2 DEF vars, Undisturbed
    <3>2. QED
      BY <3>1, UndisturbedIsGood
  <2>3. QED
    BY <2>1, <2>2 DEF IInv
<1>3. QED
  BY <1>1, <1>2, StopIInv, UserIInv DEF Next

LEMMA AlwaysIInv == Spec => []IInv
  BY InitIInv, NextIInv, PTL DEF Spec

\* Type correctness, with created_files never longer than the recipe.
THEOREM TypeCorrect == Spec => []TypeOK
<1>1. IInv => TypeOK
  BY DEF IInv
<1>2. QED
  BY <1>1, AlwaysIInv, PTL

\* An issued receipt is true, for any number of invocations and user changes.
THEOREM ReceiptsAreSound == Spec => []ReceiptSound
<1>1. IInv => ReceiptSound
  <2> SUFFICES ASSUME IInv, NEW a \in Adopters, Issued(a),
                      NEW t \in TargetsOf(a) \ (changed[a] \cup removed)
               PROVE  file[t].bytes = Payload[a] /\ receipt[a][t].bytes = Payload[a]
    BY DEF ReceiptSound
  <2>1. Rechecked(a) /\ Recorded(a)
    BY DEF IInv, Good
  <2>2. pc[a] = "adopted" \/ Linked(a)
    BY DEF Issued, Linked
  <2>3. QED
    BY <2>1, <2>2 DEF Rechecked, Recorded, Checking, Verified
<1>2. QED
  BY <1>1, AlwaysIInv, PTL

\* No two invocations ever both count a path as created.
THEOREM CreatedFilesAreExclusive == Spec => []CreatedIsExclusive
<1>1. IInv => CreatedIsExclusive
  <2> SUFFICES ASSUME IInv, NEW a \in Adopters, NEW b \in Adopters, a # b,
                      NEW t \in CreatedFiles(a) \cap CreatedFiles(b)
               PROVE  t \in removed
    BY DEF CreatedIsExclusive
  <2>1. Owned(a) /\ Owned(b)
    BY DEF IInv, Good
  <2>2. QED
    BY <2>1 DEF Owned
<1>2. QED
  BY <1>1, AlwaysIInv, PTL

\* The evidence at an adopter's receipt path is its own.
THEOREM EvidenceIsNeverReplaced == Spec => []EvidenceIsOwn
<1>1. IInv => EvidenceIsOwn
  BY DEF IInv, Good, Evidence, EvidenceIsOwn
<1>2. QED
  BY <1>1, AlwaysIInv, PTL

\* A handled failure leaves no file of the invocation in the receiver.
THEOREM HandledFailureRollsBack == Spec => []HandledFailureLeavesNoFile
<1>1. IInv => HandledFailureLeavesNoFile
  <2> SUFFICES ASSUME IInv, NEW a \in Adopters, pc[a] = "failed",
                      NEW t \in Targets, file[t].by = a
               PROVE  FALSE
    BY DEF HandledFailureLeavesNoFile
  <2>1. created[a] = 0 /\ t \in CreatedFiles(a)
    BY DEF IInv, Good, Progress, OwnIsCreated
  <2>2. QED
    BY <2>1 DEF CreatedFiles
<1>2. QED
  BY <1>1, AlwaysIInv, PTL

\* A step of one invocation is not a step of another.
LEMMA OneSteps ==
  ASSUME TypeOK, NEW b \in Adopters, NEW a \in Adopters \ {b},
         Invocation(b) \/ RaiseOther(b) \/ Crash(b)
  PROVE  ~Steps(a)
<1> USE DEF TypeOK, Steps, Goto
<1>1. CASE Preflight(b) \/ MakeParents(b) \/ OpenTarget(b) \/ WriteTarget(b)
  BY <1>1 DEF Preflight, MakeParents, OpenTarget, WriteTarget
<1>2. CASE HashTarget(b) \/ RunVerifier(b) \/ Recheck(b) \/ DigestTree(b)
  BY <1>2 DEF HashTarget, RunVerifier, Recheck, DigestTree
<1>3. CASE Publish(b) \/ Return(b) \/ Rollback(b) \/ RaiseOther(b) \/ Crash(b)
  BY <1>3 DEF Publish, Return, Rollback, RaiseOther, Crash
<1>4. QED
  BY <1>1, <1>2, <1>3 DEF Invocation

\* The files an invocation changes or unlinks are its own, unless the user
\* removed its file and the path was taken again.
THEOREM OwnFilesOnly == Spec => OnlyOwnFilesTouched
<1>1. ASSUME IInv, [Next]_vars, NEW a \in Adopters, NEW t \in Targets,
             Steps(a), Exists(t), file'[t] # file[t]
      PROVE  file[t].by = a \/ t \in removed
  <2>1. TypeOK /\ Good(a)
    BY <1>1 DEF IInv
  <2>2. Invocation(a) \/ RaiseOther(a) \/ Crash(a)
    BY <1>1, <2>1, OneSteps
       DEF Next, vars, Steps, UserEdits, UserCreates, UserRemoves, UserChange
  <2>3. CASE OpenTarget(a)
    BY <1>1, <2>1, <2>3 DEF OpenTarget, TypeOK, Exists
  <2>4. CASE WriteTarget(a)
    <3>1. Recipe[a][at[a]] = t /\ file[t].by = a
      BY <1>1, <2>1, <2>4 DEF WriteTarget, TypeOK
    <3>2. QED
      BY <3>1
  <2>5. CASE Rollback(a)
    <3>1. created[a] > 0 /\ t = Recipe[a][created[a]]
      BY <1>1, <2>1, <2>5 DEF Rollback, TypeOK
    <3>2. created[a] \in 1..created[a]
      BY <2>1, <3>1 DEF TypeOK
    <3>3. t \in CreatedFiles(a)
      BY <3>1, <3>2 DEF CreatedFiles
    <3>4. QED
      BY <2>1, <3>3 DEF Good, Owned
  <2>6. QED
    BY <1>1, <2>2, <2>3, <2>4, <2>5
       DEF Invocation, Preflight, MakeParents, HashTarget, RunVerifier, Recheck,
           DigestTree, Publish, Return, RaiseOther, Crash
<1>2. IInv /\ [Next]_vars =>
        \A a \in Adopters, t \in Targets :
          Steps(a) /\ Exists(t) /\ file'[t] # file[t] => file[t].by = a \/ t \in removed
  BY <1>1
<1>3. QED
  BY <1>2, AlwaysIInv, PTL DEF Spec, OnlyOwnFilesTouched

-----------------------------------------------------------------------------
(* Empty directories.  EmptyDirectoryHasCause is inductive together with    *)
(* the fact that a directory is only made for a target of its recipe.       *)

HasFile(d) == \E t \in Targets : Parent[t] = d /\ (Exists(t) \/ t \in removed)
MakerIsOpen(d) == \E a \in Adopters : d \in madeDirs[a] /\ pc[a] \notin {"failed", "adopted"}
Torn == {"rollback", "failed", "raised", "crashed"}
RivalFailed(d) ==
  \E a \in Adopters : /\ d \notin madeDirs[a]
                      /\ pc[a] \in Torn
                      /\ \E t \in TargetsOf(a) : Parent[t] = d

MadeForTargets ==
  \A a \in Adopters : \A d \in madeDirs[a] : \E t \in TargetsOf(a) : Parent[t] = d

DirInv == EmptyDirectoryHasCause /\ MadeForTargets

LEMMA CauseIsOneOf ==
  ASSUME NEW d PROVE
  /\ EmptyDirectoryHasCause /\ d \in dirs => HasFile(d) \/ MakerIsOpen(d) \/ RivalFailed(d)
  /\ EmptyDirectoryHasCause' <=>
       \A e \in dirs' : HasFile(e)' \/ MakerIsOpen(e)' \/ RivalFailed(e)'
  BY DEF EmptyDirectoryHasCause, HasFile, MakerIsOpen, RivalFailed, Torn

\* A step that removes no file but the user's, finishes no invocation and
\* makes nothing for one that is torn down leaves every cause.
LEMMA CauseStays ==
  ASSUME IInv, DirInv, NEW d \in dirs,
         \A t \in Targets : Exists(t) => Exists(t)' \/ t \in removed',
         removed \subseteq removed',
         \A a \in Adopters :
           /\ madeDirs[a] \subseteq madeDirs'[a]
           /\ pc[a] \notin {"failed", "adopted"} => pc'[a] \notin {"failed", "adopted"}
           /\ pc[a] \in Torn => pc'[a] \in Torn /\ madeDirs'[a] = madeDirs[a]
  PROVE  HasFile(d)' \/ MakerIsOpen(d)' \/ RivalFailed(d)'
<1>1. HasFile(d) \/ MakerIsOpen(d) \/ RivalFailed(d)
  BY CauseIsOneOf DEF DirInv
<1>2. HasFile(d) => HasFile(d)'
  BY DEF HasFile
<1>3. MakerIsOpen(d) => MakerIsOpen(d)'
  BY DEF MakerIsOpen
<1>4. RivalFailed(d) => RivalFailed(d)'
  BY DEF RivalFailed, TargetsOf
<1>5. QED
  BY <1>1, <1>2, <1>3, <1>4

LEMMA MadeForTargetsStays ==
  ASSUME MadeForTargets, UNCHANGED madeDirs
  PROVE  MadeForTargets'
  BY DEF MadeForTargets, TargetsOf

LEMMA MakeParentsDirs ==
  ASSUME IInv, DirInv, NEW a \in Adopters, MakeParents(a)
  PROVE  DirInv'
<1> DEFINE new == {Parent[Recipe[a][at[a]]]} \ (dirs \cup {Root})
<1>1. TypeOK /\ Good(a) /\ pc[a] = "parents"
  BY DEF IInv, MakeParents
<1>2. pc' = [pc EXCEPT ![a] = pc'[a]] /\ pc'[a] \in {"verify", "open", "rollback"}
  BY <1>1 DEF MakeParents, Goto, TypeOK
<1>3. UNCHANGED <<file, removed>>
  BY DEF MakeParents
<1>4. CASE UNCHANGED <<dirs, madeDirs>>
  <2>1. ASSUME NEW d \in dirs
        PROVE  HasFile(d)' \/ MakerIsOpen(d)' \/ RivalFailed(d)'
    BY <1>1, <1>2, <1>3, <1>4, CauseStays DEF Torn, TypeOK, Exists
  <2>2. QED
    BY <1>4, <2>1, CauseIsOneOf, MadeForTargetsStays DEF DirInv
<1>5. CASE /\ at[a] <= Len(Recipe[a])
           /\ dirs' = dirs \cup new
           /\ madeDirs' = [madeDirs EXCEPT ![a] = @ \cup new]
           /\ pc'[a] = "open"
  <2>1. at[a] \in 1..Len(Recipe[a])
    BY <1>1, <1>5, RecipeTargets DEF TypeOK, Good, Progress
  <2>2. Recipe[a][at[a]] \in TargetsOf(a)
    BY <2>1 DEF TargetsOf
  <2>3. madeDirs'[a] = madeDirs[a] \cup new /\ \A x \in Adopters \ {a} : madeDirs'[x] = madeDirs[x]
    BY <1>1, <1>5 DEF TypeOK
  <2>4. ASSUME NEW d \in dirs
        PROVE  HasFile(d)' \/ MakerIsOpen(d)' \/ RivalFailed(d)'
    <3>1. \A x \in Adopters :
            /\ madeDirs[x] \subseteq madeDirs'[x]
            /\ pc[x] \notin {"failed", "adopted"} => pc'[x] \notin {"failed", "adopted"}
            /\ pc[x] \in Torn => pc'[x] \in Torn /\ madeDirs'[x] = madeDirs[x]
      BY <1>1, <1>2, <2>3 DEF Torn, TypeOK
    <3>2. QED
      BY <1>3, <3>1, CauseStays DEF Exists
  <2>5. ASSUME NEW d \in new
        PROVE  MakerIsOpen(d)'
    BY <1>5, <2>3, <2>5 DEF MakerIsOpen
  <2>6. MadeForTargets'
    BY <2>2, <2>3 DEF DirInv, MadeForTargets, TargetsOf
  <2>7. QED
    BY <1>5, <2>4, <2>5, <2>6, CauseIsOneOf DEF DirInv
<1>6. QED
  BY <1>1, <1>2, <1>4, <1>5 DEF MakeParents, Goto, TypeOK

LEMMA ReturnDirs ==
  ASSUME IInv, DirInv, NEW a \in Adopters, Return(a)
  PROVE  DirInv'
<1>1. TypeOK /\ Good(a) /\ pc[a] = "linked"
  BY DEF IInv, Return
<1>2. pc' = [pc EXCEPT ![a] = "adopted"] /\ UNCHANGED <<file, dirs, madeDirs, removed>>
  BY DEF Return, Goto
<1>3. \A t \in TargetsOf(a) : t \in Targets /\ (Exists(t) \/ t \in removed)
  <2>1. created[a] = Len(Recipe[a])
    BY <1>1 DEF Good, Progress, Checking
  <2>2. TargetsOf(a) = CreatedFiles(a)
    BY <2>1 DEF TargetsOf, CreatedFiles
  <2>3. TargetsOf(a) \subseteq Targets
    BY RecipeTargets DEF TargetsOf
  <2>4. QED
    BY <1>1, <2>2, <2>3, FileTypes DEF Good, Owned, Exists
<1>4. ASSUME NEW d \in dirs
      PROVE  HasFile(d)' \/ MakerIsOpen(d)' \/ RivalFailed(d)'
  <2>1. CASE d \in madeDirs[a]
    <3>1. HasFile(d)
      BY <1>3, <2>1 DEF DirInv, MadeForTargets, HasFile
    <3>2. QED
      BY <1>2, <3>1 DEF HasFile, Exists
  <2>2. CASE d \notin madeDirs[a]
    <3>1. HasFile(d) => HasFile(d)'
      BY <1>2 DEF HasFile, Exists
    <3>2. MakerIsOpen(d) => MakerIsOpen(d)'
      BY <1>1, <1>2, <2>2 DEF MakerIsOpen, TypeOK
    <3>3. RivalFailed(d) => RivalFailed(d)'
      BY <1>1, <1>2 DEF RivalFailed, TypeOK, Torn, TargetsOf
    <3>4. QED
      BY <3>1, <3>2, <3>3, CauseIsOneOf DEF DirInv
  <2>3. QED
    BY <2>1, <2>2
<1>5. QED
  BY <1>2, <1>4, CauseIsOneOf, MadeForTargetsStays DEF DirInv

LEMMA RollbackDirs ==
  ASSUME IInv, DirInv, NEW a \in Adopters, Rollback(a)
  PROVE  DirInv'
<1>1. TypeOK /\ pc[a] = "rollback"
  BY DEF IInv, Rollback
<1>2. UNCHANGED <<madeDirs, removed>>
  BY DEF Rollback
<1>3. CASE created[a] > 0
  <2>1. UNCHANGED <<dirs, pc>>
    BY <1>3 DEF Rollback
  <2>2. PICK u \in TargetsOf(a) : file' = [file EXCEPT ![u] = Absent]
    <3>1. created[a] \in 1..Len(Recipe[a])
      BY <1>1, <1>3, RecipeTargets DEF TypeOK
    <3>2. QED
      BY <1>3, <3>1 DEF Rollback, TargetsOf
  <2>3. ASSUME NEW d \in dirs
        PROVE  HasFile(d)' \/ MakerIsOpen(d)' \/ RivalFailed(d)'
    <3>1. CASE Parent[u] = d
      BY <1>1, <1>2, <2>1, <2>2, <3>1 DEF MakerIsOpen, RivalFailed, TargetsOf, Torn
    <3>2. CASE Parent[u] # d
      <4>1. HasFile(d) => HasFile(d)'
        BY <1>1, <1>2, <2>2, <3>2 DEF HasFile, Exists, TypeOK
      <4>2. (MakerIsOpen(d) => MakerIsOpen(d)') /\ (RivalFailed(d) => RivalFailed(d)')
        BY <1>2, <2>1 DEF MakerIsOpen, RivalFailed, TargetsOf
      <4>3. QED
        BY <4>1, <4>2, CauseIsOneOf DEF DirInv
    <3>3. QED
      BY <3>1, <3>2
  <2>4. QED
    BY <1>2, <2>1, <2>3, CauseIsOneOf, MadeForTargetsStays DEF DirInv
<1>4. CASE ~(created[a] > 0)
  <2>1. /\ dirs' = dirs \ {d \in madeDirs[a] : \A t \in Targets : Exists(t) => Parent[t] # d}
        /\ pc' = [pc EXCEPT ![a] = "failed"]
        /\ file' = file
    BY <1>4 DEF Rollback, Goto
  <2>2. ASSUME NEW d \in dirs'
        PROVE  HasFile(d)' \/ MakerIsOpen(d)' \/ RivalFailed(d)'
    <3>1. d \in dirs
      BY <2>1
    <3>2. HasFile(d) => HasFile(d)'
      BY <1>2, <2>1 DEF HasFile, Exists
    <3>3. d \in madeDirs[a] => HasFile(d)
      BY <2>1 DEF HasFile
    <3>4. d \notin madeDirs[a] /\ MakerIsOpen(d) => MakerIsOpen(d)'
      BY <1>1, <1>2, <2>1 DEF MakerIsOpen, TypeOK
    <3>5. RivalFailed(d) => RivalFailed(d)'
      BY <1>1, <1>2, <2>1 DEF RivalFailed, TypeOK, Torn, TargetsOf
    <3>6. QED
      BY <3>1, <3>2, <3>3, <3>4, <3>5, CauseIsOneOf DEF DirInv
  <2>3. QED
    BY <1>2, <2>2, CauseIsOneOf, MadeForTargetsStays DEF DirInv
<1>5. QED
  BY <1>3, <1>4

\* The other steps of an invocation make, empty and finish nothing.
LEMMA OtherDirs ==
  ASSUME IInv, DirInv, NEW a \in Adopters,
         \/ Preflight(a) \/ OpenTarget(a) \/ WriteTarget(a) \/ HashTarget(a)
         \/ RunVerifier(a) \/ Recheck(a) \/ DigestTree(a) \/ Publish(a)
         \/ RaiseOther(a) \/ Crash(a)
  PROVE  DirInv'
<1>1. TypeOK /\ Good(a)
  BY DEF IInv
<1>2. UNCHANGED <<dirs, madeDirs, removed>>
  BY DEF Preflight, OpenTarget, WriteTarget, HashTarget, RunVerifier, Recheck,
         DigestTree, Publish, RaiseOther, Crash
<1>3. /\ \A x \in Adopters \ {a} : pc'[x] = pc[x]
      /\ pc[a] \notin {"failed", "adopted"} /\ pc'[a] \notin {"failed", "adopted"}
      /\ pc[a] \in Torn => pc'[a] \in Torn
  <2> USE <1>1 DEF TypeOK, Goto, Torn, Running
  <2>1. CASE Preflight(a) \/ OpenTarget(a) \/ WriteTarget(a) \/ HashTarget(a)
    BY <2>1 DEF Preflight, OpenTarget, WriteTarget, HashTarget
  <2>2. CASE RunVerifier(a) \/ Recheck(a) \/ DigestTree(a)
    BY <2>2 DEF RunVerifier, Recheck, DigestTree
  <2>3. CASE Publish(a) \/ RaiseOther(a) \/ Crash(a)
    BY <2>3 DEF Publish, RaiseOther, Crash
  <2>4. QED
    BY <2>1, <2>2, <2>3
<1>4. \A t \in Targets : Exists(t) => Exists(t)'
  <2>1. CASE OpenTarget(a) \/ WriteTarget(a)
    <3>1. \A b : [by |-> a, bytes |-> b] # Absent
      BY FileTypes DEF Absent
    <3>2. QED
      BY <1>1, <2>1, <3>1 DEF OpenTarget, WriteTarget, Exists, TypeOK
  <2>2. CASE ~(OpenTarget(a) \/ WriteTarget(a))
    BY <2>2 DEF Preflight, HashTarget, RunVerifier, Recheck, DigestTree, Publish,
                RaiseOther, Crash, Exists
  <2>3. QED
    BY <2>1, <2>2
<1>5. ASSUME NEW d \in dirs
      PROVE  HasFile(d)' \/ MakerIsOpen(d)' \/ RivalFailed(d)'
  <2>1. \A x \in Adopters :
          /\ madeDirs[x] \subseteq madeDirs'[x]
          /\ pc[x] \notin {"failed", "adopted"} => pc'[x] \notin {"failed", "adopted"}
          /\ pc[x] \in Torn => pc'[x] \in Torn /\ madeDirs'[x] = madeDirs[x]
    BY <1>2, <1>3
  <2>2. QED
    BY <1>2, <1>4, <2>1, CauseStays
<1>6. QED
  BY <1>2, <1>5, CauseIsOneOf, MadeForTargetsStays DEF DirInv

LEMMA UserDirs ==
  ASSUME IInv, DirInv,
         NEW u \in Targets, UserEdits(u) \/ UserCreates(u) \/ UserRemoves(u)
  PROVE  DirInv'
<1>1. TypeOK
  BY DEF IInv
<1>2. UNCHANGED <<dirs, madeDirs, pc>> /\ removed \subseteq removed'
  BY DEF UserEdits, UserCreates, UserRemoves, UserChange
<1>3. ASSUME NEW t \in Targets, Exists(t)
      PROVE  Exists(t)' \/ t \in removed'
  <2>1. \A w : [by |-> w, bytes |-> "other"] # Absent
    BY DEF Absent
  <2>2. CASE UserRemoves(u)
    BY <1>1, <1>3, <2>2 DEF UserRemoves, UserChange, Exists, TypeOK
  <2>3. CASE UserEdits(u) \/ UserCreates(u)
    BY <1>1, <1>3, <2>1, <2>3 DEF UserEdits, UserCreates, UserChange, Exists, TypeOK
  <2>4. QED
    BY <2>2, <2>3
<1>4. ASSUME NEW d \in dirs
      PROVE  HasFile(d)' \/ MakerIsOpen(d)' \/ RivalFailed(d)'
  BY <1>2, <1>3, CauseStays
<1>5. QED
  BY <1>2, <1>4, CauseIsOneOf, MadeForTargetsStays DEF DirInv

LEMMA InitDirs == Init => DirInv
<1> SUFFICES ASSUME Init PROVE DirInv
  OBVIOUS
<1>1. \A d \in dirs : HasFile(d)
  BY DEF Init, HasFile
<1>2. QED
  BY <1>1 DEF Init, DirInv, EmptyDirectoryHasCause, HasFile, MadeForTargets

LEMMA NextDirs == IInv /\ DirInv /\ [Next]_vars => DirInv'
<1> SUFFICES ASSUME IInv, DirInv, [Next]_vars PROVE DirInv'
  OBVIOUS
<1>1. CASE UNCHANGED vars
  BY <1>1 DEF vars, DirInv, EmptyDirectoryHasCause, MadeForTargets, Exists, TargetsOf
<1>2. ASSUME NEW a \in Adopters, Invocation(a) \/ RaiseOther(a) \/ Crash(a)
      PROVE  DirInv'
  BY <1>2, MakeParentsDirs, ReturnDirs, RollbackDirs, OtherDirs DEF Invocation
<1>3. ASSUME NEW t \in Targets, UserEdits(t) \/ UserCreates(t) \/ UserRemoves(t)
      PROVE  DirInv'
  BY <1>3, UserDirs
<1>4. QED
  BY <1>1, <1>2, <1>3 DEF Next

\* A directory is only left empty by an invocation that did not finish its
\* handler, by the user, or between two invocations that shared it and failed.
THEOREM EmptyDirectoryAlwaysHasCause == Spec => []EmptyDirectoryHasCause
<1>1. IInv /\ DirInv /\ [Next]_vars => IInv' /\ DirInv'
  BY NextIInv, NextDirs
<1>2. Init => IInv /\ DirInv
  BY InitIInv, InitDirs
<1>3. IInv /\ DirInv => EmptyDirectoryHasCause
  BY DEF DirInv
<1>4. QED
  BY <1>1, <1>2, <1>3, PTL DEF Spec
=============================================================================
