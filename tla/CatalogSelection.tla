-------------------------- MODULE CatalogSelection --------------------------
(***************************************************************************)
(* LocalCatalog (catalog.py): the capsules of a directory are validated    *)
(* and loaded once, a query selects at most one offer among them, and a    *)
(* decision is validated again before its capsule is used, possibly by a   *)
(* catalog loaded later, when the directory has changed.                   *)
(*                                                                         *)
(* A capsule is [id, version, title, offers] and stands for its digest: a  *)
(* catalog is a set of capsules and stands for catalog_digest.  Titles,    *)
(* summaries, details and objectives are sets of search terms.             *)
(***************************************************************************)
EXTENDS Integers, FiniteSets, Sequences, SequencesExt

CONSTANTS
  Capsules,   \* capsules that may come to lie in the directory
  Queries,   \* queries
  Readers,    \* holders of a LocalCatalog
  None,
  MaxChanges  \* bound: changes of the directory

ASSUME CapsulesAssumption ==
  /\ None \notin Capsules /\ MaxChanges \in Nat
  /\ IsFiniteSet(Capsules)
  /\ \A k \in Capsules :
       /\ k.id \in Int /\ IsFiniteSet(k.title) /\ IsFiniteSet(k.offers)
       /\ \A o \in k.offers :
            /\ {o.id, o.priority} \subseteq Int
            /\ IsFiniteSet(o.summary) /\ IsFiniteSet(o.details)
       /\ \A o, p \in k.offers : o.id = p.id => o = p

VARIABLES
  directory, \* the capsules that lie in the directory
  damaged,   \* a capsule in it whose source files are not those sealed, or None
  catalog,   \* of each reader: the loaded capsules, or None
  decision,  \* the last decision: [catalog, request, selected], or None
  used,      \* the selection whose capsule was used last, or None
  changes    \* number of changes of the directory

catalogVars == <<directory, damaged, catalog, decision, used, changes>>

-----------------------------------------------------------------------------
\* Selection.

Wildcard == "*"

Listed(x, allowed) == x \in allowed \/ Wildcard \in allowed

OfferMatches(o, r) ==
  /\ o.taskKind = r.taskKind
  /\ o.state = "active"
  /\ Listed(r.requestedUse, o.allowedUses) /\ Listed(r.tenantScope, o.tenantScopes)
  /\ o.constraints \subseteq r.constraints
  /\ \A name \in DOMAIN o.toolchain :
       name \in DOMAIN r.toolchain /\ r.toolchain[name] \in o.toolchain[name]

ObjectiveScore(k, o, objective) ==
  5 * Cardinality(objective \cap k.title)
  + (IF o.kind = "method"
       THEN 3 * Cardinality(objective \cap o.summary) + Cardinality(objective \cap o.details)
       ELSE 0)

Candidates(loaded, r) ==
  UNION {{[capsule |-> k, offer |-> o] : o \in {o \in k.offers : OfferMatches(o, r)}} : k \in loaded}

\* The order of ids, of capsules and then of offers, breaks ties in the sorts.
Precedes(c, d) ==
  \/ c.capsule.id < d.capsule.id
  \/ c.capsule.id = d.capsule.id /\ c.offer.id < d.offer.id

Higher(c, d) ==
  \/ c.offer.priority > d.offer.priority
  \/ c.offer.priority = d.offer.priority /\ Precedes(c, d)

Score(c, r) == ObjectiveScore(c.capsule, c.offer, r.objective)

Better(c, d, r) == Score(c, r) > Score(d, r) \/ (Score(c, r) = Score(d, r) /\ Precedes(c, d))

\* The two sorts.  Two versions of a capsule may tie in everything: they keep
\* the order in which the files were found, some order that is not modelled.
ByPriority(candidates) ==
  CHOOSE s \in SetToSeqs(candidates) :
    \A i, j \in 1..Cardinality(candidates) : i < j => ~Higher(s[j], s[i])

ByScore(top, r) ==
  CHOOSE s \in SetToSeqs(top) :
    \A i, j \in 1..Cardinality(top) : i < j => ~Better(s[j], s[i], r)

\* Only a method's or a component's public part leaves the catalog.
Offered(c) == [capsule |-> c.capsule, offer |-> c.offer.id, kind |-> c.offer.kind]

\* A mutated form: the first of several best matches wins.
FirstRanked(ranked, r) == Score(ranked[1], r) > 0

Stands(ranked, r) ==
  /\ Score(ranked[1], r) > 0
  /\ Len(ranked) > 1 => Score(ranked[1], r) > Score(ranked[2], r)

Select(loaded, r) ==
  LET sorted == ByPriority(Candidates(loaded, r))
      top == {c \in Candidates(loaded, r) : c.offer.priority = sorted[1].offer.priority}
      ranked == ByScore(top, r) IN
  IF sorted = <<>> THEN None
  ELSE IF r.objective = None
    THEN IF Cardinality(top) = 1 THEN Offered(sorted[1]) ELSE None
  ELSE IF Stands(ranked, r) THEN Offered(ranked[1]) ELSE None

-----------------------------------------------------------------------------
CatalogInit ==
  /\ directory \in SUBSET Capsules
  /\ damaged = None
  /\ catalog = [a \in Readers |-> None]
  /\ decision = None
  /\ used = None
  /\ changes = 0

\* Capsules are sealed into the directory, taken out of it or damaged there.
Change(new, bad) ==
  /\ changes < MaxChanges
  /\ <<new, bad>> # <<directory, damaged>>
  /\ directory' = new /\ damaged' = bad
  /\ changes' = changes + 1
  /\ UNCHANGED <<catalog, decision, used>>

\* validate_capsule and LocalCatalog.__init__ refuse the directory as a whole.
Loadable ==
  /\ directory # {}
  /\ damaged = None
  /\ \A k, l \in directory : k.id = l.id /\ k.version = l.version => k = l

Load(a) ==
  /\ Loadable
  /\ catalog' = [catalog EXCEPT ![a] = directory]
  /\ UNCHANGED <<directory, damaged, decision, used, changes>>

Query(a, r) ==
  /\ catalog[a] # None
  /\ decision' = [catalog |-> catalog[a], request |-> r, selected |-> Select(catalog[a], r)]
  /\ UNCHANGED <<directory, damaged, catalog, used, changes>>

\* A mutated form: any catalog that still has the offer takes the decision.
ValidElsewhere(loaded, d) ==
  d.selected # None =>
    \E k \in loaded : k = d.selected.capsule /\ \E o \in k.offers : o.id = d.selected.offer

ValidDecision(loaded, d) ==
  /\ d.catalog = loaded
  /\ d.selected # None =>
       \E k \in loaded : k = d.selected.capsule /\ \E o \in k.offers : o.id = d.selected.offer

\* selected_capsule_root
Use(a) ==
  /\ catalog[a] # None /\ decision # None
  /\ ValidDecision(catalog[a], decision)
  /\ decision.selected # None
  /\ used' = decision.selected
  /\ UNCHANGED <<directory, damaged, catalog, decision, changes>>

CatalogNext ==
  \/ \E new \in SUBSET Capsules : \E bad \in new \cup {None} : Change(new, bad)
  \/ \E a \in Readers : Load(a) \/ (\E r \in Queries : Query(a, r)) \/ Use(a)

CatalogSpec == CatalogInit /\ [][CatalogNext]_catalogVars

-----------------------------------------------------------------------------
(* Properties.                                                              *)

\* What a selection should be, without sorting: among the eligible offers of
\* the highest priority the only one, or with an objective the one that
\* matches it strictly better than every other, and at all.
Eligible(loaded, r) ==
  {c \in {[capsule |-> k, offer |-> o] : k \in loaded, o \in UNION {k.offers : k \in loaded}} :
     /\ c.offer \in c.capsule.offers
     /\ c.offer.state = "active" /\ c.offer.taskKind = r.taskKind
     /\ {r.requestedUse, Wildcard} \cap c.offer.allowedUses # {}
     /\ {r.tenantScope, Wildcard} \cap c.offer.tenantScopes # {}
     /\ c.offer.constraints \ r.constraints = {}
     /\ \A name \in DOMAIN c.offer.toolchain :
          \E value \in c.offer.toolchain[name] :
            name \in DOMAIN r.toolchain /\ r.toolchain[name] = value}

Best(c, loaded, r) ==
  \A d \in Eligible(loaded, r) \ {c} :
    \/ d.offer.priority < c.offer.priority
    \/ /\ r.objective # None
       /\ d.offer.priority = c.offer.priority
       /\ Score(d, r) < Score(c, r)

\* A decision selects an offer exactly when one eligible offer beats all the
\* others, whatever versions and capsules lie side by side, and then it
\* selects that one.  (docs/PROTOCOL.md: Selection; LocalCatalog.query.)
SelectsTheBest ==
  decision # None =>
    LET r == decision.request
        winners == {c \in Eligible(decision.catalog, r) :
                      /\ Best(c, decision.catalog, r)
                      /\ r.objective # None => Score(c, r) > 0} IN
    IF winners = {} THEN decision.selected = None
    ELSE \E c \in winners : decision.selected = Offered(c)

\* A capsule is only used for a decision that the catalog in hand would make
\* itself, whatever has been changed and loaded since it was made.
\* (LocalCatalog.validate_decision, selected_capsule_root.)
UsedByItsCatalog ==
  [][\A a \in Readers :
       Use(a) => used' = Select(catalog[a], decision.request)]_catalogVars
=============================================================================
