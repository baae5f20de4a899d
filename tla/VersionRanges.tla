---------------------------- MODULE VersionRanges ----------------------------
(***************************************************************************)
(* Version ranges and their covering (_service_support.py), as a client    *)
(* compares the range a selection supports with the one its receiver needs.*)
(*                                                                         *)
(* A range is its list of clauses <<operator, version>>, a version the     *)
(* components written down: <<1>> and <<1, 0>> are two texts of one        *)
(* version.  <<"?", v>> is a clause the pattern does not match.            *)
(***************************************************************************)
EXTENDS Integers, Sequences

CONSTANT Width  \* components of a padded version (4)

ASSUME WidthAssumption == Width \in Nat \ {0}

Wildcard == << <<"*", <<>>>> >>  \* "*" or "any", alone

RangeTexts == Seq({"==", ">=", ">", "<=", "<", "*", "?"} \X Seq(Nat))

Versions == [1..Width -> Nat]

-----------------------------------------------------------------------------
\* _version: the missing components are zeros.
Padded(version) ==
  [i \in 1..Width |-> IF i <= Len(version) THEN version[i] ELSE 0]

\* Python's order on tuples of one length.
Below(v, w) ==
  \E i \in 1..Width : v[i] < w[i] /\ \A j \in 1..(i - 1) : v[j] = w[j]

Bound(clause, inclusive) ==
  [value |-> Padded(clause[2]), inclusive |-> inclusive]

\* The bounds that the clauses of a range put below and above it.
BoundsOf(range, strict, loose) ==
  {Bound(c, c[1] # strict) :
     c \in {range[i] : i \in {k \in 1..Len(range) : range[k][1] \in {strict, loose, "=="}}}}

Lowers(range) == BoundsOf(range, ">", ">=")
Uppers(range) == BoundsOf(range, "<", "<=")

\* A mutated form: whether a bound is itself admitted does not matter.
StricterByValue(a, b, beyond) == beyond

\* Bound a admits less than b; `beyond` when its value alone says so.
Stricter(a, b, beyond) ==
  beyond \/ (a.value = b.value /\ b.inclusive /\ ~a.inclusive)

StricterLower(a, b) == Stricter(a, b, Below(b.value, a.value))
StricterUpper(a, b) == Stricter(a, b, Below(a.value, b.value))

\* _parse_range keeps the strictest bound of each side.
Lower(range) ==
  CHOOSE b \in Lowers(range) : \A c \in Lowers(range) : ~StricterLower(c, b)
Upper(range) ==
  CHOOSE b \in Uppers(range) : \A c \in Uppers(range) : ~StricterUpper(c, b)

\* _parse_range has an interval to return: "any", or well-formed clauses that
\* do not exclude one another.
Readable(range) ==
  \/ range = Wildcard
  \/ /\ \A i \in 1..Len(range) : range[i][1] \notin {"?", "*"}
     /\ Lowers(range) # {} /\ Uppers(range) # {} =>
          LET l == Lower(range)  u == Upper(range) IN
          \/ Below(l.value, u.value)
          \/ l.value = u.value /\ l.inclusive /\ u.inclusive

\* version_range_covers: the same text, or no bound stricter than required.
Covers(supported, required) ==
  \/ supported = required \/ supported = Wildcard
  \/ /\ Readable(supported) /\ Readable(required)
     /\ Lowers(supported) # {} =>
          /\ Lowers(required) # {}
          /\ ~StricterLower(Lower(supported), Lower(required))
     /\ Uppers(supported) # {} =>
          /\ Uppers(required) # {}
          /\ ~StricterUpper(Upper(supported), Upper(required))

-----------------------------------------------------------------------------
(* Reference: what a range means, clause by clause.                         *)

Satisfies(v, clause) ==
  LET w == Padded(clause[2]) IN
  CASE clause[1] = "==" -> v = w
    [] clause[1] = ">=" -> ~Below(v, w)
    [] clause[1] = ">"  -> Below(w, v)
    [] clause[1] = "<=" -> ~Below(w, v)
    [] clause[1] = "<"  -> Below(v, w)
    [] clause[1] = "*"  -> TRUE
    [] OTHER            -> FALSE

Admits(range, v) == \A i \in 1..Len(range) : Satisfies(v, range[i])
=============================================================================
