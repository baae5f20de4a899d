----------------------------- MODULE HostedReuse -----------------------------
(***************************************************************************)
(* From a hosted selection to a file: the client checks that the service's *)
(* answer fits its receiver (service_contracts.py), keeps it, and fetches  *)
(* calls, which may run together, stage the selected artifact at one       *)
(* destination (service_connector.py, contracts.write_new_bytes).          *)
(*                                                                         *)
(* An artifact is an object of some length; a body is an object and how    *)
(* much of it arrived, and its digest is that of the object only when it   *)
(* is complete.  Lifetimes, keys and authority are ServiceTrust.           *)
(***************************************************************************)
EXTENDS VersionRanges, FiniteSets

CONSTANTS
  Requests,
  Queries,       \* of each request, the queries it may be: a receiver context,
                 \* the treatments asked for and the result versions it reads
  Answers,       \* results the service may sign, for whatever request
  Fetchers,      \* processes
  Objects, Length,
  MaxBytes,      \* MAX_REMOTE_STREAMED_ARTIFACT_BYTES
  None, Owner,
  Probes,        \* versions at which the properties compare ranges
  MaxCalls,      \* bound: fetches begun
  MaxOwnerSteps  \* bound: the owner's own changes of the destination

ASSUME ReuseAssumption ==
  /\ {MaxBytes, MaxCalls, MaxOwnerSteps} \subseteq Nat
  /\ Length \in [Objects -> 1..MaxBytes]

\* Ranges are clauses over versions, wherever one is written.
ASSUME RangesAssumption ==
  /\ Probes \subseteq Versions
  /\ \A q \in Requests : \A asked \in Queries[q] :
       \A t \in asked.targets : t.range \in RangeTexts
  /\ \A r \in Answers : r.treatment # "abstention" => r.supports.range \in RangeTexts

VARIABLES
  query,      \* of each request, once asked
  kept,       \* the result accepted for each request, or None
  call,       \* of each fetcher; `placed` counts from the owner's steps, 0 is not
  temp,       \* the temporary file of each fetcher: a body, or None
  dest,       \* the destination: a body and who placed it, or None
  calls, ownerSteps

vars == <<query, kept, call, temp, dest, calls, ownerSteps>>

\* What a fetch may have written so far, and what may be at the destination.
PartialBodies == [object : Objects \cup {None}, bytes : 0..MaxBytes]

Files == [by : Fetchers \cup {Owner}, request : Requests \cup {None},
          body : PartialBodies \cup {None}]

ASSUME NoneAssumption == None \notin Files \cup Answers /\ Owner \notin Fetchers

NewCall == [step |-> "idle", request |-> None, result |-> None, placed |-> 0]

Init ==
  /\ query = [q \in Requests |-> None]
  /\ kept = [q \in Requests |-> None]
  /\ call = [f \in Fetchers |-> NewCall]
  /\ temp = [f \in Fetchers |-> None]
  /\ dest = None
  /\ calls = 0 /\ ownerSteps = 0

-----------------------------------------------------------------------------
\* The answer: validate_service_query_result.

Required(asked) ==
  IF asked.selected = None THEN asked.targets
  ELSE {t \in asked.targets : t.id = asked.selected}

ValidQuery(asked) ==
  /\ asked.targets # {}
  /\ \A t, u \in asked.targets : t.id = u.id => t = u
  /\ Required(asked) # {}
  /\ \A t \in Required(asked) : asked.interfaces \subseteq t.interfaces

\* `offered` is a set of names, or one that may be "any".
Allows(offered, name) == "any" \in offered \/ name \in offered

Compatible(supports, asked) ==
  \A t \in Required(asked) :
    /\ Allows({supports.runtime}, t.runtime)
    /\ Covers(supports.range, t.range)
    /\ Allows(supports.platforms, t.platform)
    /\ Allows(supports.architectures, t.architecture)
    /\ asked.interfaces \subseteq supports.interfaces

\* validate_next_action: the checks that go with each kind of action, about
\* its subject (a digest, a fact, the first step of a method).
ValidNextAction(next) ==
  /\ next.checks # {}
  /\ next.kind = "install-and-verify" => <<"digest-equals", next.subject>> \in next.checks
  /\ next.kind = "handoff-native-add" =>
       \A c \in next.checks : c[1] # "digest-equals"
  /\ next.kind = "apply-method-step" => next.checks = {next.subject}
  /\ next.kind = "supply-missing-fact" =>
       /\ next.subject \notin {"rate-limited", "local-catalog"}
       /\ next.checks = {<<"fact-present", next.subject>>}
  /\ next.kind = "use-local-catalog" => next.checks = {<<"fact-present", "local-catalog">>}
  /\ next.kind = "re-query" =>
       Cardinality(next.checks) = 1 /\ \A c \in next.checks : c[1] = "generation-current"

\* _selection: what each treatment selects.  Only the newest result version
\* has a public edge to fetch from.
ValidSelection(result) ==
  IF result.treatment = "exact-component"
    THEN /\ result.kind \in {"artifact", "git-commit"} /\ result.object \in Objects
         /\ result.delivery = "edge" => result.version = "1.5"
  ELSE result.kind = "none" /\ result.object = None

BoundTo(result, q) == result.request = q

\* Of itself, without a query to compare it with.
ValidAlone(result) ==
  /\ ValidSelection(result)
  /\ ValidNextAction(result.next)
  /\ result.treatment = "abstention" => result.next.kind = "supply-missing-fact"

ValidResult(result, q) ==
  /\ ValidAlone(result)
  /\ result.version \in query[q].results
  /\ BoundTo(result, q)
  /\ result.treatment # "abstention" =>
       /\ result.treatment \in query[q].treatments
       /\ Compatible(result.supports, query[q])

Ask(q, asked) ==
  /\ query[q] = None
  /\ ValidQuery(asked)
  /\ query' = [query EXCEPT ![q] = asked]
  /\ UNCHANGED <<kept, call, temp, dest, calls, ownerSteps>>

\* ServiceConnector.query returns a result; any other answer is an error.
Accept(q, result) ==
  /\ query[q] # None /\ kept[q] = None
  /\ ValidResult(result, q)
  /\ kept' = [kept EXCEPT ![q] = result]
  /\ UNCHANGED <<query, call, temp, dest, calls, ownerSteps>>

-----------------------------------------------------------------------------
\* The transfer.

Ended == {"idle", "returned", "raised"}

Goes(f, step) == call' = [call EXCEPT ![f].step = step]
Ends(f, step) == call' = [call EXCEPT ![f] = [NewCall EXCEPT !.step = step,
                                                !.placed = call[f].placed]]

\* _fetch_checked_artifact: only an exact artifact is delivered.
Deliverable(result) ==
  result.treatment = "exact-component" /\ result.kind = "artifact"

Begins(f, q, result) ==
  /\ call[f].step \in Ended /\ calls < MaxCalls
  /\ Deliverable(result)
  /\ calls' = calls + 1
  /\ call' = [call EXCEPT ![f] =
       [step |-> IF result.version = "1.3" THEN "request" ELSE "stage",
        request |-> q, result |-> result, placed |-> 0]]
  /\ UNCHANGED <<query, kept, temp, dest, ownerSteps>>

\* fetch_selected_artifact, with a query and a result the caller has kept.
FetchSelected(f, q, result) ==
  query[q] # None /\ ValidResult(result, q) /\ Begins(f, q, result)

\* fetch_selected_artifact_continuation, with the request's digest alone.
Continue(f, q, result) ==
  ValidAlone(result) /\ BoundTo(result, q) /\ Begins(f, q, result)

\* Leaves the try block: the temporary file is unlinked next.
Fails(f) == Goes(f, "unlink")

\* _stream_checked_artifact: the destination must be absent, and a temporary
\* file is made beside it.
Stage(f) ==
  /\ call[f].step = "stage"
  /\ IF dest # None THEN Ends(f, "raised") /\ UNCHANGED temp
     ELSE /\ temp' = [temp EXCEPT ![f] = [object |-> None, bytes |-> 0]]
          /\ Goes(f, "stream")
  /\ UNCHANGED <<query, kept, dest, calls, ownerSteps>>

\* download_file: a chunk of whatever object the server sends is written, if
\* it keeps within the limit.
Receive(f, object) ==
  /\ call[f].step = "stream"
  /\ temp[f].object \in {None, object} /\ temp[f].bytes <= Length[object]
  /\ IF temp[f].bytes < MaxBytes
       THEN /\ temp' = [temp EXCEPT ![f] = [object |-> object, bytes |-> @.bytes + 1]]
            /\ UNCHANGED call
       ELSE Fails(f) /\ UNCHANGED temp
  /\ UNCHANGED <<query, kept, dest, calls, ownerSteps>>

IsComplete(body, object) == body.object = object /\ body.bytes = Length[object]

\* What the server's headers declare: the media type, a length, and the
\* artifact's digest or nothing.
Headers == [media : BOOLEAN, length : 0..MaxBytes, digest : Objects \cup {None}]

\* A mutated form: trusts the digest that the server declares.
VerifiedByHeaders(result, body, headers) ==
  headers.media /\ headers.length = body.bytes /\ headers.digest = result.object

\* The signed descriptor, the headers and the body agree.  The public edge
\* need not declare a digest, version 1.3 signs no length.
Verified(result, body, headers) ==
  /\ headers.media
  /\ headers.length = body.bytes
  /\ result.version # "1.3" => headers.length = Length[result.object]
  /\ \/ headers.digest = result.object
     \/ result.delivery = "edge" /\ headers.digest = None
  /\ IsComplete(body, result.object)

EndOfStream(f, headers) ==
  /\ call[f].step = "stream"
  /\ IF Verified(call[f].result, temp[f], headers) THEN Goes(f, "link") ELSE Fails(f)
  /\ UNCHANGED <<query, kept, temp, dest, calls, ownerSteps>>

\* Version 1.3: the whole body is checked before a file is touched.
Request(f, body, headers) ==
  /\ call[f].step = "request"
  /\ IF Verified(call[f].result, body, headers) THEN Goes(f, "write") ELSE Ends(f, "raised")
  /\ UNCHANGED <<query, kept, temp, dest, calls, ownerSteps>>

\* write_new_bytes, up to its link.
Write(f) ==
  LET object == call[f].result.object IN
  /\ call[f].step = "write"
  /\ temp' = [temp EXCEPT ![f] = [object |-> object, bytes |-> Length[object]]]
  /\ Goes(f, "link")
  /\ UNCHANGED <<query, kept, dest, calls, ownerSteps>>

Placed(f) == [by |-> f, request |-> call[f].request, body |-> temp[f]]

\* A mutated form: the temporary file is renamed over the destination.
LinkReplacing(f) ==
  /\ call[f].step = "link"
  /\ dest' = Placed(f)
  /\ call' = [call EXCEPT ![f].step = "unlink", ![f].placed = ownerSteps + 1]
  /\ UNCHANGED <<query, kept, temp, calls, ownerSteps>>

\* os.link, which replaces nothing.
Link(f) ==
  /\ call[f].step = "link"
  /\ IF dest = None
       THEN /\ dest' = Placed(f)
            /\ call' = [call EXCEPT ![f].step = "unlink", ![f].placed = ownerSteps + 1]
     ELSE Fails(f) /\ UNCHANGED dest
  /\ UNCHANGED <<query, kept, temp, calls, ownerSteps>>

\* A mutated form: the temporary file goes only with the success.
UnlinkPlaced(f) ==
  /\ call[f].step = "unlink"
  /\ temp' = IF call[f].placed > 0 THEN [temp EXCEPT ![f] = None] ELSE temp
  /\ Ends(f, IF call[f].placed > 0 THEN "returned" ELSE "raised")
  /\ UNCHANGED <<query, kept, dest, calls, ownerSteps>>

\* The finally clause, then the staging summary or the error.
Unlink(f) ==
  /\ call[f].step = "unlink"
  /\ temp' = [temp EXCEPT ![f] = None]
  /\ Ends(f, IF call[f].placed > 0 THEN "returned" ELSE "raised")
  /\ UNCHANGED <<query, kept, dest, calls, ownerSteps>>

\* An outage, a refused status, or an error of the file system.
Interrupt(f) ==
  /\ call[f].step \in {"stage", "stream", "request", "write", "link"}
  /\ IF temp[f] = None THEN Ends(f, "raised") ELSE Fails(f)
  /\ UNCHANGED <<query, kept, temp, dest, calls, ownerSteps>>

Kill(f) ==
  /\ call[f].step \notin Ended \cup {"killed"}
  /\ Goes(f, "killed")
  /\ UNCHANGED <<query, kept, temp, dest, calls, ownerSteps>>

\* The owner, or another program, puts a file at the destination or takes it.
OwnerStep ==
  /\ ownerSteps < MaxOwnerSteps
  /\ ownerSteps' = ownerSteps + 1
  /\ dest' = IF dest = None THEN [by |-> Owner, request |-> None, body |-> None] ELSE None
  /\ UNCHANGED <<query, kept, call, temp, calls>>

-----------------------------------------------------------------------------
Bodies == [object : Objects, bytes : 0..MaxBytes]

KeptResults == {kept[q] : q \in Requests} \ {None}

FetchStep(f) ==
  \/ \E q \in Requests, r \in KeptResults : FetchSelected(f, q, r) \/ Continue(f, q, r)
  \/ Stage(f) \/ Write(f) \/ Link(f) \/ Unlink(f) \/ Interrupt(f) \/ Kill(f)
  \/ \E o \in Objects : Receive(f, o)
  \/ \E h \in Headers : EndOfStream(f, h)
  \/ \E b \in Bodies, h \in Headers : Request(f, b, h)

Next ==
  \/ \E q \in Requests : \E asked \in Queries[q] : Ask(q, asked)
  \/ \E q \in Requests, r \in Answers : Accept(q, r)
  \/ \E f \in Fetchers : FetchStep(f)
  \/ OwnerStep

Spec == Init /\ [][Next]_vars

-----------------------------------------------------------------------------
(* Properties.                                                              *)

Steps == Ended \cup {"stage", "stream", "request", "write", "link", "unlink", "killed"}

\* The queries, the calls and the files keep their types.
TypeOK ==
  /\ query \in [Requests -> (UNION {Queries[q] : q \in Requests}) \cup {None}]
  /\ kept \in [Requests -> Answers \cup {None}]
  /\ call \in [Fetchers -> [step : Steps, request : Requests \cup {None},
                            result : Answers \cup {None}, placed : 0..(MaxOwnerSteps + 1)]]
  /\ temp \in [Fetchers -> PartialBodies \cup {None}]
  /\ dest \in Files \cup {None}
  /\ calls \in 0..MaxCalls /\ ownerSteps \in 0..MaxOwnerSteps

\* The receiver can run whatever version of itself its range allows: every
\* such version is in the range that the accepted selection supports, whatever
\* the clauses and spellings of the two.  (version_range_covers, for
\* validate_service_query_result.)
AcceptedFits ==
  \A q \in Requests :
    kept[q] # None /\ kept[q].treatment # "abstention" =>
      \A t \in Required(query[q]), v \in Probes :
        Admits(t.range, v) => Admits(kept[q].supports.range, v)

\* A file that a fetch has put at the destination is the complete object that
\* the result accepted for that very request selects, in every lane, after any
\* mixing of requests and results and whatever was sent.
\* (_fetch_checked_artifact, "a failed integrity check never publishes bytes".)
StagedIsSelected ==
  dest # None /\ dest.by \in Fetchers =>
    /\ kept[dest.request] # None
    /\ IsComplete(dest.body, kept[dest.request].object)

\* A fetch that ended has left no temporary file, and the file that it reports
\* as staged is at the destination until the owner changes it: of two fetches
\* only one can succeed.  (_stream_checked_artifact, write_new_bytes.)
EndedIsSettled ==
  \A f \in Fetchers :
    /\ call[f].step \in Ended => temp[f] = None
    /\ call[f].step = "returned" /\ call[f].placed = ownerSteps + 1 =>
         dest # None /\ dest.by = f

\* What is at the destination, whoever put it there and however long after the
\* check for its absence, is never replaced by a fetch.  ("Refuses to
\* overwrite an existing path".)
DestinationStays ==
  [][dest # None /\ ownerSteps' = ownerSteps => dest' = dest]_vars
=============================================================================
