-------------------------- MODULE AgentIntegration --------------------------
(***************************************************************************)
(* Connecting Antigravity to the Library (agent_integration.py): connect,  *)
(* disconnect and status read the agent's MCP profile and the Library's    *)
(* ownership record and rewrite each file as a whole, without a lock.      *)
(* Several calls may run at once, any may be killed between two steps, and *)
(* the owner and the agent edit the profile whenever they like.            *)
(*                                                                         *)
(* A profile holds the Library's entry and the other entries; an entry is  *)
(* the command and arguments that are compared, written by a connect (one  *)
(* of Catalogs) or by the owner (one of OwnerEntries).                     *)
(***************************************************************************)
EXTENDS Integers, FiniteSets

CONSTANTS
  Calls,         \* calls of connect, disconnect and status
  Catalogs,      \* the descriptors of connect, one for each catalog
  OwnerEntries,  \* what the owner writes under the Library's name
  Others,        \* other entries of a profile
  Absent,
  MaxEdits       \* bound: edits by the owner and the agent

ASSUME EntriesAssumption ==
  /\ Catalogs \cap OwnerEntries = {}
  /\ Absent \notin Catalogs \cup OwnerEntries
  /\ MaxEdits \in Nat

Paths == {"legacy", "modern"}
Entries == Catalogs \cup OwnerEntries
Profiles == [entry : Entries \cup {Absent}, others : SUBSET Others]
Empty == [entry |-> Absent, others |-> {}]

ASSUME NoProfileAssumption == Absent \notin Profiles

VARIABLES
  profile,   \* of each path: what the file holds, Absent when there is none
  migrated,  \* the .migrated marker beside the modern profile
  owned,     \* the ownership record: a descriptor, or Absent
  call,      \* of each call: its step, what it has read and what it reports
  edits,     \* number of edits so far
  held       \* history, of each call: the descriptors that stood in its profile since it began

integrationVars == <<profile, migrated, owned, call, edits, held>>

\* _antigravity_profile_path
Selected ==
  IF profile["modern"] # Absent \/ migrated THEN "modern"
  ELSE IF profile["legacy"] # Absent THEN "legacy" ELSE "modern"

\* _load_profile: no file, or an empty one, is a profile without entries.
Loaded(path) == IF profile[path] = Absent THEN Empty ELSE profile[path]

-----------------------------------------------------------------------------
Ended == {"idle", "connected", "disconnected", "not-connected", "attention", "skipped",
          "failed"}

NewCall == [op |-> "none", step |-> "idle", path |-> "modern", descriptor |-> Absent,
            profile |-> Empty, owned |-> Absent]

Ends(report) == [NewCall EXCEPT !.step = report]

IntegrationInit ==
  /\ profile \in [Paths -> {Absent, Empty} \cup {[entry |-> Absent, others |-> Others]}]
  /\ migrated \in BOOLEAN
  /\ owned = Absent
  /\ call = [c \in Calls |-> NewCall]
  /\ edits = 0
  /\ held = [c \in Calls |-> {}]

\* Of a running call: what stands in its profile, whoever put it there.
Standing(c) ==
  IF call[c].step \in Ended THEN {} ELSE Catalogs \cap {Loaded(call[c].path).entry}

Observed ==
  held' = [c \in Calls |->
             IF call'[c].step \in Ended THEN {} ELSE held[c] \cup Standing(c)']

Begin(c, op, d) ==
  /\ call[c].step \in Ended
  /\ call' = [call EXCEPT ![c] = [NewCall EXCEPT !.op = op, !.descriptor = d,
                                    !.step = "profile", !.path = Selected]]
  /\ UNCHANGED <<profile, migrated, owned, edits>>
  /\ Observed

ReadProfile(c) ==
  /\ call[c].step = "profile"
  /\ call' = [call EXCEPT ![c].step = "state", ![c].profile = Loaded(call[c].path)]
  /\ UNCHANGED <<profile, migrated, owned, edits>>
  /\ Observed

\* What the call has read lets it add its entry, or take it away.
MayConnect(k) == k.op = "connect" /\ k.profile.entry = Absent

\* A mutated form: any entry is taken away once a record exists.
RemovesAny(k) ==
  k.op = "disconnect" /\ k.owned # Absent /\ k.profile.entry # Absent

Removes(k) ==
  k.op = "disconnect" /\ k.owned # Absent /\ k.profile.entry = k.owned

\* A disconnect that finds no entry only drops the record.
Forgets(k) ==
  k.op = "disconnect" /\ k.owned # Absent /\ k.profile.entry = Absent

Outcome(k) ==
  LET current == k.profile.entry IN
  CASE k.op = "status" ->
         IF current = Absent THEN "not-connected"
         ELSE IF current = k.owned THEN "connected" ELSE "attention"
    [] k.op = "connect" /\ current = k.descriptor /\ k.owned = k.descriptor -> "connected"
    [] OTHER -> "skipped"

\* A mutated form: connect only writes its record.
RecordOnly(k) ==
  IF Removes(k) THEN "write" ELSE IF MayConnect(k) \/ Forgets(k) THEN "record" ELSE "done"

Goes(k) ==
  IF MayConnect(k) \/ Removes(k) THEN "write"
  ELSE IF Forgets(k) THEN "record" ELSE "done"

ReadState(c) ==
  LET k == [call[c] EXCEPT !.owned = owned] IN
  /\ k.step = "state"
  /\ call' = [call EXCEPT ![c] =
                IF Goes(k) = "done" THEN Ends(Outcome(k)) ELSE [k EXCEPT !.step = Goes(k)]]
  /\ UNCHANGED <<profile, migrated, owned, edits>>
  /\ Observed

\* os.replace: the whole profile becomes what was read, with one change.
\* What was read is not looked at again.
Rewritten(k) ==
  [k.profile EXCEPT !.entry = IF k.op = "connect" THEN k.descriptor ELSE Absent]

WriteProfile(c) ==
  LET k == call[c] IN
  /\ k.step = "write"
  /\ profile' = [profile EXCEPT ![k.path] = Rewritten(k)]
  /\ call' = [call EXCEPT ![c].step = IF k.op = "connect" THEN "verify" ELSE "record",
                         ![c].profile = Empty, ![c].owned = Absent]
  /\ UNCHANGED <<migrated, owned, edits>>
  /\ Observed

\* connect reads its entry back.
VerifyProfile(c) ==
  LET k == call[c] IN
  /\ k.step = "verify"
  /\ call' = [call EXCEPT ![c] = IF Loaded(k.path).entry = k.descriptor
                                 THEN [k EXCEPT !.step = "record"] ELSE Ends("failed")]
  /\ UNCHANGED <<profile, migrated, owned, edits>>
  /\ Observed

Recorded(k) == k.descriptor

WriteState(c) ==
  LET k == call[c] IN
  /\ k.step = "record"
  /\ owned' = Recorded(k)
  /\ call' = [call EXCEPT ![c] = Ends(IF k.op = "connect" THEN "connected"
                                      ELSE "disconnected")]
  /\ UNCHANGED <<profile, migrated, edits>>
  /\ Observed

\* The process is killed, or a file cannot be read or written.
Stop(c) ==
  /\ call[c].step \notin Ended
  /\ call' = [call EXCEPT ![c] = Ends("failed")]
  /\ UNCHANGED <<profile, migrated, owned, edits>>
  /\ Observed

-----------------------------------------------------------------------------
\* The owner and the agent.

Edit(path, p) ==
  /\ edits < MaxEdits
  /\ p # profile[path]
  /\ p.entry \in OwnerEntries \cup {Absent, Loaded(path).entry}
  /\ profile' = [profile EXCEPT ![path] = p]
  /\ edits' = edits + 1
  /\ UNCHANGED <<migrated, owned, call>>
  /\ Observed

\* Antigravity moves to its modern profile and leaves the legacy one behind.
Migrate ==
  /\ edits < MaxEdits
  /\ ~migrated
  /\ migrated' = TRUE
  /\ profile' = [profile EXCEPT !["modern"] =
                   IF profile["legacy"] # Absent /\ @ = Absent THEN profile["legacy"] ELSE @]
  /\ edits' = edits + 1
  /\ UNCHANGED <<owned, call>>
  /\ Observed

IntegrationNext ==
  \/ \E c \in Calls :
       \/ \E d \in Catalogs : Begin(c, "connect", d)
       \/ \E op \in {"disconnect", "status"} : Begin(c, op, Absent)
       \/ ReadProfile(c) \/ ReadState(c)
       \/ WriteProfile(c) \/ VerifyProfile(c) \/ WriteState(c)
       \/ Stop(c)
  \/ \E path \in Paths, p \in Profiles : Edit(path, p)
  \/ Migrate

IntegrationSpec == IntegrationInit /\ [][IntegrationNext]_integrationVars

-----------------------------------------------------------------------------
(* Properties.                                                              *)

CallStates ==
  [op : {"none", "connect", "disconnect", "status"},
   step : Ended \cup {"profile", "state", "write", "verify", "record"},
   path : Paths, descriptor : Catalogs \cup {Absent}, profile : Profiles,
   owned : Catalogs \cup {Absent}]

IntegrationTypeOK ==
  /\ profile \in [Paths -> Profiles \cup {Absent}]
  /\ migrated \in BOOLEAN
  /\ owned \in Catalogs \cup {Absent}
  /\ call \in [Calls -> CallStates]
  /\ edits \in 0..MaxEdits
  /\ held \in [Calls -> SUBSET Catalogs]

\* A call that acted reports connected only of an entry that the record now
\* names and that stood in the profile at some moment of the call, whatever
\* rivals, the owner and kills did meanwhile: no connect records an entry it
\* did not put there or find there, and status confirms none that was gone
\* before it began.  (connect_antigravity, antigravity_connection_status.)
\* Afterwards the entry may go while the record stays: status has a report
\* for that, plugin-entry-absent.
ConnectedIsTrue ==
  [][\A c \in Calls :
       call[c].step # "connected" /\ call'[c].step = "connected" =>
         owned' \in held[c]]_integrationVars

\* A call that writes a profile loses no entry that it read and that still
\* stands, neither one of the others nor the owner's under the Library's name,
\* whichever calls and kills came before.  (disconnect_antigravity.)
OwnerEntriesStay ==
  [][\A c \in Calls, path \in Paths :
       call'[c] # call[c] /\ profile'[path] # profile[path] =>
         LET read == call[c].profile
             found == Loaded(path) IN
         /\ read.others \cap found.others \subseteq profile'[path].others
         /\ found.entry \in OwnerEntries => found.entry # read.entry]_integrationVars

=============================================================================
