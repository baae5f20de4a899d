------------------------- MODULE OfficialActivation -------------------------
(***************************************************************************)
(* Activating the official service (official_service.py) over a chain of   *)
(* root rotations (RootChain): processes of one user activate or connect,  *)
(* the client is upgraded to a release that bundles another locator, and   *)
(* the owner removes the activation state to accept a replacement.         *)
(*                                                                         *)
(* A locator stands for the profile whose exact digest it binds, a state   *)
(* is the locator it was stored for and its activatedAt.  What a discovery *)
(* document must look like is ServiceTrust, how an installation session is *)
(* opened InstallationIdentity: here each either succeeds or raises.       *)
(***************************************************************************)
EXTENDS RootChain, FiniteSets

CONSTANTS
  Processes,
  Locators,  \* those of the client releases, in the order of release: 1..n
  None,
  MaxCalls,  \* bound: calls begun
  MaxRemovals

ASSUME ActivationAssumption ==
  /\ {MaxCalls, MaxRemovals} \subseteq Nat
  /\ 1 \in Locators /\ Locators \subseteq Nat

VARIABLES
  bundled,    \* the locator of the installed client release
  state,      \* the activation state file, or None
  enrolled,   \* the installation file holds a registered identity
  call,       \* of each process
  calls,      \* calls begun
  removals    \* removals of the state file

files == <<state, enrolled>>
activationVars == <<vars, bundled, files, call, calls, removals>>

State == [locator : Locators, at : Times]

ASSUME NoneAssumption == None \notin State

NewCall == [step |-> "idle", locator |-> 1, at |-> 0,
            existing |-> None, removals |-> 0]

ActivationInit ==
  /\ Init
  /\ bundled = 1
  /\ state = None
  /\ enrolled = FALSE
  /\ call = [p \in Processes |-> NewCall]
  /\ calls = 0
  /\ removals = 0

Ended == {"idle", "returned", "raised"}

Goes(p, step) == call' = [call EXCEPT ![p].step = step]

\* The call returns a state, or raises.
Returns(p, result) ==
  call' = [call EXCEPT ![p] = [@ EXCEPT !.step = "returned", !.existing = result, !.at = 0]]
Raises(p) == call' = [call EXCEPT ![p] = [NewCall EXCEPT !.step = "raised"]]

\* A mutated form: any stored state is taken for this locator's.
SameAuthorityAnyway(existing, locator) == TRUE

SameAuthority(existing, locator) == existing # None => existing.locator = locator

\* activate_service_from_locator: the stored state is loaded and compared,
\* then the time is read that everything afterwards is validated at.
Activate(p) ==
  /\ call[p].step \in Ended /\ calls < MaxCalls
  /\ calls' = calls + 1
  /\ IF SameAuthority(state, bundled)
       THEN call' = [call EXCEPT ![p] =
              [step |-> "inspect", locator |-> bundled, at |-> clock,
               existing |-> state, removals |-> removals]]
     ELSE Raises(p)
  /\ UNCHANGED <<vars, bundled, files, removals>>

\* activated_service_connector: the stored profile, or an error; with an access
\* token of the caller's, no session is needed.
Connect(p) ==
  /\ call[p].step \in Ended /\ calls < MaxCalls
  /\ calls' = calls + 1
  /\ IF state # None
       THEN \E step \in {"enroll", "returned"} :
              call' = [call EXCEPT ![p] =
                [step |-> step, locator |-> state.locator, at |-> 0,
                 existing |-> state, removals |-> removals]]
     ELSE Raises(p)
  /\ UNCHANGED <<vars, bundled, files, removals>>

\* _fetch_profile, of exactly the profile the locator binds, then
\* connector.inspect with the clock stopped at the time of the call: the
\* chain that is published now must name an unexpired root for then.
Inspect(p) ==
  /\ call[p].step = "inspect"
  /\ IF Expired(chain, call[p].at) THEN Raises(p) ELSE Goes(p, "enroll")
  /\ UNCHANGED <<vars, bundled, files, calls, removals>>

AfterEnroll(p) ==
  IF call[p].existing # None THEN Returns(p, call[p].existing) ELSE Goes(p, "store")

\* A mutated form: the state is written before the session is opened.
EnrollLater(p) ==
  /\ call[p].step = "enroll"
  /\ AfterEnroll(p)
  /\ UNCHANGED <<vars, bundled, files, calls, removals>>

\* ensure_installation_session registers the key unless it is registered, and
\* opens or reuses a session; it may register and then fail.
Enroll(p) ==
  /\ call[p].step = "enroll"
  /\ enrolled' = TRUE
  /\ AfterEnroll(p) \/ Raises(p)
  /\ UNCHANGED <<vars, bundled, state, calls, removals>>

NewState(p) == [locator |-> call[p].locator, at |-> call[p].at]

\* A mutated form: the state file is replaced.
StoreReplacing(p) ==
  /\ call[p].step = "store"
  /\ state' = NewState(p) /\ Returns(p, NewState(p))
  /\ UNCHANGED <<vars, bundled, enrolled, calls, removals>>

\* write_new_json links the finished file to the absent path.
Store(p) ==
  /\ call[p].step = "store"
  /\ IF state = None THEN state' = NewState(p) /\ Returns(p, NewState(p))
     ELSE UNCHANGED state /\ Goes(p, "replay")
  /\ UNCHANGED <<vars, bundled, enrolled, calls, removals>>

\* The write failed, with or without an effect: what is stored now counts if
\* it is exactly what this call would have stored.
StoreFails(p) ==
  /\ call[p].step = "store"
  /\ Goes(p, "replay")
  /\ state' = state \/ (state = None /\ state' = NewState(p))
  /\ UNCHANGED <<vars, bundled, enrolled, calls, removals>>

Replay(p) ==
  /\ call[p].step = "replay"
  /\ IF state = NewState(p) THEN Returns(p, state) ELSE Raises(p)
  /\ UNCHANGED <<vars, bundled, files, calls, removals>>

\* An outage, an answer that is refused, or a kill.
Stop(p) ==
  /\ call[p].step \notin Ended
  /\ Raises(p)
  /\ UNCHANGED <<vars, bundled, files, calls, removals>>

Upgrade ==
  /\ bundled + 1 \in Locators
  /\ bundled' = bundled + 1
  /\ UNCHANGED <<vars, files, call, calls, removals>>

\* The owner's explicit replacement decision.
Remove ==
  /\ state # None /\ removals < MaxRemovals
  /\ state' = None
  /\ removals' = removals + 1
  /\ UNCHANGED <<vars, bundled, enrolled, call, calls>>

Step(p) ==
  \/ Activate(p) \/ Connect(p) \/ Inspect(p) \/ Enroll(p)
  \/ Store(p) \/ StoreFails(p) \/ Replay(p) \/ Stop(p)

ActivationNext ==
  \/ Next /\ UNCHANGED <<bundled, files, call, calls, removals>>
  \/ \E p \in Processes : Step(p)
  \/ Upgrade \/ Remove

ActivationSpec == ActivationInit /\ [][ActivationNext]_activationVars

-----------------------------------------------------------------------------
(* Properties.                                                              *)

Steps == Ended \cup {"inspect", "enroll", "store", "replay"}

\* The variables of an activation keep their types (those of the chain: TypeOK).
ActivationTypeOK ==
  /\ bundled \in Locators
  /\ state \in State \cup {None}
  /\ enrolled \in BOOLEAN
  /\ call \in [Processes -> [step : Steps, locator : Locators, at : Times,
                            existing : State \cup {None}, removals : 0..MaxRemovals]]
  /\ calls \in 0..MaxCalls
  /\ removals \in 0..MaxRemovals

\* What a call returns is what is stored, for the locator the process was
\* given, unless the owner has removed it since the call began: whichever
\* rival, of this or another release, wrote the file first.
\* (activate_service_from_locator, activated_service_connector.)
ReturnedIsStored ==
  \A p \in Processes :
    call[p].step = "returned" /\ call[p].removals = removals =>
      state = call[p].existing /\ state.locator = call[p].locator

\* The service is never enabled without a registered identity, whatever was
\* killed or failed on the way: "only after every check passes does the client
\* atomically store credential-free activation state".
EnabledIsEnrolled == state # None => enrolled
=============================================================================
