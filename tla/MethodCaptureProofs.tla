------------------------ MODULE MethodCaptureProofs ------------------------
(***************************************************************************)
(* Theorems about MethodCapture for any number of methods, policies,       *)
(* workers and crashes and every batch limit.                              *)
(*                                                                         *)
(* The argument: the file a registration is filling is the torn one, every *)
(* earlier file of that folder is whole, and a whole file is never touched *)
(* again; a state file is never replaced, and a worker past Prepare works  *)
(* with the state file of its method under the policy it reviewed; the     *)
(* service gives one verdict, and what was admitted can only be withdrawn. *)
(* From that, each step is one of MethodLedger or changes nothing the      *)
(* ledger shows.                                                           *)
(***************************************************************************)
EXTENDS MethodCapture, TLAPS

\* The registration that holds .register.lock.
RegOK ==
  /\ reg.pc \in {"record", "write"} =>
       \A f \in Names : f < reg.at => record[reg.m][f] = "whole"
  /\ reg.pc = "record" => reg.at <= LastName + 1
  /\ reg.pc = "write" => reg.at <= LastName /\ record[reg.m][reg.at] = "torn"
  /\ reg.pc \in {"schedule", "scheduleRead", "spawn", "unavailable", "reply",
                 "replyRead", "returned"} => Whole(reg.m)
  /\ reg.pc \in {"schedule", "scheduleRead", "spawn", "unavailable"} =>
       reg.consent # NoPolicy
  /\ reg.pc # "idle" /\ reg.consent # NoPolicy => reg.m \in consented

\* A publication draft is only written with consent and after its record.
DraftOK(m) == Published(m) => Whole(m) /\ m \in consented

\* All the service holds of a method is the one intent of its state file.
BoundOK(m) ==
  /\ seen[m] # {} => prepared[m] # NoState /\ record[m][3] = "whole"
  /\ \A i \in seen[m] : /\ i.policy = prepared[m].policy
                        /\ i.nonce = prepared[m].nonce
                        /\ i.reviewed = i.policy

\* The worker that holds .sync.lock, at its method.
Attempt == {"publish", "prepare", "accept", "negotiate", "upload", "poll", "report"}
SyncOK ==
  /\ sync.pc \in Attempt => status[sync.m] \notin Terminal
  /\ sync.pc \in {"prepare", "accept", "negotiate", "upload", "poll"} =>
       record[sync.m][3] = "whole"
  /\ sync.pc \in {"accept", "negotiate", "upload", "poll"} =>
       prepared[sync.m].policy = sync.reviewed
  /\ sync.pc \in {"upload", "poll"} => seen[sync.m] # {}
  /\ sync.pc = "report" =>
       /\ sync.result \in Terminal => Decided(sync.m, sync.result)
       /\ sync.result = "submitted" => seen[sync.m] # {}

TrueOK(m) ==
  /\ status[m] \in Terminal => Decided(m, status[m])
  /\ status[m] = "submitted" => seen[m] # {}

IInv == /\ TypeOK /\ RegOK /\ SyncOK
        /\ \A m \in Methods : DraftOK(m) /\ BoundOK(m) /\ TrueOK(m)

-----------------------------------------------------------------------------
(* Lemmas on what a step leaves alone.                                      *)

\* Conjuncts about variables that a step does not change hold after it.
LEMMA SameReg ==
  ASSUME RegOK, UNCHANGED <<reg, record, consented>>
  PROVE  RegOK'
  BY DEF RegOK, LastName, Whole

LEMMA SameSync ==
  ASSUME SyncOK, UNCHANGED <<sync, status, record, prepared, seen, admission>>
  PROVE  SyncOK'
  BY DEF SyncOK, Attempt, Decided

LEMMA SameDraft ==
  ASSUME NEW m \in Methods, DraftOK(m), UNCHANGED <<record, consented>>
  PROVE  DraftOK(m)'
  BY DEF DraftOK, Published, Whole

LEMMA SameBound ==
  ASSUME NEW m \in Methods, BoundOK(m), UNCHANGED <<seen, prepared, record>>
  PROVE  BoundOK(m)'
  BY DEF BoundOK

LEMMA SameTrue ==
  ASSUME NEW m \in Methods, TrueOK(m), UNCHANGED <<status, admission, seen>>
  PROVE  TrueOK(m)'
  BY DEF TrueOK, Decided

\* A file of a record is only replaced by what the registration is filling:
\* a whole file stays whole.
LEMMA WholeStays ==
  ASSUME TypeOK, NEW content \in Contents, SetFile(content), reg.pc # "idle",
         reg.at \in Names, record[reg.m][reg.at] # "whole"
  PROVE  /\ record' \in [Methods -> [Names -> Contents]]
         /\ record'[reg.m][reg.at] = content
         /\ \A m \in Methods, f \in Names :
              record[m][f] = "whole" => record'[m][f] = "whole"
         /\ \A m \in Methods, f \in Names :
              m # reg.m \/ f # reg.at => record'[m][f] = record[m][f]
  BY DEF TypeOK, SetFile

-----------------------------------------------------------------------------
(* The steps of a registration.                                             *)

LEMMA BeginStep ==
  ASSUME IInv, NEW n \in Methods, NEW c \in Policies \cup {NoPolicy}, Begin(n, c)
  PROVE  IInv'
<1>1. TypeOK /\ RegOK /\ SyncOK BY DEF IInv
<1>2. UNCHANGED <<record, status, prepared, sync, replaced, service, host>>
  BY DEF Begin
<1>3. reg' = [pc |-> "record", m |-> n, consent |-> c, at |-> 1]
  BY DEF Begin
<1>4. folders' \subseteq Methods /\ consented' \subseteq Methods
  BY <1>1 DEF TypeOK, Begin
<1>5. TypeOK'
  <2>1. reg' \in Registrations BY <1>3 DEF Registrations
  <2> QED BY <1>1, <1>2, <1>3, <1>4, <2>1 DEF TypeOK, service, host
<1>6. RegOK'
  BY <1>3 DEF RegOK, LastName, Begin, Names
<1>7. SyncOK' BY <1>1, <1>2, SameSync DEF service
<1>8. ASSUME NEW m \in Methods PROVE (DraftOK(m) /\ BoundOK(m) /\ TrueOK(m))'
  <2>1. DraftOK(m) /\ BoundOK(m) /\ TrueOK(m) BY DEF IInv
  <2>2. DraftOK(m)' BY <2>1, <1>2 DEF DraftOK, Published, Whole, Begin
  <2>3. BoundOK(m)' /\ TrueOK(m)' BY <2>1, <1>2, SameBound, SameTrue DEF service
  <2> QED BY <2>2, <2>3
<1> QED BY <1>5, <1>6, <1>7, <1>8 DEF IInv

LEMMA OpenRecordStep ==
  ASSUME IInv, OpenRecord
  PROVE  IInv'
<1>1. TypeOK /\ RegOK /\ SyncOK BY DEF IInv
<1>2. UNCHANGED <<folders, consented, status, prepared, sync, replaced, service, host>>
      /\ reg.pc = "record"
  BY DEF OpenRecord
<1>3. reg \in Registrations /\ reg.m \in Methods
      /\ LastName \in {2, 3} /\ reg.at \in 1..4
  BY <1>1, <1>2 DEF TypeOK, LastName, Registrations
<1>4. /\ record' \in [Methods -> [Names -> Contents]]
      /\ \A m \in Methods, f \in Names :
           record[m][f] = "whole" => record'[m][f] = "whole"
      /\ \A m \in Methods : record'[m][3] = record[m][3]
           \/ (m = reg.m /\ reg.at = 3 /\ LastName = 3)
  <2>1. CASE UNCHANGED record BY <1>1, <2>1 DEF TypeOK
  <2>2. CASE /\ reg.at <= LastName /\ record[reg.m][reg.at] = "absent"
             /\ SetFile("torn")
    <3>1. reg.at \in Names BY <1>3, <2>2 DEF Names
    <3> QED BY <1>1, <1>2, <1>3, <2>2, <3>1, WholeStays DEF Contents, Names
  <2> QED BY <2>1, <2>2 DEF OpenRecord
<1>5. reg' \in Registrations /\ reg'.m = reg.m /\ reg'.consent = reg.consent
      /\ reg'.pc # "idle"
  BY <1>3 DEF OpenRecord, Registrations, Raise, Free
<1>6. TypeOK' BY <1>1, <1>2, <1>3, <1>4, <1>5 DEF TypeOK, service, host
<1>7. RegOK'
  <2>1. CASE /\ reg.at > LastName /\ UNCHANGED record
             /\ reg' = [reg EXCEPT !.pc = IF reg.consent = NoPolicy THEN "reply"
                                                     ELSE "schedule"]
    BY <1>1, <1>2, <1>3, <2>1 DEF RegOK, LastName, Whole, Names, Registrations
  <2>2. CASE /\ reg.at <= LastName /\ UNCHANGED record /\ Matches(reg.m, reg.at)
             /\ reg' = [reg EXCEPT !.at = @ + 1]
    BY <1>1, <1>2, <1>3, <2>2 DEF RegOK, LastName, Matches, Names, Registrations
  <2>3. CASE Raise /\ UNCHANGED record
    BY <1>1, <1>2, <1>3, <2>3 DEF RegOK, LastName, Raise, Registrations
  <2>4. CASE /\ reg.at <= LastName /\ record[reg.m][reg.at] = "absent"
             /\ SetFile("torn") /\ reg' = [reg EXCEPT !.pc = "write"]
    <3>1. reg.at \in Names BY <1>3, <2>4 DEF Names
    <3>2. record'[reg.m][reg.at] = "torn"
      BY <1>1, <1>2, <2>4, <3>1, WholeStays DEF Contents
    <3> QED BY <1>1, <1>2, <1>3, <1>4, <2>4, <3>2 DEF RegOK, LastName, Registrations
  <2> QED BY <2>1, <2>2, <2>3, <2>4 DEF OpenRecord
<1>8. SyncOK' BY <1>1, <1>2, <1>4 DEF SyncOK, Attempt, Decided, service, TypeOK, Names
<1>9. ASSUME NEW m \in Methods PROVE (DraftOK(m) /\ BoundOK(m) /\ TrueOK(m))'
  <2>1. DraftOK(m) /\ BoundOK(m) /\ TrueOK(m) BY DEF IInv
  <2>2. DraftOK(m)'
    <3>1. CASE record'[m][3] = record[m][3]
      BY <1>2, <1>4, <2>1, <3>1 DEF DraftOK, Published, Whole, Names
    <3>2. CASE m = reg.m /\ reg.at = 3 /\ LastName = 3
      BY <1>1, <1>2, <1>3, <1>4, <3>2 DEF DraftOK, RegOK, Whole, LastName, Names
    <3> QED BY <1>4, <3>1, <3>2
  <2>3. BoundOK(m)' BY <1>2, <1>4, <2>1 DEF BoundOK, service, Names
  <2>4. TrueOK(m)' BY <1>2, <2>1, SameTrue DEF service
  <2> QED BY <2>2, <2>3, <2>4
<1> QED BY <1>6, <1>7, <1>8, <1>9 DEF IInv

LEMMA WriteRecordStep ==
  ASSUME IInv, WriteRecord
  PROVE  IInv'
<1>1. TypeOK /\ RegOK /\ SyncOK BY DEF IInv
<1>2. UNCHANGED <<folders, consented, status, prepared, sync, replaced, service, host>>
      /\ reg.pc = "write"
  BY DEF WriteRecord
<1>3. /\ reg \in Registrations /\ reg.m \in Methods /\ reg.at \in Names
      /\ LastName \in {2, 3} /\ reg.at <= LastName
      /\ record[reg.m][reg.at] = "torn"
  BY <1>1, <1>2 DEF TypeOK, RegOK, LastName, Registrations, Names
<1>4. PICK content \in {"whole", "absent"} :
         /\ SetFile(content)
         /\ content = "whole" => reg' = [reg EXCEPT !.pc = "record", !.at = @ + 1]
         /\ content = "absent" => Raise
  BY DEF WriteRecord
<1>5. /\ record' \in [Methods -> [Names -> Contents]]
      /\ record'[reg.m][reg.at] = content
      /\ \A m \in Methods, f \in Names :
           record[m][f] = "whole" => record'[m][f] = "whole"
      /\ \A m \in Methods, f \in Names :
           m # reg.m \/ f # reg.at => record'[m][f] = record[m][f]
  BY <1>1, <1>2, <1>3, <1>4, WholeStays DEF Contents
<1>6. reg' \in Registrations /\ reg'.m = reg.m /\ reg'.consent = reg.consent
      /\ reg'.pc \in {"record", "raised"}
      /\ (reg'.pc = "record" => content = "whole" /\ reg'.at = reg.at + 1)
  <2>1. CASE content = "whole"
    <3>1. reg' = [reg EXCEPT !.pc = "record", !.at = @ + 1] BY <1>4, <2>1
    <3>2. reg.at + 1 \in 1..4 BY <1>3 DEF Names
    <3> QED BY <1>3, <2>1, <3>1, <3>2 DEF Registrations
  <2>2. CASE content = "absent"
    <3>1. reg' = [reg EXCEPT !.pc = "raised"] BY <1>4, <2>2 DEF Raise
    <3> QED BY <1>3, <3>1 DEF Registrations, Free
  <2> QED BY <2>1, <2>2
<1>7. TypeOK' BY <1>1, <1>2, <1>3, <1>5, <1>6 DEF TypeOK, service, host
<1>8. RegOK'
  <2>1. ASSUME reg'.pc = "record", NEW f \in Names, f < reg'.at
        PROVE  record'[reg'.m][f] = "whole"
    BY <1>1, <1>2, <1>3, <1>5, <1>6, <2>1 DEF RegOK, Names
  <2> QED BY <1>1, <1>2, <1>3, <1>6, <2>1 DEF RegOK, LastName, Names
<1>9. SyncOK' BY <1>1, <1>2, <1>5 DEF SyncOK, Attempt, Decided, service, TypeOK, Names
<1>10. ASSUME NEW m \in Methods PROVE (DraftOK(m) /\ BoundOK(m) /\ TrueOK(m))'
  <2>1. DraftOK(m) /\ BoundOK(m) /\ TrueOK(m) BY DEF IInv
  <2>2. DraftOK(m)'
    <3>1. CASE record'[m][3] = record[m][3]
      BY <1>2, <1>5, <2>1, <3>1 DEF DraftOK, Published, Whole, Names
    <3>2. CASE m = reg.m /\ reg.at = 3
      BY <1>2, <1>3, <1>5, <2>1, <3>2 DEF DraftOK, Published, Whole, Names
    <3> QED BY <1>3, <1>5, <3>1, <3>2 DEF Names
  <2>3. BoundOK(m)' BY <1>2, <1>5, <2>1 DEF BoundOK, service, Names
  <2>4. TrueOK(m)' BY <1>2, <2>1, SameTrue DEF service
  <2> QED BY <2>2, <2>3, <2>4
<1> QED BY <1>7, <1>8, <1>9, <1>10 DEF IInv

\* A step that only moves the registration on, or only spawns or starts a
\* worker, leaves what is known of the methods alone.
LEMMA SameMethods ==
  ASSUME IInv, UNCHANGED <<record, consented, status, prepared, admission, seen>>
  PROVE  \A m \in Methods : (DraftOK(m) /\ BoundOK(m) /\ TrueOK(m))'
<1> SUFFICES ASSUME NEW m \in Methods PROVE (DraftOK(m) /\ BoundOK(m) /\ TrueOK(m))'
  OBVIOUS
<1>1. DraftOK(m) /\ BoundOK(m) /\ TrueOK(m) BY DEF IInv
<1> QED BY <1>1, SameDraft, SameBound, SameTrue

LEMMA StatStatusStep ==
  ASSUME IInv, StatStatus
  PROVE  IInv'
<1>1. TypeOK /\ RegOK /\ SyncOK BY DEF IInv
<1>2. UNCHANGED <<store, status, prepared, sync, replaced, service, host>>
  BY DEF StatStatus
<1>3. reg \in Registrations /\ reg.m \in Methods
  BY <1>1 DEF TypeOK, StatStatus
<1>4. reg' \in Registrations /\ reg'.m = reg.m /\ reg'.consent = reg.consent
      /\ \/ reg.pc = "reply" /\ reg'.pc \in {"returned", "replyRead"}
         \/ reg.pc = "schedule" /\ reg'.pc \in {"spawn", "scheduleRead"}
  BY <1>3 DEF StatStatus, Registrations, Free
<1>5. TypeOK' BY <1>1, <1>2, <1>3, <1>4 DEF TypeOK, store, service, host
<1>6. RegOK' BY <1>1, <1>2, <1>4 DEF RegOK, Whole, store
<1>7. SyncOK' BY <1>1, <1>2, SameSync DEF store, service
<1> QED BY <1>2, <1>5, <1>6, <1>7, SameMethods DEF IInv, store, service

LEMMA ReadStatusStep ==
  ASSUME IInv, ReadStatus
  PROVE  IInv'
<1>1. TypeOK /\ RegOK /\ SyncOK BY DEF IInv
<1>2. UNCHANGED <<store, status, prepared, sync, service, host>>
      /\ replaced' = replaced \ {"register"}
  BY DEF ReadStatus
<1>3. reg \in Registrations /\ reg.m \in Methods
  BY <1>1 DEF TypeOK, ReadStatus
<1>4. reg' \in Registrations /\ reg'.m = reg.m /\ reg'.consent = reg.consent
      /\ \/ reg.pc = "replyRead" /\ reg'.pc \in {"returned", "raised"}
         \/ reg.pc = "scheduleRead" /\ reg'.pc \in {"reply", "spawn", "raised"}
  BY <1>3 DEF ReadStatus, Registrations, Free
<1>5. TypeOK' BY <1>1, <1>2, <1>3, <1>4 DEF TypeOK, store, service, host
<1>6. RegOK' BY <1>1, <1>2, <1>4 DEF RegOK, Whole, store
<1>7. SyncOK' BY <1>1, <1>2, SameSync DEF store, service
<1> QED BY <1>2, <1>5, <1>6, <1>7, SameMethods DEF IInv, store, service

LEMMA ScheduleStep ==
  ASSUME IInv, Schedule
  PROVE  IInv'
<1>1. TypeOK /\ RegOK /\ SyncOK BY DEF IInv
<1>2. UNCHANGED <<store, status, prepared, sync, replaced, service, upgraded, crashes>>
      /\ reg.pc = "spawn"
  BY DEF Schedule
<1>3. reg \in Registrations /\ reg.m \in Methods /\ reg.consent \in Policies
  BY <1>1, <1>2 DEF TypeOK, RegOK, Registrations
<1>4. reg' \in Registrations /\ reg'.m = reg.m /\ reg'.consent = reg.consent
      /\ reg'.pc \in {"reply", "unavailable"}
  BY <1>3 DEF Schedule, Registrations
<1>5. waiting' \in [Policies -> Nat] BY <1>1, <1>3 DEF Schedule, Spawn, TypeOK
<1>6. TypeOK' BY <1>1, <1>2, <1>3, <1>4, <1>5 DEF TypeOK, store, service
<1>7. RegOK' BY <1>1, <1>2, <1>4 DEF RegOK, Whole, store
<1>8. SyncOK' BY <1>1, <1>2, SameSync DEF store, service
<1> QED BY <1>2, <1>6, <1>7, <1>8, SameMethods DEF IInv, store, service

LEMMA WorkerUnavailableStep ==
  ASSUME IInv, WorkerUnavailable
  PROVE  IInv'
<1>1. TypeOK /\ RegOK /\ SyncOK BY DEF IInv
<1>2. UNCHANGED <<store, prepared, sync, service, host>> /\ reg.pc = "unavailable"
  BY DEF WorkerUnavailable
<1>3. reg \in Registrations /\ reg.m \in Methods
  BY <1>1, <1>2 DEF TypeOK
<1>4. reg' \in Registrations /\ reg'.m = reg.m /\ reg'.consent = reg.consent
      /\ reg'.pc \in {"reply", "raised"}
  BY <1>3 DEF WorkerUnavailable, Registrations, Raise, Free
<1>5. /\ status' \in [Methods -> Statuses] /\ replaced' \subseteq {"register", "sync"}
      /\ \A m \in Methods :
           status'[m] = status[m] \/ (m = reg.m /\ status'[m] = "retryable")
  BY <1>1, <1>3 DEF WorkerUnavailable, WriteStatus, TypeOK, Statuses
<1>6. TypeOK' BY <1>1, <1>2, <1>3, <1>4, <1>5 DEF TypeOK, store, service, host
<1>7. RegOK' BY <1>1, <1>2, <1>4 DEF RegOK, Whole, store
<1>8. SyncOK'
  <2>1. sync.pc \in Attempt => sync.m \in Methods BY <1>1 DEF TypeOK, Attempt
  <2> QED BY <1>1, <1>2, <1>5, <2>1 DEF SyncOK, Attempt, Terminal, Decided, store, service
<1>9. ASSUME NEW m \in Methods PROVE (DraftOK(m) /\ BoundOK(m) /\ TrueOK(m))'
  <2>1. DraftOK(m) /\ BoundOK(m) /\ TrueOK(m) BY DEF IInv
  <2>2. TrueOK(m)' BY <1>2, <1>5, <2>1 DEF TrueOK, Terminal, Decided, service
  <2> QED BY <1>2, <2>1, <2>2, SameDraft, SameBound DEF store, service
<1> QED BY <1>6, <1>7, <1>8, <1>9 DEF IInv

-----------------------------------------------------------------------------
(* The steps of a worker.                                                   *)

\* A step of the worker that only moves sync on, to a state SyncOK allows.
LEMMA MoveSync ==
  ASSUME IInv, UNCHANGED <<store, status, prepared, reg, service>>,
         sync' \in Workers, sync'.pc # "idle" => sync'.reviewed \in Policies,
         sync'.pc \notin {"idle", "next"} => sync'.m \in Methods,
         replaced' \subseteq {"register", "sync"},
         waiting' \in [Policies -> Nat], crashes' \in Nat, upgraded' \subseteq Methods,
         SyncOK'
  PROVE  IInv'
<1>1. TypeOK /\ RegOK BY DEF IInv
<1>2. TypeOK' BY <1>1 DEF TypeOK, store, service
<1>3. RegOK' BY <1>1, SameReg DEF store
<1> QED BY <1>2, <1>3, SameMethods DEF IInv, store, service

\* The worker's local state is well typed wherever it has a method.
LEMMA WorkerTypes ==
  ASSUME IInv
  PROVE  /\ sync \in Workers /\ sync.todo \subseteq Methods /\ sync.processed \in Nat
         /\ sync.pc # "idle" => sync.reviewed \in Policies
         /\ sync.pc \notin {"idle", "next"} => sync.m \in Methods
         /\ replaced \subseteq {"register", "sync"}
         /\ waiting \in [Policies -> Nat] /\ crashes \in Nat /\ upgraded \subseteq Methods
         /\ SyncOK
  BY DEF IInv, TypeOK, Workers

LEMMA StartWorkerStep ==
  ASSUME IInv, NEW p \in Policies, StartWorker(p)
  PROVE  IInv'
<1>1. UNCHANGED <<store, status, prepared, reg, replaced, service, upgraded, crashes>>
  BY DEF StartWorker
<1>2. waiting' \in [Policies -> Nat] BY WorkerTypes DEF StartWorker
<1>3. folders \subseteq Methods BY DEF IInv, TypeOK
<1>4. CASE UNCHANGED sync
  <2>1. SyncOK' BY <1>1, <1>4, WorkerTypes, SameSync DEF store, service
  <2> QED BY <1>1, <1>2, <1>4, <2>1, WorkerTypes, MoveSync
<1>5. CASE sync' = [pc |-> "next", reviewed |-> p, todo |-> folders, m |-> 0,
                    processed |-> 0, result |-> "none"]
  <2>1. sync' \in Workers BY <1>3, <1>5 DEF Workers, Statuses
  <2>2. SyncOK' BY <1>5 DEF SyncOK, Attempt
  <2> QED BY <1>1, <1>2, <1>5, <2>1, <2>2, WorkerTypes, MoveSync
<1> QED BY <1>4, <1>5 DEF StartWorker

\* How the folder loop moves on: past a method, to its status, or to it.
LEMMA LoopMove ==
  ASSUME IInv, NEW m \in Methods, sync.pc \in {"next", "read"},
         UNCHANGED <<store, status, prepared, reg, service, host>>,
         replaced' \subseteq {"register", "sync"},
         \/ sync' = IdleSync
         \/ Skip(m)
         \/ Take(m) /\ ~Settled(m)
         \/ sync' = [sync EXCEPT !.pc = "read", !.m = m]
  PROVE  IInv'
<1>1. sync.pc # "idle" /\ sync.reviewed \in Policies /\ sync \in Workers
      /\ sync.todo \subseteq Methods /\ sync.processed \in Nat
  BY WorkerTypes
<1>2. waiting' \in [Policies -> Nat] /\ crashes' \in Nat /\ upgraded' \subseteq Methods
  BY WorkerTypes DEF host
<1>3. CASE sync' = IdleSync
  <2>1. sync' \in Workers BY <1>3 DEF Workers, IdleSync, Statuses
  <2>2. SyncOK' /\ sync'.pc = "idle" BY <1>3 DEF SyncOK, Attempt, IdleSync
  <2> QED BY <1>2, <2>1, <2>2, MoveSync
<1>4. CASE Skip(m)
  <2>1. sync' \in Workers /\ sync'.pc = "next" /\ sync'.reviewed = sync.reviewed
    BY <1>1, <1>4 DEF Skip, Workers
  <2>2. SyncOK' BY <2>1 DEF SyncOK, Attempt
  <2> QED BY <1>1, <1>2, <2>1, <2>2, MoveSync
<1>5. CASE Take(m) /\ ~Settled(m)
  <2>1. sync' \in Workers /\ sync'.pc = "publish" /\ sync'.reviewed = sync.reviewed
        /\ sync'.m = m
    <3>1. sync' = [sync EXCEPT !.pc = "publish", !.todo = sync.todo \ {m}, !.m = m,
                               !.processed = sync.processed + 1]
      BY <1>1, <1>5 DEF Take, Workers
    <3>2. sync.todo \ {m} \in SUBSET Methods /\ sync.processed + 1 \in Nat BY <1>1
    <3> QED BY <1>1, <3>1, <3>2 DEF Workers
  <2>2. SyncOK' BY <1>5, <2>1 DEF SyncOK, Attempt, Settled
  <2> QED BY <1>1, <1>2, <2>1, <2>2, MoveSync
<1>6. CASE sync' = [sync EXCEPT !.pc = "read", !.m = m]
  <2>1. sync' \in Workers /\ sync'.pc = "read" /\ sync'.reviewed = sync.reviewed
        /\ sync'.m = m
    BY <1>1, <1>6 DEF Workers
  <2>2. SyncOK' BY <2>1 DEF SyncOK, Attempt
  <2> QED BY <1>1, <1>2, <2>1, <2>2, MoveSync
<1> QED BY <1>3, <1>4, <1>5, <1>6

LEMMA NextFolderStep ==
  ASSUME IInv, NextFolder
  PROVE  IInv'
<1>1. UNCHANGED <<store, status, prepared, reg, replaced, service, host>>
      /\ sync.pc = "next" /\ sync.todo \subseteq Methods
      /\ replaced' \subseteq {"register", "sync"}
  BY WorkerTypes DEF NextFolder
<1>2. CASE sync' = IdleSync
  <2>1. SyncOK' /\ sync' \in Workers /\ sync'.pc = "idle"
    BY <1>2 DEF SyncOK, Attempt, IdleSync, Workers, Statuses
  <2> QED BY <1>1, <2>1, WorkerTypes, MoveSync DEF host
<1>3. CASE \E m \in sync.todo :
             \/ Skip(m)
             \/ Take(m) /\ status[m] = "none"
             \/ sync' = [sync EXCEPT !.pc = "read", !.m = m]
  <2>1. PICK m \in sync.todo : \/ Skip(m)
                               \/ Take(m) /\ status[m] = "none"
                               \/ sync' = [sync EXCEPT !.pc = "read", !.m = m]
    BY <1>3
  <2>2. status[m] = "none" => ~Settled(m) BY DEF Settled, Terminal
  <2> QED BY <1>1, <2>1, <2>2, LoopMove
<1> QED BY <1>2, <1>3 DEF NextFolder

LEMMA ReadFolderStatusStep ==
  ASSUME IInv, ReadFolderStatus
  PROVE  IInv'
<1>1. UNCHANGED <<store, status, prepared, reg, service, host>>
      /\ sync.pc = "read" /\ sync.m \in Methods
      /\ replaced' \subseteq {"register", "sync"}
  BY WorkerTypes DEF ReadFolderStatus
<1>2. sync' = IdleSync \/ Skip(sync.m) \/ (Take(sync.m) /\ ~Settled(sync.m))
  BY DEF ReadFolderStatus
<1> QED BY <1>1, <1>2, LoopMove

\* A worker whose attempt ends without anything learnt of the service.
LEMMA Fails ==
  ASSUME IInv, sync.pc \in Attempt,
         NEW r \in {"retryable", "policy-attention"}, Outcome(r),
         UNCHANGED <<store, status, prepared, reg, replaced, service, host>>
  PROVE  IInv'
<1>1. /\ sync.pc \notin {"idle", "next"} /\ sync \in Workers
      /\ sync.m \in Methods /\ sync.reviewed \in Policies
  BY WorkerTypes DEF Attempt
<1>2. /\ sync' \in Workers /\ sync'.pc = "report" /\ sync'.m = sync.m
      /\ sync'.reviewed = sync.reviewed /\ sync'.result = r
  BY <1>1 DEF Outcome, Workers, Statuses
<1>3. SyncOK' BY <1>2, WorkerTypes DEF SyncOK, Attempt, Terminal
<1> QED BY <1>1, <1>2, <1>3, WorkerTypes, MoveSync DEF host

\* A worker that goes on to the next stage of its attempt.
LEMMA GoesOn ==
  ASSUME IInv, sync.pc \in Attempt,
         NEW stage \in Attempt, sync' = [sync EXCEPT !.pc = stage]
  PROVE  /\ sync' \in Workers /\ sync'.pc = stage /\ sync'.m = sync.m
         /\ sync'.reviewed = sync.reviewed
         /\ sync.m \in Methods /\ sync.reviewed \in Policies
  BY WorkerTypes DEF Attempt, Workers

LEMMA UnavailableStep ==
  ASSUME IInv, Unavailable
  PROVE  IInv'
  BY Fails DEF Unavailable, Attempt

LEMMA InspectStep ==
  ASSUME IInv, Inspect
  PROVE  IInv'
<1>1. UNCHANGED <<store, status, prepared, reg, replaced, service, host>>
      /\ sync.pc = "publish"
  BY DEF Inspect
<1>2. CASE \E r \in {"retryable", "policy-attention"} : Outcome(r)
  BY <1>1, <1>2, Fails DEF Attempt
<1>3. CASE sync' = [sync EXCEPT !.pc = "prepare"] /\ record[sync.m][3] = "whole"
  <2>1. /\ sync' \in Workers /\ sync'.pc = "prepare" /\ sync'.m = sync.m
        /\ sync'.reviewed = sync.reviewed
        /\ sync.m \in Methods /\ sync.reviewed \in Policies
    BY <1>1, <1>3, GoesOn DEF Attempt
  <2>2. SyncOK' BY <1>1, <1>3, <2>1, WorkerTypes DEF SyncOK, Attempt, store, service
  <2> QED BY <1>1, <2>1, <2>2, WorkerTypes, MoveSync DEF host
<1> QED BY <1>2, <1>3 DEF Inspect

LEMMA PrepareStep ==
  ASSUME IInv, Prepare
  PROVE  IInv'
<1>1. UNCHANGED <<store, status, reg, replaced, service, host>> /\ sync.pc = "prepare"
  BY DEF Prepare
<1>2. sync.m \in Methods /\ sync.reviewed \in Policies BY <1>1, WorkerTypes
<1>3. CASE Outcome("retryable") /\ UNCHANGED prepared
  BY <1>1, <1>3, Fails DEF Attempt
<1>4. CASE /\ sync' = [sync EXCEPT !.pc = "accept"] /\ UNCHANGED prepared
           /\ PreparedHere(sync.m)
  <2>1. /\ sync' \in Workers /\ sync'.pc = "accept" /\ sync'.m = sync.m
        /\ sync'.reviewed = sync.reviewed
    BY <1>1, <1>4, GoesOn DEF Attempt
  <2>2. SyncOK'
    BY <1>1, <1>4, <2>1, WorkerTypes DEF SyncOK, Attempt, PreparedHere, store, service
  <2> QED BY <1>1, <1>2, <1>4, <2>1, <2>2, WorkerTypes, MoveSync DEF host
<1>5. CASE /\ sync' = [sync EXCEPT !.pc = "accept"] /\ NotPrepared(sync.m)
           /\ prepared' = [prepared EXCEPT ![sync.m] = NewState]
  <2>1. /\ sync' \in Workers /\ sync'.pc = "accept" /\ sync'.m = sync.m
        /\ sync'.reviewed = sync.reviewed
    BY <1>1, <1>5, GoesOn DEF Attempt
  <2>2. TypeOK /\ RegOK BY DEF IInv
  <2>3. prepared[sync.m] = NoState BY <1>5 DEF NotPrepared
  <2>4. NewState \in States /\ NewState.policy = sync.reviewed
    BY <1>2, <2>3 DEF NewState, States, NoState
  <2>5. /\ prepared' \in [Methods -> States]
        /\ \A m \in Methods : prepared[m] # NoState => prepared'[m] = prepared[m]
        /\ prepared'[sync.m].policy = sync.reviewed
    BY <1>2, <1>5, <2>2, <2>3, <2>4 DEF TypeOK
  <2>6. TypeOK' BY <1>1, <1>2, <2>1, <2>2, <2>5 DEF TypeOK, store, service, host
  <2>7. RegOK' BY <1>1, <2>2, SameReg DEF store
  <2>8. SyncOK'
    BY <1>1, <2>1, <2>5, WorkerTypes DEF SyncOK, Attempt, store, service
  <2>9. ASSUME NEW m \in Methods PROVE (DraftOK(m) /\ BoundOK(m) /\ TrueOK(m))'
    <3>1. DraftOK(m) /\ BoundOK(m) /\ TrueOK(m) BY DEF IInv
    <3>2. BoundOK(m)' BY <1>1, <2>5, <3>1 DEF BoundOK, store, service
    <3> QED BY <1>1, <3>1, <3>2, SameDraft, SameTrue DEF store, service
  <2> QED BY <2>6, <2>7, <2>8, <2>9 DEF IInv
<1> QED BY <1>3, <1>4, <1>5 DEF Prepare

LEMMA AcceptStep ==
  ASSUME IInv, Accept
  PROVE  IInv'
<1>1. UNCHANGED <<store, status, prepared, reg, replaced, service, host>>
      /\ sync.pc = "accept"
  BY DEF Accept
<1>2. CASE Outcome("policy-attention")
  BY <1>1, <1>2, Fails DEF Attempt
<1>3. CASE sync' = [sync EXCEPT !.pc = "negotiate"]
  <2>1. /\ sync' \in Workers /\ sync'.pc = "negotiate" /\ sync'.m = sync.m
        /\ sync'.reviewed = sync.reviewed
        /\ sync.m \in Methods /\ sync.reviewed \in Policies
    BY <1>1, <1>3, GoesOn DEF Attempt
  <2>2. SyncOK' BY <1>1, <2>1, WorkerTypes DEF SyncOK, Attempt, store, service
  <2> QED BY <1>1, <2>1, <2>2, WorkerTypes, MoveSync DEF host
<1> QED BY <1>2, <1>3 DEF Accept

-----------------------------------------------------------------------------
(* Steps in which the service acts or hears of an intent.                   *)

\* The service gives no verdict back and forgets no intent: what the local
\* files and the worker rely on still holds.
VerdictsStand == \A m \in Methods, v \in Terminal : Decided(m, v) => Decided(m, v)'

LEMMA ServiceMoves ==
  ASSUME IInv, UNCHANGED <<store, status, prepared, reg, replaced, host>>,
         advertised' \in Policies,
         admission' \in [Methods -> Admissions],
         VerdictsStand,
         seen' \in [Methods -> SUBSET Intents],
         \A m \in Methods : seen[m] # {} => seen'[m] # {},
         \A m \in Methods : BoundOK(m)',
         sync' \in Workers, sync'.pc # "idle" => sync'.reviewed \in Policies,
         sync'.pc \notin {"idle", "next"} => sync'.m \in Methods, SyncOK'
  PROVE  IInv'
<1>1. TypeOK /\ RegOK BY DEF IInv
<1>2. TypeOK' BY <1>1 DEF TypeOK, store, host
<1>3. RegOK' BY <1>1, SameReg DEF store
<1>4. ASSUME NEW m \in Methods PROVE (DraftOK(m) /\ TrueOK(m))'
  <2>1. DraftOK(m) /\ TrueOK(m) BY DEF IInv
  <2> QED BY <2>1, SameDraft DEF TrueOK, VerdictsStand, store
<1> QED BY <1>2, <1>3, <1>4 DEF IInv

LEMMA NegotiateStep ==
  ASSUME IInv, Negotiate
  PROVE  IInv'
<1>1. UNCHANGED <<store, status, prepared, reg, replaced, host>>
      /\ sync.pc = "negotiate" /\ sync.m \in Methods /\ sync.reviewed \in Policies
  BY WorkerTypes DEF Negotiate
<1>2. CASE Outcome("retryable") /\ UNCHANGED service
  BY <1>1, <1>2, Fails DEF Attempt
<1>3. CASE Sent(sync.m) /\ (Outcome("retryable")
             \/ \E stage \in {"upload", "poll"} : sync' = [sync EXCEPT !.pc = stage])
  <2>1. TypeOK /\ SyncOK /\ \A m \in Methods : BoundOK(m) BY DEF IInv
  <2>2. advertised' = advertised BY <1>3 DEF Sent
  <2>3. /\ admission' \in [Methods -> Admissions]
        /\ VerdictsStand
    BY <1>1, <1>3, <2>1 DEF Sent, TypeOK, Terminal, Admissions, VerdictsStand, Decided
  <2> DEFINE i == [policy |-> prepared[sync.m].policy, nonce |-> prepared[sync.m].nonce,
                   reviewed |-> sync.reviewed]
  <2>4. prepared[sync.m] \in States /\ prepared[sync.m].policy = sync.reviewed
    BY <1>1, <2>1 DEF TypeOK, SyncOK
  <2>5. prepared[sync.m] # NoState /\ i \in Intents
    BY <1>1, <2>4 DEF NoState, States, Intents, NoPolicy, Policies
  <2>6. \A m \in Methods : seen'[m] = IF m = sync.m THEN seen[m] \cup {i} ELSE seen[m]
    BY <1>1, <1>3, <2>1 DEF Sent, TypeOK
  <2>7. seen' \in [Methods -> SUBSET Intents]
    BY <1>1, <1>3, <2>1, <2>5 DEF Sent, TypeOK
  <2>8. record[sync.m][3] = "whole" BY <1>1, <2>1 DEF SyncOK
  <2>9. ASSUME NEW m \in Methods PROVE BoundOK(m)'
    <3>1. CASE m # sync.m
      BY <1>1, <2>1, <2>6, <3>1 DEF BoundOK, store
    <3>2. CASE m = sync.m
      <4>1. seen'[m] = seen[m] \cup {i} BY <2>6, <3>2
      <4>2. ASSUME NEW j \in seen'[m]
            PROVE  j.policy = prepared[m].policy /\ j.nonce = prepared[m].nonce
                   /\ j.reviewed = j.policy
        BY <2>1, <2>4, <3>2, <4>1 DEF BoundOK
      <4> QED BY <1>1, <2>5, <2>8, <3>2, <4>2 DEF BoundOK, store
    <3> QED BY <3>1, <3>2
  <2>10. /\ sync' \in Workers /\ sync'.reviewed = sync.reviewed /\ sync'.m = sync.m
         /\ \/ sync'.pc = "report" /\ sync'.result = "retryable"
            \/ sync'.pc \in {"upload", "poll"}
    <3>1. CASE Outcome("retryable")
      BY <3>1, WorkerTypes DEF Outcome, Workers, Statuses
    <3>2. CASE \E stage \in {"upload", "poll"} : sync' = [sync EXCEPT !.pc = stage]
      BY <1>1, <3>2, GoesOn DEF Attempt
    <3> QED BY <1>3, <3>1, <3>2
  <2>11. SyncOK'
    BY <1>1, <2>1, <2>6, <2>10 DEF SyncOK, Attempt, Terminal, store
  <2>12. advertised' \in Policies BY <2>1, <2>2 DEF TypeOK
  <2> HIDE DEF i
  <2> QED BY <1>1, <2>3, <2>6, <2>7, <2>9, <2>10, <2>11, <2>12, ServiceMoves
<1> QED BY <1>2, <1>3 DEF Negotiate

LEMMA UploadStep ==
  ASSUME IInv, Upload
  PROVE  IInv'
<1>1. UNCHANGED <<store, status, prepared, reg, replaced, advertised, seen, host>>
      /\ sync.pc = "upload" /\ sync.m \in Methods /\ sync.reviewed \in Policies
  BY WorkerTypes DEF Upload
<1>2. TypeOK /\ SyncOK /\ \A m \in Methods : BoundOK(m) BY DEF IInv
<1>3. /\ admission' \in [Methods -> Admissions]
      /\ VerdictsStand
  BY <1>1, <1>2 DEF Upload, TypeOK, Terminal, Admissions, VerdictsStand, Decided
<1>4. /\ sync' \in Workers /\ sync'.reviewed = sync.reviewed /\ sync'.m = sync.m
      /\ \/ sync'.pc = "report" /\ sync'.result = "retryable"
         \/ sync'.pc = "poll"
  <2>1. CASE Outcome("retryable")
    BY <2>1, WorkerTypes DEF Outcome, Workers, Statuses
  <2>2. CASE sync' = [sync EXCEPT !.pc = "poll"]
    BY <1>1, <2>2, GoesOn DEF Attempt
  <2> QED BY <2>1, <2>2 DEF Upload
<1>5. SyncOK' BY <1>1, <1>2, <1>4 DEF SyncOK, Attempt, Terminal, store
<1>6. \A m \in Methods : BoundOK(m)' BY <1>1, <1>2, SameBound DEF store
<1>7. advertised' \in Policies /\ seen' \in [Methods -> SUBSET Intents]
  BY <1>1, <1>2 DEF TypeOK
<1> QED BY <1>1, <1>3, <1>4, <1>5, <1>6, <1>7, ServiceMoves

LEMMA PollStep ==
  ASSUME IInv, Poll
  PROVE  IInv'
<1>1. UNCHANGED <<store, status, prepared, reg, replaced, service, host>>
      /\ sync.pc = "poll" /\ sync.m \in Methods /\ sync.reviewed \in Policies
      /\ sync' = [sync EXCEPT !.pc = "report", !.result = StateOf(sync.m)]
  BY WorkerTypes DEF Poll, Outcome
<1>2. StateOf(sync.m) \in Statuses
      /\ (StateOf(sync.m) \in Terminal => Decided(sync.m, StateOf(sync.m)))
  BY DEF StateOf, Statuses, Terminal, Decided
<1>3. /\ sync' \in Workers /\ sync'.pc = "report" /\ sync'.m = sync.m
      /\ sync'.reviewed = sync.reviewed /\ sync'.result = StateOf(sync.m)
  BY <1>1, <1>2, WorkerTypes DEF Workers
<1>4. SyncOK' BY <1>1, <1>2, <1>3, WorkerTypes DEF SyncOK, Attempt, Decided, store, service
<1> QED BY <1>1, <1>3, <1>4, WorkerTypes, MoveSync DEF host

LEMMA ReportStep ==
  ASSUME IInv, Report
  PROVE  IInv'
<1>1. UNCHANGED <<store, prepared, reg, service, host>>
      /\ sync.pc = "report" /\ sync.m \in Methods /\ sync.reviewed \in Policies
  BY WorkerTypes DEF Report
<1>2. TypeOK /\ RegOK /\ SyncOK BY DEF IInv
<1>3. sync.result \in Statuses BY <1>2 DEF TypeOK, Workers
<1>4. CASE Outcome("retryable") /\ UNCHANGED <<status, replaced>>
  BY <1>1, <1>4, Fails DEF Attempt
<1>5. CASE sync' = IdleSync /\ UNCHANGED <<status, replaced>>
  <2>1. SyncOK' /\ sync' \in Workers /\ sync'.pc = "idle"
    BY <1>5 DEF SyncOK, Attempt, IdleSync, Workers, Statuses
  <2> QED BY <1>1, <1>5, <2>1, WorkerTypes, MoveSync DEF host
<1>6. CASE /\ WriteStatus(sync.m, sync.result)
           /\ sync' = [sync EXCEPT !.pc = "next", !.m = 0, !.result = "none"]
  <2>1. /\ status' \in [Methods -> Statuses] /\ replaced' \subseteq {"register", "sync"}
        /\ \A m \in Methods : status'[m] = IF m = sync.m THEN sync.result ELSE status[m]
    BY <1>1, <1>2, <1>3, <1>6 DEF WriteStatus, TypeOK
  <2>2. sync' \in Workers /\ sync'.pc = "next" /\ sync'.reviewed = sync.reviewed
    BY <1>2, <1>6 DEF TypeOK, Workers, Statuses
  <2>3. TypeOK' BY <1>1, <1>2, <2>1, <2>2 DEF TypeOK, store, service, host
  <2>4. RegOK' BY <1>1, <1>2, SameReg DEF store
  <2>5. SyncOK' BY <2>2 DEF SyncOK, Attempt
  <2>6. ASSUME NEW m \in Methods PROVE (DraftOK(m) /\ BoundOK(m) /\ TrueOK(m))'
    <3>1. DraftOK(m) /\ BoundOK(m) /\ TrueOK(m) BY DEF IInv
    <3>2. TrueOK(m)' BY <1>1, <1>2, <2>1, <3>1 DEF TrueOK, SyncOK, Decided, service
    <3> QED BY <1>1, <3>1, <3>2, SameDraft, SameBound DEF store, service
  <2> QED BY <2>3, <2>4, <2>5, <2>6 DEF IInv
<1> QED BY <1>4, <1>5, <1>6 DEF Report

-----------------------------------------------------------------------------
(* The environment, and the theorems.                                       *)

LEMMA RetryStep ==
  ASSUME IInv, NEW p \in Policies, Retry(p)
  PROVE  IInv'
<1>1. UNCHANGED <<store, status, prepared, reg, sync, replaced, service, upgraded, crashes>>
  BY DEF Retry
<1>2. waiting' \in [Policies -> Nat] BY WorkerTypes DEF Retry, Spawn
<1>3. SyncOK' BY <1>1, WorkerTypes, SameSync DEF store, service
<1> QED BY <1>1, <1>2, <1>3, WorkerTypes, MoveSync

LEMMA ServiceStep ==
  ASSUME IInv, Advertise \/ \E m \in Methods : Decide(m) \/ Withdraw(m)
  PROVE  IInv'
<1>1. UNCHANGED <<store, status, prepared, reg, sync, replaced, seen, host>>
  BY DEF Advertise, Decide, Withdraw
<1>2. TypeOK /\ SyncOK /\ \A m \in Methods : BoundOK(m) BY DEF IInv
<1>3. advertised' \in Policies
  BY <1>2, NumPoliciesAssumption DEF TypeOK, Advertise, Decide, Withdraw, Policies
<1>4. /\ admission' \in [Methods -> Admissions]
      /\ VerdictsStand
  <2>1. CASE Advertise BY <1>2, <2>1 DEF TypeOK, Advertise, VerdictsStand, Decided
  <2>2. ASSUME NEW n \in Methods, Decide(n) \/ Withdraw(n)
        PROVE  admission' \in [Methods -> Admissions] /\ VerdictsStand
    BY <1>2, <2>2 DEF TypeOK, Decide, Withdraw, Terminal, Admissions, VerdictsStand, Decided
  <2> QED BY <2>1, <2>2
<1>5. SyncOK'
  <2>1. sync.pc \in Attempt => sync.m \in Methods BY <1>2 DEF TypeOK, Attempt
  <2> QED BY <1>1, <1>2, <1>4, <2>1 DEF SyncOK, Attempt, VerdictsStand, store
<1>6. \A m \in Methods : BoundOK(m)' BY <1>1, <1>2, SameBound DEF store
<1>7. seen' \in [Methods -> SUBSET Intents] BY <1>1, <1>2 DEF TypeOK
<1> QED BY <1>1, <1>3, <1>4, <1>5, <1>6, <1>7, WorkerTypes, ServiceMoves

LEMMA UpgradeStep ==
  ASSUME IInv, Upgrade
  PROVE  IInv'
<1>1. UNCHANGED <<store, status, prepared, reg, sync, replaced, service, waiting, crashes>>
      /\ upgraded' \subseteq Methods
  BY DEF Upgrade
<1>2. SyncOK' BY <1>1, WorkerTypes, SameSync DEF store, service
<1> QED BY <1>1, <1>2, WorkerTypes, MoveSync

LEMMA CrashStep ==
  ASSUME IInv, Crash
  PROVE  IInv'
<1>1. UNCHANGED <<store, status, prepared, waiting, upgraded, service>>
      /\ crashes' \in Nat /\ replaced' \subseteq {"register", "sync"}
  BY WorkerTypes DEF Crash
<1>2. TypeOK /\ RegOK /\ SyncOK BY DEF IInv
<1>3. CASE reg' = IdleReg /\ UNCHANGED sync
  <2>1. reg' \in Registrations /\ reg'.pc = "idle"
    BY <1>3 DEF IdleReg, Registrations, Free
  <2>2. TypeOK' BY <1>1, <1>2, <1>3, <2>1 DEF TypeOK, store, service
  <2>3. RegOK' BY <2>1 DEF RegOK
  <2>4. SyncOK' BY <1>1, <1>2, <1>3, SameSync DEF store, service
  <2> QED BY <1>1, <2>2, <2>3, <2>4, SameMethods DEF IInv, store, service
<1>4. CASE sync' = IdleSync /\ UNCHANGED reg
  <2>1. SyncOK' /\ sync' \in Workers /\ sync'.pc = "idle"
    BY <1>4 DEF SyncOK, Attempt, IdleSync, Workers, Statuses
  <2> QED BY <1>1, <1>4, <2>1, WorkerTypes, MoveSync
<1> QED BY <1>3, <1>4 DEF Crash

LEMMA InitIInv == Init => IInv
<1> SUFFICES ASSUME Init PROVE IInv OBVIOUS
<1>1. TypeOK
  BY NumPoliciesAssumption DEF Init, TypeOK, Contents, Statuses, States, NoState,
     IdleReg, IdleSync, Registrations, Workers, Free, Intents, Policies, Admissions
<1>2. RegOK BY DEF Init, RegOK, IdleReg
<1>3. SyncOK BY DEF Init, SyncOK, IdleSync, Attempt
<1>4. \A m \in Methods : DraftOK(m) /\ BoundOK(m) /\ TrueOK(m)
  BY DEF Init, DraftOK, BoundOK, TrueOK, Published, Names, Terminal
<1> QED BY <1>1, <1>2, <1>3, <1>4 DEF IInv

LEMMA NextIInv == IInv /\ [Next]_vars => IInv'
<1> SUFFICES ASSUME IInv, [Next]_vars PROVE IInv' OBVIOUS
<1>1. CASE Registration
  BY <1>1, BeginStep, OpenRecordStep, WriteRecordStep, StatStatusStep, ReadStatusStep,
     ScheduleStep, WorkerUnavailableStep DEF Registration
<1>2. CASE Worker
  BY <1>2, StartWorkerStep, NextFolderStep, ReadFolderStatusStep, UnavailableStep,
     InspectStep, PrepareStep, AcceptStep, NegotiateStep, UploadStep, PollStep,
     ReportStep DEF Worker
<1>3. CASE Environment
  BY <1>3, RetryStep, ServiceStep, UpgradeStep, CrashStep DEF Environment
<1>4. CASE UNCHANGED vars
  <2>1. TypeOK /\ RegOK /\ SyncOK BY DEF IInv
  <2>2. TypeOK' BY <1>4, <2>1 DEF TypeOK, vars, store, service, host
  <2>3. RegOK' BY <1>4, <2>1, SameReg DEF vars, store
  <2>4. SyncOK' BY <1>4, <2>1, SameSync DEF vars, store, service
  <2> QED BY <1>4, <2>2, <2>3, <2>4, SameMethods DEF IInv, vars, store, service
<1> QED BY <1>1, <1>2, <1>3, <1>4 DEF Next

LEMMA AlwaysIInv == Spec => []IInv
  BY InitIInv, NextIInv, PTL DEF Spec

\* Every variable keeps the values the code gives it (TypeOK).
THEOREM TypeCorrect == Spec => []TypeOK
<1>1. IInv => TypeOK BY DEF IInv
<1> QED BY <1>1, AlwaysIInv, PTL

\* The service never sees two intents of one method (OneIntent): no crash,
\* retry, lost answer or policy change turns a capture into two releases.
THEOREM NeverTwoReleases == Spec => []OneIntent
<1>1. IInv => OneIntent
  <2> SUFFICES ASSUME IInv, NEW m \in Methods, NEW i \in seen[m], NEW j \in seen[m]
               PROVE  i = j
    BY DEF OneIntent
  <2>1. BoundOK(m) /\ i \in Intents /\ j \in Intents BY DEF IInv, TypeOK
  <2>2. i.policy = j.policy /\ i.nonce = j.nonce /\ i.reviewed = j.reviewed
    BY <2>1 DEF BoundOK
  <2> QED BY <2>1, <2>2 DEF Intents
<1> QED BY <1>1, AlwaysIInv, PTL

\* Intents go out only under the policy their sender's owner reviewed
\* (OnlyReviewedPolicy), saved states included.
THEOREM ReviewedPolicyOnly == Spec => []OnlyReviewedPolicy
<1>1. IInv => OnlyReviewedPolicy BY DEF IInv, BoundOK, OnlyReviewedPolicy
<1> QED BY <1>1, AlwaysIInv, PTL

\* Only methods registered with consent, with whole records, leave the host
\* (OnlyConsentedLeaves).
THEOREM ConsentIsRespected == Spec => []OnlyConsentedLeaves
<1>1. IInv => OnlyConsentedLeaves
  BY DEF IInv, BoundOK, DraftOK, Published, OnlyConsentedLeaves
<1> QED BY <1>1, AlwaysIInv, PTL

\* Records are whole before they are acknowledged or have a draft
\* (RecordBeforeReply), whatever was killed while writing.
THEOREM RecordsAreWhole == Spec => []RecordBeforeReply
<1>1. IInv => RecordBeforeReply BY DEF IInv, RegOK, DraftOK, RecordBeforeReply
<1> QED BY <1>1, AlwaysIInv, PTL

\* A decision in the local status is the one the service took, though what it
\* admitted may have been withdrawn since (StatusIsTrue).
THEOREM StatusTellsTheTruth == Spec => []StatusIsTrue
<1>1. IInv => StatusIsTrue BY DEF IInv, TrueOK, StatusIsTrue
<1> QED BY <1>1, AlwaysIInv, PTL

\* Only a registration that could not start its worker reopens a settled
\* method (SettledStays): a worker never writes over a decision.
THEOREM DecisionsStay == Spec => SettledStays
<1>1. IInv /\ [Next]_vars => [\A m \in Methods : status[m] \in Terminal =>
        status'[m] = status[m] \/ (reg.pc = "unavailable" /\ reg.m = m)]_vars
  <2> SUFFICES ASSUME IInv, [Next]_vars, NEW m \in Methods, status[m] \in Terminal
               PROVE  status'[m] = status[m] \/ (reg.pc = "unavailable" /\ reg.m = m)
    OBVIOUS
  <2>1. TypeOK /\ SyncOK BY DEF IInv
  <2>2. CASE WorkerUnavailable
    BY <2>1, <2>2 DEF WorkerUnavailable, WriteStatus, TypeOK
  <2>3. CASE Report
    BY <2>1, <2>3 DEF Report, WriteStatus, TypeOK, SyncOK, Attempt
  <2>4. CASE UNCHANGED status BY <2>4
  <2>5. [Next]_vars => WorkerUnavailable \/ Report \/ UNCHANGED status
    BY DEF Next, Registration, Worker, Environment, Begin, OpenRecord, WriteRecord,
       StatStatus, ReadStatus, Schedule, StartWorker, NextFolder, ReadFolderStatus,
       Unavailable, Inspect, Prepare, Accept, Negotiate, Upload, Poll, Retry, Decide,
       Withdraw, Advertise, Upgrade, Crash, vars
  <2> QED BY <2>2, <2>3, <2>4, <2>5
<1> QED BY <1>1, AlwaysIInv, PTL DEF Spec, SettledStays

-----------------------------------------------------------------------------
(* The refinement of MethodLedger.                                          *)

\* What the ledger asks for beyond IInv: a worker only looks at methods with
\* consent, reports something, and the service has an admission of nothing
\* that it has not received.
RefInv ==
  /\ sync.pc \in Attempt \cup {"read"} => sync.m \in consented
  /\ sync.pc = "report" => sync.result # "none"
  /\ \A m \in Methods : admission[m] # "unknown" => seen[m] # {}

LEMMA InitRefInv == Init => RefInv
  BY DEF Init, RefInv, IdleSync, Attempt

\* Steps that leave worker and service alone.
LEMMA SameRef ==
  ASSUME RefInv, UNCHANGED <<sync, admission, seen>>, consented \subseteq consented'
  PROVE  RefInv'
  BY DEF RefInv, Attempt

\* A worker that goes on with its method, or has none.
LEMMA WorkerRef ==
  ASSUME RefInv, UNCHANGED <<consented, admission, seen>>,
         sync'.pc \in Attempt \cup {"read"} => sync'.m \in consented,
         sync'.pc = "report" => sync'.result # "none"
  PROVE  RefInv'
  BY DEF RefInv, Attempt

\* The folder loop takes or reads a method with consent, or moves past one.
LEMMA LoopRef ==
  ASSUME IInv, RefInv, UNCHANGED <<consented, admission, seen>>, NEW m,
         \/ sync' = IdleSync
         \/ Skip(m)
         \/ m \in consented /\ (Take(m) \/ sync' = [sync EXCEPT !.pc = "read", !.m = m])
  PROVE  RefInv'
<1>1. sync \in Workers BY WorkerTypes
<1>2. CASE sync' = IdleSync BY <1>2, WorkerRef DEF IdleSync, Attempt
<1>3. CASE Skip(m)
  <2>1. sync'.pc = "next" BY <1>1, <1>3 DEF Skip, Workers
  <2> QED BY <2>1, WorkerRef DEF Attempt
<1>4. CASE m \in consented /\ (Take(m) \/ sync' = [sync EXCEPT !.pc = "read", !.m = m])
  <2>1. sync'.pc \in {"publish", "read"} /\ sync'.m = m
    BY <1>1, <1>4 DEF Take, Workers
  <2> QED BY <1>4, <2>1, WorkerRef
<1> QED BY <1>2, <1>3, <1>4

\* The worker of an attempt stays with its method.
LEMMA AttemptMoves ==
  ASSUME IInv, RefInv, sync.pc \in Attempt,
         Unavailable \/ Inspect \/ Prepare \/ Accept \/ Negotiate \/ Upload \/ Poll
  PROVE  /\ sync.m \in Methods /\ sync.m \in consented
         /\ sync'.pc \in Attempt /\ sync'.m = sync.m
         /\ sync'.pc = "report" => sync'.result # "none"
<1>1. sync \in Workers /\ sync.m \in Methods /\ sync.m \in consented
  BY WorkerTypes DEF RefInv, Attempt
<1>2. StateOf(sync.m) # "none" BY DEF StateOf, Terminal
<1>3. \/ \E r \in {"retryable", "policy-attention", StateOf(sync.m)} : Outcome(r)
      \/ \E stage \in Attempt \ {"report"} : sync' = [sync EXCEPT !.pc = stage]
  BY DEF Unavailable, Inspect, Prepare, Accept, Negotiate, Upload, Poll, Attempt
<1> QED BY <1>1, <1>2, <1>3 DEF Outcome, Workers, Attempt

LEMMA NextRefInv == IInv /\ RefInv /\ [Next]_vars => RefInv'
<1> SUFFICES ASSUME IInv, RefInv, [Next]_vars PROVE RefInv' OBVIOUS
<1>1. CASE Registration
  <2>1. UNCHANGED <<sync, admission, seen>> /\ consented \subseteq consented'
    BY <1>1 DEF Registration, Begin, OpenRecord, WriteRecord, StatStatus, ReadStatus,
       Schedule, WorkerUnavailable, service, store
  <2> QED BY <2>1, SameRef
<1>2. CASE \E p \in Policies : StartWorker(p)
  <2>1. UNCHANGED <<consented, admission, seen>>
        /\ (sync' = sync \/ sync'.pc = "next")
    BY <1>2 DEF StartWorker, store, service
  <2> QED BY <2>1, SameRef, WorkerRef DEF Attempt
<1>3. CASE NextFolder
  <2>1. UNCHANGED <<consented, admission, seen>> /\ sync.todo \subseteq Methods
    BY <1>3, WorkerTypes DEF NextFolder, store, service
  <2>2. \A m \in Methods : Published(m) => m \in consented BY DEF IInv, DraftOK
  <2>3. PICK m : \/ sync' = IdleSync
                 \/ Skip(m)
                 \/ m \in consented
                      /\ (Take(m) \/ sync' = [sync EXCEPT !.pc = "read", !.m = m])
    BY <1>3, <2>1, <2>2 DEF NextFolder
  <2> QED BY <2>1, <2>3, LoopRef
<1>4. CASE ReadFolderStatus
  <2>1. UNCHANGED <<consented, admission, seen>> /\ sync.m \in consented
    BY <1>4 DEF ReadFolderStatus, store, service, RefInv
  <2>2. sync' = IdleSync \/ Skip(sync.m) \/ Take(sync.m)
    BY <1>4 DEF ReadFolderStatus
  <2> QED BY <2>1, <2>2, LoopRef
<1>5. CASE Unavailable \/ Inspect \/ Prepare \/ Accept \/ Poll
  <2>1. UNCHANGED <<consented, admission, seen>> /\ sync.pc \in Attempt
    BY <1>5 DEF Unavailable, Inspect, Prepare, Accept, Poll, store, service, Attempt
  <2> QED BY <1>5, <2>1, AttemptMoves, WorkerRef
<1>6. CASE Negotiate \/ Upload
  <2>1. UNCHANGED consented /\ sync.pc \in Attempt
    BY <1>6 DEF Negotiate, Upload, store, Attempt
  <2>2. TypeOK /\ sync.m \in Methods BY <2>1, WorkerTypes DEF IInv, Attempt
  <2>3. \A m \in Methods : admission'[m] # "unknown" => seen'[m] # {}
    <3>1. CASE Sent(sync.m) BY <2>2, <3>1 DEF Sent, RefInv, TypeOK
    <3>2. CASE Negotiate /\ ~Sent(sync.m) BY <3>2 DEF Negotiate, RefInv, service
    <3>3. CASE Upload BY <2>2, <3>3 DEF Upload, RefInv, TypeOK
    <3> QED BY <1>6, <3>1, <3>2, <3>3
  <2>4. sync'.pc \in Attempt /\ sync'.m \in consented
        /\ (sync'.pc = "report" => sync'.result # "none")
    BY <1>6, <2>1, AttemptMoves
  <2> QED BY <2>1, <2>3, <2>4 DEF RefInv
<1>7. CASE Report
  <2>1. UNCHANGED <<consented, admission, seen>> /\ sync \in Workers
        /\ sync.m \in consented
    BY <1>7, WorkerTypes DEF Report, RefInv, Attempt, store, service
  <2>2. \/ sync'.pc \in {"idle", "next"}
        \/ sync'.pc = "report" /\ sync'.m = sync.m /\ sync'.result = "retryable"
    <3>1. CASE Outcome("retryable") BY <2>1, <3>1 DEF Outcome, Workers
    <3>2. CASE sync' = IdleSync BY <3>2 DEF IdleSync
    <3>3. CASE sync' = [sync EXCEPT !.pc = "next", !.m = 0, !.result = "none"]
      BY <2>1, <3>3 DEF Workers
    <3> QED BY <1>7, <3>1, <3>2, <3>3 DEF Report
  <2> QED BY <2>1, <2>2, WorkerRef DEF Attempt
<1>8. CASE \E m \in Methods : Decide(m) \/ Withdraw(m)
  <2>1. UNCHANGED <<consented, sync, seen>> BY <1>8 DEF Decide, Withdraw, store
  <2>2. \A m \in Methods : admission'[m] # "unknown" => seen'[m] # {}
    BY <1>8 DEF Decide, Withdraw, RefInv, IInv, TypeOK
  <2> QED BY <2>1, <2>2 DEF RefInv, Attempt
<1>9. CASE Advertise \/ Upgrade \/ \E p \in Policies : Retry(p)
  BY <1>9, SameRef DEF Advertise, Upgrade, Retry, store, service
<1>10. CASE Crash
  <2>1. UNCHANGED <<consented, admission, seen>> /\ (sync' = sync \/ sync' = IdleSync)
    BY <1>10 DEF Crash, store, service
  <2> QED BY <2>1, SameRef, WorkerRef DEF IdleSync, Attempt
<1>11. CASE UNCHANGED vars BY <1>11, SameRef DEF vars, store, service
<1> QED BY <1>1, <1>2, <1>3, <1>4, <1>5, <1>6, <1>7, <1>8, <1>9, <1>10, <1>11
        DEF Next, Worker, Environment

-----------------------------------------------------------------------------
\* The state of the ledger, as the mapping gives it.
Offered(m) == {[policy |-> i.policy, reviewed |-> i.reviewed] : i \in seen[m]}
Decision(m) ==
  IF admission[m] \in Terminal \cup {"withdrawn"} THEN admission[m] ELSE "open"

\* Everything received of a method is the intent of its state file, under the
\* policy that its worker reviewed.
LEMMA OfferedIsPrepared ==
  ASSUME IInv, NEW m \in Methods, seen[m] # {}
  PROVE  Offered(m) = {[policy |-> prepared[m].policy, reviewed |-> prepared[m].policy]}
  BY DEF IInv, BoundOK, Offered

\* A step that changes nothing of what the ledger shows.
LEMMA LedgerStutters ==
  ASSUME UNCHANGED <<consented, seen, status>>,
         \A m \in Methods : Decision(m)' = Decision(m)
  PROVE  UNCHANGED Ledger!vars
<1>1. [m \in Methods |-> Decision(m)]' = [m \in Methods |-> Decision(m)] OBVIOUS
<1>2. [m \in Methods |-> Offered(m)]' = [m \in Methods |-> Offered(m)]
  BY DEF Offered
<1> QED BY <1>1, <1>2 DEF Ledger!vars, Decision, Offered

LEMMA InitLedger == Init => Ledger!Init
<1> SUFFICES ASSUME Init PROVE Ledger!Init OBVIOUS
<1>1. \A m \in Methods : Offered(m) = {} /\ Decision(m) = "open"
  BY DEF Init, Offered, Decision, Terminal
<1>2. [m \in Methods |-> Offered(m)] = [m \in Methods |-> {}]
      /\ [m \in Methods |-> Decision(m)] = [m \in Methods |-> "open"]
  BY <1>1
<1> QED BY <1>2 DEF Init, Ledger!Init, Offered, Decision

\* A registration under a policy gives consent; without one it changes nothing
\* the ledger shows.
LEMMA BeginRefines ==
  ASSUME NEW m \in Methods, NEW c \in Policies \cup {NoPolicy}, Begin(m, c)
  PROVE  [Ledger!Next]_(Ledger!vars)
<1>1. UNCHANGED <<seen, admission, status>> BY DEF Begin, service
<1>2. CASE c = NoPolicy
  <2>1. consented' = consented BY <1>2 DEF Begin
  <2> QED BY <1>1, <2>1, LedgerStutters DEF Decision
<1>3. CASE c # NoPolicy
  <2>1. consented' = consented \cup {m} BY <1>3 DEF Begin
  <2>2. Ledger!Consent(m) BY <1>1, <2>1 DEF Ledger!Consent
  <2> QED BY <2>2 DEF Ledger!Next
<1> QED BY <1>2, <1>3

\* A status written for m is shown.
LEMMA ShownRefines ==
  ASSUME TypeOK, NEW m \in Methods, NEW s \in Statuses, WriteStatus(m, s),
         UNCHANGED <<consented, seen, admission>>
  PROVE  Ledger!Show(m, s)
  BY DEF WriteStatus, Ledger!Show, TypeOK

LEMMA WorkerUnavailableRefines ==
  ASSUME IInv, WorkerUnavailable
  PROVE  [Ledger!Next]_(Ledger!vars)
<1>1. TypeOK /\ RegOK BY DEF IInv
<1>2. reg.pc = "unavailable" /\ reg.m \in Methods /\ reg.m \in consented
  BY <1>1 DEF WorkerUnavailable, TypeOK, RegOK
<1>3. UNCHANGED <<consented, seen, admission>>
  BY DEF WorkerUnavailable, store, service
<1>4. CASE WriteStatus(reg.m, "retryable")
  <2>1. Ledger!Show(reg.m, "retryable") BY <1>1, <1>2, <1>3, <1>4, ShownRefines DEF Statuses
  <2>2. Ledger!ShowNoWorker(reg.m) BY <1>2, <2>1 DEF Ledger!ShowNoWorker
  <2> QED BY <1>2, <2>2 DEF Ledger!Next
<1>5. CASE UNCHANGED status BY <1>3, <1>5, LedgerStutters DEF Decision
<1> QED BY <1>4, <1>5 DEF WorkerUnavailable

\* The result of an attempt is progress: nothing was settled, and what it says
\* is what the service did, or a setback.
LEMMA ReportRefines ==
  ASSUME IInv, RefInv, Report
  PROVE  [Ledger!Next]_(Ledger!vars)
<1>1. TypeOK /\ SyncOK BY DEF IInv
<1> DEFINE m == sync.m
           s == sync.result
<1>2. /\ sync.pc = "report" /\ m \in Methods /\ m \in consented
      /\ s \in Statuses \ {"none"}
      /\ UNCHANGED <<consented, seen, admission>>
  BY <1>1 DEF Report, TypeOK, RefInv, Attempt, Workers, store, service
<1>3. CASE UNCHANGED status BY <1>2, <1>3, LedgerStutters DEF Decision
<1>4. CASE WriteStatus(m, s)
  <2>1. status[m] \notin Ledger!Verdicts
    BY <1>1, <1>2 DEF SyncOK, Attempt, Terminal, Ledger!Verdicts
  <2>2. Ledger!Show(m, s) BY <1>1, <1>2, <1>4, ShownRefines
  <2>3. \/ s \in Ledger!Setbacks
        \/ s = "submitted" /\ Offered(m) # {}
        \/ s \in Ledger!Verdicts /\ Decided(m, s)
    BY <1>1, <1>2 DEF Statuses, Terminal, SyncOK, Ledger!Setbacks, Ledger!Verdicts, Offered
  <2>4. s \in Ledger!Verdicts /\ Decided(m, s) => Ledger!Given(m, s)
    BY <1>2 DEF Decided, Ledger!Given, Ledger!Verdicts, Terminal
  <2>5. Ledger!ShowProgress(m)
    BY <1>2, <2>1, <2>2, <2>3, <2>4 DEF Ledger!ShowProgress, Offered
  <2> QED BY <1>2, <2>5 DEF Ledger!Next
<1> QED BY <1>3, <1>4 DEF Report

\* The first intent the service receives of a method is its offer; every later
\* one is the same again.
LEMMA NegotiateRefines ==
  ASSUME IInv, IInv', RefInv, Negotiate
  PROVE  [Ledger!Next]_(Ledger!vars)
<1>1. PICK m \in Methods, p \in Policies : m = sync.m /\ p = prepared[m].policy
  BY WorkerTypes DEF Negotiate, SyncOK
<1>2. TypeOK /\ m \in consented /\ UNCHANGED <<consented, prepared, status>>
  BY <1>1 DEF IInv, Negotiate, RefInv, Attempt, store
<1>3. CASE UNCHANGED service BY <1>2, <1>3, LedgerStutters DEF service, Decision
<1>4. CASE Sent(m)
  <2>1. \A n \in Methods : Decision(n)' = Decision(n)
    BY <1>2, <1>4 DEF Sent, Decision, TypeOK, Terminal
  <2>2. [n \in Methods |-> Decision(n)]' = [n \in Methods |-> Decision(n)] BY <2>1
  <2>3. seen'[m] # {} /\ \A n \in Methods : n # m => seen'[n] = seen[n]
    BY <1>2, <1>4 DEF Sent, TypeOK
  <2>4. \A i \in seen'[m] : i.policy = p /\ i.reviewed = p
    BY <1>1, <1>2 DEF IInv, BoundOK
  <2>5. \A n \in Methods :
          Offered(n)' = IF n = m THEN {[policy |-> p, reviewed |-> p]} ELSE Offered(n)
    BY <2>3, <2>4 DEF Offered
  <2>6. CASE seen[m] = {}
    <3>1. Offered(m) = {} BY <2>6 DEF Offered
    <3>2. [n \in Methods |-> Offered(n)]' =
            [[n \in Methods |-> Offered(n)] EXCEPT ![m] = {[policy |-> p, reviewed |-> p]}]
      BY <2>5
    <3>3. Ledger!Offer(m, [policy |-> p, reviewed |-> p])
      BY <1>2, <2>2, <3>1, <3>2 DEF Ledger!Offer, Offered, Decision
    <3> QED BY <3>3 DEF Ledger!Next
  <2>7. CASE seen[m] # {}
    <3>1. Offered(m) = {[policy |-> p, reviewed |-> p]} BY <1>1, <2>7, OfferedIsPrepared
    <3>2. [n \in Methods |-> Offered(n)]' = [n \in Methods |-> Offered(n)]
      BY <2>5, <3>1
    <3> QED BY <1>2, <2>2, <3>2 DEF Ledger!vars, Offered, Decision
  <2> QED BY <2>6, <2>7
<1> QED BY <1>1, <1>3, <1>4 DEF Negotiate

LEMMA DecideRefines ==
  ASSUME IInv, RefInv, NEW m \in Methods, Decide(m)
  PROVE  [Ledger!Next]_(Ledger!vars)
<1>1. TypeOK BY DEF IInv
<1>2. UNCHANGED <<consented, seen, status>> BY DEF Decide, store
<1>3. Offered(m) # {} /\ Decision(m) = "open"
  BY DEF Decide, RefInv, Offered, Decision, Terminal
<1>4. PICK v \in Terminal : admission' = [admission EXCEPT ![m] = v]
  BY DEF Decide
<1>5. [n \in Methods |-> Decision(n)]' = [[n \in Methods |-> Decision(n)] EXCEPT ![m] = v]
  BY <1>1, <1>4 DEF Decision, TypeOK
<1>6. v \in Ledger!Verdicts BY <1>4 DEF Terminal, Ledger!Verdicts
<1>7. Ledger!Decide(m)
  BY <1>2, <1>3, <1>5, <1>6 DEF Ledger!Decide, Offered, Decision
<1> QED BY <1>7 DEF Ledger!Next

LEMMA WithdrawRefines ==
  ASSUME IInv, NEW m \in Methods, Withdraw(m)
  PROVE  [Ledger!Next]_(Ledger!vars)
<1>1. TypeOK BY DEF IInv
<1>2. UNCHANGED <<consented, seen, status>> BY DEF Withdraw, store
<1>3. Decision(m) = "active" BY DEF Withdraw, Decision, Terminal
<1>4. [n \in Methods |-> Decision(n)]'
        = [[n \in Methods |-> Decision(n)] EXCEPT ![m] = "withdrawn"]
  BY <1>1 DEF Withdraw, Decision, TypeOK
<1>5. Ledger!Withdraw(m)
  BY <1>2, <1>3, <1>4 DEF Ledger!Withdraw, Offered, Decision
<1> QED BY <1>5 DEF Ledger!Next

LEMMA StepRefines ==
  ASSUME IInv, IInv', RefInv, [Next]_vars
  PROVE  [Ledger!Next]_(Ledger!vars)
<1>1. CASE \E m \in Methods, c \in Policies \cup {NoPolicy} : Begin(m, c)
  BY <1>1, BeginRefines
<1>2. CASE WorkerUnavailable BY <1>2, WorkerUnavailableRefines
<1>3. CASE Report BY <1>3, ReportRefines
<1>4. CASE Negotiate BY <1>4, NegotiateRefines
<1>5. CASE \E m \in Methods : Decide(m) \/ Withdraw(m)
  BY <1>5, DecideRefines, WithdrawRefines
<1>6. CASE Upload
  <2>1. TypeOK BY DEF IInv
  <2>2. \A m \in Methods : Decision(m)' = Decision(m)
    BY <1>6, <2>1 DEF Upload, Decision, TypeOK, Terminal
  <2> QED BY <1>6, <2>2, LedgerStutters DEF Upload, store
<1>7. CASE UNCHANGED <<consented, seen, admission, status>>
  BY <1>7, LedgerStutters DEF Decision
<1>8. \/ \E m \in Methods, c \in Policies \cup {NoPolicy} : Begin(m, c)
      \/ WorkerUnavailable \/ Report \/ Negotiate \/ Upload
      \/ \E m \in Methods : Decide(m) \/ Withdraw(m)
      \/ UNCHANGED <<consented, seen, admission, status>>
  BY DEF Next, Registration, Worker, Environment, OpenRecord, WriteRecord,
     StatStatus, ReadStatus, Schedule, StartWorker, NextFolder, ReadFolderStatus,
     Unavailable, Inspect, Prepare, Accept, Poll, Retry, Advertise, Upgrade, Crash, vars,
     store, service
<1> QED BY <1>1, <1>2, <1>3, <1>4, <1>5, <1>6, <1>7, <1>8

\* The method store keeps the ledger's promises (ImplementsLedger): whatever
\* crashes, retries and rival processes do, what its owner and the service see
\* is a run in which consent comes before anything leaves, one intent is
\* offered, one verdict given, and the status follows.
THEOREM StoreImplementsLedger == Spec => ImplementsLedger
<1>1. Init => RefInv BY InitRefInv
<1>2. IInv /\ RefInv /\ [Next]_vars => RefInv' BY NextRefInv
<1>3. IInv /\ IInv' /\ RefInv /\ [Next]_vars => [Ledger!Next]_(Ledger!vars)
  BY StepRefines
<1> QED BY <1>1, <1>2, <1>3, InitLedger, AlwaysIInv, PTL
        DEF Spec, ImplementsLedger, Ledger!Spec
=============================================================================
