------------------------------ MODULE Adoption ------------------------------
(***************************************************************************)
(* Exact-component adoption: installer.adopt_exact_component.              *)
(*                                                                         *)
(* Several invocations install into one receiver tree while its user edits *)
(* it.  An invocation checks that every target is absent, creates its      *)
(* files one by one (O_EXCL), rehashes each, runs the receiver's           *)
(* verifiers, rehashes everything, digests the tree and publishes a        *)
(* receipt.  A failure of one of the four exception classes the code       *)
(* catches unlinks the created PATHS in reverse; any other exception (an   *)
(* OSError of a write or a read, KeyboardInterrupt) or a crash stops the   *)
(* invocation where it stands.                                             *)
(***************************************************************************)
EXTENDS Naturals, Sequences, FiniteSets

CONSTANTS
  Adopters,     \* invocations of adopt_exact_component, retries included
  Targets,      \* installation target paths
  Dirs,         \* receiver subdirectories that an installation may create
  Root,         \* the receiver directory itself, which always exists
  Parent,       \* Parent[t]: the directory of t, in Dirs or Root
  Recipe,       \* Recipe[a]: the targets of a's mappings, in order
  Payload,      \* Payload[a]: the capsule bytes a's recipe binds
  Verifiers,    \* how many verifiers a recipe has
  ReceiptPath,  \* ReceiptPath[a]: where a publishes its receipt, or NoPath
  NoPath,       \* receipt_path=None: the receipt is only returned
  User,         \* whoever else writes in the receiver
  MaxEdits      \* bound: how many times the user changes the receiver

PayloadSet == {Payload[a] : a \in Adopters}
Paths      == {ReceiptPath[a] : a \in Adopters} \ {NoPath}

ASSUME RecipeAssumption ==
  /\ Recipe \in [Adopters -> Seq(Targets)]
  /\ \A a \in Adopters : \A i, j \in 1..Len(Recipe[a]) :
       Recipe[a][i] = Recipe[a][j] => i = j
ASSUME ParentAssumption == Parent \in [Targets -> Dirs \cup {Root}] /\ Root \notin Dirs
ASSUME ActorAssumption == {User, NoPath, "nobody"} \cap Adopters = {}
ASSUME PayloadAssumption == PayloadSet \cap {"partial", "other", "none"} = {}
ASSUME BoundsAssumption == Verifiers \in Nat /\ MaxEdits \in Nat

VARIABLES
  file,      \* file[t]: Absent, or who created it and what it holds
  dirs,      \* the subdirectories that exist
  evidence,  \* evidence[p]: whose receipt is published at p, or NoPath
  pc,        \* pc[a]: where invocation a is
  at,        \* at[a]: the mapping or verifier the current loop of a is at
  created,   \* created[a]: created_files is the first created[a] targets
  madeDirs,  \* madeDirs[a]: created_directories
  receipt,   \* receipt[a]: the tree the receipt a composed binds, or NoReceipt
  changed,   \* history: changed[a], targets the user changed since a's
             \* verifiers ended
  removed,   \* history: targets whose file the user has ever removed
  edits      \* how often the user changed the receiver

vars == <<file, dirs, evidence, pc, at, created, madeDirs, receipt,
          changed, removed, edits>>

Absent    == [by |-> "nobody", bytes |-> "none"]
NoReceipt == <<>>
Bytes     == PayloadSet \cup {"partial", "other"}
Files     == [by : Adopters \cup {User}, bytes : Bytes] \cup {Absent}

Running   == {"parents", "open", "write", "hash", "verify", "recheck",
              "digest", "publish", "linked"}
Ended     == {"refused", "adopted", "failed", "raised", "crashed"}
Stages    == {"idle", "rollback"} \cup Running \cup Ended

Exists(t)      == file[t] # Absent
TargetsOf(a)   == {Recipe[a][i] : i \in 1..Len(Recipe[a])}
CreatedFiles(a) == {Recipe[a][i] : i \in 1..created[a]}
Exact(a, t)    == file[t].bytes = Payload[a]

Init ==
  /\ file \in [Targets -> {Absent, [by |-> User, bytes |-> "other"]}]
  /\ dirs = {Parent[t] : t \in {u \in Targets : Exists(u)}} \ {Root}
  /\ evidence = [p \in Paths |-> NoPath]
  /\ pc = [a \in Adopters |-> "idle"]
  /\ at = [a \in Adopters |-> 1]
  /\ created = [a \in Adopters |-> 0]
  /\ madeDirs = [a \in Adopters |-> {}]
  /\ receipt = [a \in Adopters |-> NoReceipt]
  /\ changed = [a \in Adopters |-> {}]
  /\ removed = {}
  /\ edits = 0

Goto(a, stage) == pc' = [pc EXCEPT ![a] = stage]

-----------------------------------------------------------------------------
(* The steps of an invocation.                                              *)

\* Everything before the try block: authorization, decision, recipe, source
\* digests, absent targets and an absent receipt.  Nothing is written.
Preflight(a) ==
  /\ pc[a] = "idle"
  /\ \/ Goto(a, "refused")
     \/ /\ \A t \in TargetsOf(a) : ~Exists(t)
        /\ ReceiptPath[a] # NoPath => evidence[ReceiptPath[a]] = NoPath
        /\ Goto(a, "parents")
  /\ UNCHANGED <<file, dirs, evidence, at, created, madeDirs, receipt,
                 changed, removed, edits>>

\* The head of the mapping loop: the missing parents of the next target are
\* made, and what mkdir made here is remembered.  A parent that is a symlink
\* or a file is an AdoptionError.
MakeParents(a) ==
  /\ pc[a] = "parents"
  /\ \/ /\ at[a] > Len(Recipe[a])
        /\ Goto(a, "verify")
        /\ at' = [at EXCEPT ![a] = 1]
        /\ UNCHANGED <<dirs, madeDirs>>
     \/ /\ at[a] <= Len(Recipe[a])
        /\ LET new == {Parent[Recipe[a][at[a]]]} \ (dirs \cup {Root})
           IN /\ dirs' = dirs \cup new
              /\ madeDirs' = [madeDirs EXCEPT ![a] = @ \cup new]
        /\ Goto(a, "open")
        /\ UNCHANGED at
     \/ /\ at[a] <= Len(Recipe[a])
        /\ Goto(a, "rollback")
        /\ UNCHANGED <<dirs, at, madeDirs>>
  /\ UNCHANGED <<file, evidence, created, receipt, changed, removed, edits>>

\* _install_file, the O_CREAT | O_EXCL open: a file or a missing parent at
\* the target is an AdoptionError.
OpenTarget(a) ==
  /\ pc[a] = "open"
  /\ LET t == Recipe[a][at[a]]
     IN IF Exists(t) \/ Parent[t] \notin dirs \cup {Root}
          THEN Goto(a, "rollback") /\ UNCHANGED file
          ELSE /\ file' = [file EXCEPT ![t] = [by |-> a, bytes |-> "partial"]]
               /\ Goto(a, "write")
  /\ UNCHANGED <<dirs, evidence, at, created, madeDirs, receipt,
                 changed, removed, edits>>

\* _install_file, the copy and fsync, then created_files.append.  The source
\* may have changed since the preflight; bytes go to the inode this
\* invocation opened, so a file put at the path meanwhile is not written.
WriteTarget(a) ==
  /\ pc[a] = "write"
  /\ LET t == Recipe[a][at[a]]
     IN IF file[t].by = a
          THEN \E b \in {Payload[a], "other"} :
                 file' = [file EXCEPT ![t] = [by |-> a, bytes |-> b]]
          ELSE UNCHANGED file
  /\ created' = [created EXCEPT ![a] = @ + 1]
  /\ Goto(a, "hash")
  /\ UNCHANGED <<dirs, evidence, at, madeDirs, receipt, changed, removed, edits>>

\* sha256_file(destination) against the declared digest.  A target that is
\* gone raises FileNotFoundError, which the try block does not catch.
HashTarget(a) ==
  /\ pc[a] = "hash"
  /\ LET t == Recipe[a][at[a]]
     IN \/ ~Exists(t) /\ Goto(a, "raised") /\ UNCHANGED at
        \/ Exists(t) /\ ~Exact(a, t) /\ Goto(a, "rollback") /\ UNCHANGED at
        \/ /\ Exact(a, t)
           /\ at' = [at EXCEPT ![a] = @ + 1]
           /\ Goto(a, "parents")
  /\ UNCHANGED <<file, dirs, evidence, created, madeDirs, receipt,
                 changed, removed, edits>>

\* One run_receiver_verifier with its _validate_verifier_result, or the end
\* of the verifier loop.  The receiver is mounted read-only: no file changes.
RunVerifier(a) ==
  /\ pc[a] = "verify"
  /\ \/ at[a] <= Verifiers /\ Goto(a, "rollback") /\ UNCHANGED <<at, changed>>
     \/ at[a] <= Verifiers /\ at' = [at EXCEPT ![a] = @ + 1] /\ UNCHANGED <<pc, changed>>
     \/ /\ at[a] > Verifiers
        /\ at' = [at EXCEPT ![a] = 1]
        /\ changed' = [changed EXCEPT ![a] = {}]
        /\ Goto(a, "recheck")
  /\ UNCHANGED <<file, dirs, evidence, created, madeDirs, receipt, removed, edits>>

\* A mutated form: the files are not rehashed after verification.
RecheckSkipped(a) ==
  /\ pc[a] = "recheck"
  /\ Goto(a, "digest")
  /\ UNCHANGED <<file, dirs, evidence, at, created, madeDirs, receipt,
                 changed, removed, edits>>

\* The rehash of one installed target after verification.  A target that is
\* gone is a ContractError here (regular_file_under), which is caught.
Recheck(a) ==
  /\ pc[a] = "recheck"
  /\ \/ at[a] > Len(Recipe[a]) /\ Goto(a, "digest") /\ UNCHANGED at
     \/ /\ at[a] <= Len(Recipe[a])
        /\ ~Exact(a, Recipe[a][at[a]])
        /\ Goto(a, "rollback")
        /\ UNCHANGED at
     \/ /\ at[a] <= Len(Recipe[a])
        /\ Exact(a, Recipe[a][at[a]])
        /\ at' = [at EXCEPT ![a] = @ + 1]
        /\ UNCHANGED pc
  /\ UNCHANGED <<file, dirs, evidence, created, madeDirs, receipt,
                 changed, removed, edits>>

\* tree_digest(receiver): the receipt binds the whole tree.  A symlink
\* somewhere in the receiver is a ContractError.
DigestTree(a) ==
  /\ pc[a] = "digest"
  /\ \/ Goto(a, "rollback") /\ UNCHANGED receipt
     \/ Goto(a, "publish") /\ receipt' = [receipt EXCEPT ![a] = file]
  /\ UNCHANGED <<file, dirs, evidence, at, created, madeDirs,
                 changed, removed, edits>>

\* A mutated form: the receipt is renamed over whatever is at its path.
PublishReplacing(a) ==
  /\ pc[a] = "publish"
  /\ IF ReceiptPath[a] = NoPath
       THEN UNCHANGED evidence
       ELSE evidence' = [evidence EXCEPT ![ReceiptPath[a]] = a]
  /\ Goto(a, "linked")
  /\ UNCHANGED <<file, dirs, at, created, madeDirs, receipt, changed, removed, edits>>

\* write_new_json(receipt_path): written to a temporary file, then linked; a
\* path that is taken by now is a ContractError.
Publish(a) ==
  /\ pc[a] = "publish"
  /\ \/ ReceiptPath[a] = NoPath /\ Goto(a, "linked") /\ UNCHANGED evidence
     \/ /\ ReceiptPath[a] # NoPath
        /\ IF evidence[ReceiptPath[a]] = NoPath
             THEN /\ evidence' = [evidence EXCEPT ![ReceiptPath[a]] = a]
                  /\ Goto(a, "linked")
             ELSE Goto(a, "rollback") /\ UNCHANGED evidence
  /\ UNCHANGED <<file, dirs, at, created, madeDirs, receipt, changed, removed, edits>>

\* The temporary file is unlinked and the receipt returned.
Return(a) ==
  /\ pc[a] = "linked"
  /\ Goto(a, "adopted")
  /\ UNCHANGED <<file, dirs, evidence, at, created, madeDirs, receipt,
                 changed, removed, edits>>

-----------------------------------------------------------------------------
(* The ways an invocation fails.                                            *)

\* Mutated forms: every target of the recipe is unlinked, not only those this
\* invocation created; the newest created file is left behind; the created
\* directories are kept.
UnlinkAtOnce(a, gone) ==
  /\ pc[a] = "rollback"
  /\ file' = [t \in Targets |-> IF t \in gone THEN Absent ELSE file[t]]
  /\ created' = [created EXCEPT ![a] = 0]
  /\ Goto(a, "failed")
  /\ UNCHANGED <<dirs, evidence, at, madeDirs, receipt, changed, removed, edits>>
RollbackEveryTarget(a) == UnlinkAtOnce(a, TargetsOf(a))
RollbackAllButLast(a) == UnlinkAtOnce(a, {Recipe[a][i] : i \in 1..created[a] - 1})
RollbackFilesOnly(a) == UnlinkAtOnce(a, CreatedFiles(a))

\* The except block: each created path is unlinked, whoever's file is there
\* by now, newest first; then the created directories that are empty go.
Rollback(a) ==
  /\ pc[a] = "rollback"
  /\ IF created[a] > 0
       THEN /\ file' = [file EXCEPT ![Recipe[a][created[a]]] = Absent]
            /\ created' = [created EXCEPT ![a] = @ - 1]
            /\ UNCHANGED <<dirs, pc, madeDirs>>
       ELSE /\ dirs' = dirs \ {d \in madeDirs[a] :
                                 \A t \in Targets : Exists(t) => Parent[t] # d}
            /\ Goto(a, "failed")
            /\ UNCHANGED <<file, created, madeDirs>>
  /\ UNCHANGED <<evidence, at, receipt, changed, removed, edits>>

\* An exception the try block does not name: OSError of a write, a read or a
\* walk (a full disk, an unreadable receiver file), KeyboardInterrupt.
RaiseOther(a) ==
  /\ pc[a] \in Running \cup {"rollback"}
  /\ Goto(a, "raised")
  /\ UNCHANGED <<file, dirs, evidence, at, created, madeDirs, receipt,
                 changed, removed, edits>>

\* The process is killed; its files stay as they are.
Crash(a) ==
  /\ pc[a] \in Running \cup {"rollback"}
  /\ Goto(a, "crashed")
  /\ UNCHANGED <<file, dirs, evidence, at, created, madeDirs, receipt,
                 changed, removed, edits>>

-----------------------------------------------------------------------------
(* The user of the receiver, who may also clear what a failed try left.     *)

UserChange(t, f) ==
  /\ edits < MaxEdits
  /\ edits' = edits + 1
  /\ file' = [file EXCEPT ![t] = f]
  /\ changed' = [a \in Adopters |-> changed[a] \cup {t}]
  /\ UNCHANGED <<dirs, evidence, pc, at, created, madeDirs, receipt>>

UserEdits(t) ==
  /\ Exists(t)
  /\ UserChange(t, [by |-> file[t].by, bytes |-> "other"])
  /\ UNCHANGED removed

UserCreates(t) ==
  /\ ~Exists(t)
  /\ Parent[t] \in dirs \cup {Root}
  /\ UserChange(t, [by |-> User, bytes |-> "other"])
  /\ UNCHANGED removed

UserRemoves(t) ==
  /\ Exists(t)
  /\ UserChange(t, Absent)
  /\ removed' = removed \cup {t}

-----------------------------------------------------------------------------
Invocation(a) ==
  \/ Preflight(a) \/ MakeParents(a) \/ OpenTarget(a) \/ WriteTarget(a)
  \/ HashTarget(a) \/ RunVerifier(a) \/ Recheck(a) \/ DigestTree(a)
  \/ Publish(a) \/ Return(a) \/ Rollback(a)

Next ==
  \/ \E a \in Adopters : Invocation(a) \/ RaiseOther(a) \/ Crash(a)
  \/ \E t \in Targets : UserEdits(t) \/ UserCreates(t) \/ UserRemoves(t)

Spec == Init /\ [][Next]_vars

-----------------------------------------------------------------------------
(* Properties.                                                              *)

TypeOK ==
  /\ file \in [Targets -> Files]
  /\ dirs \subseteq Dirs
  /\ evidence \in [Paths -> Adopters \cup {NoPath}]
  /\ pc \in [Adopters -> Stages]
  /\ at \in [Adopters -> Nat]
  /\ created \in [Adopters -> Nat]
  /\ \A a \in Adopters : created[a] <= Len(Recipe[a])
  /\ madeDirs \in [Adopters -> SUBSET Dirs]
  /\ receipt \in [Adopters -> [Targets -> Files] \cup {NoReceipt}]
  /\ changed \in [Adopters -> SUBSET Targets]
  /\ removed \subseteq Targets
  /\ edits \in 0..MaxEdits

Issued(a) == pc[a] = "adopted" \/ \E p \in Paths : evidence[p] = a

\* An issued receipt is true: whatever other invocations do, and even if its
\* own process dies right after the link, every file it names holds the bound
\* bytes in the tree it binds and in the receiver, unless the user changed
\* that file after the verifiers ended or removed a file at that path.
\* (installer.py: the rehash after verification, tree_digest and the receipt.)
ReceiptSound ==
  \A a \in Adopters : Issued(a) =>
    \A t \in TargetsOf(a) \ (changed[a] \cup removed) :
      /\ file[t].bytes = Payload[a]
      /\ receipt[a][t].bytes = Payload[a]

\* Two invocations never both hold a path as created, so the rollback of one
\* never takes away what the other installed, as long as the user does not
\* remove a file in the meantime.  (installer.py: O_EXCL in _install_file.)
CreatedIsExclusive ==
  \A a, b \in Adopters : a # b =>
    CreatedFiles(a) \cap CreatedFiles(b) \subseteq removed

\* The receipt found at an adopter's receipt path is its own, also when two
\* invocations were given the same path and both saw it free.
\* (installer.py: write_new_json of the receipt.)
EvidenceIsOwn ==
  \A a \in Adopters :
    pc[a] = "adopted" /\ ReceiptPath[a] # NoPath => evidence[ReceiptPath[a]] = a

\* A failure that the except block handles leaves no file of the invocation.
\* (installer.py: the except block of adopt_exact_component.)
HandledFailureLeavesNoFile ==
  \A a \in Adopters : pc[a] = "failed" => \A t \in Targets : file[t].by # a

Steps(a) == pc'[a] # pc[a] \/ at'[a] # at[a] \/ created'[a] # created[a]

\* "Existing receiver files are never overwritten": the only files an
\* invocation changes or unlinks are those it created itself, unless the user
\* removed its file and something else took the path.
OnlyOwnFilesTouched ==
  [][\A a \in Adopters, t \in Targets :
       Steps(a) /\ Exists(t) /\ file'[t] # file[t] =>
         file[t].by = a \/ t \in removed]_vars

\* An empty directory in the receiver has a cause that the rmdir loop cannot
\* mend: the invocation that made it never ran its handler to the end; the user
\* removed a file of it; or a failing invocation that did not make it took the
\* last file out, after its maker had found it in use.
\* (installer.py: _make_parent_directories and the except block.)
EmptyDirectoryHasCause ==
  \A d \in dirs :
    \/ \E t \in Targets : Parent[t] = d /\ (Exists(t) \/ t \in removed)
    \/ \E a \in Adopters : d \in madeDirs[a] /\ pc[a] \notin {"failed", "adopted"}
    \/ \E a \in Adopters :
         /\ d \notin madeDirs[a]
         /\ pc[a] \in {"rollback", "failed", "raised", "crashed"}
         /\ \E t \in TargetsOf(a) : Parent[t] = d

=============================================================================
