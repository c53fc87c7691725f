--------------------------- MODULE PackageManager ---------------------------
(* One installable extension: the package manager (extension_packages.rs), the
   application state around it (app_extensions.rs), the durable registry
   (extension_registry.rs) and the calls of the extension manager page
   (reader.rs), from review over upgrade and rollback to the next start.

   Every call runs to its end on the user interface thread.  What it cannot know
   is chosen freely: whether the runtime starts (module WasmWorker: the result of
   a WebAssembly activation arrives in a later tick), and whether a write of the
   registry succeeds.  A write replaces the file atomically; it fails and leaves
   the old file, or, when the restoration of the old file fails as well, leaves
   the new file behind and reports an error.  The process may end between any two
   calls; ending inside a call is ending after a call whose write failed.

   No signature verifier is configured (DenyAllSignatureVerifier), so every
   upgrade resets the authority and asks for all required permissions again.
   A package is its content; a source is a path with a content that may change. *)
EXTENDS Integers, Sequences, FiniteSets

CONSTANTS
  Contents,      \* package contents (positive numbers)
  Paths,         \* where packages can be
  Required,      \* [content -> permissions it requires]
  Optional,      \* [content -> permissions it may be given]
  Deferred,      \* contents whose activation is deferred (WebAssembly)
  EditLimit,     \* changes of the sources in a behaviour
  CallLimit      \* calls of the extension manager page in a behaviour

VARIABLES
  sources,   \* [path -> content, 0 for none]
  pkg,       \* the manager's and the host's state of the extension
  reg,       \* the registry: file and memory
  review,    \* the preview the user is looking at
  intent,    \* what the user has confirmed, granted and switched
  left       \* edits and calls left

pkgVars == <<sources, pkg, reg, review, intent, left>>

Perms == UNION {Required[c] \cup Optional[c] : c \in Contents}
NoPath == "no path"

ASSUME PackageAssumption ==
  /\ Contents \subseteq Nat \ {0} /\ 1 \in Contents
  /\ NoPath \notin Paths
  /\ Required \in [Contents -> SUBSET Perms] /\ Optional \in [Contents -> SUBSET Perms]
  /\ EditLimit \in Nat /\ CallLimit \in Nat

NoReview == [path |-> NoPath, content |-> 0, upgrade |-> FALSE]
NoUpgrade == [old |-> 0, state |-> "None", granted |-> {}, denied |-> {}]
NoEntry == [path |-> NoPath, hash |-> 0, enabled |-> FALSE, granted |-> {}, denied |-> {}]

NoPackage ==
  [held |-> 0, state |-> "None", work |-> FALSE, granted |-> {}, denied |-> {},
   pending |-> 0, activating |-> NoUpgrade, source |-> NoPath]

Writes == {"ok", "fails", "torn"}
Starts == {"ok", "error", "blocked"}

-----------------------------------------------------------------------------
(* The host, as the manager uses it *)

\* unload: the adapter closes, whatever it was doing
Unload(p) == [p EXCEPT !.state = "Disabled", !.work = FALSE]

\* activate: refused without a required permission or for another reason of the
\* host ("blocked"), failed by the runtime ("error"), or started
Activate(p, start) ==
  LET may == Required[p.held] \subseteq p.granted /\ start # "blocked"
             /\ p.state # "Suspended"
  IN [p EXCEPT !.state = IF ~may THEN IF p.state = "Suspended" THEN @ ELSE "Validated"
                         ELSE IF start = "error" THEN "Failed" ELSE "Active",
               !.work = may /\ start = "ok" /\ p.held \in Deferred]

\* replace, of an inactive package
Replace(p, content) == [p EXCEPT !.held = content, !.state = "Validated"]

-----------------------------------------------------------------------------
(* The registry *)

\* upsert and remove: commit writes the file before the memory changes
Commit(r, entry, write) ==
  [file |-> IF write = "fails" THEN r.file ELSE entry,
   mem  |-> IF write = "ok" THEN entry ELSE r.mem]

\* persist_managed_package: without a source the registered path is kept
PathOf(r, source) == IF source # NoPath THEN source ELSE r.mem.path

\* Without any path there is an error, and the path must exist
MayPersist(r, source) == PathOf(r, source) # NoPath /\ sources[PathOf(r, source)] # 0

Persist(r, p, source, enabled, write) ==
  IF ~MayPersist(r, source) THEN r
  ELSE Commit(r, [path |-> PathOf(r, source), hash |-> p.held, enabled |-> enabled,
                  granted |-> p.granted, denied |-> p.denied], write)

\* The user was told that the registry could not be written
Saved(r, entry) == r.file = entry /\ r.mem = entry

-----------------------------------------------------------------------------
(* The manager *)

\* activation_report: whatever does not become active is unloaded
ActivationReport(p, start) ==
  IF p.state = "Active" THEN p
  ELSE LET tried == Activate(p, start)
       IN IF tried.state = "Active" THEN tried ELSE Unload(tried)

\* restore_lifecycle, for the states a package has between calls
RestoreLifecycle(p, state, start) ==
  CASE state = "Active" -> Activate(p, start)
    [] state = "Failed" -> IF Activate(p, start).state = "Active"
                           THEN Unload(Activate(p, start)) ELSE Activate(p, start)
    [] state = "Validated" -> p
    [] OTHER -> Unload(p)

\* rollback_upgrade with restore_permission_snapshot
Rollback(p, upgrade, start) ==
  RestoreLifecycle(
    [Replace(Unload(p), upgrade.old) EXCEPT !.granted = upgrade.granted,
                                            !.denied = upgrade.denied],
    upgrade.state, start)

\* Mutant: grants of the installed version carry over to the candidate
MutPlaced(p, candidate) ==
  [Replace(Unload(p), candidate) EXCEPT
     !.granted = @ \cup Required[candidate], !.denied = {}, !.pending = 0]

\* The first half of commit_upgrade: unload the old version, reset its authority,
\* grant what the review asked for and replace the package
Placed(p, candidate) ==
  [Replace(Unload(p), candidate) EXCEPT
     !.granted = Required[candidate], !.denied = {}, !.pending = 0]

\* The second half: the new version is started if the old one was active.  A
\* deferred start is settled later; a failed one is rolled back, and an upgrade
\* that had asked for permissions is pending again.
CommitUpgrade(p, candidate, start, back) ==
  LET upgrade == [old |-> p.held, state |-> p.state, granted |-> p.granted,
                  denied |-> p.denied]
      placed  == Placed(p, candidate)
      tried   == IF p.state = "Active" THEN ActivationReport(placed, start) ELSE Unload(placed)
  IN IF p.state = "Active" /\ tried.work
     THEN [result |-> "activating", pkg |-> [tried EXCEPT !.activating = upgrade]]
     ELSE IF p.state = "Active" /\ tried.state # "Active"
     THEN [result |-> "failed",
           pkg |-> [Rollback(tried, upgrade, back) EXCEPT
                      !.pending = IF Required[candidate] = {} THEN 0 ELSE candidate]]
     ELSE [result |-> "done", pkg |-> tried]

-----------------------------------------------------------------------------
(* Calls of the extension manager page *)

Spend(kind) == left[kind] > 0 /\ left' = [left EXCEPT ![kind] = @ - 1]

\* Somebody changes what is at a path
EditSource ==
  /\ Spend("edits")
  /\ \E path \in Paths, c \in Contents \cup {0} :
       sources' = [sources EXCEPT ![path] = c]
  /\ UNCHANGED <<pkg, reg, review, intent>>

\* preview_package: the package is loaded and shown
ReviewPackage ==
  /\ Spend("calls")
  /\ \E path \in Paths :
       /\ sources[path] # 0 /\ pkg.state # "Suspended"
       /\ review' = [path |-> path, content |-> sources[path], upgrade |-> pkg.held # 0]
  /\ UNCHANGED <<sources, pkg, reg, intent>>

\* install_reviewed: the package is loaded again and compared with the review
StillReviewed ==
  /\ sources[review.path] = review.content
  /\ review.upgrade = (pkg.held # 0)

\* A new package: install_reviewed_package stores it as inactive when it needs
\* permissions, then approve_package grants them, starts it and stores it again
NewPackage(candidate, start, write1, write2) ==
  LET placed  == [NoPackage EXCEPT !.held = candidate, !.state = "Validated",
                                   !.source = review.path]
      first   == ActivationReport(placed, start)
      waits   == Required[candidate] # {}
      stored  == Persist(reg, first, review.path, first.state = "Active", write1)
      kept    == Saved(stored, [NoEntry EXCEPT !.path = review.path, !.hash = candidate,
                                               !.enabled = first.state = "Active"])
      granted == ActivationReport([first EXCEPT !.granted = Required[candidate],
                                                !.source = NoPath], start)
  IN IF ~kept THEN [pkg |-> first, reg |-> stored, saved |-> FALSE]
     ELSE IF ~waits THEN [pkg |-> [first EXCEPT !.source = NoPath], reg |-> stored, saved |-> TRUE]
     ELSE [pkg |-> granted, saved |-> write2 = "ok",
           reg |-> Persist(stored, granted, NoPath, granted.state = "Active", write2)]

\* An upgrade to the installed content that asks for permissions
Again(candidate) == Required[candidate] # {} /\ candidate = pkg.held

\* install_reviewed_package stores such a package as inactive with its new path
\* before anything is approved
Restored(candidate, write) ==
  IF Again(candidate) THEN Persist(reg, pkg, review.path, FALSE, write) ELSE reg

\* An upgrade, approved in the same call when it asks for permissions: stored unless
\* its start is deferred or it was rolled back.  The path of the candidate is
\* pending from the first part of the call to the second, and stays so when the
\* start is deferred, when the approval of another content fails and when a
\* write of the first part fails
Upgraded(candidate, start, back, write1, write2) ==
  LET made   == CommitUpgrade(pkg, candidate, start, back)
      asked  == Required[candidate] # {}
      again  == Again(candidate)
      first  == Restored(candidate, write1)
      path   == IF again THEN NoPath ELSE review.path
      before == again \/ intent.saved
  IN IF again /\ write1 # "ok"
     THEN [pkg |-> [pkg EXCEPT !.pending = candidate, !.source = review.path],
           reg |-> first, saved |-> FALSE]
     ELSE CASE made.result = "activating" ->
                 [pkg |-> [made.pkg EXCEPT !.source = path], reg |-> first, saved |-> before]
            [] made.result = "failed" ->
                 [pkg |-> [made.pkg EXCEPT !.source = IF asked THEN path ELSE @],
                  reg |-> first, saved |-> before]
            [] made.result = "done" ->
                 [pkg |-> [made.pkg EXCEPT
                             !.source = IF asked \/ write2 = "ok" THEN NoPath
                                        ELSE review.path],
                  reg |-> Persist(first, made.pkg, path, made.pkg.state = "Active", write2),
                  saved |-> write2 = "ok"]

\* install_extension_after_review
ConfirmInstall ==
  /\ Spend("calls")
  /\ review # NoReview /\ StillReviewed /\ pkg.state # "Suspended"
  /\ \E start \in Starts, back \in Starts, w1, w2 \in Writes :
       LET c    == sources[review.path]
           done == IF pkg.held = 0 THEN NewPackage(c, start, w1, w2)
                   ELSE Upgraded(c, start, back, w1, w2)
       IN /\ pkg' = done.pkg /\ reg' = done.reg
          /\ intent' = [intent EXCEPT
               !.confirmed = @ \cup {review.content},
               !.consent = @ \cup {<<q, review.content>> : q \in Required[review.content]},
               !.wanted = @ \/ pkg.held = 0,
               !.saved = done.saved]
  /\ review' = NoReview
  /\ UNCHANGED sources

\* disable
Disabled(p) == Unload([p EXCEPT !.pending = 0, !.activating = NoUpgrade])

\* A call that ends with a write of the package without a new source
Manage(p, enabled, granted, wanted) ==
  /\ Spend("calls")
  /\ pkg.held # 0
  /\ \E write \in Writes :
       /\ reg' = Persist(reg, p, NoPath, enabled, write)
       /\ intent' = [intent EXCEPT
            !.consent = granted, !.wanted = wanted,
            !.saved = write = "ok" /\ MayPersist(reg, NoPath)]
  /\ pkg' = p
  /\ UNCHANGED <<sources, review>>

DisablePackage == Manage(Disabled(pkg), FALSE, intent.consent, FALSE)

\* enable_package: without its permissions it stays as it is
EnablePackage ==
  \E start \in Starts :
    LET ready == pkg.held # 0 /\ Required[pkg.held] \subseteq pkg.granted
        next  == IF ready THEN ActivationReport(pkg, start) ELSE pkg
    IN Manage(next, ready /\ next.state = "Active", intent.consent, TRUE)

\* set_permission_decision: without a required one the extension is unloaded
Decided(p, q, grant) ==
  LET set == [p EXCEPT !.granted = IF grant THEN @ \cup {q} ELSE @ \ {q},
                       !.denied = IF grant THEN @ \ {q} ELSE @ \cup {q}]
  IN IF q \in Required[p.held] /\ ~grant /\ p.state \in {"Active", "Suspended"}
     THEN Unload([set EXCEPT !.activating = NoUpgrade]) ELSE set

SetPackagePermission ==
  /\ pkg.held # 0
  /\ \E q \in Required[pkg.held] \cup Optional[pkg.held], grant \in BOOLEAN :
       LET next == Decided(pkg, q, grant)
           pair == IF grant THEN {<<q, pkg.held>>} ELSE {}
       IN Manage(next, next.state = "Active", intent.consent \cup pair, intent.wanted)

\* remove_package; a failed write keeps the pending source
RemovePackage ==
  /\ Spend("calls")
  /\ pkg.held # 0 \/ reg.mem # NoEntry
  /\ \E write \in Writes :
       /\ reg' = IF reg.mem = NoEntry THEN reg ELSE Commit(reg, NoEntry, write)
       /\ pkg' = [NoPackage EXCEPT !.source = IF write = "ok" \/ reg.mem = NoEntry
                                              THEN NoPath ELSE pkg.source]
       /\ intent' = [intent EXCEPT !.wanted = FALSE,
                                   !.saved = IF reg.mem = NoEntry THEN @ ELSE write = "ok"]
  /\ UNCHANGED <<sources, review>>

-----------------------------------------------------------------------------
(* Ticks, settlement and restarts *)

\* The result of a deferred activation is applied by a tick of the host
ActivationResult ==
  /\ pkg.work
  /\ \E ok \in BOOLEAN :
       pkg' = [pkg EXCEPT !.work = FALSE, !.state = IF ok THEN @ ELSE "Failed"]
  /\ UNCHANGED <<sources, reg, review, intent, left>>

\* The host suspends it for its violations; nothing in the application resumes it
HostSuspends ==
  /\ pkg.state = "Active"
  /\ pkg' = [pkg EXCEPT !.state = "Suspended"]
  /\ UNCHANGED <<sources, reg, review, intent, left>>

\* settle_package_activations with settle_activating_upgrades
SettleUpgrade ==
  /\ pkg.activating # NoUpgrade /\ ~pkg.work
  /\ \E start \in Starts, write \in Writes :
       LET settled == [pkg EXCEPT !.activating = NoUpgrade, !.source = NoPath]
       IN IF pkg.state = "Active"
          THEN /\ pkg' = settled
               /\ reg' = Persist(reg, settled, pkg.source, TRUE, write)
               /\ intent' = [intent EXCEPT !.saved = write = "ok" /\ MayPersist(reg, pkg.source)]
          ELSE /\ pkg' = Rollback(settled, pkg.activating, start)
               /\ UNCHANGED <<reg, intent>>
  /\ UNCHANGED <<sources, review, left>>

\* restore_registered: the identity of the content is checked
Matches(entry) == sources[entry.path] = entry.hash

\* restore_installable_extensions after the process has ended at any moment
Restart ==
  /\ LET entry == reg.file
         back  == [NoPackage EXCEPT !.held = sources[entry.path], !.state = "Validated",
                                    !.granted = entry.granted, !.denied = entry.denied]
     IN \E start \in Starts :
          /\ pkg' = IF entry = NoEntry \/ (entry.path # NoPath /\ ~Matches(entry))
                    THEN NoPackage
                    ELSE IF entry.enabled THEN ActivationReport(back, start) ELSE Unload(back)
          /\ intent' = IF intent.saved THEN intent
                       ELSE [intent EXCEPT !.saved = TRUE, !.wanted = entry.enabled]
  /\ reg' = [reg EXCEPT !.mem = reg.file]
  /\ review' = NoReview
  /\ UNCHANGED <<sources, left>>

-----------------------------------------------------------------------------

PkgInit ==
  /\ sources = [path \in Paths |-> 1]
  /\ pkg = NoPackage
  /\ reg = [file |-> NoEntry, mem |-> NoEntry]
  /\ review = NoReview
  /\ intent = [confirmed |-> {}, consent |-> {}, wanted |-> FALSE, saved |-> TRUE]
  /\ left = [edits |-> EditLimit, calls |-> CallLimit]

PkgNext ==
  \/ EditSource \/ ReviewPackage \/ ConfirmInstall
  \/ DisablePackage \/ EnablePackage \/ SetPackagePermission \/ RemovePackage
  \/ ActivationResult \/ HostSuspends \/ SettleUpgrade \/ Restart

PkgSpec == PkgInit /\ [][PkgNext]_pkgVars

-----------------------------------------------------------------------------
(* Properties *)

\* Every field has its type, and an upgrade that is settling keeps a way back.
PkgTypeOK ==
  /\ pkg.held \in Contents \cup {0}
  /\ pkg.state \in {"None", "Validated", "Active", "Suspended", "Disabled", "Failed"}
  /\ pkg.held = 0 <=> pkg.state = "None"
  /\ pkg.work => pkg.state \in {"Active", "Suspended"}
  /\ pkg.granted \cap pkg.denied = {}
  /\ pkg.activating # NoUpgrade => pkg.activating.old \in Contents
  /\ reg.mem = NoEntry <=> reg.mem.path = NoPath

\* An active extension runs a content the user has confirmed, with all the
\* permissions it requires, over changes of the source, upgrades, rollbacks,
\* revocations and restarts ("a changed source never inherits authority").
ActiveIsApproved ==
  pkg.state = "Active" =>
    pkg.held \in intent.confirmed /\ Required[pkg.held] \subseteq pkg.granted

\* No permission is held by a content for which the user never granted it: an
\* unsigned upgrade inherits nothing, and a rollback or a restart brings back
\* only what was granted to that content.
GrantsAreOwn == \A q \in pkg.granted : <<q, pkg.held>> \in intent.consent

\* An extension the user has disabled or removed stays off, also when an upgrade
\* of it was being activated, and after a restart.
DisabledStaysOff == ~intent.wanted => pkg.state # "Active"

\* What runs, with which permissions, is what the user has approved, through
\* failed writes, failed upgrades, changed sources and restarts.
UserDecides == PkgTypeOK /\ ActiveIsApproved /\ GrantsAreOwn /\ DisabledStaysOff
=============================================================================
