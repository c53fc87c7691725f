----------------------- MODULE PackageManagerProofs -----------------------
(* UserDecides of module PackageManager for every set of contents, paths and
   permissions, and for any number of edits and calls.

   UserDecides is not inductive: a rollback brings back the version an upgrade
   has kept, a restart what the registry's file holds.  The invariant says of each
   of the three places a package can be in (the manager, an upgrade that is
   settling, an entry of the registry) that its content was confirmed and its
   permissions were granted to that content, and of the registry that after a
   write that was reported as done the file agrees with what the user wants. *)
EXTENDS PackageManager, TLAPS

States == {"None", "Validated", "Active", "Suspended", "Disabled", "Failed"}

Upgrades == [old : Contents \cup {0}, state : States, granted : SUBSET Perms,
             denied : SUBSET Perms]

Packages == [held : Contents \cup {0}, state : States, work : BOOLEAN,
             granted : SUBSET Perms, denied : SUBSET Perms,
             pending : Contents \cup {0}, activating : Upgrades,
             source : Paths \cup {NoPath}]

Entries == [path : Paths \cup {NoPath}, hash : Contents \cup {0}, enabled : BOOLEAN,
            granted : SUBSET Perms, denied : SUBSET Perms]

Intents == [confirmed : SUBSET Contents, consent : SUBSET (Perms \X Contents),
            wanted : BOOLEAN, saved : BOOLEAN]

PackageTypes ==
  /\ sources \in [Paths -> Contents \cup {0}]
  /\ pkg \in Packages
  /\ reg \in [file : Entries, mem : Entries]
  /\ review \in [path : Paths \cup {NoPath}, content : Contents \cup {0}, upgrade : BOOLEAN]
  /\ intent \in Intents

-----------------------------------------------------------------------------
(* The invariant *)

\* The content was confirmed, and what it may do was granted to it
Approved(content, granted, denied, i) ==
  /\ content \in i.confirmed
  /\ \A q \in granted : <<q, content>> \in i.consent
  /\ granted \cap denied = {}

\* The version an upgrade can go back to was running
UpgradeApproved(u, i) ==
  u # NoUpgrade => u.state = "Active" /\ Approved(u.old, u.granted, u.denied, i)

\* What the manager and the host hold
PackageApproved(p, i) ==
  /\ p.held = 0 <=> p.state = "None"
  /\ p.held = 0 => p.granted = {} /\ p.denied = {} /\ p.activating = NoUpgrade
  /\ p.held # 0 => Approved(p.held, p.granted, p.denied, i)
  /\ p.work => p.state \in {"Active", "Suspended"}
  /\ p.state = "Active" => Required[p.held] \subseteq p.granted
  /\ UpgradeApproved(p.activating, i)

EntryApproved(e, i) ==
  e # NoEntry => e.path \in Paths /\ Approved(e.hash, e.granted, e.denied, i)

\* Something runs, or may run again, only if the user wants it
Wanted(p, i) == p.state = "Active" \/ p.activating # NoUpgrade => i.wanted

\* The file that a restart reads
FileAgrees(r, i) ==
  i.saved => r.file = r.mem /\ (r.file.enabled => i.wanted)

PackageInv ==
  /\ PackageTypes
  /\ PackageApproved(pkg, intent)
  /\ EntryApproved(reg.file, intent) /\ EntryApproved(reg.mem, intent)
  /\ review # NoReview => review.path \in Paths /\ review.content \in Contents
  /\ Wanted(pkg, intent)
  /\ FileAgrees(reg, intent)

-----------------------------------------------------------------------------
(* What the operators of the manager do to a package *)

\* The records of the manager are typed field by field
LEMMA PackageFields ==
  ASSUME NEW p \in Packages
  PROVE  /\ p.held \in Contents \cup {0} /\ p.state \in States /\ p.work \in BOOLEAN
         /\ p.granted \in SUBSET Perms /\ p.denied \in SUBSET Perms
         /\ p.pending \in Contents \cup {0} /\ p.activating \in Upgrades
         /\ p.source \in Paths \cup {NoPath}
  BY DEF Packages

\* The records that stand for nothing, and the permissions of a content
LEMMA Constant ==
  /\ NoUpgrade \in Upgrades /\ NoPackage \in Packages /\ NoEntry \in Entries
  /\ \A c \in Contents : Required[c] \in SUBSET Perms /\ Optional[c] \in SUBSET Perms
  /\ 0 \notin Contents /\ NoPath \notin Paths
  BY PackageAssumption DEF NoUpgrade, NoPackage, NoEntry, Upgrades, Packages, Entries, States

\* Every further confirmation and grant leaves approved what was approved
LEMMA ApprovalStays ==
  ASSUME NEW i \in Intents, NEW j \in Intents,
         i.confirmed \subseteq j.confirmed, i.consent \subseteq j.consent
  PROVE  /\ \A p \in Packages : PackageApproved(p, i) => PackageApproved(p, j)
         /\ \A e \in Entries : EntryApproved(e, i) => EntryApproved(e, j)
         /\ \A u \in Upgrades : UpgradeApproved(u, i) => UpgradeApproved(u, j)
  BY DEF PackageApproved, EntryApproved, UpgradeApproved, Approved

\* unload
LEMMA UnloadMoves ==
  ASSUME NEW p \in Packages
  PROVE  /\ Unload(p) \in Packages
         /\ Unload(p).state = "Disabled" /\ Unload(p).work = FALSE
         /\ Unload(p).held = p.held /\ Unload(p).granted = p.granted
         /\ Unload(p).denied = p.denied /\ Unload(p).activating = p.activating
         /\ Unload(p).source = p.source
  BY DEF Unload, Packages, States

\* activate: what starts has all it requires
LEMMA ActivateMoves ==
  ASSUME NEW p \in Packages, NEW start \in Starts
  PROVE  /\ Activate(p, start) \in Packages
         /\ Activate(p, start).state \in {"Active", "Failed", "Validated", "Suspended"}
         /\ Activate(p, start).state = "Active" => Required[p.held] \subseteq p.granted
         /\ Activate(p, start).work => Activate(p, start).state = "Active"
         /\ Activate(p, start).held = p.held /\ Activate(p, start).granted = p.granted
         /\ Activate(p, start).denied = p.denied
         /\ Activate(p, start).activating = p.activating
         /\ Activate(p, start).source = p.source
  BY DEF Activate, Packages, States, Starts

\* activation_report: a package is active or unloaded afterwards
LEMMA ReportMoves ==
  ASSUME NEW p \in Packages, NEW start \in Starts
  PROVE  /\ ActivationReport(p, start) \in Packages
         /\ ActivationReport(p, start).state \in {"Active", "Disabled"}
         /\ ActivationReport(p, start).state = "Active" =>
              p.state = "Active" \/ Required[p.held] \subseteq p.granted
         /\ ActivationReport(p, start).work =>
              ActivationReport(p, start).state = "Active"
         /\ ActivationReport(p, start).held = p.held
         /\ ActivationReport(p, start).granted = p.granted
         /\ ActivationReport(p, start).denied = p.denied
         /\ ActivationReport(p, start).activating = p.activating
         /\ ActivationReport(p, start).source = p.source
<1> DEFINE tried == Activate(p, start)
<1>1. CASE p.state = "Active"
  BY <1>1 DEF ActivationReport
<1>2. CASE p.state # "Active" /\ tried.state = "Active"
  <2>1. ActivationReport(p, start) = tried
    BY <1>2 DEF ActivationReport
  <2> QED BY <1>2, <2>1, ActivateMoves
<1>3. CASE p.state # "Active" /\ tried.state # "Active"
  <2>1. ActivationReport(p, start) = Unload(tried)
    BY <1>3 DEF ActivationReport
  <2>2. /\ tried \in Packages /\ tried.held = p.held /\ tried.granted = p.granted
        /\ tried.denied = p.denied /\ tried.activating = p.activating
        /\ tried.source = p.source
    BY ActivateMoves
  <2> HIDE DEF tried
  <2> QED BY <2>1, <2>2, UnloadMoves
<1> QED BY <1>1, <1>2, <1>3

\* The rollback of an upgrade of a running version: the kept content with the kept
\* permissions, which is active only with what it requires
LEMMA RollbackMoves ==
  ASSUME NEW p \in Packages, NEW u \in Upgrades, NEW start \in Starts, u.state = "Active"
  PROVE  /\ Rollback(p, u, start) \in Packages
         /\ Rollback(p, u, start).state \in {"Active", "Failed", "Validated", "Suspended"}
         /\ Rollback(p, u, start).state = "Active" => Required[u.old] \subseteq u.granted
         /\ Rollback(p, u, start).work => Rollback(p, u, start).state = "Active"
         /\ Rollback(p, u, start).held = u.old
         /\ Rollback(p, u, start).granted = u.granted
         /\ Rollback(p, u, start).denied = u.denied
         /\ Rollback(p, u, start).activating = p.activating
         /\ Rollback(p, u, start).source = p.source
<1> DEFINE kept == [Replace(Unload(p), u.old) EXCEPT !.granted = u.granted,
                                                    !.denied = u.denied]
<1>1. /\ kept \in Packages /\ kept.held = u.old /\ kept.granted = u.granted
      /\ kept.denied = u.denied /\ kept.activating = p.activating
      /\ kept.source = p.source
  BY UnloadMoves DEF Replace, Packages, Upgrades, States
<1>2. Rollback(p, u, start) = Activate(kept, start)
  BY DEF Rollback, RestoreLifecycle
<1> HIDE DEF kept
<1> QED BY <1>1, <1>2, ActivateMoves

\* The first half of an upgrade
LEMMA PlacedMoves ==
  ASSUME NEW p \in Packages, NEW c \in Contents
  PROVE  /\ Placed(p, c) \in Packages
         /\ Placed(p, c).held = c /\ Placed(p, c).state = "Validated"
         /\ Placed(p, c).work = FALSE
         /\ Placed(p, c).granted = Required[c] /\ Placed(p, c).denied = {}
         /\ Placed(p, c).activating = p.activating
         /\ Placed(p, c).source = p.source
  BY UnloadMoves, Constant DEF Placed, Replace, Packages, States


-----------------------------------------------------------------------------
(* What becomes of the approval *)

\* Whatever starts or ends, a package keeps its content and its permissions
LEMMA ReportApproved ==
  ASSUME NEW i \in Intents, NEW p \in Packages, NEW start \in Starts,
         Approved(p.held, p.granted, p.denied, i), UpgradeApproved(p.activating, i),
         p.state = "Active" => Required[p.held] \subseteq p.granted
  PROVE  /\ PackageApproved(ActivationReport(p, start), i)
         /\ PackageApproved(Unload(p), i)
<1>1. p.held # 0
  BY Constant DEF Approved, Intents
<1>2. PackageApproved(Unload(p), i)
  BY <1>1, UnloadMoves DEF PackageApproved
<1>3. PackageApproved(ActivationReport(p, start), i)
  <2> DEFINE q == ActivationReport(p, start)
  <2>1. /\ q \in Packages /\ q.state \in {"Active", "Disabled"}
        /\ q.state = "Active" => p.state = "Active" \/ Required[p.held] \subseteq p.granted
        /\ q.work => q.state = "Active"
        /\ q.held = p.held /\ q.granted = p.granted /\ q.denied = p.denied
        /\ q.activating = p.activating
    BY ReportMoves
  <2> HIDE DEF q
  <2> QED BY <1>1, <2>1 DEF PackageApproved, q
<1> QED BY <1>2, <1>3

\* A rollback brings back what was approved
LEMMA RollbackApproved ==
  ASSUME NEW i \in Intents, NEW p \in Packages, NEW u \in Upgrades, NEW start \in Starts,
         u.state = "Active", Approved(u.old, u.granted, u.denied, i),
         UpgradeApproved(p.activating, i)
  PROVE  PackageApproved(Rollback(p, u, start), i)
<1> DEFINE q == Rollback(p, u, start)
<1>1. u.old # 0
  BY Constant DEF Approved, Intents
<1>2. /\ q \in Packages /\ q.state \in {"Active", "Failed", "Validated", "Suspended"}
      /\ q.state = "Active" => Required[u.old] \subseteq u.granted
      /\ q.work => q.state = "Active"
      /\ q.held = u.old /\ q.granted = u.granted /\ q.denied = u.denied
      /\ q.activating = p.activating
  BY RollbackMoves
<1> HIDE DEF q
<1> QED BY <1>1, <1>2 DEF PackageApproved, q

\* What the user has confirmed once a candidate is installed
Confirming(i, candidate) ==
  /\ candidate \in i.confirmed
  /\ \A q \in Required[candidate] : <<q, candidate>> \in i.consent

\* An upgrade ends with the candidate, with the candidate settling, or with the
\* installed version again, each of them approved; it runs something only if the
\* installed version was running
LEMMA UpgradeMoves ==
  ASSUME NEW i \in Intents, NEW p \in Packages, NEW c \in Contents,
         NEW start \in Starts, NEW back \in Starts,
         p.held # 0, PackageApproved(p, i), Confirming(i, c)
  PROVE  LET made == CommitUpgrade(p, c, start, back)
         IN /\ made.pkg \in Packages /\ PackageApproved(made.pkg, i)
            /\ made.result \in {"activating", "failed", "done"}
            /\ made.pkg.state = "Active" => p.state = "Active"
            /\ made.pkg.activating # NoUpgrade =>
                 p.state = "Active" \/ p.activating # NoUpgrade
            /\ made.pkg.held # 0
<1> DEFINE upgrade == [old |-> p.held, state |-> p.state, granted |-> p.granted,
                       denied |-> p.denied]
           placed  == Placed(p, c)
           tried   == IF p.state = "Active" THEN ActivationReport(placed, start)
                      ELSE Unload(placed)
           made    == CommitUpgrade(p, c, start, back)
<1>1. /\ upgrade \in Upgrades
      /\ p.state = "Active" => upgrade.state = "Active"
                               /\ Approved(upgrade.old, upgrade.granted, upgrade.denied, i)
  BY DEF Upgrades, Packages, PackageApproved
<1>2. /\ placed \in Packages /\ placed.held = c /\ placed.state = "Validated"
      /\ Approved(placed.held, placed.granted, placed.denied, i)
      /\ UpgradeApproved(placed.activating, i)
      /\ placed.activating = p.activating
  <2>1. /\ placed \in Packages /\ placed.held = c /\ placed.state = "Validated"
        /\ placed.granted = Required[c] /\ placed.denied = {}
        /\ placed.activating = p.activating
    BY PlacedMoves
  <2> HIDE DEF placed
  <2> QED BY <2>1 DEF PackageApproved, Approved, Confirming
<1>3. /\ tried \in Packages /\ PackageApproved(tried, i) /\ tried.held = c
      /\ tried.activating = p.activating
      /\ tried.state = "Active" => p.state = "Active"
  <2> HIDE DEF placed
  <2>1. CASE p.state = "Active"
    BY <1>2, <2>1, ReportMoves, ReportApproved
  <2>2. CASE p.state # "Active"
    BY <1>2, <2>2, UnloadMoves, ReportApproved
  <2> QED BY <2>1, <2>2
<1>4. made =
        IF p.state = "Active" /\ tried.work
        THEN [result |-> "activating", pkg |-> [tried EXCEPT !.activating = upgrade]]
        ELSE IF p.state = "Active" /\ tried.state # "Active"
        THEN [result |-> "failed",
              pkg |-> [Rollback(tried, upgrade, back) EXCEPT
                         !.pending = IF Required[c] = {} THEN 0 ELSE c]]
        ELSE [result |-> "done", pkg |-> tried]
  BY DEF CommitUpgrade
<1>5. UpgradeApproved(p.activating, i) /\ c # 0 /\ p.held # 0
  BY Constant DEF PackageApproved
<1> HIDE DEF upgrade, placed, tried, made
<1>6. CASE p.state = "Active" /\ tried.work
  <2> DEFINE q == [tried EXCEPT !.activating = upgrade]
  <2>1. /\ q \in Packages /\ q.held = tried.held /\ q.state = tried.state
        /\ q.work = tried.work /\ q.granted = tried.granted /\ q.denied = tried.denied
        /\ q.activating = upgrade
    BY <1>1, <1>3 DEF Packages
  <2>2. made.pkg = q /\ made.result = "activating"
    BY <1>4, <1>6
  <2> HIDE DEF q
  <2>3. PackageApproved(q, i)
    BY <1>1, <1>3, <1>5, <1>6, <2>1 DEF PackageApproved, UpgradeApproved
  <2> QED BY <1>3, <1>5, <1>6, <2>1, <2>2, <2>3 DEF made
<1>7. CASE p.state = "Active" /\ ~tried.work /\ tried.state # "Active"
  <2> DEFINE r == Rollback(tried, upgrade, back)
             q == [r EXCEPT !.pending = IF Required[c] = {} THEN 0 ELSE c]
  <2>1. /\ r \in Packages /\ PackageApproved(r, i) /\ r.held = upgrade.old
        /\ r.activating = p.activating
    BY <1>1, <1>3, <1>5, <1>7, RollbackMoves, RollbackApproved
  <2>2. made.pkg = q /\ made.result = "failed"
    BY <1>4, <1>7
  <2> HIDE DEF r
  <2>3. /\ q \in Packages /\ q.held = r.held /\ q.state = r.state
        /\ q.work = r.work /\ q.granted = r.granted /\ q.denied = r.denied
        /\ q.activating = r.activating
    BY <2>1, Constant DEF Packages
  <2> HIDE DEF q
  <2>4. PackageApproved(q, i)
    BY <2>1, <2>3 DEF PackageApproved
  <2>5. upgrade.old # 0
    BY <1>5 DEF upgrade
  <2> QED BY <1>7, <2>1, <2>2, <2>3, <2>4, <2>5 DEF made
<1>8. CASE ~(p.state = "Active" /\ tried.work) /\ ~(p.state = "Active" /\ tried.state # "Active")
  <2>1. made.pkg = tried /\ made.result = "done"
    BY <1>4, <1>8
  <2> QED BY <1>3, <1>5, <1>8, <2>1 DEF made
<1> QED BY <1>6, <1>7, <1>8, <1>3 DEF made

\* The registry after a write: a file and a memory that are the new entry or what
\* they were, and both the new entry when the write is reported as done
LEMMA PersistMoves ==
  ASSUME NEW r \in [file : Entries, mem : Entries], NEW p \in Packages,
         NEW source \in Paths \cup {NoPath}, NEW enabled \in BOOLEAN, NEW write \in Writes,
         NEW i \in Intents, EntryApproved(r.file, i), EntryApproved(r.mem, i),
         Approved(p.held, p.granted, p.denied, i)
  PROVE  LET next == Persist(r, p, source, enabled, write)
         IN /\ next \in [file : Entries, mem : Entries]
            /\ EntryApproved(next.file, i) /\ EntryApproved(next.mem, i)
            /\ write = "ok" /\ MayPersist(r, source) =>
                 /\ next.file = next.mem /\ next.file.enabled = enabled
                 /\ next.mem.path = PathOf(r, source)
<1> DEFINE entry == [path |-> PathOf(r, source), hash |-> p.held, enabled |-> enabled,
                     granted |-> p.granted, denied |-> p.denied]
           next == Persist(r, p, source, enabled, write)
<1>1. /\ entry \in Entries /\ entry.enabled = enabled
      /\ entry.path = PathOf(r, source)
      /\ Approved(entry.hash, entry.granted, entry.denied, i)
      /\ PathOf(r, source) # NoPath => entry.path \in Paths
  BY DEF Entries, Packages, PathOf
<1>2. CASE ~MayPersist(r, source)
  BY <1>2 DEF Persist
<1>3. CASE MayPersist(r, source)
  <2>1. next = [file |-> IF write = "fails" THEN r.file ELSE entry,
                mem |-> IF write = "ok" THEN entry ELSE r.mem]
    BY <1>3 DEF Persist, Commit
  <2>2. EntryApproved(entry, i)
    BY <1>1, <1>3 DEF EntryApproved, MayPersist
  <2> HIDE DEF entry, next
  <2>3. next.file \in {r.file, entry} /\ next.mem \in {r.mem, entry}
    BY <2>1
  <2>4. next \in [file : Entries, mem : Entries]
    BY <1>1, <2>1
  <2>5. EntryApproved(next.file, i) /\ EntryApproved(next.mem, i)
    BY <2>2, <2>3
  <2>6. write = "ok" => next.file = entry /\ next.mem = entry
    BY <2>1
  <2> QED BY <1>1, <2>4, <2>5, <2>6 DEF next
<1> QED BY <1>2, <1>3

\* A first installation.  It is stored, started and, when it asks for permissions,
\* approved and stored again; an error after any of these steps leaves an approved
\* package and an approved registry, and only a stored one is reported as such.
LEMMA NewMoves ==
  ASSUME PackageTypes, NEW i \in Intents, NEW c \in Contents, Confirming(i, c),
         review.path \in Paths, sources[review.path] = c,
         EntryApproved(reg.file, i), EntryApproved(reg.mem, i),
         NEW start \in Starts, NEW w1 \in Writes, NEW w2 \in Writes
  PROVE  LET done == NewPackage(c, start, w1, w2)
         IN /\ done.pkg \in Packages /\ PackageApproved(done.pkg, i)
            /\ done.reg \in [file : Entries, mem : Entries] /\ done.saved \in BOOLEAN
            /\ EntryApproved(done.reg.file, i) /\ EntryApproved(done.reg.mem, i)
            /\ done.saved => done.reg.file = done.reg.mem
<1> DEFINE placed  == [NoPackage EXCEPT !.held = c, !.state = "Validated",
                                        !.source = review.path]
           first   == ActivationReport(placed, start)
           stored  == Persist(reg, first, review.path, first.state = "Active", w1)
           kept    == Saved(stored, [NoEntry EXCEPT !.path = review.path, !.hash = c,
                                               !.enabled = first.state = "Active"])
           asked   == [first EXCEPT !.granted = Required[c], !.source = NoPath]
           granted == ActivationReport(asked, start)
           runs    == granted.state = "Active"
           last    == Persist(stored, granted, NoPath, runs, w2)
           done    == NewPackage(c, start, w1, w2)
<1>1. /\ placed \in Packages /\ placed.held = c /\ placed.state = "Validated"
      /\ placed.granted = {} /\ placed.denied = {} /\ placed.activating = NoUpgrade
  BY Constant DEF NoPackage, Packages, States
<1> HIDE DEF placed
<1>2. Approved(placed.held, placed.granted, placed.denied, i)
      /\ UpgradeApproved(placed.activating, i)
  BY <1>1 DEF Approved, Confirming, UpgradeApproved
<1>3. /\ first \in Packages /\ PackageApproved(first, i) /\ first.held = c
      /\ first.granted = {} /\ first.denied = {} /\ first.activating = NoUpgrade
      /\ first.state = "Active" => Required[c] = {}
  BY <1>1, <1>2, ReportMoves, ReportApproved
<1> HIDE DEF first
<1>4. Approved(first.held, first.granted, first.denied, i)
  BY <1>1, <1>2, <1>3
<1>5. /\ stored \in [file : Entries, mem : Entries]
      /\ EntryApproved(stored.file, i) /\ EntryApproved(stored.mem, i)
  BY <1>3, <1>4, PersistMoves DEF PackageTypes
<1>6. kept => stored.file = stored.mem
  BY DEF Saved
<1>7. kept => stored.mem.path = review.path
  BY Constant DEF Saved, NoEntry
<1> HIDE DEF stored, kept
<1>8. /\ asked \in Packages /\ asked.held = c /\ asked.granted = Required[c]
      /\ asked.denied = {} /\ asked.activating = NoUpgrade /\ asked.state = first.state
  BY <1>3, Constant DEF Packages
<1> HIDE DEF asked
<1>9. /\ Approved(asked.held, asked.granted, asked.denied, i)
      /\ UpgradeApproved(asked.activating, i)
      /\ asked.state = "Active" => Required[asked.held] \subseteq asked.granted
  BY <1>8 DEF Approved, Confirming, UpgradeApproved
<1>10. /\ granted \in Packages /\ PackageApproved(granted, i)
       /\ Approved(granted.held, granted.granted, granted.denied, i)
  BY <1>8, <1>9, ReportMoves, ReportApproved
<1>0. runs \in BOOLEAN
  OBVIOUS
<1> HIDE DEF granted, runs
<1>11. /\ last \in [file : Entries, mem : Entries]
       /\ EntryApproved(last.file, i) /\ EntryApproved(last.mem, i)
       /\ w2 = "ok" /\ MayPersist(stored, NoPath) => last.file = last.mem
  BY <1>0, <1>5, <1>10, PersistMoves
<1>12. kept => MayPersist(stored, NoPath)
  BY <1>7, Constant DEF MayPersist, PathOf
<1>13. done = IF ~kept THEN [pkg |-> first, reg |-> stored, saved |-> FALSE]
              ELSE IF ~(Required[c] # {})
              THEN [pkg |-> [first EXCEPT !.source = NoPath], reg |-> stored, saved |-> TRUE]
              ELSE [pkg |-> granted, saved |-> w2 = "ok", reg |-> last]
  BY DEF NewPackage, placed, first, stored, kept, asked, granted, runs, last
<1> HIDE DEF last, done
<1>14. CASE ~kept
  BY <1>3, <1>5, <1>13, <1>14 DEF done
<1>15. CASE kept /\ Required[c] = {}
  <2> DEFINE q == [first EXCEPT !.source = NoPath]
  <2>1. /\ q \in Packages /\ q.held = first.held /\ q.state = first.state
        /\ q.work = first.work /\ q.granted = first.granted /\ q.denied = first.denied
        /\ q.activating = first.activating
    BY <1>3 DEF Packages
  <2>2. done.pkg = q /\ done.reg = stored /\ done.saved = TRUE
    BY <1>13, <1>15
  <2> HIDE DEF q
  <2>3. PackageApproved(q, i)
    BY <1>3, <2>1 DEF PackageApproved
  <2> QED BY <1>5, <1>6, <1>15, <2>1, <2>2, <2>3 DEF done
<1>16. CASE kept /\ Required[c] # {}
  <2>1. done.pkg = granted /\ done.reg = last /\ done.saved = (w2 = "ok")
    BY <1>13, <1>16
  <2> QED BY <1>10, <1>11, <1>12, <1>16, <2>1 DEF done
<1> QED BY <1>14, <1>15, <1>16

\* An upgrade, with what is stored of it
LEMMA UpgradedMoves ==
  ASSUME PackageTypes, NEW i \in Intents, NEW c \in Contents, Confirming(i, c),
         review.path \in Paths, sources[review.path] = c,
         pkg.held # 0, PackageApproved(pkg, i), Wanted(pkg, i),
         EntryApproved(reg.file, i), EntryApproved(reg.mem, i),
         intent.saved => reg.file = reg.mem /\ (reg.file.enabled => i.wanted),
         NEW start \in Starts, NEW back \in Starts,
         NEW write1 \in Writes, NEW write2 \in Writes
  PROVE  LET done == Upgraded(c, start, back, write1, write2)
         IN /\ done.pkg \in Packages /\ PackageApproved(done.pkg, i) /\ Wanted(done.pkg, i)
            /\ done.reg \in [file : Entries, mem : Entries] /\ done.saved \in BOOLEAN
            /\ EntryApproved(done.reg.file, i) /\ EntryApproved(done.reg.mem, i)
            /\ done.saved => done.reg.file = done.reg.mem
                             /\ (done.reg.file.enabled => i.wanted)
<1> DEFINE made == CommitUpgrade(pkg, c, start, back)
           done == Upgraded(c, start, back, write1, write2)
           asked == Required[c] # {}
           again == Again(c)
           first == Restored(c, write1)
           path == IF again THEN NoPath ELSE review.path
           before == again \/ intent.saved
<1>1. /\ made.pkg \in Packages /\ PackageApproved(made.pkg, i)
      /\ made.result \in {"activating", "failed", "done"}
      /\ made.pkg.state = "Active" => pkg.state = "Active"
      /\ made.pkg.activating # NoUpgrade =>
           pkg.state = "Active" \/ pkg.activating # NoUpgrade
      /\ made.pkg.held # 0
  BY UpgradeMoves DEF PackageTypes
<1>2. Wanted(made.pkg, i)
  BY <1>1 DEF Wanted
<1>3. done =
        IF again /\ write1 # "ok"
        THEN [pkg |-> [pkg EXCEPT !.pending = c, !.source = review.path],
              reg |-> first, saved |-> FALSE]
        ELSE CASE made.result = "activating" ->
                    [pkg |-> [made.pkg EXCEPT !.source = path], reg |-> first, saved |-> before]
               [] made.result = "failed" ->
                    [pkg |-> [made.pkg EXCEPT !.source = IF asked THEN path ELSE @],
                     reg |-> first, saved |-> before]
               [] made.result = "done" ->
                    [pkg |-> [made.pkg EXCEPT
                                !.source = IF asked \/ write2 = "ok" THEN NoPath
                                           ELSE review.path],
                     reg |-> Persist(first, made.pkg, path, made.pkg.state = "Active", write2),
                     saved |-> write2 = "ok"]
  BY DEF Upgraded
<1>4. /\ reg \in [file : Entries, mem : Entries] /\ intent.saved \in BOOLEAN
      /\ pkg \in Packages /\ again \in BOOLEAN /\ path \in Paths \cup {NoPath}
  BY DEF PackageTypes, Intents, Again
\* What is stored before the approval is inactive
<1>5. /\ first \in [file : Entries, mem : Entries]
      /\ EntryApproved(first.file, i) /\ EntryApproved(first.mem, i)
      /\ ~again => first = reg
      /\ again /\ write1 = "ok" => /\ first.file = first.mem
                                  /\ first.file.enabled = FALSE
                                  /\ first.mem.path = review.path
  <2>1. CASE ~again
    BY <1>4, <2>1 DEF Restored
  <2>2. CASE again
    <3>1. first = Persist(reg, pkg, review.path, FALSE, write1)
      BY <2>2 DEF Restored
    <3>2. Approved(pkg.held, pkg.granted, pkg.denied, i)
      BY DEF PackageApproved
    <3>3. MayPersist(reg, review.path) /\ PathOf(reg, review.path) = review.path
      BY Constant DEF MayPersist, PathOf
    <3> DEFINE off == FALSE
               next == Persist(reg, pkg, review.path, off, write1)
    <3>0. off \in BOOLEAN /\ review.path \in Paths \cup {NoPath}
      OBVIOUS
    <3>6. first = next
      BY <3>1
    <3> HIDE DEF off
    <3>4. /\ next \in [file : Entries, mem : Entries]
          /\ EntryApproved(next.file, i) /\ EntryApproved(next.mem, i)
          /\ write1 = "ok" /\ MayPersist(reg, review.path) =>
               /\ next.file = next.mem /\ next.file.enabled = off
               /\ next.mem.path = PathOf(reg, review.path)
      BY <1>4, <3>0, <3>2, PersistMoves
    <3> HIDE DEF next, first
    <3> QED BY <2>2, <3>3, <3>4, <3>6 DEF off
  <2> QED BY <2>1, <2>2
<1>6. first.file \in Entries /\ first.mem \in Entries /\ before \in BOOLEAN
      /\ (before /\ ~(again /\ write1 # "ok") =>
            first.file = first.mem /\ (first.file.enabled => i.wanted))
  BY <1>4, <1>5
<1> HIDE DEF made, done, first, again, path, before
\* Only the pending source of the package is changed
<1>7. ASSUME NEW p \in Packages, PackageApproved(p, i), Wanted(p, i),
             NEW source \in Paths \cup {NoPath}, NEW pending \in Contents \cup {0}
      PROVE  LET q == [p EXCEPT !.pending = pending, !.source = source]
             IN q \in Packages /\ PackageApproved(q, i) /\ Wanted(q, i)
  <2> DEFINE q == [p EXCEPT !.pending = pending, !.source = source]
  <2>1. /\ q \in Packages /\ q.held = p.held /\ q.state = p.state
        /\ q.work = p.work /\ q.granted = p.granted
        /\ q.denied = p.denied /\ q.activating = p.activating
    BY DEF Packages
  <2> HIDE DEF q
  <2>2. PackageApproved(q, i) /\ Wanted(q, i)
    BY <1>7, <2>1 DEF PackageApproved, Wanted
  <2> QED BY <2>1, <2>2 DEF q
<1>8. ASSUME NEW source \in Paths \cup {NoPath}
      PROVE  LET q == [made.pkg EXCEPT !.source = source]
             IN q \in Packages /\ PackageApproved(q, i) /\ Wanted(q, i)
  <2> DEFINE q == [made.pkg EXCEPT !.source = source]
  <2>1. made.pkg.pending \in Contents \cup {0}
    BY <1>1, PackageFields
  <2>2. q = [made.pkg EXCEPT !.pending = made.pkg.pending, !.source = source]
    BY <1>1 DEF Packages
  <2> QED BY <1>1, <1>2, <1>7, <2>1, <2>2
<1>9. made.pkg.source \in Paths \cup {NoPath} /\ NoPath \in Paths \cup {NoPath}
      /\ review.path \in Paths \cup {NoPath}
  BY <1>1, PackageFields
<1>10. CASE again /\ write1 # "ok"
  <2>1. /\ done.pkg = [pkg EXCEPT !.pending = c, !.source = review.path]
        /\ done.reg = first /\ done.saved = FALSE
    BY <1>3, <1>10
  <2>3. c \in Contents \cup {0}
    OBVIOUS
  <2> DEFINE q == [pkg EXCEPT !.pending = c, !.source = review.path]
  <2>4. q \in Packages /\ PackageApproved(q, i) /\ Wanted(q, i)
    BY <1>4, <1>7, <1>9, <2>3
  <2> HIDE DEF q
  <2>2. done.pkg \in Packages /\ PackageApproved(done.pkg, i) /\ Wanted(done.pkg, i)
    BY <2>1, <2>4 DEF q
  <2> QED BY <1>5, <2>1, <2>2 DEF done
<1>11. CASE ~(again /\ write1 # "ok") /\ made.result \in {"activating", "failed"}
  <2>1. done.reg = first /\ done.saved = before
    BY <1>3, <1>11
  <2>2. \E source \in Paths \cup {NoPath} : done.pkg = [made.pkg EXCEPT !.source = source]
    <3>1. CASE made.result = "activating"
      BY <1>3, <1>4, <1>11, <3>1
    <3>2. CASE made.result = "failed" /\ asked
      BY <1>3, <1>4, <1>11, <3>2
    <3>3. CASE made.result = "failed" /\ ~asked
      BY <1>3, <1>9, <1>11, <3>3
    <3> QED BY <1>11, <3>1, <3>2, <3>3
  <2>3. done.pkg \in Packages /\ PackageApproved(done.pkg, i) /\ Wanted(done.pkg, i)
    BY <1>8, <2>2
  <2> QED BY <1>5, <1>6, <1>11, <2>1, <2>3 DEF done
<1>12. CASE ~(again /\ write1 # "ok") /\ made.result = "done"
  <2> DEFINE runs == made.pkg.state = "Active"
             next == Persist(first, made.pkg, path, runs, write2)
  <2>1. done.reg = next /\ done.saved = (write2 = "ok")
    BY <1>3, <1>12
  <2>2. \E source \in Paths \cup {NoPath} : done.pkg = [made.pkg EXCEPT !.source = source]
    <3>1. CASE asked \/ write2 = "ok"
      BY <1>3, <1>12, <3>1
    <3>2. CASE ~(asked \/ write2 = "ok")
      BY <1>3, <1>9, <1>12, <3>2
    <3> QED BY <3>1, <3>2
  <2>3. done.pkg \in Packages /\ PackageApproved(done.pkg, i) /\ Wanted(done.pkg, i)
    BY <1>8, <2>2
  <2>4. Approved(made.pkg.held, made.pkg.granted, made.pkg.denied, i)
    BY <1>1 DEF PackageApproved
  <2>5. MayPersist(first, path)
    BY <1>5, <1>12, Constant DEF MayPersist, PathOf, path
  <2>0. runs \in BOOLEAN
    OBVIOUS
  <2> HIDE DEF runs
  <2>6. /\ next \in [file : Entries, mem : Entries]
        /\ EntryApproved(next.file, i) /\ EntryApproved(next.mem, i)
        /\ write2 = "ok" => next.file = next.mem /\ next.file.enabled = runs
    BY <1>1, <1>4, <1>5, <2>0, <2>4, <2>5, PersistMoves
  <2> HIDE DEF next
  <2>7. done.saved => next.file = next.mem /\ (next.file.enabled => i.wanted)
    BY <1>2, <2>1, <2>6 DEF Wanted, runs
  <2> QED BY <2>1, <2>3, <2>6, <2>7 DEF done
<1> QED BY <1>1, <1>10, <1>11, <1>12

-----------------------------------------------------------------------------
(* The invariant is kept *)

\* The invariant holds at the beginning
LEMMA InvInit == PkgInit => PackageInv
<1> SUFFICES ASSUME PkgInit PROVE PackageInv
  OBVIOUS
<1>1. PackageTypes
  BY Constant, PackageAssumption
     DEF PkgInit, PackageTypes, Intents, NoReview, NoEntry, Entries
<1>2. PackageApproved(pkg, intent) /\ Wanted(pkg, intent)
  BY DEF PkgInit, PackageApproved, UpgradeApproved, Wanted, NoPackage
<1>3. EntryApproved(reg.file, intent) /\ EntryApproved(reg.mem, intent)
      /\ FileAgrees(reg, intent)
  BY DEF PkgInit, EntryApproved, FileAgrees, NoEntry
<1> QED BY <1>1, <1>2, <1>3 DEF PackageInv, PkgInit

\* A call that ends with a write of the package without a new source
LEMMA ManageKeeps ==
  ASSUME PackageInv, NEW p \in Packages, NEW enabled \in BOOLEAN, NEW granted,
         NEW wanted \in BOOLEAN, Manage(p, enabled, granted, wanted),
         granted \in SUBSET (Perms \X Contents), intent.consent \subseteq granted,
         p.held # 0,
         PackageApproved(p, [intent EXCEPT !.consent = granted]),
         p.state = "Active" \/ p.activating # NoUpgrade => wanted,
         enabled => wanted
  PROVE  PackageInv'
<1> PICK write \in Writes :
      /\ reg' = Persist(reg, p, NoPath, enabled, write)
      /\ intent' = [intent EXCEPT !.consent = granted, !.wanted = wanted,
                      !.saved = write = "ok" /\ MayPersist(reg, NoPath)]
  BY DEF Manage
<1>1. pkg' = p /\ sources' = sources /\ review' = review
  BY DEF Manage
<1>2. PackageTypes
  BY DEF PackageInv
<1>3. /\ intent' \in Intents
      /\ intent'.confirmed = intent.confirmed /\ intent'.consent = granted
      /\ intent'.wanted = wanted
      /\ intent'.saved = (write = "ok" /\ MayPersist(reg, NoPath))
  BY <1>2 DEF PackageTypes, Intents
<1>4. intent \in Intents /\ reg \in [file : Entries, mem : Entries]
      /\ reg.file \in Entries /\ reg.mem \in Entries
  BY <1>2 DEF PackageTypes
<1>5. EntryApproved(reg.file, intent') /\ EntryApproved(reg.mem, intent')
  BY <1>3, <1>4, ApprovalStays DEF PackageInv
<1>6. PackageApproved(p, intent')
  <2>1. /\ [intent EXCEPT !.consent = granted].confirmed = intent'.confirmed
        /\ [intent EXCEPT !.consent = granted].consent = intent'.consent
    BY <1>3, <1>4 DEF Intents
  <2> QED BY <2>1 DEF PackageApproved, Approved, UpgradeApproved
<1>7. Approved(p.held, p.granted, p.denied, intent')
  BY <1>6 DEF PackageApproved
<1>8. /\ reg' \in [file : Entries, mem : Entries]
      /\ EntryApproved(reg'.file, intent') /\ EntryApproved(reg'.mem, intent')
      /\ write = "ok" /\ MayPersist(reg, NoPath) =>
           reg'.file = reg'.mem /\ reg'.file.enabled = enabled
  BY <1>3, <1>4, <1>5, <1>7, PersistMoves
<1>9. FileAgrees(reg, intent)'
  BY <1>3, <1>8 DEF FileAgrees
<1>10. PackageTypes'
  BY <1>1, <1>2, <1>3, <1>8 DEF PackageTypes
<1>11. Wanted(pkg, intent)'
  BY <1>1, <1>3 DEF Wanted
<1>12. (review # NoReview => review.path \in Paths /\ review.content \in Contents)'
  BY <1>1 DEF PackageInv, NoReview
<1> QED BY <1>1, <1>6, <1>8, <1>9, <1>10, <1>11, <1>12 DEF PackageInv

\* The consent of the user stays as it is in most calls
LEMMA SameConsent ==
  ASSUME PackageInv
  PROVE  /\ [intent EXCEPT !.consent = intent.consent] = intent
         /\ intent.consent \in SUBSET (Perms \X Contents) /\ intent.wanted \in BOOLEAN
         /\ pkg \in Packages /\ intent \in Intents
  BY DEF PackageInv, PackageTypes, Intents

\* Turning a package off keeps it
LEMMA DisableKeeps ==
  ASSUME PackageInv, DisablePackage PROVE PackageInv'
<1> DEFINE p == Disabled(pkg)
<1>1. pkg.held # 0
  BY DEF DisablePackage, Manage
<1>2. [pkg EXCEPT !.pending = 0, !.activating = NoUpgrade] \in Packages
  BY Constant, SameConsent DEF Packages
<1>3. /\ p \in Packages /\ p.held = pkg.held /\ p.state = "Disabled" /\ p.work = FALSE
      /\ p.granted = pkg.granted /\ p.denied = pkg.denied /\ p.activating = NoUpgrade
  BY <1>2, Constant, SameConsent DEF Disabled, Unload, Packages, States
<1> HIDE DEF p
<1>4. PackageApproved(p, intent)
  BY <1>1, <1>3 DEF PackageInv, PackageApproved, UpgradeApproved
<1>5. Manage(p, FALSE, intent.consent, FALSE)
  BY DEF DisablePackage, p
<1> QED BY <1>1, <1>3, <1>4, <1>5, ManageKeeps, SameConsent

\* So does turning it on: the report of the activation tells of what was approved
LEMMA EnableKeeps ==
  ASSUME PackageInv, EnablePackage PROVE PackageInv'
<1> PICK start \in Starts :
      LET ready == pkg.held # 0 /\ Required[pkg.held] \subseteq pkg.granted
          next  == IF ready THEN ActivationReport(pkg, start) ELSE pkg
      IN Manage(next, ready /\ next.state = "Active", intent.consent, TRUE)
  BY DEF EnablePackage
<1> DEFINE ready == pkg.held # 0 /\ Required[pkg.held] \subseteq pkg.granted
           next  == IF ready THEN ActivationReport(pkg, start) ELSE pkg
           on    == ready /\ next.state = "Active"
<1>1. Manage(next, on, intent.consent, TRUE) /\ on \in BOOLEAN
  OBVIOUS
<1>2. pkg.held # 0 /\ PackageApproved(pkg, intent)
  BY DEF Manage, PackageInv
<1>3. next \in Packages /\ next.held # 0 /\ PackageApproved(next, intent)
  <2>1. CASE ready
    BY <1>2, <2>1, ReportMoves, ReportApproved, SameConsent DEF PackageApproved
  <2>2. CASE ~ready
    BY <1>2, <2>2, SameConsent
  <2> QED BY <2>1, <2>2
<1> HIDE DEF next, on
<1> QED BY <1>1, <1>3, ManageKeeps, SameConsent

\* A decision about one permission: whoever loses what it requires is unloaded
LEMMA DecideKeeps ==
  ASSUME PackageInv, SetPackagePermission PROVE PackageInv'
<1>1. pkg.held # 0 /\ pkg.held \in Contents /\ PackageApproved(pkg, intent)
  BY SameConsent, PackageFields DEF SetPackagePermission, PackageInv
<1> PICK q \in Required[pkg.held] \cup Optional[pkg.held], grant \in BOOLEAN :
      LET next == Decided(pkg, q, grant)
          pair == IF grant THEN {<<q, pkg.held>>} ELSE {}
      IN Manage(next, next.state = "Active", intent.consent \cup pair, intent.wanted)
  BY DEF SetPackagePermission
<1> DEFINE pair == IF grant THEN {<<q, pkg.held>>} ELSE {}
           i    == [intent EXCEPT !.consent = intent.consent \cup pair]
           set  == [pkg EXCEPT !.granted = IF grant THEN @ \cup {q} ELSE @ \ {q},
                               !.denied = IF grant THEN @ \ {q} ELSE @ \cup {q}]
           lost == q \in Required[pkg.held] /\ ~grant /\ pkg.state \in {"Active", "Suspended"}
           next == Decided(pkg, q, grant)
           on   == next.state = "Active"
<1>2. q \in Perms
  BY <1>1, Constant
<1>3. intent.consent \cup pair \in SUBSET (Perms \X Contents)
  BY <1>1, <1>2, SameConsent
<1>4. i \in Intents /\ i.confirmed = intent.confirmed /\ i.consent = intent.consent \cup pair
  BY <1>3, SameConsent DEF Intents
<1>5. /\ set \in Packages /\ set.held = pkg.held /\ set.state = pkg.state
      /\ set.work = pkg.work /\ set.activating = pkg.activating
      /\ set.granted = IF grant THEN pkg.granted \cup {q} ELSE pkg.granted \ {q}
      /\ set.denied = IF grant THEN pkg.denied \ {q} ELSE pkg.denied \cup {q}
  BY <1>2, SameConsent DEF Packages
<1>6. next = IF lost THEN Unload([set EXCEPT !.activating = NoUpgrade]) ELSE set
  BY DEF Decided
<1>7. Manage(next, on, intent.consent \cup pair, intent.wanted) /\ on \in BOOLEAN
  OBVIOUS
<1>8. PackageApproved(pkg, i)
  BY <1>1, <1>4, SameConsent, ApprovalStays
<1> HIDE DEF set, i, on, next
<1>9. Approved(set.held, set.granted, set.denied, i)
  BY <1>1, <1>4, <1>5, <1>8 DEF PackageApproved, Approved
<1>10. CASE lost
  <2> DEFINE gone == [set EXCEPT !.activating = NoUpgrade]
  <2>1. /\ gone \in Packages /\ gone.held = set.held /\ gone.granted = set.granted
        /\ gone.denied = set.denied /\ gone.activating = NoUpgrade
    BY <1>5, Constant DEF Packages
  <2>2. next = Unload(gone)
    BY <1>6, <1>10
  <2> HIDE DEF gone
  <2>3. /\ next \in Packages /\ next.held = set.held /\ next.granted = set.granted
        /\ next.denied = set.denied /\ next.activating = NoUpgrade
        /\ next.state = "Disabled" /\ next.work = FALSE
    BY <2>1, <2>2, UnloadMoves
  <2>4. PackageApproved(next, i)
    BY <1>1, <1>5, <1>9, <2>3 DEF PackageApproved, UpgradeApproved
  <2>5. /\ next.state = "Active" \/ next.activating # NoUpgrade => intent.wanted
        /\ on => intent.wanted
    BY <2>3 DEF on
  <2>6. next.held # 0
    BY <1>1, <1>5, <2>3
  <2>7. intent.consent \subseteq intent.consent \cup pair
    OBVIOUS
  <2>8. PackageApproved(next, [intent EXCEPT !.consent = intent.consent \cup pair])
    BY <2>4 DEF i
  <2> HIDE DEF pair
  <2> QED BY <1>3, <1>7, <2>3, <2>5, <2>6, <2>7, <2>8, ManageKeeps, SameConsent
<1>11. CASE ~lost
  <2>1. next = set
    BY <1>6, <1>11
  <2>2. PackageApproved(set, i)
    <3>1. pkg.state = "Active" => Required[pkg.held] \subseteq set.granted
      BY <1>5, <1>8, <1>11 DEF PackageApproved
    <3> QED BY <1>1, <1>5, <1>8, <1>9, <3>1 DEF PackageApproved
  <2>3. /\ set.state = "Active" \/ set.activating # NoUpgrade => intent.wanted
        /\ on => intent.wanted
    BY <1>5, <2>1 DEF PackageInv, Wanted, on
  <2> QED BY <1>1, <1>3, <1>5, <1>7, <2>1, <2>2, <2>3, ManageKeeps, SameConsent DEF i
<1> QED BY <1>10, <1>11

\* remove_package
LEMMA RemoveKeeps ==
  ASSUME PackageInv, RemovePackage PROVE PackageInv'
<1> PICK write \in Writes :
      /\ reg' = IF reg.mem = NoEntry THEN reg ELSE Commit(reg, NoEntry, write)
      /\ pkg' = [NoPackage EXCEPT !.source = IF write = "ok" \/ reg.mem = NoEntry
                                             THEN NoPath ELSE pkg.source]
      /\ intent' = [intent EXCEPT !.wanted = FALSE,
                                  !.saved = IF reg.mem = NoEntry THEN @ ELSE write = "ok"]
  BY DEF RemovePackage
<1>1. sources' = sources /\ review' = review
  BY DEF RemovePackage
<1>2. PackageTypes /\ pkg \in Packages /\ reg \in [file : Entries, mem : Entries]
  BY DEF PackageInv, PackageTypes
<1>3. /\ intent' \in Intents
      /\ intent'.confirmed = intent.confirmed /\ intent'.consent = intent.consent
      /\ intent'.saved = IF reg.mem = NoEntry THEN intent.saved ELSE write = "ok"
  BY <1>2 DEF PackageTypes, Intents
<1>4. /\ pkg' \in Packages /\ pkg'.held = 0 /\ pkg'.state = "None" /\ pkg'.work = FALSE
      /\ pkg'.granted = {} /\ pkg'.denied = {} /\ pkg'.activating = NoUpgrade
  BY <1>2, Constant, PackageFields DEF NoPackage, Packages, States
<1>5. PackageApproved(pkg, intent)' /\ Wanted(pkg, intent)'
  BY <1>4 DEF PackageApproved, UpgradeApproved, Wanted
<1>6. /\ reg' \in [file : Entries, mem : Entries]
      /\ reg'.file \in {reg.file, NoEntry} /\ reg'.mem \in {reg.mem, NoEntry}
      /\ reg.mem = NoEntry => reg' = reg
      /\ reg.mem # NoEntry /\ write = "ok" => reg'.file = NoEntry /\ reg'.mem = NoEntry
  BY <1>2, Constant DEF Commit, Writes
<1>7. EntryApproved(reg.file, intent)' /\ EntryApproved(reg.mem, intent)'
  BY <1>3, <1>6 DEF PackageInv, EntryApproved, Approved
<1>8. FileAgrees(reg, intent)'
  <2>1. NoEntry.enabled = FALSE
    BY DEF NoEntry
  <2>2. CASE reg.mem = NoEntry
    BY <1>3, <1>6, <2>1, <2>2 DEF PackageInv, FileAgrees
  <2>3. CASE reg.mem # NoEntry
    BY <1>3, <1>6, <2>1, <2>3 DEF FileAgrees
  <2> QED BY <2>2, <2>3
<1>9. PackageTypes'
  BY <1>1, <1>2, <1>3, <1>4, <1>6 DEF PackageTypes
<1> QED BY <1>1, <1>5, <1>7, <1>8, <1>9 DEF PackageInv, NoReview

\* The result of a deferred activation, and a suspension by the host
LEMMA HostKeeps ==
  ASSUME PackageInv, ActivationResult \/ HostSuspends PROVE PackageInv'
<1>1. sources' = sources /\ review' = review /\ reg' = reg /\ intent' = intent
  BY DEF ActivationResult, HostSuspends
<1>2. PackageTypes /\ pkg \in Packages
  BY DEF PackageInv, PackageTypes
<1>3. /\ pkg' \in Packages /\ pkg'.held = pkg.held
      /\ pkg'.granted = pkg.granted /\ pkg'.denied = pkg.denied
      /\ pkg'.activating = pkg.activating
      /\ pkg'.state \in {pkg.state, "Failed", "Suspended"}
      /\ pkg'.work => pkg'.state = "Suspended"
      /\ pkg'.state # "None" \/ pkg.state = "None"
      /\ pkg.state # "None" \/ pkg'.state = "None"
  <2>1. CASE ActivationResult
    <3>1. PICK ok \in BOOLEAN :
            pkg' = [pkg EXCEPT !.work = FALSE, !.state = IF ok THEN @ ELSE "Failed"]
      BY <2>1 DEF ActivationResult
    <3>2. pkg.state # "None"
      BY <2>1 DEF ActivationResult, PackageInv, PackageApproved
    <3> QED BY <1>2, <3>1, <3>2 DEF Packages, States
  <2>2. CASE HostSuspends
    BY <1>2, <2>2 DEF HostSuspends, Packages, States
  <2> QED BY <2>1, <2>2
<1>4. PackageApproved(pkg, intent)' /\ Wanted(pkg, intent)'
  BY <1>1, <1>2, <1>3 DEF PackageInv, PackageApproved, Wanted
<1>5. PackageTypes'
  BY <1>1, <1>2, <1>3 DEF PackageTypes
<1> QED BY <1>1, <1>4, <1>5 DEF PackageInv, NoReview, EntryApproved, FileAgrees, Approved

\* The settlement of an upgrade: the candidate is stored as it runs, or the kept
\* version comes back
LEMMA SettleKeeps ==
  ASSUME PackageInv, SettleUpgrade PROVE PackageInv'
<1> DEFINE settled == [pkg EXCEPT !.activating = NoUpgrade, !.source = NoPath]
<1>1. sources' = sources /\ review' = review
  BY DEF SettleUpgrade
<1>2. /\ PackageTypes /\ pkg \in Packages /\ reg \in [file : Entries, mem : Entries]
      /\ intent \in Intents /\ pkg.source \in Paths \cup {NoPath}
  BY PackageFields DEF PackageInv, PackageTypes
<1>3. /\ pkg.activating \in Upgrades /\ pkg.activating.state = "Active"
      /\ Approved(pkg.activating.old, pkg.activating.granted, pkg.activating.denied, intent)
      /\ pkg.held # 0 /\ intent.wanted
  BY <1>2, PackageFields
     DEF SettleUpgrade, PackageInv, PackageApproved, UpgradeApproved, Wanted
<1>4. /\ settled \in Packages /\ settled.held = pkg.held /\ settled.state = pkg.state
      /\ settled.work = pkg.work /\ settled.granted = pkg.granted
      /\ settled.denied = pkg.denied /\ settled.activating = NoUpgrade
  BY <1>2, Constant DEF Packages
<1>5. PackageApproved(settled, intent) /\ Approved(settled.held, settled.granted, settled.denied, intent)
  <2> HIDE DEF settled
  <2> QED BY <1>3, <1>4 DEF PackageInv, PackageApproved, UpgradeApproved
<1>6. EntryApproved(reg.file, intent) /\ EntryApproved(reg.mem, intent)
  BY DEF PackageInv
<1> PICK start \in Starts, write \in Writes :
      IF pkg.state = "Active"
      THEN /\ pkg' = settled
           /\ reg' = Persist(reg, settled, pkg.source, TRUE, write)
           /\ intent' = [intent EXCEPT !.saved = write = "ok" /\ MayPersist(reg, pkg.source)]
      ELSE /\ pkg' = Rollback(settled, pkg.activating, start)
           /\ UNCHANGED <<reg, intent>>
  BY DEF SettleUpgrade
<1> HIDE DEF settled
<1>7. CASE pkg.state = "Active"
  <2>1. /\ pkg' = settled
        /\ reg' = Persist(reg, settled, pkg.source, TRUE, write)
        /\ intent' = [intent EXCEPT !.saved = write = "ok" /\ MayPersist(reg, pkg.source)]
    BY <1>7
  <2>2. /\ intent' \in Intents /\ intent'.wanted = intent.wanted
        /\ intent'.confirmed = intent.confirmed /\ intent'.consent = intent.consent
        /\ intent'.saved = (write = "ok" /\ MayPersist(reg, pkg.source))
    BY <1>2, <2>1 DEF Intents
  <2>3. /\ reg' \in [file : Entries, mem : Entries]
        /\ EntryApproved(reg'.file, intent) /\ EntryApproved(reg'.mem, intent)
        /\ write = "ok" /\ MayPersist(reg, pkg.source) => reg'.file = reg'.mem
    <3> DEFINE on == TRUE
    <3>1. on \in BOOLEAN /\ reg' = Persist(reg, settled, pkg.source, on, write)
      BY <2>1
    <3> HIDE DEF on
    <3> QED BY <1>2, <1>4, <1>5, <1>6, <3>1, PersistMoves
  <2>4. PackageTypes'
    BY <1>1, <1>2, <1>4, <2>1, <2>2, <2>3 DEF PackageTypes
  <2>5. PackageApproved(pkg, intent)'
    BY <1>5, <2>1, <2>2 DEF PackageApproved, UpgradeApproved, Approved
  <2>6. EntryApproved(reg.file, intent)' /\ EntryApproved(reg.mem, intent)'
    BY <2>2, <2>3 DEF EntryApproved, Approved
  <2>7. Wanted(pkg, intent)' /\ FileAgrees(reg, intent)'
    BY <1>3, <2>2, <2>3 DEF Wanted, FileAgrees
  <2> QED BY <1>1, <2>4, <2>5, <2>6, <2>7 DEF PackageInv, NoReview
<1>8. CASE pkg.state # "Active"
  <2>1. /\ pkg' = Rollback(settled, pkg.activating, start)
        /\ reg' = reg /\ intent' = intent
    BY <1>8
  <2>2. UpgradeApproved(settled.activating, intent)
    BY <1>4 DEF UpgradeApproved
  <2>3. pkg' \in Packages /\ PackageApproved(pkg', intent)
    BY <1>2, <1>3, <1>4, <2>1, <2>2, RollbackMoves, RollbackApproved
  <2>4. Wanted(pkg, intent)'
    BY <1>3, <2>1 DEF Wanted
  <2>5. PackageTypes'
    BY <1>1, <1>2, <2>1, <2>3 DEF PackageTypes
  <2> QED BY <1>1, <2>1, <2>3, <2>4, <2>5
          DEF PackageInv, NoReview, PackageApproved, UpgradeApproved, EntryApproved,
              FileAgrees, Approved
<1> QED BY <1>7, <1>8

\* Sources change and are reviewed
LEMMA ReviewKeeps ==
  ASSUME PackageInv, EditSource \/ ReviewPackage PROVE PackageInv'
<1>1. pkg' = pkg /\ reg' = reg /\ intent' = intent
  BY DEF EditSource, ReviewPackage
<1>2. PackageTypes
  BY DEF PackageInv
<1>3. /\ PackageTypes'
      /\ (review # NoReview => review.path \in Paths /\ review.content \in Contents)'
  <2>1. CASE EditSource
    BY <1>1, <1>2, <2>1 DEF EditSource, PackageTypes, PackageInv, NoReview
  <2>2. CASE ReviewPackage
    <3>1. PICK path \in Paths :
            /\ sources[path] # 0
            /\ review' = [path |-> path, content |-> sources[path], upgrade |-> pkg.held # 0]
      BY <2>2 DEF ReviewPackage
    <3>2. sources' = sources
      BY <2>2 DEF ReviewPackage
    <3> QED BY <1>1, <1>2, <3>1, <3>2 DEF PackageTypes
  <2> QED BY <2>1, <2>2
<1> QED BY <1>1, <1>3
        DEF PackageInv, PackageApproved, UpgradeApproved, EntryApproved, Approved,
            Wanted, FileAgrees

\* install_extension_after_review: the package is what was reviewed, and what it
\* requires is granted to it
LEMMA ConfirmKeeps ==
  ASSUME PackageInv, ConfirmInstall PROVE PackageInv'
<1> DEFINE c == sources[review.path]
           Done(start, back, w1, w2) ==
             IF pkg.held = 0 THEN NewPackage(c, start, w1, w2)
             ELSE Upgraded(c, start, back, w1, w2)
<1>1. PackageTypes /\ pkg \in Packages /\ reg \in [file : Entries, mem : Entries]
      /\ intent \in Intents
  BY DEF PackageInv, PackageTypes
<1>2. /\ review.path \in Paths /\ review.content \in Contents /\ c = review.content
      /\ sources' = sources /\ review' = NoReview
  BY DEF ConfirmInstall, StillReviewed, PackageInv
<1> PICK start \in Starts, back \in Starts, w1 \in Writes, w2 \in Writes :
      LET done == Done(start, back, w1, w2)
      IN /\ pkg' = done.pkg /\ reg' = done.reg
         /\ intent' = [intent EXCEPT
              !.confirmed = @ \cup {review.content},
              !.consent = @ \cup {<<q, review.content>> : q \in Required[review.content]},
              !.wanted = @ \/ pkg.held = 0,
              !.saved = done.saved]
  BY DEF ConfirmInstall
<1> DEFINE done == Done(start, back, w1, w2)
           i == [intent EXCEPT
                   !.confirmed = @ \cup {review.content},
                   !.consent = @ \cup {<<q, review.content>> : q \in Required[review.content]},
                   !.wanted = @ \/ pkg.held = 0]
<1>3. /\ i \in Intents /\ intent.confirmed \subseteq i.confirmed
      /\ intent.consent \subseteq i.consent
      /\ i.wanted = (intent.wanted \/ pkg.held = 0)
      /\ Confirming(i, c)
  <2>1. {<<q, review.content>> : q \in Required[review.content]} \in SUBSET (Perms \X Contents)
    BY <1>2, Constant
  <2> QED BY <1>1, <1>2, <2>1 DEF Intents, Confirming
<1>4. /\ intent'.confirmed = i.confirmed /\ intent'.consent = i.consent
      /\ intent'.wanted = i.wanted /\ intent'.saved = done.saved
      /\ done.saved \in BOOLEAN => intent' \in Intents
  BY <1>1, <1>2, <1>3 DEF Intents
<1>5. pkg' = done.pkg /\ reg' = done.reg
  OBVIOUS
<1> HIDE DEF i, c
<1>6. /\ PackageApproved(pkg, i) /\ EntryApproved(reg.file, i) /\ EntryApproved(reg.mem, i)
      /\ Wanted(pkg, i)
  <2>1. reg.file \in Entries /\ reg.mem \in Entries
    BY <1>1
  <2>2. PackageApproved(pkg, i) /\ EntryApproved(reg.file, i) /\ EntryApproved(reg.mem, i)
    BY <1>1, <1>3, <2>1, ApprovalStays DEF PackageInv
  <2>3. Wanted(pkg, i)
    BY <1>3 DEF PackageInv, Wanted
  <2> QED BY <2>2, <2>3
<1>7. /\ done.pkg \in Packages /\ PackageApproved(done.pkg, i) /\ Wanted(done.pkg, i)
      /\ done.reg \in [file : Entries, mem : Entries] /\ done.saved \in BOOLEAN
      /\ EntryApproved(done.reg.file, i) /\ EntryApproved(done.reg.mem, i)
      /\ done.saved => done.reg.file = done.reg.mem /\ (done.reg.file.enabled => i.wanted)
  <2>1. CASE pkg.held = 0
    <3>1. done = NewPackage(c, start, w1, w2)
      BY <2>1
    <3>2. i.wanted
      BY <1>3, <2>1
    <3> HIDE DEF done
    <3>3. /\ done.pkg \in Packages /\ PackageApproved(done.pkg, i)
          /\ done.reg \in [file : Entries, mem : Entries] /\ done.saved \in BOOLEAN
          /\ EntryApproved(done.reg.file, i) /\ EntryApproved(done.reg.mem, i)
          /\ done.saved => done.reg.file = done.reg.mem
      BY <1>1, <1>2, <1>3, <1>6, <3>1, NewMoves DEF c
    <3> QED BY <3>2, <3>3 DEF Wanted
  <2>2. CASE pkg.held # 0
    <3>1. done = Upgraded(c, start, back, w1, w2)
      BY <2>2
    <3>2. intent.saved => reg.file = reg.mem /\ (reg.file.enabled => i.wanted)
      BY <1>3 DEF PackageInv, FileAgrees
    <3> HIDE DEF done
    <3> QED BY <1>1, <1>2, <1>3, <1>6, <2>2, <3>1, <3>2, UpgradedMoves DEF c
  <2> QED BY <2>1, <2>2
<1> HIDE DEF done, Done
<1>8. PackageTypes'
  BY <1>1, <1>2, <1>4, <1>5, <1>7 DEF PackageTypes, NoReview
<1>9. PackageApproved(pkg, intent)' /\ Wanted(pkg, intent)'
  BY <1>4, <1>5, <1>7 DEF PackageApproved, UpgradeApproved, Approved, Wanted
<1>10. EntryApproved(reg.file, intent)' /\ EntryApproved(reg.mem, intent)'
  BY <1>4, <1>5, <1>7 DEF EntryApproved, Approved
<1>11. FileAgrees(reg, intent)'
  BY <1>4, <1>5, <1>7 DEF FileAgrees
<1> QED BY <1>2, <1>8, <1>9, <1>10, <1>11 DEF PackageInv

\* A restart: what the file says, if the source still has that content
LEMMA RestartKeeps ==
  ASSUME PackageInv, Restart PROVE PackageInv'
<1> DEFINE entry == reg.file
           back == [NoPackage EXCEPT !.held = sources[entry.path], !.state = "Validated",
                                     !.granted = entry.granted, !.denied = entry.denied]
           none == entry = NoEntry \/ (entry.path # NoPath /\ ~Matches(entry))
<1>1. PackageTypes /\ reg \in [file : Entries, mem : Entries] /\ intent \in Intents
      /\ reg.file \in Entries
  BY DEF PackageInv, PackageTypes
<1> PICK start \in Starts :
      /\ pkg' = IF none THEN NoPackage
                ELSE IF entry.enabled THEN ActivationReport(back, start) ELSE Unload(back)
      /\ intent' = IF intent.saved THEN intent
                   ELSE [intent EXCEPT !.saved = TRUE, !.wanted = entry.enabled]
  BY DEF Restart
<1>2. sources' = sources /\ reg' = [reg EXCEPT !.mem = reg.file] /\ review' = NoReview
  BY DEF Restart
<1>3. /\ reg' \in [file : Entries, mem : Entries]
      /\ reg'.file = reg.file /\ reg'.mem = reg.file
  BY <1>1, <1>2
<1>4. /\ intent' \in Intents /\ intent'.confirmed = intent.confirmed
      /\ intent'.consent = intent.consent
      /\ entry.enabled => intent'.wanted
  BY <1>1 DEF Intents, Entries, PackageInv, FileAgrees
<1>5. pkg' \in Packages /\ PackageApproved(pkg', intent) /\ Wanted(pkg', intent')
  <2>1. CASE none
    <3>1. pkg' = NoPackage
      BY <2>1
    <3>2. /\ NoPackage.held = 0 /\ NoPackage.state = "None" /\ NoPackage.work = FALSE
          /\ NoPackage.granted = {} /\ NoPackage.denied = {}
          /\ NoPackage.activating = NoUpgrade
      BY DEF NoPackage
    <3>3. PackageApproved(NoPackage, intent) /\ Wanted(NoPackage, intent')
      BY <3>2 DEF PackageApproved, UpgradeApproved, Wanted
    <3> QED BY <3>1, <3>3, Constant
  <2>2. CASE ~none
    <3>1. /\ entry.path \in Paths /\ sources[entry.path] = entry.hash
          /\ Approved(entry.hash, entry.granted, entry.denied, intent)
      BY <2>2, Constant DEF PackageInv, EntryApproved, Matches
    <3>2. entry.hash \in Contents
      BY <1>1, <3>1 DEF Approved, Intents
    <3>3. /\ back \in Packages /\ back.held = entry.hash /\ back.state = "Validated"
          /\ back.granted = entry.granted /\ back.denied = entry.denied
          /\ back.activating = NoUpgrade
      BY <1>1, <3>1, <3>2, Constant DEF NoPackage, Packages, Entries, States
    <3>4. pkg' = IF entry.enabled THEN ActivationReport(back, start) ELSE Unload(back)
      BY <2>2
    <3> HIDE DEF back
    <3>5. Approved(back.held, back.granted, back.denied, intent)
          /\ UpgradeApproved(back.activating, intent)
      BY <3>1, <3>3 DEF UpgradeApproved
    <3>6. CASE entry.enabled
      <4>1. pkg' = ActivationReport(back, start)
        BY <3>4, <3>6
      <4>2. pkg' \in Packages /\ PackageApproved(pkg', intent) /\ intent'.wanted
        BY <1>1, <1>4, <3>3, <3>5, <3>6, <4>1, ReportMoves, ReportApproved
      <4> QED BY <4>2 DEF Wanted
    <3>7. CASE ~entry.enabled
      <4>1. pkg' = Unload(back)
        BY <3>4, <3>7
      <4>2. pkg' \in Packages /\ PackageApproved(pkg', intent)
            /\ pkg'.state = "Disabled" /\ pkg'.activating = NoUpgrade
        BY <1>1, <3>3, <3>5, <4>1, UnloadMoves, ReportApproved
      <4> QED BY <4>2 DEF Wanted
    <3> QED BY <3>6, <3>7
  <2> QED BY <2>1, <2>2
<1>6. PackageTypes'
  BY <1>1, <1>2, <1>3, <1>4, <1>5 DEF PackageTypes, NoReview
<1>7. PackageApproved(pkg, intent)'
  BY <1>4, <1>5 DEF PackageApproved, UpgradeApproved, Approved
<1>8. EntryApproved(reg.file, intent)' /\ EntryApproved(reg.mem, intent)'
  BY <1>3, <1>4 DEF PackageInv, EntryApproved, Approved
<1>9. FileAgrees(reg, intent)'
  BY <1>3, <1>4 DEF FileAgrees
<1> QED BY <1>2, <1>5, <1>6, <1>7, <1>8, <1>9 DEF PackageInv

\* So does every step
LEMMA InvNext == PackageInv /\ [PkgNext]_pkgVars => PackageInv'
<1> SUFFICES ASSUME PackageInv, [PkgNext]_pkgVars PROVE PackageInv'
  OBVIOUS
<1>1. CASE UNCHANGED pkgVars
  BY <1>1 DEF PackageInv, PackageTypes, PackageApproved, UpgradeApproved, EntryApproved,
              Approved, Wanted, FileAgrees, pkgVars, NoReview
<1>2. CASE PkgNext
  BY <1>2, ReviewKeeps, ConfirmKeeps, DisableKeeps, EnableKeeps, DecideKeeps,
     RemoveKeeps, HostKeeps, SettleKeeps, RestartKeeps DEF PkgNext
<1> QED BY <1>1, <1>2

\* What the user decided follows from it
LEMMA InvDecides == PackageInv => UserDecides
<1> SUFFICES ASSUME PackageInv PROVE UserDecides
  OBVIOUS
<1>1. pkg \in Packages /\ intent \in Intents /\ reg.mem \in Entries
  BY DEF PackageInv, PackageTypes
<1>2. PkgTypeOK
  <2>1. pkg.activating # NoUpgrade => pkg.activating.old \in Contents
    BY <1>1 DEF PackageInv, PackageApproved, UpgradeApproved, Approved, Intents
  <2>2. pkg.granted \cap pkg.denied = {}
    BY <1>1 DEF PackageInv, PackageApproved, Approved
  <2>3. reg.mem = NoEntry <=> reg.mem.path = NoPath
    BY <1>1, Constant DEF PackageInv, EntryApproved, NoEntry
  <2>4. /\ pkg.held = 0 <=> pkg.state = "None"
        /\ pkg.work => pkg.state \in {"Active", "Suspended"}
    BY DEF PackageInv, PackageApproved
  <2> QED BY <1>1, <2>1, <2>2, <2>3, <2>4, PackageFields DEF PkgTypeOK, States
<1>3. ActiveIsApproved
  BY DEF ActiveIsApproved, PackageInv, PackageApproved, Approved
<1>4. GrantsAreOwn
  BY DEF GrantsAreOwn, PackageInv, PackageApproved, Approved
<1>5. DisabledStaysOff
  BY DEF DisabledStaysOff, PackageInv, Wanted
<1> QED BY <1>2, <1>3, <1>4, <1>5 DEF UserDecides

-----------------------------------------------------------------------------
(* The theorems *)

\* What runs and with which permissions is what the user has approved, whatever
\* packages, sources, writes and starts there are: an active extension has a
\* content the user has confirmed and all it requires, holds no permission that was
\* not granted to this very content, and runs only while the user wants it, over
\* failed and torn writes, rollbacks and restarts (extension_packages.rs,
\* app_extensions.rs, extension_registry.rs).
THEOREM UserAlwaysDecides == PkgSpec => []UserDecides
<1>1. PkgSpec => []PackageInv
  BY InvInit, InvNext, PTL DEF PkgSpec
<1> QED BY <1>1, InvDecides, PTL
=============================================================================
