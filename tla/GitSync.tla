------------------------------- MODULE GitSync -------------------------------
(***************************************************************************)
(* The states checkout on the shared volume: the git writes of git_sync.py *)
(* behind the Files, State repo and Formulas pages, and the minute tick of *)
(* the file-sync CronJob (file_sync_schedule.py).                          *)
(*                                                                         *)
(* The web requests run one after the other in `web'; the CronJob pod      *)
(* `cron' runs beside them.  It is another process, so _single_flight, a   *)
(* lock of one process, never holds either back.  A step is one git        *)
(* command or one change of the volume or of the database, and one request *)
(* may be cut short at any of its steps.  A git that is killed leaves what *)
(* it had written of the checkout and, in .git, its index.lock.            *)
(*                                                                         *)
(* A version of the states is a number, and a history is the set of the    *)
(* versions committed in it: what is ahead and behind are differences.     *)
(***************************************************************************)
EXTENDS Naturals, FiniteSetsExt

CONSTANTS
    Remotes,        \* the URLs an admin may clone or point origin at
    Home,           \* the remote the checkout was cloned from
    Formulas,       \* formula names
    NoFormula,
    MaxVersions,    \* bounds, by the subject of the behaviour, on the versions
    MaxRequests,    \* written or committed upstream and on the web requests
    OffOrigin       \* bound: others commit to remotes that origin is not at, too

ASSUME RemotesAssumption == Home \in Remotes
ASSUME FormulasAssumption == NoFormula \notin Formulas

\* What the requests of a behaviour are about.
Subjects == {"states", "formulas"}

ASSUME BoundsAssumption ==
    MaxVersions \in [Subjects -> Nat \ {0}] /\ MaxRequests \in [Subjects -> Nat]
ASSUME OffOriginAssumption == OffOrigin \in BOOLEAN

VARIABLES
    up,             \* the remotes' histories
    git,            \* whether there is a checkout
    origin, head, track, index, \* of .git: remote, HEAD, @{u}, the staged version
    excl,           \* formulas in .git/info/exclude
    locked,         \* .git/index.lock is there and its git is dead
    disk, tree,     \* salt/: the version on disk (0: gone) and the formula dirs
    vendored,       \* of those dirs, the ones a request has installed to the end
    rest,           \* whether the other entries of the checkout are there
    rows,           \* formulas table
    status,         \* file_sync_last_status
    served,         \* the master's fileserver has read the volume as it is
    req,            \* the request each process is at
    subject,        \* bound: the behaviour edits the states or manages formulas
    last, asked,    \* versions and requests so far
    cut             \* a request died or failed half-way (at most one does)

gitVars == <<git, origin, head, track, index, excl, locked>>
srvVars == <<disk, tree, vendored, rest>>
dbVars == <<rows, status>>
auxVars == <<subject, last, asked, cut>>
vars == <<up, gitVars, srvVars, dbVars, served, req, auxVars>>

Versions == 1..MaxVersions[subject]
Tip(history) == Max(history \cup {0})

Statuses == {"none", "success", "warning", "failed"}
Syncs == {"sync", "sync_now", "cron"}
Labels == {"idle", "pull", "refresh", "success", "warning",
           "failed", "write", "add", "commit", "send", "ahead", "reset", "clean",
           "stage", "clear", "install", "seturl", "revendor", "fclone",
           "fdrop", "finstall", "exclude", "row", "unrow"}

\* A request: where it is, its arguments and its local variables.
Idle == [op |-> "none", pc |-> "idle", force |-> FALSE, clean |-> FALSE,
         url |-> Home, f |-> NoFormula, todo |-> {},
         hist |-> {}, v |-> 0, retry |-> FALSE, blind |-> FALSE]

TypeOK ==
    /\ up \in [Remotes -> SUBSET Versions]
    /\ {git, locked, rest, served, cut} \subseteq BOOLEAN
    /\ origin \in Remotes
    /\ head \subseteq Versions /\ track \subseteq Versions
    /\ {index, disk, last} \subseteq 0..MaxVersions[subject]
    /\ excl \subseteq Formulas /\ tree \subseteq Formulas /\ rows \subseteq Formulas
    /\ vendored \subseteq tree
    /\ status \in Statuses
    /\ subject \in Subjects /\ asked \in 0..MaxRequests[subject]
    /\ \A p \in {"web", "cron"} :
        /\ req[p].pc \in Labels
        /\ req[p].url \in Remotes /\ req[p].f \in Formulas \cup {NoFormula}
        /\ req[p].todo \subseteq Formulas /\ req[p].hist \subseteq Versions
        /\ {req[p].force, req[p].clean, req[p].retry, req[p].blind} \subseteq BOOLEAN
        /\ req[p].v \in 0..MaxVersions[subject]

Init ==
    /\ up = [r \in Remotes |-> {1}]
    /\ git = TRUE /\ origin = Home /\ locked = FALSE
    /\ head = {1} /\ track = {1} /\ index = 1 /\ disk = 1 /\ served = TRUE
    /\ rest = TRUE
    /\ excl = {} /\ tree = {} /\ vendored = {} /\ rows = {}
    /\ status = "none"
    /\ req = [p \in {"web", "cron"} |-> Idle]
    /\ subject \in Subjects /\ last = 1 /\ asked = 0 /\ cut = FALSE

-----------------------------------------------------------------------------
(* Helpers.                                                                *)

At(p, label) == req[p].pc = label
Goto(p, label) == req' = [req EXCEPT ![p].pc = label]
End(p) == req' = [req EXCEPT ![p] = Idle]

\* A web request comes in.
Ask(r) ==
    /\ req["web"] = Idle /\ asked < MaxRequests[subject]
    /\ asked' = asked + 1
    /\ req' = [req EXCEPT !["web"] = r]
    /\ UNCHANGED <<subject, last, cut>>

Request(op, label) == [Idle EXCEPT !.op = op, !.pc = label]

Remote == up[origin]

\* git refuses to overwrite staged or edited files (a deleted one it restores).
Blocked == index # Tip(head) \/ disk \notin {0, index}

\* Under index.lock: the working tree and the index as a commit has them.
CheckedOut(history) ==
    /\ ~locked /\ UNCHANGED locked
    /\ head' = history
    /\ index' = Tip(history) /\ disk' = Tip(history)
    /\ served' = (served /\ disk = Tip(history))

\* Killed at it: the files come first, then the index (the lock is renamed to it),
\* HEAD last.
HalfCheckedOut(history) ==
    /\ ~locked /\ locked' \in BOOLEAN
    /\ disk' \in {disk, Tip(history)}
    /\ index' \in IF disk' = Tip(history) THEN {index, disk'} ELSE {index}
    /\ index' # index => ~locked'
    /\ served' = (served /\ disk' = disk)
    /\ UNCHANGED head

\* A git that fails may have been killed with its lock in place.
MayLock == locked' \in {locked, git}

-----------------------------------------------------------------------------
(* Sync: git_sync_now, by the Files page (sync, sync_now) and by the tick.  *)

Sync(op) ==
    /\ Ask([Request(op, "pull") EXCEPT !.retry = (status = "warning")])
    /\ UNCHANGED <<up, gitVars, srvVars, dbVars, served>>

\* Mutant: a run that failed is not tried again.
CronStartUnlessFailed ==
    /\ req["cron"] = Idle /\ status # "failed"
    /\ req' = [req EXCEPT !["cron"] = [Request("cron", "pull") EXCEPT
                                        !.retry = (status = "warning")]]
    /\ UNCHANGED <<up, gitVars, srvVars, dbVars, served, auxVars>>

\* run_scheduled_sync: a slot is due that no run has recorded.
CronStart ==
    /\ req["cron"] = Idle
    /\ req' = [req EXCEPT !["cron"] = [Request("cron", "pull") EXCEPT
                                        !.retry = (status = "warning")]]
    /\ UNCHANGED <<up, gitVars, srvVars, dbVars, served, auxVars>>

\* Mutant: the pull goes over local edits.
ForwardOver(history) == head \subseteq history

\* pull --ff-only: HEAD can move to the history without losing anything.
Forward(history) == head \subseteq history /\ ~Blocked

\* Mutant: only a changed pull refreshes the fileserver.
NeedsIfChanged(p, changed) == changed

\* A changed pull, or in _sync_now a refresh that failed the last time.
NeedsRefresh(p, changed) == changed \/ (req[p].op # "sync" /\ req[p].retry)

SyncDone(p, outcome) == IF req[p].op = "sync" THEN End(p) ELSE Goto(p, outcome)

AfterPull(p, changed) ==
    IF NeedsRefresh(p, changed) THEN Goto(p, "refresh") ELSE SyncDone(p, "success")

\* git_sync_now: fetch and pull --ff-only move HEAD, find nothing new, are killed
\* at the checkout or refuse, a lock in the way included.
SyncPull(p) ==
    /\ At(p, "pull")
    /\ \/ /\ git /\ Remote \ head # {} /\ Forward(Remote)
          /\ track' = Remote
          /\ \/ CheckedOut(Remote) /\ AfterPull(p, TRUE)
             \/ HalfCheckedOut(Remote) /\ SyncDone(p, "failed")
       \/ /\ git /\ Remote \subseteq head
          /\ track' = Remote /\ UNCHANGED <<head, index, locked, disk, served>>
          /\ AfterPull(p, FALSE)
       \/ /\ track' \in IF git THEN {track, Remote} ELSE {track}
          /\ UNCHANGED <<head, index, locked, disk, served>>
          /\ SyncDone(p, "failed")
    /\ UNCHANGED <<up, git, origin, excl, tree, vendored, rest, dbVars, auxVars>>

\* The master confirms or the sync ends with a warning.
SyncRefresh(p) ==
    /\ At(p, "refresh") /\ req[p].op \in Syncs
    /\ \/ served' = TRUE /\ SyncDone(p, "success")
       \/ served' = served /\ SyncDone(p, "warning")
    /\ UNCHANGED <<up, gitVars, srvVars, dbVars, auxVars>>

\* _save_status, in _sync_now only.
SyncStatus(p) ==
    /\ req[p].pc \in {"success", "warning", "failed"}
    /\ status' = req[p].pc
    /\ End(p)
    /\ UNCHANGED <<up, gitVars, srvVars, rows, served, auxVars>>

-----------------------------------------------------------------------------
(* Files: edit and save with a local commit, fetch, push.                  *)

\* save with a base that is not stale; with a stale one nothing is written.
Save ==
    /\ git /\ disk # 0
    /\ Ask(Request("save", "write"))
    /\ UNCHANGED <<up, gitVars, srvVars, dbVars, served>>

SaveWrite ==
    /\ At("web", "write") /\ last < MaxVersions[subject]
    /\ last' = last + 1 /\ disk' = last + 1 /\ served' = FALSE
    /\ req' = [req EXCEPT !["web"].v = last + 1, !["web"].pc = "add"]
    /\ UNCHANGED <<up, gitVars, tree, vendored, rest, dbVars, subject, asked, cut>>

\* git_commit_file, git add: a command that fails leaves the edit on disk.
CommitAdd ==
    /\ At("web", "add")
    /\ \/ /\ git /\ ~locked /\ index' = disk
          /\ Goto("web", "commit") /\ UNCHANGED locked
       \/ End("web") /\ MayLock /\ UNCHANGED index
    /\ UNCHANGED <<up, git, origin, head, track, excl, srvVars,
                   dbVars, served, auxVars>>

\* git_commit_file, git commit: also fails when there is nothing to commit; killed
\* late, it has moved HEAD.
Commit ==
    /\ At("web", "commit")
    /\ \/ /\ git /\ ~locked /\ disk # Tip(head)
          /\ head' = head \cup {disk} /\ index' = disk
          /\ \/ Goto("web", "refresh") /\ UNCHANGED locked
             \/ End("web") /\ locked' = TRUE
       \/ End("web") /\ MayLock /\ UNCHANGED <<head, index>>
    /\ UNCHANGED <<up, git, origin, track, excl, srvVars, dbVars,
                   served, auxVars>>

\* git_fetch_now, and the fetch of reset_preview.
Fetch ==
    /\ Ask(Idle) /\ git
    /\ track' = Remote
    /\ UNCHANGED <<up, git, origin, head, index, excl, locked, srvVars,
                   dbVars, served>>

\* git_push_now: git diff --quiet compares the working tree with the index.
Push ==
    /\ Ask(Request("push", "send")) /\ git /\ disk = index
    /\ UNCHANGED <<up, gitVars, srvVars, dbVars, served>>

PushSend ==
    /\ At("web", "send")
    /\ \/ /\ Remote \subseteq head
          /\ up' = [up EXCEPT ![origin] = head] /\ track' = head
       \/ UNCHANGED <<up, track>>
    /\ End("web")
    /\ UNCHANGED <<git, origin, head, index,
                   excl, locked, srvVars, dbVars, served, auxVars>>

-----------------------------------------------------------------------------
(* Repo controls: reset, clone, re-clone, repoint.                         *)

Reset(force, clean) ==
    /\ Ask([Request("reset", "ahead") EXCEPT !.force = force, !.clean = clean])
    /\ git
    /\ UNCHANGED <<up, gitVars, srvVars, dbVars, served>>

\* _is_checkout also says no when rev-parse fails, and then nothing is checked.
Reclone(url, force, seen) ==
    /\ Ask([Request("reclone", IF git /\ seen /\ ~force THEN "ahead" ELSE "stage")
            EXCEPT !.url = url, !.force = force, !.blind = git /\ ~seen /\ ~force])
    /\ UNCHANGED <<up, gitVars, srvVars, dbVars, served>>

\* _clone: no checkout, nothing foreign, and salt/ replaced only on a confirm.
Clone(url, replace) ==
    /\ Ask([Request("clone", "stage") EXCEPT !.url = url])
    /\ ~git /\ ~rest
    /\ (disk # 0 \/ tree # {}) => replace
    /\ UNCHANGED <<up, gitVars, srvVars, dbVars, served>>

\* _set_remote: refuses on dirty tracked files, staged ones included.
SetRemote(url) ==
    /\ Ask([Request("set_remote", "ahead") EXCEPT !.url = url])
    /\ git /\ disk = Tip(head) /\ index = Tip(head)
    /\ UNCHANGED <<up, gitVars, srvVars, dbVars, served>>

\* Mutant: a remote that does not answer counts as nothing ahead.
GoAheadIfUnknown(answers, ahead) == (answers => ahead = {}) \/ req["web"].force

\* What _ahead_count decides: unknown refuses, force only forgives commits ahead.
GoAhead(answers, ahead) == answers /\ (ahead = {} \/ req["web"].force)

AfterAhead == [reset |-> "reset", reclone |-> "stage", set_remote |-> "seturl"]

AheadCheck ==
    /\ At("web", "ahead")
    /\ \E answers \in BOOLEAN :
        /\ track' = IF answers THEN Remote ELSE track
        /\ IF GoAhead(answers, head \ track')
           THEN Goto("web", AfterAhead[req["web"].op]) ELSE End("web")
    /\ UNCHANGED <<up, git, origin, head, index, excl, locked, srvVars,
                   dbVars, served, auxVars>>

ResetHard ==
    /\ At("web", "reset")
    /\ \/ /\ CheckedOut(track)
          /\ Goto("web", IF req["web"].clean THEN "clean" ELSE "refresh")
       \/ End("web") /\ HalfCheckedOut(track)
       \/ End("web") /\ UNCHANGED <<head, index, locked, disk, served>>
    /\ UNCHANGED <<up, git, origin, track, excl, tree, vendored, rest,
                   dbVars, auxVars>>

\* git clean -fd: untracked directories go, ignored ones stay.  When git
\* refuses, the tree is reset and the fileserver not told.
ResetClean ==
    /\ At("web", "clean")
    /\ \/ tree' = tree \cap excl /\ Goto("web", "refresh")
       \/ tree' \in {tree, tree \cap excl} /\ End("web")
    /\ vendored' = vendored \cap tree' /\ served' = (served /\ tree' = tree)
    /\ UNCHANGED <<up, gitVars, disk, rest, dbVars, auxVars>>

SetUrl ==
    /\ At("web", "seturl")
    /\ origin' \in {origin, req["web"].url}
    /\ End("web")
    /\ UNCHANGED <<up, git, head, track, index, excl, locked, srvVars,
                   dbVars, served, auxVars>>

\* _stage_clone: beside the checkout; a failure leaves the old one alone.
StageClone ==
    /\ At("web", "stage")
    /\ \/ req' = [req EXCEPT !["web"].hist = up[req["web"].url],
                             !["web"].pc = "clear"]
       \/ End("web")
    /\ UNCHANGED <<up, gitVars, srvVars, dbVars, served, auxVars>>

Entries == {".git", "salt", "rest"}
ToClear == IF req["web"].op = "clone" THEN {"salt"} ELSE Entries

\* _clear_dir, or for a clone rmtree of salt/: the entries in gone.
Clear(gone) ==
    /\ IF ".git" \in gone
       THEN /\ git' = FALSE /\ locked' = FALSE
            /\ head' = {} /\ track' = {} /\ index' = 0 /\ excl' = {}
       ELSE UNCHANGED <<git, head, track, index, excl, locked>>
    /\ IF "salt" \in gone
       THEN disk' = 0 /\ tree' = {} /\ vendored' = {}
       ELSE UNCHANGED <<disk, tree, vendored>>
    /\ rest' = (rest /\ "rest" \notin gone)
    /\ served' = FALSE
    /\ UNCHANGED <<up, origin, dbVars>>

ClearAll ==
    /\ At("web", "clear")
    /\ Clear(ToClear)
    /\ Goto("web", "install")
    /\ UNCHANGED auxVars

\* It fails or dies half-way, with some entries gone.
ClearSome ==
    /\ ~cut /\ At("web", "clear")
    /\ \E gone \in SUBSET ToClear : Clear(gone)
    /\ End("web") /\ cut' = TRUE
    /\ UNCHANGED <<subject, last, asked>>

\* _move_staged: the entries of the staged clone that have arrived.
Install(moved) ==
    LET hist == req["web"].hist IN
    /\ IF ".git" \in moved
       THEN /\ git' = TRUE /\ origin' = req["web"].url /\ locked' = FALSE
            /\ head' = hist /\ track' = hist /\ index' = Tip(hist) /\ excl' = {}
       ELSE UNCHANGED <<git, origin, head, track, index, excl, locked>>
    /\ disk' = IF "salt" \in moved THEN Tip(hist) ELSE disk
    /\ rest' = (rest \/ "rest" \in moved)
    /\ served' = FALSE
    /\ UNCHANGED <<up, tree, vendored, dbVars>>

InstallAll ==
    /\ At("web", "install")
    /\ Install(Entries)
    /\ Goto("web", "refresh")
    /\ UNCHANGED auxVars

\* It breaks off with some entries moved, or the token of a request that moved
\* them all did not store.
InstallSome ==
    /\ ~cut /\ At("web", "install")
    /\ \E moved \in SUBSET Entries : Install(moved)
    /\ End("web") /\ cut' = TRUE
    /\ UNCHANGED <<subject, last, asked>>

AfterRefresh ==
    [save |-> "idle", reset |-> "idle", add |-> "idle", update |-> "idle",
     remove |-> "unrow", clone |-> "revendor", reclone |-> "revendor"]

\* _note_refreshed and save: the master may fail to refresh, the request goes on.
WebRefresh ==
    /\ At("web", "refresh") /\ req["web"].op \notin Syncs
    /\ served' \in {TRUE, served}
    /\ LET next == AfterRefresh[req["web"].op] IN
       req' = [req EXCEPT !["web"] =
                IF next = "idle" THEN Idle
                ELSE [@ EXCEPT !.pc = next,
                               !.todo = IF next = "revendor" THEN rows ELSE {}]]
    /\ UNCHANGED <<up, gitVars, srvVars, dbVars, auxVars>>

-----------------------------------------------------------------------------
(* Formulas: add, track, update, remove, re-vendor.                        *)

Add(f) ==
    /\ Ask([Request("add", "fclone") EXCEPT !.f = f])
    /\ f \notin rows /\ git
    /\ UNCHANGED <<up, gitVars, srvVars, dbVars, served>>

\* Records the source of a directory that is there without touching it, also of
\* one put there by hand: no pattern is written.
Track(f) ==
    /\ Ask(Idle) /\ f \in tree \ rows
    /\ rows' = rows \cup {f}
    /\ UNCHANGED <<up, gitVars, srvVars, status, served>>

Update(f) ==
    /\ Ask([Request("update", "fclone") EXCEPT !.f = f])
    /\ f \in rows \cap tree /\ git
    /\ UNCHANGED <<up, gitVars, srvVars, dbVars, served>>

\* Without a directory only the row goes, without a checkout nothing does.
Remove(f) ==
    /\ Ask([Request("remove", IF f \in tree THEN "fdrop" ELSE "unrow")
                EXCEPT !.f = f])
    /\ f \in rows /\ (f \in tree => git)
    /\ UNCHANGED <<up, gitVars, srvVars, dbVars, served>>

ReVendor ==
    /\ Ask([Request("re_vendor", "revendor") EXCEPT !.todo = rows])
    /\ UNCHANGED <<up, gitVars, srvVars, dbVars, served>>

Loops == {"clone", "reclone", "re_vendor"}

\* _re_vendor_row for the next row: a directory that is there is skipped.
NextRow ==
    /\ At("web", "revendor")
    /\ \/ req["web"].todo = {} /\ End("web")
       \/ \E f \in req["web"].todo :
            req' = [req EXCEPT !["web"].todo = @ \ {f}, !["web"].f = f,
                               !["web"].pc = IF f \notin tree /\ git
                                             THEN "fclone" ELSE "revendor"]
    /\ UNCHANGED <<up, gitVars, srvVars, dbVars, served, auxVars>>

FormulaRefused ==
    IF req["web"].op \in Loops THEN Goto("web", "revendor") ELSE End("web")

\* _clone_formula_source, from the formula's own remote.
FormulaClone ==
    /\ At("web", "fclone")
    /\ \/ Goto("web", IF req["web"].op = "update" THEN "fdrop" ELSE "finstall")
       \/ FormulaRefused
    /\ UNCHANGED <<up, gitVars, srvVars, dbVars, served, auxVars>>

\* rmtree of salt/<name>: when it fails half-way, update_formula gives up and
\* remove_formula_files goes on.
FormulaDrop ==
    /\ At("web", "fdrop")
    /\ \/ /\ tree' = tree \ {req["web"].f}
          /\ Goto("web", IF req["web"].op = "update" THEN "finstall" ELSE "exclude")
       \/ /\ tree' = tree
          /\ IF req["web"].op = "update" THEN End("web") ELSE Goto("web", "exclude")
    /\ vendored' = vendored \ {req["web"].f} /\ served' = FALSE
    /\ UNCHANGED <<up, gitVars, disk, rest, dbVars, auxVars>>

\* _install_formula_tree: never onto a directory that is there.  A move that fails
\* half-way leaves what it had moved.
FormulaInstall ==
    /\ At("web", "finstall")
    /\ \/ /\ req["web"].f \notin tree
          /\ tree' = tree \cup {req["web"].f} /\ served' = FALSE
          /\ Goto("web", "exclude") \/ FormulaRefused
       \/ FormulaRefused /\ UNCHANGED <<tree, served>>
    /\ UNCHANGED <<up, gitVars, disk, vendored, rest, dbVars, auxVars>>

AfterExclude ==
    [add |-> "row", update |-> "refresh", remove |-> "refresh",
     clone |-> "revendor", reclone |-> "revendor", re_vendor |-> "revendor"]

\* Mutant: the pattern is taken to be there already.
ExcludeNone(f) == excl

\* Mutant: the pattern is written without the name.
ExcludeNameless(f) == excl \cup {NoFormula}

\* _add_formula_exclude and _remove_formula_exclude.
Excluded(f) == IF req["web"].op = "remove" THEN excl \ {f} ELSE excl \cup {f}

FormulaExclude ==
    /\ At("web", "exclude")
    /\ excl' = Excluded(req["web"].f)
    /\ vendored' = IF req["web"].op = "remove" THEN vendored
                   ELSE vendored \cup {req["web"].f}
    /\ Goto("web", AfterExclude[req["web"].op])
    /\ UNCHANGED <<up, git, origin, head, track, index, locked, disk, tree, rest,
                   dbVars, served, auxVars>>

\* The row of a new formula, before the refresh; of a removed one, after it.
FormulaRow ==
    /\ \/ /\ At("web", "row") /\ rows' = rows \cup {req["web"].f}
          /\ Goto("web", "refresh")
       \/ At("web", "unrow") /\ rows' = rows \ {req["web"].f} /\ End("web")
    /\ UNCHANGED <<up, gitVars, srvVars, status, served, auxVars>>

-----------------------------------------------------------------------------
(* The environment.                                                        *)

\* Somebody else pushes to a remote.
UpstreamCommit(r) ==
    /\ last < MaxVersions[subject]
    /\ OffOrigin \/ r = origin
    /\ last' = last + 1 /\ up' = [up EXCEPT ![r] = @ \cup {last + 1}]
    /\ UNCHANGED <<gitVars, srvVars, dbVars,
                   served, req, subject, asked, cut>>

\* An operator puts a formula's directory under salt/ by hand.
PlaceByHand(f) ==
    /\ subject = "formulas" /\ disk # 0 /\ f \notin tree
    /\ tree' = tree \cup {f} /\ served' = FALSE
    /\ UNCHANGED <<up, gitVars, disk, vendored, rest, dbVars, req, auxVars>>

\* A worker or the pod dies: gunicorn's timeout, the Job's deadline, a drain.  What
\* its git leaves behind is in the step that git was at.
Crash(p) ==
    /\ ~cut /\ req[p] # Idle
    /\ End(p) /\ cut' = TRUE
    /\ UNCHANGED <<up, gitVars, srvVars, dbVars, served, subject, last,
                   asked>>

SyncStep(p) ==
    SyncPull(p) \/ SyncRefresh(p) \/ SyncStatus(p)

FileStep == SaveWrite \/ CommitAdd \/ Commit \/ PushSend \/ WebRefresh

RepoStep ==
    \/ AheadCheck \/ ResetHard \/ ResetClean \/ SetUrl
    \/ StageClone \/ ClearAll \/ ClearSome \/ InstallAll \/ InstallSome

FormulaStep ==
    NextRow \/ FormulaClone \/ FormulaDrop \/ FormulaInstall \/ FormulaExclude
        \/ FormulaRow

FileRequest ==
    \/ Sync("sync")
    \/ subject = "formulas" /\ Sync("sync_now")
    \/ subject = "states" /\ (Save \/ Fetch \/ Push)

RepoRequest ==
    \/ \E force \in BOOLEAN :
        Reset(force, FALSE) \/ (subject = "formulas" /\ Reset(force, TRUE))
    \/ \E url \in Remotes :
        \/ subject = "states" /\ SetRemote(url)
        \/ \E tick, seen \in BOOLEAN : Reclone(url, tick, seen)
        \/ \E tick \in BOOLEAN : Clone(url, tick)

FormulaRequest ==
    /\ subject = "formulas"
    /\ ReVendor \/ \E f \in Formulas : Add(f) \/ Track(f) \/ Update(f) \/ Remove(f)

Next ==
    \/ FileRequest \/ RepoRequest \/ FormulaRequest \/ CronStart
    \/ SyncStep("web") \/ SyncStep("cron") \/ FileStep \/ RepoStep \/ FormulaStep
    \/ Crash("web") \/ Crash("cron")
    \/ \E r \in Remotes : UpstreamCommit(r)
    \/ \E f \in Formulas : PlaceByHand(f)

Spec == Init /\ [][Next]_vars

(* Slots come, so the CronJob's tick starts a run some time; a pod that has *)
(* begun goes on; and a remote and a master that are asked again and again  *)
(* answer some time.                                                        *)
Fairness ==
    /\ WF_vars(CronStart) /\ WF_vars(SyncStep("cron"))
    /\ SF_vars(SyncPull("cron") /\ req'["cron"].pc # "failed")
    /\ SF_vars(SyncRefresh("cron") /\ req'["cron"].pc = "success")

FairSpec == Spec /\ Fairness

-----------------------------------------------------------------------------
(* Properties.                                                             *)

(* A commit leaves the checkout only when some remote has it, or the admin *)
(* forced it: reset and re-clone refuse on unpushed commits, also after a  *)
(* repoint, with the remote down, a tick pulling in between or a re-clone  *)
(* that broke off.  Only a re-clone whose probe for a checkout got no      *)
(* answer checks nothing.                                                  *)
UnpushedSurvive ==
    [][\A v \in head \ head' :
        \/ \E r \in Remotes : v \in up'[r]
        \/ req["web"].force
        \/ req["web"].blind]_vars

(* What a save commits is what it wrote: no sync replaces the file between *)
(* the write and the commit, as pull --ff-only refuses over local changes. *)
EditReachesCommit ==
    req["web"].pc \in {"add", "commit"} => disk = req["web"].v

(* "Sync never fails over it": git ignores a formula once a request has    *)
(* installed it to the end, so that a reset that cleans untracked files    *)
(* keeps it as long as its directory is there: through updates, requests   *)
(* cut short and re-clones, which replace the list of what git ignores.    *)
CleanKeepsFormulas ==
    [][req["web"].pc = "clean" => vendored \subseteq tree']_vars

\* Only the tick runs, on a checkout with nothing of its own and without a lock
\* that a killed git has left in it.
Calm == git /\ ~locked /\ req["web"] = Idle /\ head \subseteq Remote /\ ~Blocked

(* Scheduled runs bring upstream commits to the checkout, whatever failed, *)
(* died or was recorded before.                                            *)
SyncDelivers == []([]Calm => <>(head = Remote))

(* A refresh failure on record is retried by the scheduled runs until the  *)
(* master serves the checkout, when no sync fails meanwhile.               *)
RefreshRetried ==
    [](/\ status = "warning" /\ req["cron"] = Idle
       /\ []Calm /\ [](status # "failed")
       => <>served)
=============================================================================
