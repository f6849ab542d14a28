--------------------------- MODULE RemoteBinding ---------------------------
(***************************************************************************)
(* Assigning a profile to a repository: the handler of repositories:update *)
(* (ipc-handlers.ts), which saves the assignment, writes the profile's     *)
(* identity to the repository's git configuration                          *)
(* (applyAssignedProfileIdentity) and binds the host of an SSH origin to   *)
(* the profile's ssh alias, or restores it (remoteReconcile.ts).           *)
(*                                                                         *)
(* One repository, and the handlers of the updates requested for it.  The  *)
(* record lives in a JSON file that RepositoryService reads and writes     *)
(* back; git writes wait their turn in GitRunner's queue (SerialQueue).    *)
(***************************************************************************)
EXTENDS Naturals, Sequences, FiniteSets, SequencesExt

CONSTANTS Profiles,
          Aliased,    \* the profiles with SSH authentication and a key alias
          Named,      \* the profiles with an author name and an email
          Updates,    \* repositories:update requests, each handled once
          None,       \* no profile; the host of an origin that is not scp-like
          GitHub,     \* a host that counts as GitHub's, or is expected by the profiles
          Elsewhere,  \* any other host of an scp-like SSH origin
          Absent,     \* there is no origin
          Overlap,    \* whether a request may come while another is handled
          Failures    \* what may fail: "git", "store", "crash"

ASSUME ProfilesAssumption == Aliased \subseteq Profiles /\ Named \subseteq Profiles
ASSUME HostsAssumption ==
    /\ {None, GitHub, Elsewhere, Absent} \cap Profiles = {}
    /\ Elsewhere \notin {None, GitHub, Absent}
    /\ GitHub \notin {None, Absent}
ASSUME FailuresAssumption == Failures \subseteq {"git", "store", "crash"}

VARIABLES record,    \* the stored repository record
          config,    \* the repository's git configuration
          original,  \* the origin's host as the user set it up
          h,         \* the handler of each update
          queue,     \* the handlers with a git write queued, in order
          last,      \* history: the profile last asked for
          disturbed     \* history: a step failed or the user stepped in since

vars == <<record, config, original, h, queue, last, disturbed>>

-----------------------------------------------------------------------------
\* The ssh alias of a profile is named by the profile.
Hosts == Aliased \union {GitHub, Elsewhere, None, Absent}

Records == [assigned : Profiles \union {None}, preBind : Hosts]

Pcs == {"idle", "read", "write", "name", "email", "remotes", "setUrl", "markRead",
        "markWrite", "done"}

(* `updated` is the record that update() returned, which the rest of the   *)
(* handler works with; `snapshot` is what update() has just read; `host`   *)
(* and `mark` are what reconcileAssignedProfileRemote is about to write.   *)
IdleHandler == [pc |-> "idle", want |-> None, snapshot |-> [assigned |-> None, preBind |-> None],
                updated |-> [assigned |-> None, preBind |-> None], host |-> None, mark |-> None]

QueuedPcs == {"name", "email", "setUrl"}

Running(u) == h[u].pc \notin {"idle", "done"}
Rest == \A u \in Updates : ~Running(u)

TypeOK ==
    /\ record \in Records
    /\ config \in [host : Hosts, name : Profiles \union {None}, email : Profiles \union {None}]
    /\ original \in Hosts \ Aliased
    /\ h \in [Updates -> [pc : Pcs, want : Profiles \union {None}, snapshot : Records,
                          updated : Records, host : Hosts, mark : Hosts]]
    /\ last \in Profiles \union {None}
    /\ disturbed \in BOOLEAN
    /\ queue \in Seq(Updates)
    /\ \A i, j \in 1..Len(queue) : queue[i] = queue[j] => i = j
    /\ \A u \in Updates : (\E i \in 1..Len(queue) : queue[i] = u) <=> h[u].pc \in QueuedPcs
    /\ \A host \in {None, Absent} : original = host <=> config.host = host

Init ==
    /\ record = [assigned |-> None, preBind |-> None]
    /\ original \in Hosts \ Aliased
    /\ config = [host |-> original, name |-> None, email |-> None]
    /\ h = [u \in Updates |-> IdleHandler]
    /\ queue = <<>>
    /\ last = None
    /\ disturbed = FALSE

-----------------------------------------------------------------------------
Step(u, fields) == h' = [h EXCEPT ![u] = fields]

Goto(u, step) == Step(u, [h[u] EXCEPT !.pc = step])

(* The catch blocks of the two best-effort helpers.                        *)
GiveUp(u, step) ==
    /\ disturbed' = TRUE
    /\ Goto(u, step)

(* A repositories:update request that sets the assigned profile.           *)
Request(u, p) ==
    /\ h[u].pc = "idle"
    /\ Overlap \/ Rest
    /\ Step(u, [IdleHandler EXCEPT !.pc = "read", !.want = p])
    /\ last' = p
    /\ disturbed' = FALSE
    /\ UNCHANGED <<record, config, original, queue>>

(* RepositoryService.update: read the file ...                             *)
ReadRecord(u) ==
    /\ h[u].pc = "read"
    /\ Step(u, [h[u] EXCEPT !.pc = "write", !.snapshot = record])
    /\ UNCHANGED <<record, config, original, queue, last, disturbed>>

(* ... patch what was read, ...                                            *)
Patched(u) == [h[u].snapshot EXCEPT !.assigned = h[u].want]

(* ... and write it back; then queue the first identity write, unless      *)
(* there is no profile, or one without an identity.                        *)
WriteRecord(u) ==
    /\ h[u].pc = "write"
    /\ record' = Patched(u)
    /\ \/ /\ h[u].want \in Named
          /\ Step(u, [h[u] EXCEPT !.pc = "name", !.updated = Patched(u)])
          /\ queue' = Append(queue, u)
       \/ /\ h[u].want \notin Named
          /\ Step(u, [h[u] EXCEPT !.pc = "remotes", !.updated = Patched(u)])
          /\ UNCHANGED queue
    /\ UNCHANGED <<config, original, last, disturbed>>

\* Mutant: a write runs whoever else is queued before it.
AnyTurn(u) == \E i \in 1..Len(queue) : queue[i] = u

\* u's git write is the head of the queue.
Turn(u) == queue # <<>> /\ Head(queue) = u

Dequeued(u) == RemoveAt(queue, CHOOSE i \in 1..Len(queue) : queue[i] = u)

(* setLocalIdentity: user.name, and when that is done user.email.          *)
WriteName(u) ==
    /\ h[u].pc = "name"
    /\ Turn(u)
    /\ \/ /\ config' = [config EXCEPT !.name = h[u].want]
          /\ Goto(u, "email")
          /\ queue' = Append(Dequeued(u), u)
          /\ UNCHANGED disturbed
       \/ /\ "git" \in Failures
          /\ GiveUp(u, "remotes")
          /\ queue' = Dequeued(u)
          /\ UNCHANGED config
    /\ UNCHANGED <<record, original, last>>

WriteEmail(u) ==
    /\ h[u].pc = "email"
    /\ Turn(u)
    /\ queue' = Dequeued(u)
    /\ \/ /\ config' = [config EXCEPT !.email = h[u].want]
          /\ Goto(u, "remotes")
          /\ UNCHANGED disturbed
       \/ /\ "git" \in Failures
          /\ GiveUp(u, "remotes")
          /\ UNCHANGED config
    /\ UNCHANGED <<record, original, last>>

\* Mutant: the host that is bound now is taken for the canonical one.
BindMarkOfCurrent(rec, current) == current

(* reconcileAssignedProfileRemote decides on the record update() returned  *)
(* and on the origin's host as it is now: the next step, and what to write.*)
BindMark(rec, current) == IF rec.preBind # None THEN rec.preBind ELSE current

\* Mutant: any SSH origin is bound.
BindsAnyHost(rec, current) ==
    /\ rec.assigned \in Aliased
    /\ current \notin {None, Absent, rec.assigned}

Binds(rec, current) ==
    /\ rec.assigned \in Aliased
    /\ current \notin {None, Absent, rec.assigned}
    /\ rec.preBind # None \/ current = GitHub

\* Mutant: only unassigning restores.
RestoresUnassigned(rec) == rec.assigned = None /\ rec.preBind # None

Restores(rec) == rec.assigned \notin Aliased /\ rec.preBind # None

ReadRemotes(u) ==
    LET rec == h[u].updated
        current == config.host
    IN  /\ h[u].pc = "remotes"
        /\ \/ /\ Binds(rec, current)
              /\ Step(u, [h[u] EXCEPT !.pc = "setUrl", !.host = rec.assigned,
                                      !.mark = BindMark(rec, current)])
              /\ queue' = Append(queue, u)
              /\ UNCHANGED disturbed
           \/ /\ Restores(rec) /\ current \notin {None, Absent}
              /\ Step(u, [h[u] EXCEPT !.pc = "setUrl", !.host = rec.preBind, !.mark = None])
              /\ queue' = Append(queue, u)
              /\ UNCHANGED disturbed
           \/ /\ Restores(rec) /\ current = None
              /\ Step(u, [h[u] EXCEPT !.pc = "markRead", !.mark = None])
              /\ UNCHANGED <<queue, disturbed>>
           \/ /\ ~Binds(rec, current) /\ (~Restores(rec) \/ current = Absent)
              /\ Goto(u, "done")
              /\ UNCHANGED <<queue, disturbed>>
           \/ /\ "git" \in Failures
              /\ GiveUp(u, "done")
              /\ UNCHANGED queue
    /\ UNCHANGED <<record, config, original, last>>

(* remote set-url, then the marker, unless the record has it already.      *)
SetUrl(u) ==
    /\ h[u].pc = "setUrl"
    /\ Turn(u)
    /\ queue' = Dequeued(u)
    /\ \/ /\ config' = [config EXCEPT !.host = h[u].host]
          /\ Goto(u, IF h[u].updated.preBind = h[u].mark THEN "done" ELSE "markRead")
          /\ UNCHANGED disturbed
       \/ /\ "git" \in Failures
          /\ GiveUp(u, "done")
          /\ UNCHANGED config
    /\ UNCHANGED <<record, original, last>>

(* RepositoryService.update again, for preBindRemoteHost.                  *)
ReadForMark(u) ==
    /\ h[u].pc = "markRead"
    /\ Step(u, [h[u] EXCEPT !.pc = "markWrite", !.snapshot = record])
    /\ UNCHANGED <<record, config, original, queue, last, disturbed>>

WriteMark(u) ==
    /\ h[u].pc = "markWrite"
    /\ record' = [h[u].snapshot EXCEPT !.preBind = h[u].mark]
    /\ Goto(u, "done")
    /\ UNCHANGED <<config, original, queue, last, disturbed>>

(* A read or write of the file fails.  In the first update() the request   *)
(* fails with it; in the second one it is caught.                          *)
StoreFails(u) ==
    /\ "store" \in Failures
    /\ h[u].pc \in {"read", "write", "markRead", "markWrite"}
    /\ GiveUp(u, "done")
    /\ UNCHANGED <<record, config, original, queue, last>>

(* The program quits: what is stored stays, the handlers are gone.         *)
Crash ==
    /\ "crash" \in Failures
    /\ ~Rest
    /\ h' = [u \in Updates |-> IF Running(u) THEN [h[u] EXCEPT !.pc = "done"] ELSE h[u]]
    /\ queue' = <<>>
    /\ disturbed' = TRUE
    /\ UNCHANGED <<record, config, original, last>>

(* In a terminal, between requests, the user moves an origin from GitHub   *)
(* to HTTPS or back, or removes it and adds it again.                      *)
UserSetsOrigin(host) ==
    /\ Rest
    /\ original # Elsewhere
    /\ config.host # host
    /\ original' = host
    /\ config' = [config EXCEPT !.host = host]
    /\ disturbed' = TRUE
    /\ UNCHANGED <<record, h, queue, last>>

Next ==
    \/ \E u \in Updates :
          \/ \E p \in Profiles \union {None} : Request(u, p)
          \/ ReadRecord(u)
          \/ WriteRecord(u)
          \/ WriteName(u)
          \/ WriteEmail(u)
          \/ ReadRemotes(u)
          \/ SetUrl(u)
          \/ ReadForMark(u)
          \/ WriteMark(u)
          \/ StoreFails(u)
    \/ Crash
    \/ \E host \in {None, GitHub, Absent} : UserSetsOrigin(host)

Spec == Init /\ [][Next]_vars

-----------------------------------------------------------------------------
(* Properties.                                                             *)

(* "Reconcile a repository's LOCAL Git identity ... to its assigned        *)
(* profile" and bind the SSH host "so the profile actually governs the     *)
(* key" (ipc-handlers.ts): when every request is done and none of the last *)
(* one's steps failed, the identity, the host and the record all belong to *)
(* the profile asked for last.                                             *)
AssignmentGoverns ==
    Rest /\ ~disturbed /\ last = record.assigned =>
        /\ last \in Named => config.name = last /\ config.email = last
        /\ config.host = IF last \in Aliased /\ original = GitHub THEN last ELSE original

(* The canonical host is never lost: an origin that was bound to an alias  *)
(* can be restored "for exact reversal" (remoteReconcile.ts), whatever     *)
(* steps failed on the way.                                                *)
HostRecoverable == Rest => original \in {config.host, record.preBind}

(* The host of an origin that is neither on GitHub nor expected is never   *)
(* touched, nor is an HTTPS origin (ADR 0009).                             *)
OthersUntouched == original # GitHub => config.host = original

(* The two parts of the identity are written apart, and requests may       *)
(* overlap; unless a write fails after the last request, which names a     *)
(* profile that has both, they end as those of one profile                 *)
(* (GitService.setLocalIdentity).                                          *)
IdentityIsWhole == Rest /\ ~disturbed /\ last \in Named => config.name = config.email
=============================================================================
