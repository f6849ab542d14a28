----------------------------- MODULE SafetyGate -----------------------------
(***************************************************************************)
(* core/safety and core/commitAndPush: the verdicts.  Pure operators on    *)
(* the data the renderer has gathered: nothing here reads or changes the   *)
(* repository.  Absent data is None.                                       *)
(*                                                                         *)
(*   profile     [id, author, hosts, alias]   hosts: the hosts expected    *)
(*   repository  [assigned, policy]                                        *)
(*   policy      [scoped, allowed, blocked, owner, repo, actor]; a pattern *)
(*               is the set of the branches it matches                     *)
(*   identity    [name, email, scope]                                      *)
(*   remote      [name, host, owner, repo]                                 *)
(*   github      [login, token, invalid, scope, actual]                    *)
(* An author is a pair <<name, email>>.                                    *)
(***************************************************************************)
EXTENDS FiniteSets

CONSTANTS None,
          Origin      \* the name of the remote preferred

Issue(code, holds) == {c \in {code} : holds}

Warnings == {"EMAIL_FROM_GLOBAL_ONLY", "NO_REMOTE", "GITHUB_NOT_CONNECTED",
             "PUSH_POLICY_INCOMPLETE"}
Blockers(issues) == issues \ Warnings
HasBlocker(issues) == Blockers(issues) # {}

IdentityUnset(id) == None \in {id.name, id.email}

IdentityIssues(repository, profile, id) ==
    IF profile = None THEN {"NO_ACTIVE_PROFILE"}
    ELSE Issue("REPO_UNASSIGNED", repository.assigned = None)
         \union Issue("PROFILE_MISMATCH", repository.assigned \notin {None, profile.id})
         \union IF IdentityUnset(id) THEN {"IDENTITY_UNSET"}
                ELSE Issue("NAME_MISMATCH", id.name # profile.author[1])
                     \union Issue("EMAIL_MISMATCH", id.email # profile.author[2])
                     \union Issue("EMAIL_FROM_GLOBAL_ONLY", id.scope \notin {None, "local"})

\* Of an HTTPS remote of GitHub; None for any other remote.
GitHubIssues(g) ==
    IF g = None THEN {}
    ELSE LET usable == g.token /\ ~g.invalid IN
         Issue("GITHUB_TOKEN_MISSING", ~g.token /\ g.login # None)
         \union Issue("GITHUB_NOT_CONNECTED", ~g.token /\ g.login = None)
         \union Issue("GITHUB_TOKEN_INVALID", g.token /\ g.invalid)
         \union Issue("GITHUB_TOKEN_SCOPE_MISSING", usable /\ ~g.scope)
         \union Issue("GITHUB_ACCOUNT_MISMATCH",
                      usable /\ g.scope /\ None \notin {g.login, g.actual}
                             /\ g.login # g.actual)

\* The authors of the commits going out; None when they were not read.
AuthorIssues(outgoing, profile) ==
    Issue("OUTGOING_WRONG_AUTHOR",
          None \notin {outgoing, profile} /\ \E a \in outgoing : a # profile.author)

HostIssues(remotes, profile) ==
    IF remotes = {} THEN {"NO_REMOTE"}
    ELSE Issue("REMOTE_HOST_MISMATCH",
               /\ profile # None
               /\ profile.hosts # {}
               /\ \A r \in remotes :
                     r.host \notin (profile.hosts \union {profile.alias}) \ {None})

-----------------------------------------------------------------------------
(* The target of a push.  `upstream` is the remote of the upstream branch. *)

Named(remotes, name) == {r \in remotes : r.name = name}
Only(S) == CHOOSE x \in S : TRUE

ResolvePushTarget(remotes, upstream) ==
    IF Named(remotes, upstream) # {} THEN Only(Named(remotes, upstream))
    ELSE IF Named(remotes, Origin) # {} THEN Only(Named(remotes, Origin))
    ELSE IF Cardinality(remotes) = 1 THEN Only(remotes)
    ELSE None

\* The same rule, written again for Commit & Push.
PickPushTarget(remotes, upstream) ==
    LET kept == Named(remotes, upstream)
        origin == Named(remotes, Origin)
        found(r, why) == [kind |-> "remote", remote |-> r.name, reason |-> why]
    IN  IF remotes = {} THEN [kind |-> "none"]
        ELSE IF kept # {} THEN found(Only(kept), "upstream")
        ELSE IF origin # {} THEN found(Only(origin), "origin")
        ELSE IF Cardinality(remotes) = 1 THEN found(Only(remotes), "only-remote")
        ELSE [kind |-> "choice-required", candidates |-> {r.name : r \in remotes}]

Matches(branch, patterns) == \E p \in patterns : branch \in p

\* Mutant: an allowed branch is pushed even when it is blocked too.
AllowedWins(policy, branch, remotes, upstream) ==
    Issue("PROTECTED_BRANCH_PUSH",
          Matches(branch, policy.blocked) /\ ~Matches(branch, policy.allowed))

PolicyIssues(policy, branch, remotes, upstream) ==
    IF policy = None THEN {}
    ELSE LET target == ResolvePushTarget(remotes, upstream)
             differs(expected, actual) == target # None /\ expected \notin {None, actual}
             blocked == Matches(branch, policy.blocked)
             scoped == policy.scoped /\ ~blocked
         IN  Issue("REMOTE_OWNER_MISMATCH", differs(policy.owner, target.owner))
             \union Issue("REMOTE_REPO_MISMATCH", differs(policy.repo, target.repo))
             \union Issue("PROTECTED_BRANCH_PUSH", blocked)
             \union Issue("PUSH_POLICY_INCOMPLETE", scoped /\ policy.allowed = {})
             \union Issue("BRANCH_NOT_ALLOWED",
                          scoped /\ policy.allowed # {} /\ ~Matches(branch, policy.allowed))

-----------------------------------------------------------------------------
(* The gates.                                                              *)

\* work: [staged, conflicts, message], all Boolean.
CommitIssues(repository, profile, id, work) ==
    IdentityIssues(repository, profile, id)
    \union Issue("NOTHING_STAGED", ~work.staged)
    \union Issue("EMPTY_MESSAGE", ~work.message)
    \union Issue("HAS_CONFLICTS", work.conflicts)

CanCommit(repository, profile, id, work) ==
    ~HasBlocker(CommitIssues(repository, profile, id, work))

\* to: [remotes, branch, upstream, github, outgoing].
PushIssues(repository, profile, id, to) ==
    IdentityIssues(repository, profile, id)
    \union HostIssues(to.remotes, profile)
    \union GitHubIssues(to.github)
    \union AuthorIssues(to.outgoing, profile)
    \union PolicyIssues(repository.policy, to.branch, to.remotes, to.upstream)

CanPush(repository, profile, id, to) ==
    LET issues == PushIssues(repository, profile, id, to) IN
    ~HasBlocker(issues) /\ "PUSH_POLICY_INCOMPLETE" \notin issues

\* The commit about to be made goes out with the commits that are ahead now.
CanCommitAndPush(repository, profile, id, work, to) ==
    /\ to.outgoing # None
    /\ CanCommit(repository, profile, id, work)
    /\ CanPush(repository, profile, id,
               [to EXCEPT !.outgoing = @ \union {<<id.name, id.email>>}])

-----------------------------------------------------------------------------
(* The header's badge and the Safety Center.                               *)

\* A profile that no longer exists counts as no assignment.
Effective(repository, profiles) ==
    IF repository.assigned \in profiles THEN repository
    ELSE [repository EXCEPT !.assigned = None]

HeaderGuard(repository, profile, id) ==
    LET issues == IdentityIssues(repository, profile, id) IN
    IF HasBlocker(issues) THEN "blocked" ELSE IF issues # {} THEN "review" ELSE "ready"

\* The Safety Center asks the push gate about all remotes at once, and without
\* the account and the commits going out.
CenterPush(repository, profile, id, to) ==
    CanPush(repository, profile, id, [to EXCEPT !.github = None, !.outgoing = None])

-----------------------------------------------------------------------------
(* Remedies.                                                               *)

ActionOf(code) ==
    CASE code \in {"IDENTITY_UNSET", "NAME_MISMATCH", "EMAIL_MISMATCH",
                   "EMAIL_FROM_GLOBAL_ONLY"} -> "set-local-identity"
      [] code \in {"NO_ACTIVE_PROFILE", "PROFILE_MISMATCH", "REMOTE_HOST_MISMATCH"}
            -> "switch-active-profile"
      [] code \in {"GITHUB_ACCOUNT_MISMATCH", "GITHUB_TOKEN_MISSING",
                   "GITHUB_TOKEN_INVALID", "GITHUB_TOKEN_SCOPE_MISSING",
                   "GITHUB_NOT_CONNECTED"} -> "reconnect-github"
      [] code = "REPO_UNASSIGNED" -> "assign-repo-profile"
      [] code \in {"NOTHING_STAGED", "HAS_CONFLICTS"} -> "status"
      [] code \in {"EMPTY_MESSAGE", "NO_REMOTE", "REMOTE_OWNER_MISMATCH",
                   "REMOTE_REPO_MISMATCH"} -> "commit"
      [] code \in {"PROTECTED_BRANCH_PUSH", "BRANCH_NOT_ALLOWED"} -> "branches"
      [] code = "PUSH_POLICY_INCOMPLETE" -> "repositories"
      [] code = "OUTGOING_WRONG_AUTHOR" -> "history"

Executable == {"set-local-identity", "switch-active-profile", "reconnect-github",
               "switch-profile-and-retry-push", "merge-remote-into-local"}

\* For a failure of git; any other code has no remedy.
ErrorAction(code) ==
    CASE code = "pushRejectedWrongAccount" -> "switch-profile-and-retry-push"
      [] code \in {"authenticationFailed", "noCredentialsAvailable"} -> "reconnect-github"
      [] code = "dubiousOwnership" -> "assign-repo-profile"
      [] code = "divergentBranches" -> "merge-remote-into-local"
      [] code = "mergeConflict" -> "status"
      [] OTHER -> None

\* The screen drops the links that lead back to itself.
Offered(issues) == {ActionOf(c) : c \in issues} \ {"commit"}
=============================================================================
