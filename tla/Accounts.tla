----------------------------- MODULE Accounts -----------------------------
(***************************************************************************)
(* Users, their roles and their refresh tokens: the signal handlers of     *)
(* apps/common/models.py, login and refresh (apps/api/auth_*.py over       *)
(* simplejwt) and the permission classes.                                  *)
(*                                                                         *)
(* Whoever saves a user saves the profile its instance holds with it:      *)
(* save_user_profile is called on every save of a User, at its creation,   *)
(* by update_last_login at a login, and by the admin (config/urls.py), a   *)
(* shell or a change of password at any time.  The profile is read in one  *)
(* step and saved in another, and nothing locks it in between: every       *)
(* statement is a transaction of its own (no ATOMIC_REQUESTS), and the     *)
(* transaction of an admin's form reads what others have committed.        *)
(*                                                                         *)
(* Left out: wrong passwords and tokens, which change nothing, expiry,     *)
(* which only takes tokens away, and the deletion of users.                *)
(***************************************************************************)
EXTENDS Integers, FiniteSets

CONSTANTS
    Processes,      \* gunicorn workers and shells, one job at a time each
    Users,
    Tokens,         \* refresh tokens, by jti: as many as may be issued
    NoToken

Roles == {"basic", "premium", "admin"}
NoProfile == "none"

IssuedTokens == [user : Users, role : Roles]

ASSUME AccountsAssumption ==
    /\ IsFiniteSet(Processes)
    /\ Users \cap Tokens = {} /\ Processes \cap Tokens = {}
    /\ NoToken \notin IssuedTokens

VARIABLES
    registered,     \* the users with a row
    profile,        \* the role in the user's profile row, or NoProfile
    job,            \* what each process is doing
    token,          \* the claims of each token, [user, role], or NoToken
    blacklist,      \* BlacklistedToken
    \* For the properties only:
    assigned,       \* the role the user was given last
    given,          \* every role the user was ever given
    clean,          \* no profile read before that was still to be saved
    current,        \* logins and tokens since whose login the user was given no role
    exchanges,      \* how often each token was exchanged for another
    interrupted     \* users and tokens whose job died in the middle

accounts == <<registered, profile, assigned, given, clean>>
tokens == <<token, blacklist, exchanges>>
vars == <<accounts, tokens, job, current, interrupted>>

Idle == [step |-> "idle"]
Creation(u) == [step |-> "creating", user |-> u]
Saving(s, u, r) == [step |-> s, user |-> u, held |-> r]
Rotation(s, t) == [step |-> s, token |-> t]

Jobs ==
    {Idle} \cup [step : {"creating"}, user : Users]
      \cup [step : {"created", "saving", "login"}, user : Users, held : Roles \cup {NoProfile}]
      \cup [step : {"checked", "rotating"}, token : Tokens]

TypeOK ==
    /\ registered \subseteq Users
    /\ profile \in [Users -> Roles \cup {NoProfile}]
    /\ job \in [Processes -> Jobs]
    /\ token \in [Tokens -> IssuedTokens \cup {NoToken}]
    /\ blacklist \subseteq Tokens
    /\ assigned \in [Users -> Roles \cup {NoProfile}]
    /\ given \in [Users -> SUBSET Roles]
    /\ clean \in [Users -> BOOLEAN]
    /\ current \subseteq Processes \cup Tokens
    /\ exchanges \in [Tokens -> Nat]
    /\ interrupted \subseteq Users \cup Tokens

\* ROLE_PERMISSIONS
RolePermissions ==
    LET basic == {"view_dashboard", "optimize_trip"}
        premium == basic \cup {"unlimited_distance", "advanced_metrics"}
    IN  [basic |-> basic, premium |-> premium, admin |-> premium \cup {"manage_stations"}]

\* UserProfile.has_perm
HasPerm(u, perm) == profile[u] # NoProfile /\ perm \in RolePermissions[profile[u]]

\* Faulty: basic users are forgotten where paying ones were added.
AllowedPaying ==
    [IsAdminUser |-> {"admin"}, IsPremiumUser |-> {"admin", "premium"},
     IsBasicUser |-> {"admin", "premium"}]

AllowedRoles ==
    [IsAdminUser |-> {"admin"}, IsPremiumUser |-> {"admin", "premium"}, IsBasicUser |-> Roles]

\* has_permission: the role in the database decides, since token_role is never
\* set; a user without a profile has none.
HasPermission(u, class) == profile[u] \in AllowedRoles[class]

Init ==
    /\ registered = {}
    /\ profile = [u \in Users |-> NoProfile]
    /\ job = [p \in Processes |-> Idle]
    /\ token = [t \in Tokens |-> NoToken]
    /\ blacklist = {}
    /\ assigned = profile
    /\ given = [u \in Users |-> {}]
    /\ clean = [u \in Users |-> TRUE]
    /\ current = {}
    /\ exchanges = [t \in Tokens |-> 0]
    /\ interrupted = {}

-----------------------------------------------------------------------------
(* Users and profiles.                                                      *)

Goto(p, j) == job' = [job EXCEPT ![p] = j]

Doing(p, s) == job[p].step = s

\* User.objects.create_user has inserted the row; its signals are to come.
Register(p, u) ==
    /\ Doing(p, "idle")
    /\ u \notin registered
    /\ registered' = registered \cup {u}
    /\ Goto(p, Creation(u))
    /\ UNCHANGED <<profile, assigned, given, clean, tokens, current, interrupted>>

\* create_user_profile, for a row that is new.
CreateProfile(p) ==
    LET u == job[p].user
    IN  /\ Doing(p, "creating")
        /\ profile' = [profile EXCEPT ![u] = "basic"]
        /\ assigned' = [assigned EXCEPT ![u] = "basic"]
        /\ given' = [given EXCEPT ![u] = @ \cup {"basic"}]
        /\ Goto(p, Saving("created", u, "basic"))
        /\ UNCHANGED <<registered, clean, tokens, current, interrupted>>

\* A profile of u that was read, or made, and is still to be saved.
Holds(p, u) ==
    /\ job[p].step \in {"created", "saving", "login"}
    /\ job[p].user = u
    /\ job[p].held # NoProfile

\* user.profile.role = r; user.profile.save()
Assign(u, r) ==
    /\ profile[u] # NoProfile
    /\ profile' = [profile EXCEPT ![u] = r]
    /\ assigned' = [assigned EXCEPT ![u] = r]
    /\ given' = [given EXCEPT ![u] = @ \cup {r}]
    /\ clean' = [clean EXCEPT ![u] = ~\E p \in Processes : Holds(p, u)]
    /\ current' = {x \in current :
          IF x \in Tokens THEN token[x].user # u ELSE ~(Doing(x, "login") /\ job[x].user = u)}
    /\ UNCHANGED <<registered, tokens, job, interrupted>>

\* Faulty: the profile is made again with its default.
SavedDefault(j) == "basic"

\* What save_user_profile leaves in the row: the profile the instance holds.
Saved(j) == IF j.held = NoProfile THEN profile[j.user] ELSE j.held

SaveProfile(p) == profile' = [profile EXCEPT ![job[p].user] = Saved(job[p])]

\* A user is about to be saved by an admin or a shell, and its profile is read.
EditUser(p, u) ==
    /\ Doing(p, "idle")
    /\ u \in registered
    /\ Goto(p, Saving("saving", u, profile[u]))
    /\ UNCHANGED <<accounts, tokens, current, interrupted>>

\* The save of a user that ends there, be it new or edited.
FinishSave(p) ==
    /\ job[p].step \in {"created", "saving"}
    /\ SaveProfile(p)
    /\ Goto(p, Idle)
    /\ UNCHANGED <<registered, assigned, given, clean, tokens, current, interrupted>>

-----------------------------------------------------------------------------
(* Login and refresh.                                                       *)

\* The credentials are right; get_token reads the profile.
Login(p, u) ==
    /\ Doing(p, "idle")
    /\ u \in registered
    /\ Goto(p, Saving("login", u, profile[u]))
    /\ current' = IF clean[u] THEN current \cup {p} ELSE current \ {p}
    /\ UNCHANGED <<accounts, tokens, interrupted>>

\* Faulty: a missing profile has no role.
RawClaim(r) == r

\* Faulty: the default of another table.
PaidClaim(r) == IF r = NoProfile THEN "premium" ELSE r

RoleClaim(r) == IF r = NoProfile THEN "basic" ELSE r

\* A token with these claims, not issued before, from a login or an older token.
Issue(u, r, source) ==
    \E t \in Tokens :
        /\ token[t] = NoToken
        /\ token' = [token EXCEPT ![t] = [user |-> u, role |-> r]]
        /\ current' = IF source \in current THEN current \cup {t} ELSE current \ {t}

\* update_last_login, which saves the profile too, and the response.
FinishLogin(p) ==
    /\ Doing(p, "login")
    /\ SaveProfile(p)
    /\ Issue(job[p].user, RoleClaim(job[p].held), p)
    /\ Goto(p, Idle)
    /\ UNCHANGED <<registered, assigned, given, clean, blacklist, exchanges, interrupted>>

\* The refresh token is genuine and not in the blacklist.
Check(p, t) ==
    /\ Doing(p, "idle")
    /\ token[t] # NoToken
    /\ t \notin blacklist
    /\ Goto(p, Rotation("checked", t))
    /\ UNCHANGED <<accounts, tokens, current, interrupted>>

\* Faulty: BLACKLIST_AFTER_ROTATION is off.
BlacklistNothing(t) == UNCHANGED blacklist

BlacklistToken(t) == blacklist' = blacklist \cup {t}

Blacklist(p) ==
    /\ Doing(p, "checked")
    /\ BlacklistToken(job[p].token)
    /\ Goto(p, Rotation("rotating", job[p].token))
    /\ UNCHANGED <<accounts, token, exchanges, current, interrupted>>

\* Faulty: a token made anew, without the claims added at login.
DefaultClaim(t) == "basic"

\* RefreshToken(...) copies the claims.
CopiedClaim(t) == token[t].role

\* The response: a new token with the claims of the old one.
Rotate(p) ==
    LET t == job[p].token
    IN  /\ Doing(p, "rotating")
        /\ Issue(token[t].user, CopiedClaim(t), t)
        /\ exchanges' = [exchanges EXCEPT ![t] = @ + 1]
        /\ Goto(p, Idle)
        /\ UNCHANGED <<accounts, blacklist, interrupted>>

\* A worker is killed, a shell closed, a connection lost.
Die(p) ==
    /\ ~Doing(p, "idle")
    /\ interrupted' = interrupted
          \cup {u \in Users : job[p] = Creation(u)}
          \cup {t \in Tokens : job[p] = Rotation("rotating", t)}
    /\ Goto(p, Idle)
    /\ UNCHANGED <<accounts, tokens, current>>

Next ==
    \/ \E p \in Processes :
          \/ CreateProfile(p) \/ FinishSave(p) \/ FinishLogin(p)
          \/ Blacklist(p) \/ Rotate(p) \/ Die(p)
          \/ \E u \in Users : Register(p, u) \/ EditUser(p, u) \/ Login(p, u)
          \/ \E t \in Tokens : Check(p, t)
    \/ \E u \in Users, r \in Roles : Assign(u, r)

Spec == Init /\ [][Next]_vars

-----------------------------------------------------------------------------

\* A role given to a user while no save of that user is under way, be it a login,
\* an edit or its creation, stays in the database until the next one is given,
\* whoever saves the user afterwards: save_user_profile (models.py:40-43) writes an
\* old role back only in a save that had read the profile before the change.
QuietAssignmentsStick == \A u \in Users : clean[u] => profile[u] = assigned[u]

\* A claim (auth_serializers.py:18) is as old as its login, however often its token
\* is exchanged.  It is outdated only if a role was given after that login had
\* read the profile, or if the last one before was given in the middle of a save,
\* which may have undone it: otherwise a token tells the role given last.
ClaimsAreCurrent ==
    \A t \in current \cap Tokens : token[t].role = RoleClaim(assigned[token[t].user])

\* Every role the database, a token or a login under way names is one the user
\* was given, or the default of a user without a profile; and a user can do
\* nothing that none of the roles given to it allows.
RolesWereGiven ==
    /\ \A u \in Users :
          /\ profile[u] \in given[u] \cup {NoProfile}
          /\ \A perm \in RolePermissions["admin"] :
                HasPerm(u, perm) => \E r \in given[u] : perm \in RolePermissions[r]
    /\ \A t \in Tokens :
          token[t] # NoToken => token[t].role \in given[token[t].user] \cup {"basic"}

\* A refresh token is exchanged at most once by every worker, by those that had
\* looked in the blacklist before the first of them wrote to it: never again
\* once all those are done.
RotationBound == \A t \in Tokens : exchanges[t] <= Cardinality(Processes)

\* permissions.py:43 "Allows access to all registered users": but those whose
\* creation died, or is not done, between the row and its profile.  Likewise, a
\* token is used up without a successor only if a refresh died, or is not done.
HalfDoneOnlyByDeath ==
    /\ \A u \in registered \ interrupted :
          \/ HasPermission(u, "IsBasicUser")
          \/ \E p \in Processes : job[p] = Creation(u)
    /\ \A t \in blacklist \ interrupted :
          exchanges[t] = 0 => \E p \in Processes : job[p] = Rotation("rotating", t)
=============================================================================
