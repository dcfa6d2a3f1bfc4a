-------------------------- MODULE Accounts_proofs --------------------------
(***************************************************************************)
(* Theorems about Accounts, for any number of processes, users and tokens: *)
(* a role given in peace stays, every role was given by somebody, a claim  *)
(* is as old as its login, and a refresh token is exchanged no more often  *)
(* than there are processes.                                               *)
(***************************************************************************)
EXTENDS Accounts, FiniteSetTheorems, TLAPS

\* Only a user with a row is created, once and before its profile is there;
\* nobody holds a profile, or a token, that is not.
RowInv ==
    /\ \A u \in Users \ registered :
          profile[u] = NoProfile /\ \A p \in Processes : job[p] # Creation(u)
    /\ \A u \in Users, p, q \in Processes :
          job[p] = Creation(u) => profile[u] = NoProfile /\ (job[q] = Creation(u) => p = q)
    /\ \A u \in Users, p \in Processes : Holds(p, u) => profile[u] # NoProfile
    /\ \A p \in Processes :
          job[p].step \in {"checked", "rotating"} => token[job[p].token] # NoToken

\* While a user is clean, what is still to be saved is what was given last.
QuietInv ==
    \A u \in Users : clean[u] =>
        /\ profile[u] = assigned[u]
        /\ \A p \in Processes : Holds(p, u) => job[p].held = assigned[u]

GivenInv ==
    /\ \A u \in Users : profile[u] \in given[u] \cup {NoProfile}
    /\ \A u \in Users, p \in Processes : Holds(p, u) => job[p].held \in given[u]
    /\ \A t \in Tokens :
          token[t] # NoToken => token[t].role \in given[token[t].user] \cup {"basic"}

DeathInv ==
    /\ \A u \in registered \ interrupted :
          profile[u] # NoProfile \/ \E p \in Processes : job[p] = Creation(u)
    /\ \A t \in blacklist \ interrupted :
          exchanges[t] = 0 => \E p \in Processes : job[p] = Rotation("rotating", t)

IInv == TypeOK /\ RowInv /\ QuietInv /\ GivenInv /\ DeathInv

-----------------------------------------------------------------------------

\* A job is of one of four kinds, told apart by its step.
LEMMA JobKinds ==
    ASSUME NEW j \in Jobs
    PROVE  /\ j.step \in {"idle", "creating", "created", "saving", "login", "checked", "rotating"}
           /\ j.step = "idle" <=> j = Idle
           /\ j.step = "creating" => j.user \in Users /\ j = Creation(j.user)
           /\ j.step \in {"created", "saving", "login"} =>
                 j.user \in Users /\ j.held \in Roles \cup {NoProfile}
           /\ j.step \in {"checked", "rotating"} =>
                 j.token \in Tokens /\ j = Rotation(j.step, j.token)
  BY DEF Jobs, Idle, Creation, Saving, Rotation

\* The fields of a job are what it was made of.
LEMMA JobFields ==
    /\ Idle \in Jobs /\ Idle.step = "idle"
    /\ \A u \in Users : /\ Creation(u) \in Jobs
                        /\ Creation(u).step = "creating" /\ Creation(u).user = u
    /\ \A u \in Users, r \in Roles \cup {NoProfile}, s \in {"created", "saving", "login"} :
          /\ Saving(s, u, r) \in Jobs
          /\ Saving(s, u, r).step = s /\ Saving(s, u, r).user = u /\ Saving(s, u, r).held = r
    /\ \A t \in Tokens, s \in {"checked", "rotating"} :
          /\ Rotation(s, t) \in Jobs
          /\ Rotation(s, t).step = s /\ Rotation(s, t).token = t
  BY DEF Jobs, Idle, Creation, Saving, Rotation

\* One process moves on, the others stay where they are.
LEMMA OneJobMoves ==
    ASSUME TypeOK, NEW p \in Processes, NEW j \in Jobs, Goto(p, j)
    PROVE  /\ job' \in [Processes -> Jobs]
           /\ job'[p] = j
           /\ \A q \in Processes \ {p} :
                 job'[q] = job[q] /\ \A u \in Users : Holds(q, u)' = Holds(q, u)
  BY DEF TypeOK, Goto, Holds

\* What a process does after it has moved, by where it moved to.
LEMMA ToIdle ==
    ASSUME TypeOK, NEW p \in Processes, Goto(p, Idle)
    PROVE  /\ job'[p].step = "idle"
           /\ \A u \in Users : job'[p] # Creation(u) /\ ~Holds(p, u)'
           /\ \A t \in Tokens, s \in {"checked", "rotating"} : job'[p] # Rotation(s, t)
  <1>1. job'[p] = Idle
    BY OneJobMoves, JobFields
  <1> QED
    BY <1>1, JobFields DEF Holds

LEMMA ToCreation ==
    ASSUME TypeOK, NEW p \in Processes, NEW u \in Users, Goto(p, Creation(u))
    PROVE  /\ job'[p].step = "creating" /\ job'[p] = Creation(u)
           /\ \A v \in Users : (job'[p] = Creation(v) => u = v) /\ ~Holds(p, v)'
           /\ \A t \in Tokens, s \in {"checked", "rotating"} : job'[p] # Rotation(s, t)
  <1>1. job'[p] = Creation(u)
    BY OneJobMoves, JobFields
  <1> QED
    BY <1>1, JobFields DEF Holds

LEMMA ToSaving ==
    ASSUME TypeOK, NEW p \in Processes, NEW s \in {"created", "saving", "login"}, NEW u \in Users,
           NEW r \in Roles \cup {NoProfile}, Goto(p, Saving(s, u, r))
    PROVE  /\ job'[p].step = s /\ job'[p].held = r
           /\ \A v \in Users : job'[p] # Creation(v)
                               /\ (Holds(p, v)' => v = u /\ r # NoProfile)
           /\ \A t \in Tokens, w \in {"checked", "rotating"} : job'[p] # Rotation(w, t)
  <1>1. job'[p] = Saving(s, u, r)
    BY OneJobMoves, JobFields
  <1> QED
    BY <1>1, JobFields DEF Holds

LEMMA ToRotation ==
    ASSUME TypeOK, NEW p \in Processes, NEW s \in {"checked", "rotating"}, NEW t \in Tokens,
           Goto(p, Rotation(s, t))
    PROVE  /\ job'[p].step = s /\ job'[p].token = t
           /\ \A u \in Users : job'[p] # Creation(u) /\ ~Holds(p, u)'
           /\ \A v \in Tokens, w \in {"checked", "rotating"} :
                 job'[p] = Rotation(w, v) <=> s = w /\ t = v
  <1>1. job'[p] = Rotation(s, t)
    BY OneJobMoves, JobFields
  <1> QED
    BY <1>1, JobFields DEF Holds

\* What is issued is a token, and none was issued in its place before.
LEMMA IssueToken ==
    ASSUME TypeOK, NEW u \in Users, NEW r \in Roles, NEW x, Issue(u, r, x)
    PROVE  /\ token' \in [Tokens -> IssuedTokens \cup {NoToken}]
           /\ \A t \in Tokens :
                 \/ token'[t] = token[t]
                 \/ token[t] = NoToken /\ (token'[t].user = u /\ token'[t].role = r)
           /\ \A t \in Tokens : token[t] # NoToken => token'[t] = token[t]
           /\ current' \subseteq Processes \cup Tokens
  <1>1. PICK t \in Tokens :
           /\ token[t] = NoToken
           /\ token' = [token EXCEPT ![t] = [user |-> u, role |-> r]]
           /\ current' = IF x \in current THEN current \cup {t} ELSE current \ {t}
    BY DEF Issue
  <1>2. [user |-> u, role |-> r] \in IssuedTokens
    BY DEF IssuedTokens
  <1> QED
    BY <1>1, <1>2 DEF TypeOK

LEMMA ClaimIsRole == \A r \in Roles \cup {NoProfile} : RoleClaim(r) \in Roles
  BY DEF RoleClaim, Roles, NoProfile

\* A save leaves no user without the profile it had.
LEMMA SavedIsProfile ==
    ASSUME TypeOK, NEW p \in Processes, job[p].step \in {"created", "saving", "login"},
           SaveProfile(p), NEW v \in Users, profile'[v] = NoProfile
    PROVE  profile[v] = NoProfile
  <1>1. job[p].user \in Users
    BY JobKinds DEF TypeOK
  <1>2. profile' = [profile EXCEPT ![job[p].user] = Saved(job[p])]
    BY DEF SaveProfile
  <1>3. Saved(job[p]) = NoProfile => profile[job[p].user] = NoProfile
    BY DEF Saved
  <1> QED
    BY <1>1, <1>2, <1>3 DEF TypeOK

LEMMA InitIInv == Init => IInv
  BY DEF Init, IInv, TypeOK, RowInv, QuietInv, GivenInv, DeathInv, Holds, Jobs, Idle, Creation

\* Every step keeps the invariant.
LEMMA NextIInv == IInv /\ [Next]_vars => IInv'
  <1> SUFFICES ASSUME IInv, [Next]_vars PROVE IInv'
    OBVIOUS
  <1> USE DEF IInv
  <1>1. ASSUME NEW p \in Processes, NEW u \in Users, Register(p, u) PROVE IInv'
    <2>1. /\ u \notin registered /\ job[p].step = "idle" /\ registered' = registered \cup {u}
          /\ Goto(p, Creation(u))
          /\ UNCHANGED <<profile, assigned, given, clean, token, blacklist, exchanges, current,
                         interrupted>>
      BY <1>1 DEF Register, Doing, tokens
    <2>2. /\ job' \in [Processes -> Jobs]
          /\ \A q \in Processes \ {p} :
                 job'[q] = job[q] /\ \A v \in Users : Holds(q, v)' = Holds(q, v)
      BY <2>1, JobFields, OneJobMoves
    <2>3. /\ job'[p].step = "creating" /\ job'[p] = Creation(u)
          /\ \A v \in Users : (job'[p] = Creation(v) => u = v) /\ ~Holds(p, v)'
      BY <2>1, ToCreation
    <2>4. TypeOK'
      BY <2>1, <2>2 DEF TypeOK
    <2>5. RowInv'
      BY <2>1, <2>2, <2>3 DEF RowInv
    <2>6. QuietInv' /\ GivenInv'
      BY <2>1, <2>2, <2>3 DEF TypeOK, QuietInv, GivenInv
    <2>7. DeathInv'
      BY <2>1, <2>2, <2>3, JobFields DEF DeathInv, TypeOK
    <2> QED
      BY <2>4, <2>5, <2>6, <2>7
  <1>2. ASSUME NEW p \in Processes, CreateProfile(p) PROVE IInv'
    <2> DEFINE u == job[p].user
    <2>a. "basic" \in Roles /\ "basic" # NoProfile
      BY DEF Roles, NoProfile
    <2>1. /\ job[p] = Creation(u) /\ u \in Users /\ Goto(p, Saving("created", u, "basic"))
          /\ profile' = [profile EXCEPT ![u] = "basic"]
          /\ assigned' = [assigned EXCEPT ![u] = "basic"]
          /\ given' = [given EXCEPT ![u] = @ \cup {"basic"}]
          /\ UNCHANGED <<registered, clean, token, blacklist, exchanges, current, interrupted>>
      BY <1>2, JobKinds DEF CreateProfile, Doing, tokens, TypeOK
    <2>2. /\ job' \in [Processes -> Jobs]
          /\ \A q \in Processes \ {p} :
                 job'[q] = job[q] /\ \A v \in Users : Holds(q, v)' = Holds(q, v)
      BY <2>1, JobFields, OneJobMoves, <2>a
    <2>3. /\ job'[p].step = "created" /\ job'[p].held = "basic"
          /\ \A v \in Users : job'[p] # Creation(v) /\ (Holds(p, v)' => v = u /\ "basic" # NoProfile)
          /\ \A w \in Tokens : job'[p] # Rotation("rotating", w)
      BY <2>1, <2>a, ToSaving
    <2>4. TypeOK'
      BY <2>1, <2>2, <2>a DEF TypeOK
    <2>5. RowInv'
      BY <2>1, <2>2, <2>3, <2>a, JobFields DEF RowInv, TypeOK
    <2>6. QuietInv' /\ GivenInv'
      BY <2>1, <2>2, <2>3, <2>a DEF TypeOK, QuietInv, GivenInv, RowInv
    <2>7. DeathInv'
      BY <2>1, <2>2, <2>3, JobFields, <2>a DEF DeathInv, TypeOK
    <2> QED
      BY <2>4, <2>5, <2>6, <2>7
  <1>3. ASSUME NEW p \in Processes, NEW u \in Users, Login(p, u) PROVE IInv'
    <2>1. /\ u \in registered /\ job[p].step = "idle" /\ Goto(p, Saving("login", u, profile[u]))
          /\ profile[u] \in Roles \cup {NoProfile}
          /\ UNCHANGED <<registered, profile, assigned, given, clean, token, blacklist, exchanges,
                         interrupted>>
          /\ current' \subseteq Processes \cup Tokens
      BY <1>3 DEF Login, Doing, accounts, tokens, TypeOK
    <2>2. /\ job' \in [Processes -> Jobs]
          /\ \A q \in Processes \ {p} :
                 job'[q] = job[q] /\ \A v \in Users : Holds(q, v)' = Holds(q, v)
      BY <2>1, JobFields, OneJobMoves
    <2>3. /\ job'[p].step = "login" /\ job'[p].held = profile[u]
          /\ \A v \in Users : job'[p] # Creation(v) /\ (Holds(p, v)' => v = u /\ profile[u] # NoProfile)
          /\ \A w \in Tokens : job'[p] # Rotation("rotating", w)
      BY <2>1, ToSaving
    <2>4. TypeOK'
      BY <2>1, <2>2 DEF TypeOK
    <2>5. RowInv'
      BY <2>1, <2>2, <2>3 DEF RowInv
    <2>6. QuietInv' /\ GivenInv'
      BY <2>1, <2>2, <2>3 DEF TypeOK, QuietInv, GivenInv
    <2>7. DeathInv'
      BY <2>1, <2>2, <2>3, JobFields DEF DeathInv, TypeOK
    <2> QED
      BY <2>4, <2>5, <2>6, <2>7
  <1>4. ASSUME NEW p \in Processes, NEW t \in Tokens, Check(p, t) PROVE IInv'
    <2>1. /\ token[t] # NoToken /\ job[p].step = "idle" /\ Goto(p, Rotation("checked", t))
          /\ UNCHANGED <<registered, profile, assigned, given, clean, token, blacklist, exchanges,
                         current, interrupted>>
      BY <1>4 DEF Check, Doing, accounts, tokens
    <2>2. /\ job' \in [Processes -> Jobs]
          /\ \A q \in Processes \ {p} :
                 job'[q] = job[q] /\ \A v \in Users : Holds(q, v)' = Holds(q, v)
      BY <2>1, JobFields, OneJobMoves
    <2>3. /\ job'[p].step = "checked" /\ job'[p].token = t
          /\ \A u \in Users : job'[p] # Creation(u) /\ ~Holds(p, u)'
      BY <2>1, ToRotation
    <2>4. TypeOK'
      BY <2>1, <2>2 DEF TypeOK
    <2>5. RowInv'
      BY <2>1, <2>2, <2>3 DEF RowInv
    <2>6. QuietInv' /\ GivenInv'
      BY <2>1, <2>2, <2>3 DEF TypeOK, QuietInv, GivenInv
    <2>7. DeathInv'
      BY <2>1, <2>2, <2>3, JobFields DEF DeathInv, TypeOK
    <2> QED
      BY <2>4, <2>5, <2>6, <2>7
  <1>5. ASSUME NEW p \in Processes, FinishSave(p) PROVE IInv'
    <2> DEFINE u == job[p].user
               r == Saved(job[p])
    <2>a. /\ u \in Users /\ r \in Roles \cup {NoProfile}
          /\ \/ r = profile[u]
             \/ Holds(p, u) /\ (r = job[p].held /\ r # NoProfile /\ profile[u] # NoProfile)
      <3>1. u \in Users /\ job[p].held \in Roles \cup {NoProfile}
        BY <1>5, JobKinds DEF FinishSave, Doing, TypeOK
      <3>2. CASE job[p].held = NoProfile
        BY <3>1, <3>2 DEF Saved, TypeOK
      <3>3. CASE job[p].held # NoProfile
        BY <1>5, <3>1, <3>3 DEF FinishSave, Doing, Saved, Holds, RowInv
      <3> QED
        BY <3>2, <3>3
    <2> HIDE DEF r
    <2>1. /\ Goto(p, Idle) /\ job[p].step \in {"created", "saving"} /\ profile' = [profile EXCEPT ![u] = r]
          /\ UNCHANGED <<registered, assigned, given, clean, token, blacklist, exchanges, current,
                         interrupted>>
      BY <1>5 DEF FinishSave, Doing, SaveProfile, tokens, r
    <2>2. /\ job' \in [Processes -> Jobs]
          /\ \A q \in Processes \ {p} :
                 job'[q] = job[q] /\ \A v \in Users : Holds(q, v)' = Holds(q, v)
      BY <2>1, JobFields, OneJobMoves, <2>a
    <2>3. /\ job'[p].step = "idle"
          /\ \A v \in Users : job'[p] # Creation(v) /\ ~Holds(p, v)'
          /\ \A w \in Tokens : job'[p] # Rotation("rotating", w)
      BY <2>1, ToIdle
    <2>4. TypeOK'
      BY <2>1, <2>2, <2>a DEF TypeOK
    <2>5. RowInv'
      BY <2>1, <2>2, <2>3, <2>a DEF RowInv, TypeOK
    <2>6. QuietInv' /\ GivenInv'
      BY <2>1, <2>2, <2>3, <2>a DEF TypeOK, QuietInv, GivenInv
    <2>7. DeathInv'
      BY <2>1, <2>2, <2>3, JobFields, <2>a DEF DeathInv, TypeOK
    <2> QED
      BY <2>4, <2>5, <2>6, <2>7
  <1>6. ASSUME NEW p \in Processes, FinishLogin(p) PROVE IInv'
    <2> DEFINE u == job[p].user
               r == Saved(job[p])
    <2>a. /\ u \in Users /\ r \in Roles \cup {NoProfile}
          /\ \/ r = profile[u]
             \/ Holds(p, u) /\ (r = job[p].held /\ r # NoProfile /\ profile[u] # NoProfile)
      <3>1. u \in Users /\ job[p].held \in Roles \cup {NoProfile}
        BY <1>6, JobKinds DEF FinishLogin, Doing, TypeOK
      <3>2. CASE job[p].held = NoProfile
        BY <3>1, <3>2 DEF Saved, TypeOK
      <3>3. CASE job[p].held # NoProfile
        BY <1>6, <3>1, <3>3 DEF FinishLogin, Doing, Saved, Holds, RowInv
      <3> QED
        BY <3>2, <3>3
    <2> HIDE DEF r
    <2> DEFINE c == RoleClaim(job[p].held)
    <2>b. /\ token' \in [Tokens -> IssuedTokens \cup {NoToken}]
          /\ \A t \in Tokens :
                \/ token'[t] = token[t]
                \/ token[t] = NoToken /\ (token'[t].user = u /\ token'[t].role = c)
          /\ \A t \in Tokens : token[t] # NoToken => token'[t] = token[t]
          /\ current' \subseteq Processes \cup Tokens
      BY <1>6, <2>a, JobKinds, ClaimIsRole, IssueToken DEF FinishLogin, Doing, TypeOK
    <2>c. c \in given[u] \cup {"basic"}
      BY <1>6, <2>a, JobKinds DEF FinishLogin, Doing, RoleClaim, GivenInv, Holds, TypeOK
    <2> HIDE DEF c
    <2>1. /\ Goto(p, Idle) /\ job[p].step = "login" /\ profile' = [profile EXCEPT ![u] = r]
          /\ UNCHANGED <<registered, assigned, given, clean, blacklist, exchanges, interrupted>>
      BY <1>6 DEF FinishLogin, Doing, SaveProfile, r
    <2>2. /\ job' \in [Processes -> Jobs]
          /\ \A q \in Processes \ {p} :
                 job'[q] = job[q] /\ \A v \in Users : Holds(q, v)' = Holds(q, v)
      BY <2>1, JobFields, OneJobMoves, <2>a, <2>b
    <2>3. /\ job'[p].step = "idle"
          /\ \A v \in Users : job'[p] # Creation(v) /\ ~Holds(p, v)'
          /\ \A w \in Tokens : job'[p] # Rotation("rotating", w)
      BY <2>1, ToIdle
    <2>4. TypeOK'
      BY <2>1, <2>2, <2>a, <2>b DEF TypeOK
    <2>5. RowInv'
      BY <2>1, <2>2, <2>3, <2>a, <2>b, JobKinds DEF RowInv, TypeOK
    <2>6. QuietInv' /\ GivenInv'
      BY <2>1, <2>2, <2>3, <2>a, <2>b, <2>c DEF TypeOK, QuietInv, GivenInv
    <2>7. DeathInv'
      BY <2>1, <2>2, <2>3, JobFields, <2>a DEF DeathInv, TypeOK
    <2> QED
      BY <2>4, <2>5, <2>6, <2>7
  <1>7. ASSUME NEW p \in Processes, Blacklist(p) PROVE IInv'
    <2> DEFINE t == job[p].token
    <2>1. /\ job[p].step = "checked" /\ t \in Tokens /\ Goto(p, Rotation("rotating", t))
          /\ blacklist' = blacklist \cup {t}
          /\ UNCHANGED <<registered, profile, assigned, given, clean, token, exchanges, current,
                         interrupted>>
      BY <1>7, JobKinds DEF Blacklist, BlacklistToken, Doing, accounts, TypeOK
    <2>2. /\ job' \in [Processes -> Jobs]
          /\ \A q \in Processes \ {p} :
                 job'[q] = job[q] /\ \A v \in Users : Holds(q, v)' = Holds(q, v)
      BY <2>1, JobFields, OneJobMoves
    <2>3. /\ job'[p].step = "rotating" /\ job'[p].token = t /\ job'[p] = Rotation("rotating", t)
          /\ \A u \in Users : job'[p] # Creation(u) /\ ~Holds(p, u)'
      BY <2>1, <2>2, ToRotation
    <2>4. TypeOK'
      BY <2>1, <2>2 DEF TypeOK
    <2>5. RowInv'
      BY <1>7, <2>1, <2>2, <2>3 DEF Blacklist, RowInv
    <2>6. QuietInv' /\ GivenInv'
      BY <2>1, <2>2, <2>3 DEF TypeOK, QuietInv, GivenInv
    <2>7. DeathInv'
      BY <2>1, <2>2, <2>3, JobFields DEF DeathInv, TypeOK
    <2> QED
      BY <2>4, <2>5, <2>6, <2>7
  <1>8. ASSUME NEW p \in Processes, Rotate(p) PROVE IInv'
    <2> DEFINE t == job[p].token
               u == token[t].user
               c == token[t].role
    <2>a. t \in Tokens /\ token[t] # NoToken /\ token[t] \in IssuedTokens
      BY <1>8, JobKinds DEF Rotate, Doing, RowInv, TypeOK
    <2>b. u \in Users /\ c \in Roles /\ c \in given[u] \cup {"basic"}
      BY <2>a DEF IssuedTokens, GivenInv
    <2>c. /\ token' \in [Tokens -> IssuedTokens \cup {NoToken}]
          /\ \A w \in Tokens :
                \/ token'[w] = token[w]
                \/ token[w] = NoToken /\ (token'[w].user = u /\ token'[w].role = c)
          /\ \A w \in Tokens : token[w] # NoToken => token'[w] = token[w]
          /\ current' \subseteq Processes \cup Tokens
      BY <1>8, <2>b, IssueToken DEF Rotate, CopiedClaim
    <2> HIDE DEF u, c
    <2>1. /\ job[p].step = "rotating" /\ t \in Tokens /\ Goto(p, Idle)
          /\ exchanges' = [exchanges EXCEPT ![t] = @ + 1]
          /\ UNCHANGED <<registered, profile, assigned, given, clean, blacklist, interrupted>>
      BY <1>8, JobKinds DEF Rotate, Doing, accounts, TypeOK
    <2>2. /\ job' \in [Processes -> Jobs]
          /\ \A q \in Processes \ {p} :
                 job'[q] = job[q] /\ \A v \in Users : Holds(q, v)' = Holds(q, v)
      BY <2>1, JobFields, OneJobMoves, <2>c
    <2>3. /\ job'[p].step = "idle"
          /\ \A v \in Users : job'[p] # Creation(v) /\ ~Holds(p, v)'
          /\ \A w \in Tokens : job'[p] # Rotation("rotating", w)
      BY <2>1, ToIdle
    <2>d. exchanges' \in [Tokens -> Nat]
      <3>1. exchanges \in [Tokens -> Nat] /\ exchanges[t] + 1 \in Nat
        BY <2>1 DEF TypeOK
      <3> HIDE DEF t
      <3> QED
        BY <2>1, <3>1
    <2>4. TypeOK'
      BY <2>1, <2>2, <2>c, <2>d DEF TypeOK
    <2>5. RowInv'
      BY <2>1, <2>2, <2>3, <2>c, JobKinds DEF RowInv, TypeOK
    <2>6. QuietInv' /\ GivenInv'
      BY <2>1, <2>2, <2>3, <2>b, <2>c DEF TypeOK, QuietInv, GivenInv
    <2>7. DeathInv'
      BY <2>1, <2>2, <2>3, JobFields, <2>a, JobKinds DEF DeathInv, TypeOK
    <2> QED
      BY <2>4, <2>5, <2>6, <2>7
  <1>9. ASSUME NEW p \in Processes, Die(p) PROVE IInv'
    <2>1. /\ job[p].step # "idle" /\ Goto(p, Idle)
          /\ interrupted' = interrupted
                \cup {u \in Users : job[p] = Creation(u)}
                \cup {t \in Tokens : job[p] = Rotation("rotating", t)}
          /\ UNCHANGED <<registered, profile, assigned, given, clean, token, blacklist, exchanges,
                         current>>
      BY <1>9 DEF Die, Doing, accounts, tokens
    <2>2. /\ job' \in [Processes -> Jobs]
          /\ \A q \in Processes \ {p} :
                 job'[q] = job[q] /\ \A v \in Users : Holds(q, v)' = Holds(q, v)
      BY <2>1, JobFields, OneJobMoves
    <2>3. /\ job'[p].step = "idle"
          /\ \A v \in Users : job'[p] # Creation(v) /\ ~Holds(p, v)'
          /\ \A w \in Tokens : job'[p] # Rotation("rotating", w)
      BY <2>1, ToIdle
    <2>4. TypeOK'
      BY <2>1, <2>2 DEF TypeOK
    <2>5. RowInv'
      BY <2>1, <2>2, <2>3 DEF RowInv
    <2>6. QuietInv' /\ GivenInv'
      BY <2>1, <2>2, <2>3 DEF TypeOK, QuietInv, GivenInv
    <2>7. DeathInv'
      BY <2>1, <2>2, <2>3, JobFields DEF DeathInv, TypeOK
    <2> QED
      BY <2>4, <2>5, <2>6, <2>7
  <1>10. ASSUME NEW u \in Users, NEW r \in Roles, Assign(u, r) PROVE IInv'
    <2>1. /\ profile[u] # NoProfile /\ r # NoProfile
          /\ \A q \in Processes, v \in Users : Holds(q, v)' = Holds(q, v)
          /\ UNCHANGED <<registered, job, token, blacklist, exchanges, interrupted>>
          /\ current' \subseteq Processes \cup Tokens
      BY <1>10 DEF Assign, tokens, Holds, Roles, NoProfile, TypeOK
    <2>2. /\ profile' = [profile EXCEPT ![u] = r]
          /\ assigned' = [assigned EXCEPT ![u] = r]
          /\ given' = [given EXCEPT ![u] = @ \cup {r}]
      BY <1>10 DEF Assign
    <2>3. /\ clean' \in [Users -> BOOLEAN]
          /\ \A v \in Users \ {u} : clean'[v] = clean[v]
          /\ clean'[u] => \A q \in Processes : ~Holds(q, u)
      BY <1>10 DEF Assign, TypeOK
    <2>4. TypeOK'
      BY <2>1, <2>2, <2>3 DEF TypeOK
    <2>5. RowInv'
      BY <2>1, <2>2 DEF RowInv, TypeOK
    <2>6. QuietInv' /\ GivenInv'
      BY <2>1, <2>2, <2>3 DEF TypeOK, QuietInv, GivenInv
    <2>7. DeathInv'
      BY <2>1, <2>2 DEF DeathInv, TypeOK
    <2> QED
      BY <2>4, <2>5, <2>6, <2>7
  <1>12. ASSUME NEW p \in Processes, NEW u \in Users, EditUser(p, u) PROVE IInv'
    <2>1. /\ u \in registered /\ job[p].step = "idle" /\ Goto(p, Saving("saving", u, profile[u]))
          /\ profile[u] \in Roles \cup {NoProfile}
          /\ UNCHANGED <<registered, profile, assigned, given, clean, token, blacklist, exchanges,
                         current, interrupted>>
      BY <1>12 DEF EditUser, Doing, accounts, tokens, TypeOK
    <2>2. /\ job' \in [Processes -> Jobs]
          /\ \A q \in Processes \ {p} :
                 job'[q] = job[q] /\ \A v \in Users : Holds(q, v)' = Holds(q, v)
      BY <2>1, JobFields, OneJobMoves
    <2>3. /\ job'[p].step = "saving" /\ job'[p].held = profile[u]
          /\ \A v \in Users : job'[p] # Creation(v) /\ (Holds(p, v)' => v = u /\ profile[u] # NoProfile)
          /\ \A w \in Tokens : job'[p] # Rotation("rotating", w)
      BY <2>1, ToSaving
    <2>4. TypeOK'
      BY <2>1, <2>2 DEF TypeOK
    <2>5. RowInv'
      BY <2>1, <2>2, <2>3 DEF RowInv
    <2>6. QuietInv' /\ GivenInv'
      BY <2>1, <2>2, <2>3 DEF TypeOK, QuietInv, GivenInv
    <2>7. DeathInv'
      BY <2>1, <2>2, <2>3, JobFields DEF DeathInv, TypeOK
    <2> QED
      BY <2>4, <2>5, <2>6, <2>7
  <1>11. CASE UNCHANGED vars
    BY <1>11 DEF vars, accounts, tokens, TypeOK, RowInv, QuietInv, GivenInv, DeathInv, Holds
  <1> QED
    BY <1>1, <1>2, <1>3, <1>4, <1>5, <1>6, <1>7, <1>8, <1>9, <1>10, <1>11, <1>12 DEF Next

-----------------------------------------------------------------------------

\* The processes that may still exchange t.
Mid(t) == {p \in Processes : \E s \in {"checked", "rotating"} : job[p] = Rotation(s, t)}

\* Until t is in the blacklist nobody has exchanged it, and nobody is about to
\* without looking; and each exchange takes one process away from it.
RotationInv ==
    \A t \in Tokens :
        /\ t \notin blacklist =>
              /\ exchanges[t] = 0
              /\ \A p \in Processes : job[p] # Rotation("rotating", t)
        /\ exchanges[t] + Cardinality(Mid(t)) <= Cardinality(Processes)

\* Fewer processes count no more, and one fewer counts one less.
LEMMA CountMid ==
    ASSUME NEW S \in SUBSET Processes, NEW T \in SUBSET S
    PROVE  /\ Cardinality(S) \in Nat /\ Cardinality(T) \in Nat
           /\ Cardinality(Processes) \in Nat
           /\ Cardinality(T) <= Cardinality(S)
           /\ Cardinality(S) <= Cardinality(Processes)
           /\ \A p \in S : p \notin T => Cardinality(T) + 1 <= Cardinality(S)
  <1>1. IsFiniteSet(Processes)
    BY AccountsAssumption
  <1>2. /\ IsFiniteSet(S) /\ Cardinality(S) <= Cardinality(Processes)
        /\ IsFiniteSet(T) /\ Cardinality(T) <= Cardinality(S)
    BY <1>1, FS_Subset
  <1>3. ASSUME NEW p \in S, p \notin T PROVE Cardinality(T) + 1 <= Cardinality(S)
    <2>1. /\ IsFiniteSet(S \ {p}) /\ Cardinality(S \ {p}) = Cardinality(S) - 1
      BY <1>2, FS_RemoveElement
    <2>2. Cardinality(T) <= Cardinality(S \ {p})
      BY <1>3, <2>1, FS_Subset
    <2> QED
      BY <1>2, <2>1, <2>2, FS_CardinalityType
  <1> QED
    BY <1>1, <1>2, <1>3, FS_CardinalityType

LEMMA InitRotationInv == Init => RotationInv
  <1> SUFFICES ASSUME Init, NEW t \in Tokens
               PROVE  /\ exchanges[t] = 0
                      /\ Mid(t) = {}
                      /\ \A p \in Processes : job[p] # Rotation("rotating", t)
    BY FS_EmptySet, CountMid DEF RotationInv
  <1> QED
    BY JobFields DEF Init, Mid, Rotation

\* What a process that does not exchange anything leaves of the invariant.
LEMMA NobodyJoins ==
    ASSUME RotationInv, UNCHANGED <<blacklist, exchanges>>, exchanges \in [Tokens -> Nat],
           \A p \in Processes, t \in Tokens, s \in {"checked", "rotating"} :
              job'[p] = Rotation(s, t) => job[p] = Rotation(s, t)
    PROVE  RotationInv'
  <1> SUFFICES ASSUME NEW t \in Tokens
               PROVE  /\ t \notin blacklist =>
                            /\ exchanges[t] = 0
                            /\ \A p \in Processes : job'[p] # Rotation("rotating", t)
                      /\ exchanges[t] + Cardinality(Mid(t)') <= Cardinality(Processes)
    BY DEF RotationInv
  <1>1. Mid(t)' \subseteq Mid(t) /\ Mid(t) \subseteq Processes
    BY DEF Mid
  <1>2. Cardinality(Mid(t)') <= Cardinality(Mid(t))
        /\ Cardinality(Mid(t)') \in Nat /\ Cardinality(Mid(t)) \in Nat
    BY <1>1, CountMid
  <1>3. Cardinality(Processes) \in Nat /\ exchanges[t] \in Nat
    BY <1>1, CountMid
  <1> QED
    BY <1>2, <1>3 DEF RotationInv

LEMMA NextRotationInv == IInv /\ RotationInv /\ [Next]_vars => RotationInv'
  <1> SUFFICES ASSUME IInv, RotationInv, [Next]_vars PROVE RotationInv'
    OBVIOUS
  <1> USE DEF IInv
  <1>0. exchanges \in [Tokens -> Nat]
    BY DEF TypeOK
  <1>1. ASSUME NEW p \in Processes, NEW t \in Tokens, Check(p, t) PROVE RotationInv'
    <2>1. /\ t \notin blacklist /\ job[p].step = "idle" /\ Goto(p, Rotation("checked", t))
          /\ UNCHANGED <<blacklist, exchanges>>
      BY <1>1 DEF Check, Doing, tokens
    <2>2. \A q \in Processes, w \in Tokens :
             job'[q] = Rotation("rotating", w) => job[q] = Rotation("rotating", w)
      BY <2>1, JobFields, OneJobMoves, ToRotation
    <2>3. \A w \in Tokens \ {t} : Mid(w)' \subseteq Mid(w)
      BY <2>1, JobFields, OneJobMoves, ToRotation DEF Mid
    <2>4. \A w \in Tokens : Mid(w) \subseteq Processes /\ Mid(w)' \subseteq Processes
      BY DEF Mid
    <2>5. ASSUME NEW w \in Tokens
          PROVE  exchanges[w] + Cardinality(Mid(w)') <= Cardinality(Processes)
      <3>1. CASE w = t
        BY <2>1, <2>4, <3>1, CountMid DEF RotationInv
      <3>2. CASE w # t
        <4>1. /\ Cardinality(Mid(w)') <= Cardinality(Mid(w))
              /\ Cardinality(Mid(w)') \in Nat /\ Cardinality(Mid(w)) \in Nat
              /\ Cardinality(Processes) \in Nat /\ exchanges[w] \in Nat
          BY <1>0, <2>3, <2>4, <3>2, CountMid
        <4> QED
          BY <4>1 DEF RotationInv
      <3> QED
        BY <3>1, <3>2
    <2> QED
      BY <2>1, <2>2, <2>5 DEF RotationInv
  <1>2. ASSUME NEW p \in Processes, Blacklist(p) PROVE RotationInv'
    <2> DEFINE t == job[p].token
    <2>1. /\ t \in Tokens /\ job[p] = Rotation("checked", t) /\ Goto(p, Rotation("rotating", t))
          /\ blacklist' = blacklist \cup {t} /\ UNCHANGED exchanges
      BY <1>2, JobKinds DEF Blacklist, BlacklistToken, Doing, TypeOK
    <2>2. \A q \in Processes, w \in Tokens \ {t} :
             job'[q] = Rotation("rotating", w) => job[q] = Rotation("rotating", w)
      BY <2>1, JobFields, OneJobMoves, ToRotation
    <2>3. \A w \in Tokens : Mid(w)' \subseteq Mid(w) /\ Mid(w) \subseteq Processes
      BY <2>1, JobFields, OneJobMoves, ToRotation DEF Mid
    <2>4. ASSUME NEW w \in Tokens
          PROVE  exchanges[w] + Cardinality(Mid(w)') <= Cardinality(Processes)
      <3>1. /\ Cardinality(Mid(w)') <= Cardinality(Mid(w))
            /\ Cardinality(Mid(w)') \in Nat /\ Cardinality(Mid(w)) \in Nat
            /\ Cardinality(Processes) \in Nat /\ exchanges[w] \in Nat
        BY <1>0, <2>3, CountMid
      <3> QED
        BY <3>1 DEF RotationInv
    <2> QED
      BY <2>1, <2>2, <2>4 DEF RotationInv
  <1>3. ASSUME NEW p \in Processes, Rotate(p) PROVE RotationInv'
    <2> DEFINE t == job[p].token
    <2>1. /\ t \in Tokens /\ job[p] = Rotation("rotating", t) /\ Goto(p, Idle)
          /\ exchanges' = [exchanges EXCEPT ![t] = @ + 1] /\ UNCHANGED blacklist
      BY <1>3, JobKinds DEF Rotate, Doing, TypeOK
    <2>2. \A q \in Processes, w \in Tokens, s \in {"checked", "rotating"} :
             job'[q] = Rotation(s, w) => q # p /\ job[q] = Rotation(s, w)
      BY <2>1, JobFields, OneJobMoves, ToIdle
    <2>3. \A w \in Tokens : /\ Mid(w)' \subseteq Mid(w) /\ Mid(w) \subseteq Processes
                             /\ w = t => p \in Mid(w) /\ p \notin Mid(w)'
      BY <2>1, <2>2 DEF Mid
    <2>4. t \in blacklist
      BY <2>1 DEF RotationInv
    <2> HIDE DEF t
    <2>5. /\ exchanges'[t] = exchanges[t] + 1
          /\ \A w \in Tokens \ {t} : exchanges'[w] = exchanges[w]
      BY <1>0, <2>1
    <2>6. ASSUME NEW w \in Tokens
          PROVE  exchanges'[w] + Cardinality(Mid(w)') <= Cardinality(Processes)
      <3>0. Mid(w) \in SUBSET Processes /\ Mid(w)' \in SUBSET Mid(w)
        BY <2>2 DEF Mid
      <3>1. /\ Cardinality(Mid(w)') <= Cardinality(Mid(w))
            /\ Cardinality(Mid(w)') \in Nat /\ Cardinality(Mid(w)) \in Nat
            /\ Cardinality(Processes) \in Nat /\ exchanges[w] \in Nat
        BY <1>0, <3>0, CountMid
      <3>3. w = t => Cardinality(Mid(w)') + 1 <= Cardinality(Mid(w))
        BY <2>3, <3>0, CountMid
      <3>2. exchanges[w] + Cardinality(Mid(w)) <= Cardinality(Processes)
        BY DEF RotationInv
      <3> QED
        BY <2>5, <3>1, <3>2, <3>3
    <2> QED
      BY <2>1, <2>2, <2>4, <2>5, <2>6 DEF RotationInv
  <1>4. ASSUME NEW p \in Processes, NEW u \in Users, Register(p, u) PROVE RotationInv'
    BY <1>0, <1>4, JobFields, OneJobMoves, ToCreation, NobodyJoins DEF Register, tokens
  <1>5. ASSUME NEW p \in Processes, CreateProfile(p) PROVE RotationInv'
    <2>1. job[p].user \in Users /\ "basic" \in Roles \cup {NoProfile}
      BY <1>5, JobKinds DEF CreateProfile, Doing, TypeOK, Roles
    <2> QED
      BY <1>0, <1>5, <2>1, JobFields, OneJobMoves, ToSaving, NobodyJoins DEF CreateProfile, tokens
  <1>6. ASSUME NEW p \in Processes, NEW u \in Users, Login(p, u) PROVE RotationInv'
    <2>1. profile[u] \in Roles \cup {NoProfile}
      BY DEF TypeOK
    <2> QED
      BY <1>0, <1>6, <2>1, JobFields, OneJobMoves, ToSaving, NobodyJoins DEF Login, tokens
  <1>7. ASSUME NEW p \in Processes, FinishSave(p) \/ FinishLogin(p) \/ Die(p) PROVE RotationInv'
    <2>1. Goto(p, Idle) /\ UNCHANGED <<blacklist, exchanges>>
      BY <1>7 DEF FinishSave, FinishLogin, Die, tokens
    <2> QED
      BY <1>0, <2>1, JobFields, OneJobMoves, ToIdle, NobodyJoins
  <1>9. ASSUME NEW p \in Processes, NEW u \in Users, EditUser(p, u) PROVE RotationInv'
    <2>1. profile[u] \in Roles \cup {NoProfile}
      BY DEF TypeOK
    <2> QED
      BY <1>0, <1>9, <2>1, JobFields, OneJobMoves, ToSaving, NobodyJoins DEF EditUser, tokens
  <1>8. ASSUME UNCHANGED <<job, blacklist, exchanges>> PROVE RotationInv'
    BY <1>0, <1>8, NobodyJoins
  <1> QED
    BY <1>1, <1>2, <1>3, <1>4, <1>5, <1>6, <1>7, <1>8, <1>9 DEF Next, Assign, vars, tokens

-----------------------------------------------------------------------------

\* A login or token marked current tells the role given last; a user was given
\* none as long as it has no profile.
CurrentInv ==
    /\ \A u \in Users : profile[u] = NoProfile => assigned[u] = NoProfile
    /\ \A p \in Processes :
          p \in current /\ job[p].step = "login" =>
             RoleClaim(job[p].held) = RoleClaim(assigned[job[p].user])
    /\ \A t \in current \cap Tokens :
          token[t] # NoToken /\ token[t].role = RoleClaim(assigned[token[t].user])

LEMMA InitCurrentInv == Init => CurrentInv
  BY DEF Init, CurrentInv

\* Steps that give no role and no token, and begin no login.
LEMMA NothingTold ==
    ASSUME CurrentInv, UNCHANGED <<current, token, assigned>>,
           \A p \in Processes : job'[p].step = "login" => job'[p] = job[p],
           \A u \in Users : profile'[u] = NoProfile => profile[u] = NoProfile
    PROVE  CurrentInv'
  BY DEF CurrentInv

\* What a token is issued with tells what its source told.
LEMMA IssueCurrent ==
    ASSUME TypeOK, CurrentInv, NEW u \in Users, NEW r \in Roles, NEW x,
           Issue(u, r, x), x \in current => r = RoleClaim(assigned[u]),
           UNCHANGED assigned
    PROVE  /\ \A t \in current' \cap Tokens :
                 token'[t] # NoToken /\ token'[t].role = RoleClaim(assigned'[token'[t].user])
           /\ current' \cap Processes = current \cap Processes
  <1>1. PICK t \in Tokens :
           /\ token[t] = NoToken
           /\ token' = [token EXCEPT ![t] = [user |-> u, role |-> r]]
           /\ current' = IF x \in current THEN current \cup {t} ELSE current \ {t}
    BY DEF Issue
  <1>2. [user |-> u, role |-> r] \in IssuedTokens
    BY DEF IssuedTokens
  <1>3. token'[t] = [user |-> u, role |-> r] /\ token'[t] # NoToken
    BY <1>1, <1>2, AccountsAssumption DEF TypeOK
  <1>4. \A w \in Tokens \ {t} : token'[w] = token[w]
    BY <1>1 DEF TypeOK
  <1>5. t \in current' => r = RoleClaim(assigned[u])
    BY <1>1
  <1>6. \A w \in Tokens \ {t} : w \in current' => w \in current
    BY <1>1
  <1>7. t \notin Processes
    BY AccountsAssumption
  <1> QED
    BY <1>1, <1>3, <1>4, <1>5, <1>6, <1>7 DEF CurrentInv

LEMMA NextCurrentInv == IInv /\ CurrentInv /\ [Next]_vars => CurrentInv'
  <1> SUFFICES ASSUME IInv, CurrentInv, [Next]_vars PROVE CurrentInv'
    OBVIOUS
  <1> USE DEF IInv
  <1>1. ASSUME NEW p \in Processes, NEW u \in Users, Register(p, u) PROVE CurrentInv'
    <2>1. Goto(p, Creation(u)) /\ UNCHANGED <<profile, assigned, token, current>>
      BY <1>1 DEF Register, tokens
    <2>2. \A q \in Processes : job'[q].step = "login" => job'[q] = job[q]
      BY <2>1, JobFields, OneJobMoves, ToCreation
    <2> QED
      BY <2>1, <2>2, NothingTold
  <1>2. ASSUME NEW p \in Processes, CreateProfile(p) PROVE CurrentInv'
    <2> DEFINE u == job[p].user
    <2>1. /\ job[p] = Creation(u) /\ u \in Users /\ Goto(p, Saving("created", u, "basic"))
          /\ "basic" \in Roles \cup {NoProfile} /\ "basic" # NoProfile
          /\ profile' = [profile EXCEPT ![u] = "basic"]
          /\ assigned' = [assigned EXCEPT ![u] = "basic"]
          /\ UNCHANGED <<token, current>>
      BY <1>2, JobKinds DEF CreateProfile, Doing, tokens, TypeOK, Roles, NoProfile
    <2>2. \A q \in Processes : job'[q].step = "login" => job'[q] = job[q]
      BY <2>1, JobFields, OneJobMoves, ToSaving
    <2>3. assigned[u] = NoProfile
      BY <2>1 DEF RowInv, CurrentInv
    <2> HIDE DEF u
    <2>4. \A v \in Users : RoleClaim(assigned'[v]) = RoleClaim(assigned[v])
      BY <2>1, <2>3 DEF RoleClaim, TypeOK
    <2>5. \A v \in Users : profile'[v] = NoProfile => assigned'[v] = NoProfile
      BY <2>1 DEF TypeOK, CurrentInv
    <2>6. \A q \in Processes : job[q].step = "login" => job[q].user \in Users
      BY JobKinds DEF TypeOK
    <2>7. \A t \in Tokens : token[t] # NoToken => token[t].user \in Users
      BY DEF TypeOK, IssuedTokens
    <2> QED
      BY <2>1, <2>2, <2>4, <2>5, <2>6, <2>7 DEF CurrentInv
  <1>3. ASSUME NEW p \in Processes, NEW u \in Users, EditUser(p, u) PROVE CurrentInv'
    <2>1. /\ Goto(p, Saving("saving", u, profile[u])) /\ profile[u] \in Roles \cup {NoProfile}
          /\ UNCHANGED <<profile, assigned, token, current>>
      BY <1>3 DEF EditUser, accounts, tokens, TypeOK
    <2>2. \A q \in Processes : job'[q].step = "login" => job'[q] = job[q]
      BY <2>1, JobFields, OneJobMoves, ToSaving
    <2> QED
      BY <2>1, <2>2, NothingTold
  <1>4. ASSUME NEW p \in Processes, NEW u \in Users, Login(p, u) PROVE CurrentInv'
    <2>1. /\ Goto(p, Saving("login", u, profile[u])) /\ profile[u] \in Roles \cup {NoProfile}
          /\ current' = IF clean[u] THEN current \cup {p} ELSE current \ {p}
          /\ UNCHANGED <<profile, assigned, token>>
      BY <1>4 DEF Login, accounts, tokens, TypeOK
    <2>2. /\ job'[p] = Saving("login", u, profile[u])
          /\ \A q \in Processes \ {p} : job'[q] = job[q]
      BY <2>1, JobFields, OneJobMoves
    <2>3. job'[p].held = profile[u] /\ job'[p].user = u
      BY <2>1, <2>2, JobFields
    <2>4. p \in current' => profile[u] = assigned[u]
      BY <2>1 DEF QuietInv
    <2>5. p \notin Tokens
      BY AccountsAssumption
    <2> QED
      BY <2>1, <2>2, <2>3, <2>4, <2>5 DEF CurrentInv
  <1>5. ASSUME NEW p \in Processes, NEW t \in Tokens, Check(p, t) PROVE CurrentInv'
    <2>1. Goto(p, Rotation("checked", t)) /\ UNCHANGED <<profile, assigned, token, current>>
      BY <1>5 DEF Check, accounts, tokens
    <2>2. \A q \in Processes : job'[q].step = "login" => job'[q] = job[q]
      BY <2>1, JobFields, OneJobMoves, ToRotation
    <2> QED
      BY <2>1, <2>2, NothingTold
  <1>6. ASSUME NEW p \in Processes, Blacklist(p) PROVE CurrentInv'
    <2>1. /\ job[p].token \in Tokens /\ Goto(p, Rotation("rotating", job[p].token))
          /\ UNCHANGED <<profile, assigned, token, current>>
      BY <1>6, JobKinds DEF Blacklist, Doing, accounts, TypeOK
    <2>2. \A q \in Processes : job'[q].step = "login" => job'[q] = job[q]
      BY <2>1, JobFields, OneJobMoves, ToRotation
    <2> QED
      BY <2>1, <2>2, NothingTold
  <1>7. ASSUME NEW p \in Processes, FinishSave(p) \/ Die(p) PROVE CurrentInv'
    <2>1. Goto(p, Idle) /\ UNCHANGED <<assigned, token, current>>
      BY <1>7 DEF FinishSave, Die, accounts, tokens
    <2>2. \A q \in Processes : job'[q].step = "login" => job'[q] = job[q]
      BY <2>1, JobFields, OneJobMoves, ToIdle
    <2>3. CASE Die(p)
      BY <2>1, <2>2, <2>3, NothingTold DEF Die, accounts
    <2>4. CASE FinishSave(p)
      <3>1. \A v \in Users : profile'[v] = NoProfile => profile[v] = NoProfile
        BY <2>4, SavedIsProfile DEF FinishSave
      <3> QED
        BY <2>1, <2>2, <3>1, NothingTold
    <2> QED
      BY <1>7, <2>3, <2>4
  <1>8. ASSUME NEW p \in Processes, FinishLogin(p) PROVE CurrentInv'
    <2> DEFINE u == job[p].user
               c == RoleClaim(job[p].held)
    <2>1. /\ job[p].step = "login" /\ u \in Users /\ c \in Roles
          /\ Issue(u, c, p) /\ Goto(p, Idle) /\ UNCHANGED assigned
      BY <1>8, JobKinds, ClaimIsRole DEF FinishLogin, Doing, TypeOK
    <2>2. p \in current => c = RoleClaim(assigned[u])
      BY <2>1 DEF CurrentInv
    <2> HIDE DEF u, c
    <2>3. /\ \A t \in current' \cap Tokens :
                token'[t] # NoToken /\ token'[t].role = RoleClaim(assigned'[token'[t].user])
          /\ current' \cap Processes = current \cap Processes
      BY <2>1, <2>2, IssueCurrent
    <2>4. \A q \in Processes : job'[q].step = "login" => job'[q] = job[q]
      BY <2>1, JobFields, OneJobMoves, ToIdle
    <2>5. \A v \in Users : profile'[v] = NoProfile => profile[v] = NoProfile
      BY <1>8, SavedIsProfile DEF FinishLogin, Doing
    <2> QED
      BY <2>1, <2>3, <2>4, <2>5 DEF CurrentInv
  <1>9. ASSUME NEW p \in Processes, Rotate(p) PROVE CurrentInv'
    <2> DEFINE t == job[p].token
    <2>1. /\ t \in Tokens /\ token[t] \in IssuedTokens
          /\ Issue(token[t].user, token[t].role, t) /\ Goto(p, Idle)
          /\ UNCHANGED <<profile, assigned>>
      BY <1>9, JobKinds DEF Rotate, Doing, CopiedClaim, RowInv, TypeOK, accounts
    <2> HIDE DEF t
    <2>2. token[t].user \in Users /\ token[t].role \in Roles
      BY <2>1 DEF IssuedTokens
    <2>3. t \in current => token[t].role = RoleClaim(assigned[token[t].user])
      BY <2>1 DEF CurrentInv
    <2>4. /\ \A w \in current' \cap Tokens :
                token'[w] # NoToken /\ token'[w].role = RoleClaim(assigned'[token'[w].user])
          /\ current' \cap Processes = current \cap Processes
      BY <2>1, <2>2, <2>3, IssueCurrent
    <2>5. \A q \in Processes : job'[q].step = "login" => job'[q] = job[q]
      BY <2>1, JobFields, OneJobMoves, ToIdle
    <2> QED
      BY <2>1, <2>4, <2>5 DEF CurrentInv
  <1>10. ASSUME NEW u \in Users, NEW r \in Roles, Assign(u, r) PROVE CurrentInv'
    <2>1. /\ profile' = [profile EXCEPT ![u] = r] /\ assigned' = [assigned EXCEPT ![u] = r]
          /\ UNCHANGED <<job, token>> /\ r # NoProfile
          /\ current' = {x \in current :
                IF x \in Tokens THEN token[x].user # u ELSE ~(Doing(x, "login") /\ job[x].user = u)}
      BY <1>10 DEF Assign, tokens, Roles, NoProfile
    <2>2. \A v \in Users : profile'[v] = NoProfile => assigned'[v] = NoProfile
      BY <2>1 DEF TypeOK, CurrentInv
    <2>3. ASSUME NEW q \in Processes, q \in current', job'[q].step = "login"
          PROVE  RoleClaim(job'[q].held) = RoleClaim(assigned'[job'[q].user])
      <3>1. q \notin Tokens
        BY AccountsAssumption
      <3>2. q \in current /\ job'[q] = job[q] /\ job[q].user # u
        BY <2>1, <2>3, <3>1 DEF Doing
      <3>3. job[q].user \in Users
        BY <2>1, <2>3, JobKinds DEF TypeOK
      <3>4. assigned'[job[q].user] = assigned[job[q].user]
        BY <2>1, <3>2, <3>3 DEF TypeOK
      <3> QED
        BY <2>1, <2>3, <3>2, <3>4 DEF CurrentInv
    <2>4. ASSUME NEW t \in current' \cap Tokens
          PROVE  token'[t] # NoToken /\ token'[t].role = RoleClaim(assigned'[token'[t].user])
      <3>1. t \in current /\ token'[t] = token[t] /\ token[t].user # u
        BY <2>1
      <3>2. token[t] # NoToken /\ token[t].role = RoleClaim(assigned[token[t].user])
        BY <3>1 DEF CurrentInv
      <3>3. assigned'[token[t].user] = assigned[token[t].user]
        BY <2>1, <3>1, <3>2 DEF TypeOK, IssuedTokens
      <3> QED
        BY <3>1, <3>2, <3>3
    <2> QED
      BY <2>2, <2>3, <2>4 DEF CurrentInv
  <1>11. CASE UNCHANGED vars
    BY <1>11 DEF vars, accounts, tokens, CurrentInv
  <1> QED
    BY <1>1, <1>2, <1>3, <1>4, <1>5, <1>6, <1>7, <1>8, <1>9, <1>10, <1>11 DEF Next

-----------------------------------------------------------------------------

\* Roles, profiles, jobs and tokens keep their types (the whole of Accounts).
THEOREM TypeCorrect == Spec => []TypeOK
  <1>1. IInv => TypeOK
    BY DEF IInv
  <1> QED
    BY <1>1, InitIInv, NextIInv, PTL DEF Spec

\* However many logins, edits and registrations interleave with them, role changes
\* stick unless a save of that very user was under way (models.py:40-43).
THEOREM QuietAssignments == Spec => []QuietAssignmentsStick
  <1>1. IInv => QuietAssignmentsStick
    BY DEF IInv, QuietInv, QuietAssignmentsStick
  <1> QED
    BY <1>1, InitIInv, NextIInv, PTL DEF Spec

\* However often a token is exchanged, its claim is outdated only by a role given
\* after its login read the profile, or given during a save (auth_serializers.py:18).
THEOREM ClaimsTold == Spec => []ClaimsAreCurrent
  <1>1. CurrentInv => ClaimsAreCurrent
    BY DEF CurrentInv, ClaimsAreCurrent
  <1> QED
    BY <1>1, InitIInv, NextIInv, InitCurrentInv, NextCurrentInv, PTL DEF Spec

\* No interleaving of saves and rotations makes up a role, or a permission that
\* no given role has (models.py:24-31, auth_serializers.py:9-32).
THEOREM RolesGiven == Spec => []RolesWereGiven
  <1>1. IInv => RolesWereGiven
    <2> SUFFICES ASSUME IInv, NEW u \in Users, NEW perm, HasPerm(u, perm)
                 PROVE  \E r \in given[u] : perm \in RolePermissions[r]
      BY DEF IInv, GivenInv, RolesWereGiven
    <2> QED
      BY DEF IInv, GivenInv, HasPerm
  <1> QED
    BY <1>1, InitIInv, NextIInv, PTL DEF Spec

\* With any number of workers, a refresh token is exchanged at most once by each
\* (BLACKLIST_AFTER_ROTATION, config/settings/base.py:169-179).
THEOREM RotationIsBounded == Spec => []RotationBound
  <1>1. IInv /\ RotationInv => RotationBound
    <2> SUFFICES ASSUME IInv, RotationInv, NEW t \in Tokens
                 PROVE  exchanges[t] <= Cardinality(Processes)
      BY DEF RotationBound
    <2>1. Mid(t) \subseteq Processes /\ exchanges[t] \in Nat
      BY DEF Mid, IInv, TypeOK
    <2>2. Cardinality(Mid(t)) \in Nat /\ Cardinality(Processes) \in Nat
      BY <2>1, CountMid
    <2> QED
      BY <2>1, <2>2 DEF RotationInv
  <1> QED
    BY <1>1, InitIInv, NextIInv, InitRotationInv, NextRotationInv, PTL DEF Spec

\* Whatever dies when, a user without a profile, or a token used up for nothing,
\* is one whose own creation or refresh was cut off.
THEOREM HalfDone == Spec => []HalfDoneOnlyByDeath
  <1>1. IInv => HalfDoneOnlyByDeath
    <2> SUFFICES ASSUME IInv, NEW u \in registered \ interrupted, profile[u] # NoProfile
                 PROVE  HasPermission(u, "IsBasicUser")
      BY DEF IInv, DeathInv, HalfDoneOnlyByDeath
    <2>1. profile[u] \in Roles
      BY DEF IInv, TypeOK
    <2> QED
      BY <2>1 DEF HasPermission, AllowedRoles
  <1> QED
    BY <1>1, InitIInv, NextIInv, PTL DEF Spec
=============================================================================
