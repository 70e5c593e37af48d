------------------------------ MODULE Accounts ------------------------------
(***************************************************************************)
(* Accounts: the tables users, invite_codes, refresh_tokens and            *)
(* user_oauth_links (user/store.go, database/migrations.go) under the      *)
(* concurrent handlers of api/auth_handlers.go, api/social_handlers.go,    *)
(* api/user_handlers.go and api/invite_handlers.go.                        *)
(*                                                                         *)
(* No handler opens a transaction: each is a sequence of statements, and   *)
(* every statement is a step here, so that other handlers act in between.  *)
(* A handler that answers, with success or with an error, becomes idle.    *)
(***************************************************************************)
EXTENDS FiniteSets, Naturals

CONSTANTS
  Requests,   \* handlers that run at the same time
  Users,      \* user ids that may be drawn (uuid: never drawn twice)
  Codes,      \* invite codes that may be drawn
  Tokens,     \* refresh tokens that may be drawn
  Providers,  \* social identity providers
  Subjects,   \* a provider's names for its own users
  Roles,      \* roles in use
  None

Identities == Providers \X Subjects

ASSUME AccountsAssumption ==
  /\ None \notin Users \cup Codes \cup Tokens \cup Identities
  /\ Roles \subseteq {"admin", "moderator", "user"}
  /\ {"admin", "user"} \subseteq Roles
  /\ IsFiniteSet(Users)

VARIABLES
  row,      \* users: id |-> its row
  invite,   \* invite_codes: code |-> its row
  owner,    \* refresh_tokens: token |-> user_id, None without a row
  link,     \* user_oauth_links: identity |-> user_id, None without a row
  rows,     \* users that rows of tasks, messages, nodes, ... refer to
  access,   \* access tokens (JWT) issued: the user and the role they carry
  drawn,    \* ids, codes and tokens drawn so far
  vouched,  \* accounts with an invite, made when there was no other, given a
            \* role by an admin, or signed in to
  req       \* handler |-> what it does and where it stands

tables == <<row, invite, owner, link, rows>>
vars == <<tables, access, drawn, vouched, req>>

-----------------------------------------------------------------------------
(* Rows and requests.                                                      *)

UserRow == [password : BOOLEAN, role : Roles \cup {"none"}]
NoUser == [password |-> FALSE, role |-> "none"]
Exists(u) == u \in Users /\ row[u].role # "none"
Accounts == {u \in Users : Exists(u)}

Invite == [by : Users \cup {None}, role : Roles, redeemedBy : Users \cup {None}]
NoInvite == [by |-> None, role |-> "user", redeemedBy |-> None]

Places == {"idle", "count", "create", "redeem", "spend", "giveRole", "link", "undo", "issue"}
            \cup {"setup", "revoke", "get", "unlink"}
            \cup {"admins", "write", "reassign", "wipe", "unredeem"}
            \cup {"uninvite", "revokeAll", "deleteRow"}
Operations == {"none", "signUp", "changeRole", "delete"}
Request == [op : Operations, at : Places, me : Users \cup {None}, who : Users \cup {None},
            code : Codes \cup {None}, token : Tokens \cup {None},
            ident : Identities \cup {None}, role : Roles]
Idle == [op |-> "none", at |-> "idle", me |-> None, who |-> None, code |-> None,
         token |-> None, ident |-> None, role |-> "user"]

TypeOK ==
  /\ row \in [Users -> UserRow]
  /\ invite \in [Codes -> Invite]
  /\ owner \in [Tokens -> Users \cup {None}]
  /\ link \in [Identities -> Users \cup {None}]
  /\ rows \subseteq Users
  /\ access \subseteq Users \X Roles
  /\ drawn \subseteq Users \cup Codes \cup Tokens
  /\ vouched \subseteq Users
  /\ req \in [Requests -> Request]

\* Bootstrap makes the first admin of a configured server before it serves.
Init ==
  /\ \/ row = [u \in Users |-> NoUser] /\ drawn = {} /\ vouched = {}
     \/ \E u \in Users :
          /\ row = [v \in Users |-> IF v = u
                     THEN [password |-> TRUE, role |-> "admin"] ELSE NoUser]
          /\ drawn = {u}
          /\ vouched = {u}
  /\ invite = [c \in Codes |-> NoInvite]
  /\ owner = [t \in Tokens |-> None]
  /\ link = [i \in Identities |-> None]
  /\ rows = {}
  /\ access = {}
  /\ req = [r \in Requests |-> Idle]

Begin(r, task) == req[r] = Idle /\ req' = [req EXCEPT ![r] = task]
At(r, place) == req[r].at = place
Goto(r, place) == req' = [req EXCEPT ![r].at = place]
Answer(r) == req' = [req EXCEPT ![r] = Idle]
SignIn(u, role) == [Idle EXCEPT !.at = "issue", !.who = u, !.role = role]
Issue(r, u, role) == req' = [req EXCEPT ![r] = SignIn(u, role)]

\* An authenticated caller is whoever an access token names, with the role it
\* names: jwtAuthMiddleware and requireRole read no table. That the token expires
\* only keeps a caller from calling, which it may do anyway.
Callers(roles) == {a[1] : a \in {b \in access : b[2] \in roles}}

-----------------------------------------------------------------------------
(* Statements that handlers share.                                         *)

\* INSERT INTO users: the id is new. Emails are left out: the handlers of a
\* taken email answer and change nothing.
InsertUser(u, password, role) ==
  /\ u \in Users \ drawn
  /\ row' = [row EXCEPT ![u] = [password |-> password, role |-> role]]
  /\ drawn' = drawn \cup {u}

\* CreateSocial of the store: an account with an empty password hash.
InsertSocial(u, role) == InsertUser(u, FALSE, role)

\* Store.UpdateRole and UpdateUser; the error for an account that is gone is dropped.
SetRole(u, role) == row' = IF Exists(u) THEN [row EXCEPT ![u].role = role] ELSE row
SetPassword(u) == row' = [row EXCEPT ![u].password = TRUE]

Authenticate(u) == u \in Accounts /\ row[u].password
HasPassword(u) == row[u].password

GetByOAuthLink(i) == link[i]
ListOAuthLinks(u) == {i \in Identities : link[i] = u}

ValidateRefreshToken(t) == owner[t] # None

\* INSERT INTO refresh_tokens: user_id refers to the account.
StoreRefreshToken(t, u) ==
  /\ t \notin drawn
  /\ Exists(u)
  /\ owner' = [owner EXCEPT ![t] = u]
  /\ drawn' = drawn \cup {t}

RevokeRefreshToken(t) == owner' = [owner EXCEPT ![t] = None]

\* Rows that refer to the user and do not disappear with it.
Referenced(u) ==
  \/ u \in rows
  \/ \E c \in Codes : u \in {invite[c].by, invite[c].redeemedBy}

\* Mutant: no ON DELETE CASCADE on refresh_tokens and user_oauth_links.
DeleteUserAlone(u) ==
  IF Exists(u) /\ ~Referenced(u)
    THEN /\ row' = [row EXCEPT ![u] = NoUser]
         /\ vouched' = vouched \ {u}
         /\ UNCHANGED <<owner, link>>
    ELSE UNCHANGED <<row, owner, link, vouched>>

\* DELETE FROM users: refused while rows refer to the user, and ON DELETE
\* CASCADE removes its refresh tokens and links.
DeleteUser(u) ==
  IF Exists(u) /\ ~Referenced(u)
    THEN /\ row' = [row EXCEPT ![u] = NoUser]
         /\ owner' = [t \in Tokens |-> IF owner[t] = u THEN None ELSE owner[t]]
         /\ link' = [i \in Identities |-> IF link[i] = u THEN None ELSE link[i]]
         /\ vouched' = vouched \ {u}
    ELSE UNCHANGED <<row, owner, link, vouched>>

-----------------------------------------------------------------------------
(* Signing up: handleRegister, handleSocialAuth, completeSocialLogin.      *)

\* Step 1 of handleRegister: the account exists before its invite is looked at.
Register(r) ==
  \E u \in Users, c \in Codes :
    /\ InsertUser(u, TRUE, "user")
    /\ Begin(r, [Idle EXCEPT !.op = "signUp", !.at = "redeem", !.who = u, !.code = c])
    /\ UNCHANGED <<invite, owner, link, rows, access, vouched>>

\* A verified identity: its account signs in; without one, the API wants an
\* invite, and the browser's flow (claim) first counts the accounts.
SocialLogin(r) ==
  \E i \in Identities, c \in Codes \cup {None}, claim \in BOOLEAN :
    /\ \/ /\ GetByOAuthLink(i) # None
          /\ Begin(r, SignIn(link[i], row[link[i]].role))
       \/ /\ GetByOAuthLink(i) = None
          /\ claim \/ c # None
          /\ Begin(r, [Idle EXCEPT !.op = "signUp", !.code = c, !.ident = i,
                                   !.at = IF claim THEN "count" ELSE "create"])
    /\ UNCHANGED <<tables, access, drawn, vouched>>

\* No account yet: "skip invite code and grant admin".
CountUsers(r) ==
  /\ At(r, "count")
  /\ \/ /\ Accounts = {}
        /\ req' = [req EXCEPT ![r].at = "create", ![r].role = "admin"]
     \/ Accounts # {} /\ req[r].code # None /\ Goto(r, "create")
     \/ Accounts # {} /\ req[r].code = None /\ Answer(r)
  /\ UNCHANGED <<tables, access, drawn, vouched>>

\* GetByEmail and CreateSocial refuse the same emails, so they are one step.
CreateSocial(r) ==
  /\ At(r, "create")
  /\ \/ \E u \in Users :
          /\ InsertSocial(u, req[r].role)
          /\ req' = [req EXCEPT ![r].who = u,
                               ![r].at = IF req[r].role = "admin" THEN "link" ELSE "redeem"]
          /\ vouched' = IF req[r].role = "admin" THEN vouched \cup {u} ELSE vouched
     \/ Answer(r) /\ Accounts # {} /\ UNCHANGED <<row, drawn, vouched>>
  /\ UNCHANGED <<invite, owner, link, rows, access>>

\* RedeemInviteCode reads the code, which may be expired by now ...
Redeem(r) ==
  /\ At(r, "redeem")
  /\ LET i == invite[req[r].code]
     IN  \/ /\ i.by # None
            /\ i.redeemedBy = None
            /\ req' = [req EXCEPT ![r].at = "spend", ![r].role = i.role]
         \/ Goto(r, "undo")
  /\ UNCHANGED <<tables, access, drawn, vouched>>

\* The account has its invite and its role.
Settle(r) ==
  IF req[r].ident # None THEN Goto(r, "link") ELSE Issue(r, req[r].who, req[r].role)

AfterSpend(r) == IF req[r].role # "user" THEN Goto(r, "giveRole") ELSE Settle(r)

\* Mutant: the two arguments of the UPDATE are swapped.
SpendSwapped(r) ==
  /\ At(r, "spend")
  /\ invite' = [invite EXCEPT ![req[r].code].redeemedBy = req[r].code]
  /\ AfterSpend(r)
  /\ vouched' = vouched \cup ({req[r].who} \cap Accounts)
  /\ UNCHANGED <<row, owner, link, rows, access, drawn>>

\* ... and writes it. A code deleted meanwhile is no error (no row is updated);
\* an account deleted meanwhile is one (redeemed_by refers to it).
Spend(r) ==
  /\ At(r, "spend")
  /\ LET c == req[r].code
         u == req[r].who
     IN  IF invite[c].by # None /\ ~Exists(u)
           THEN Goto(r, "undo") /\ UNCHANGED <<invite, vouched>>
           ELSE /\ invite' = IF invite[c].by = None THEN invite
                             ELSE [invite EXCEPT ![c].redeemedBy = u]
                /\ vouched' = vouched \cup ({u} \cap Accounts)
                /\ AfterSpend(r)
  /\ UNCHANGED <<row, owner, link, rows, access, drawn>>

GiveRole(r) ==
  /\ At(r, "giveRole")
  /\ IF Exists(req[r].who)
       THEN SetRole(req[r].who, req[r].role) /\ Settle(r)
       ELSE Answer(r) /\ UNCHANGED row
  /\ UNCHANGED <<invite, owner, link, rows, access, drawn, vouched>>

\* INSERT INTO user_oauth_links, for a new account or for handleLinkOAuth.
LinkIdentity(r) ==
  /\ At(r, "link")
  /\ IF Exists(req[r].who) /\ link[req[r].ident] = None
       THEN /\ link' = [link EXCEPT ![req[r].ident] = req[r].who]
            /\ IF req[r].op = "signUp"
                 THEN Issue(r, req[r].who, req[r].role)
                 ELSE Answer(r)
       ELSE Answer(r) /\ UNCHANGED link
  /\ UNCHANGED <<row, invite, owner, rows, access, drawn, vouched>>

\* Mutant: the account stays when its invite is refused.
UndoNothing(r) ==
  /\ At(r, "undo")
  /\ Answer(r)
  /\ UNCHANGED <<tables, access, drawn, vouched>>

\* "Cleanup the user we just created", whatever that returns.
UndoSignUp(r) ==
  /\ At(r, "undo")
  /\ DeleteUser(req[r].who)
  /\ Answer(r)
  /\ UNCHANGED <<invite, rows, access, drawn>>

\* issueTokens and generateAuthResult: a refresh token for an account that is
\* still there, or an error.
IssueTokens(r) ==
  /\ At(r, "issue")
  /\ Answer(r)
  /\ \/ \E t \in Tokens :
          /\ StoreRefreshToken(t, req[r].who)
          /\ access' = access \cup {<<req[r].who, req[r].role>>}
          /\ vouched' = vouched \cup {req[r].who}
     \/ UNCHANGED <<owner, drawn, access, vouched>>
  /\ UNCHANGED <<row, invite, link, rows>>

-----------------------------------------------------------------------------
(* First admin, passwords, refresh tokens.                                 *)

\* handleSetup counts the accounts before it hashes the password ...
Setup(r) ==
  /\ Accounts = {}
  /\ Begin(r, [Idle EXCEPT !.at = "setup"])
  /\ UNCHANGED <<tables, access, drawn, vouched>>

\* ... and CreateFirstAdmin inserts the admin if there is still no account.
CreateFirstAdmin(r) ==
  /\ At(r, "setup")
  /\ \/ /\ Accounts = {}
        /\ \E u \in Users :
             /\ InsertUser(u, TRUE, "admin")
             /\ vouched' = vouched \cup {u}
             /\ Issue(r, u, "admin")
     \/ Accounts # {} /\ Answer(r) /\ UNCHANGED <<row, drawn, vouched>>
  /\ UNCHANGED <<invite, owner, link, rows, access>>

Login(r) ==
  /\ \E u \in Users : Authenticate(u) /\ Begin(r, SignIn(u, row[u].role))
  /\ UNCHANGED <<tables, access, drawn, vouched>>

\* handleRefresh: validate, revoke, read the user, issue.
Refresh(r) ==
  /\ \E t \in Tokens :
       /\ ValidateRefreshToken(t)
       /\ Begin(r, [Idle EXCEPT !.at = "revoke", !.token = t, !.who = owner[t]])
  /\ UNCHANGED <<tables, access, drawn, vouched>>

Revoke(r) ==
  /\ At(r, "revoke")
  /\ RevokeRefreshToken(req[r].token)
  /\ Goto(r, "get")
  /\ UNCHANGED <<row, invite, link, rows, access, drawn, vouched>>

GetUser(r) ==
  /\ At(r, "get")
  /\ IF Exists(req[r].who) THEN Issue(r, req[r].who, row[req[r].who].role) ELSE Answer(r)
  /\ UNCHANGED <<tables, access, drawn, vouched>>

\* handleLogout, or the expiry of a refresh token.
Logout ==
  /\ \E t \in Tokens : ValidateRefreshToken(t) /\ RevokeRefreshToken(t)
  /\ UNCHANGED <<row, invite, link, rows, access, drawn, vouched, req>>

\* The admin's reset is the one way a social account gets a password.
ResetPassword ==
  /\ Callers({"admin"}) # {}
  /\ \E u \in Accounts : SetPassword(u)
  /\ UNCHANGED <<invite, owner, link, rows, access, drawn, vouched, req>>

-----------------------------------------------------------------------------
(* handleLinkOAuth and handleUnlinkOAuth.                                  *)

LinkOAuth(r) ==
  /\ \E u \in Callers(Roles), i \in Identities :
       /\ GetByOAuthLink(i) = None
       /\ Begin(r, [Idle EXCEPT !.at = "link", !.who = u, !.ident = i])
  /\ UNCHANGED <<tables, access, drawn, vouched>>

\* The caller must keep a password or a link of another provider.
UnlinkOAuth(r) ==
  /\ \E u \in Callers(Roles) \cap Accounts, i \in Identities :
       /\ HasPassword(u) \/ \E j \in ListOAuthLinks(u) : j[1] # i[1]
       /\ Begin(r, [Idle EXCEPT !.at = "unlink", !.who = u, !.ident = i])
  /\ UNCHANGED <<tables, access, drawn, vouched>>

Unlink(r) ==
  /\ At(r, "unlink")
  /\ link' = [i \in Identities |->
                IF link[i] = req[r].who /\ i[1] = req[r].ident[1] THEN None ELSE link[i]]
  /\ Answer(r)
  /\ UNCHANGED <<row, invite, owner, rows, access, drawn, vouched>>

-----------------------------------------------------------------------------
(* Administration: handleUpdateUserRole, handleDeleteUser, invites.        *)

Admins == {u \in Accounts : row[u].role = "admin"}

Permitted(op) == IF op = "delete" THEN "reassign" ELSE "write"

\* "Cannot change own role", "cannot delete yourself"; the target is read, and
\* the admins are counted before one of them is deleted or demoted.
Administer(r) ==
  /\ \E me \in Callers({"admin"}), who \in Accounts, op \in {"changeRole", "delete"},
        role \in Roles :
       /\ who # me
       /\ op = "delete" => role = "user"
       /\ Begin(r, [Idle EXCEPT !.op = op, !.me = me, !.who = who, !.role = role,
                                !.at = IF who \in Admins /\ role # "admin"
                                         THEN "admins" ELSE Permitted(op)])
  /\ UNCHANGED <<tables, access, drawn, vouched>>

CountAdmins(r) ==
  /\ At(r, "admins")
  /\ IF Cardinality(Admins) <= 1 THEN Answer(r) ELSE Goto(r, Permitted(req[r].op))
  /\ UNCHANGED <<tables, access, drawn, vouched>>

UpdateRole(r) ==
  /\ At(r, "write")
  /\ LET u == req[r].who
     IN  /\ SetRole(u, req[r].role)
         /\ vouched' = vouched \cup ({u} \cap Accounts)
  /\ Answer(r)
  /\ UNCHANGED <<invite, owner, link, rows, access, drawn>>

\* DisableAndReassignTasks: tasks that the account has, among its rows or alone,
\* go to the caller. The caller may be gone: then the rows are refused.
Reassign(r) ==
  /\ At(r, "reassign")
  /\ LET me == req[r].me
         who == req[r].who
     IN  \/ Goto(r, "wipe") /\ UNCHANGED rows      \* it has no tasks
         \/ /\ who \in rows
            /\ Exists(me)
            /\ Goto(r, "wipe")
            /\ rows' \in {rows \cup {me}, (rows \ {who}) \cup {me}}
         \/ /\ who \in rows
            /\ ~Exists(me)
            /\ Answer(r)
            /\ UNCHANGED rows
  /\ UNCHANGED <<row, invite, owner, link, access, drawn, vouched>>

\* "Log but continue; best-effort cleanup."
Wipe(r) ==
  /\ At(r, "wipe")
  /\ rows' \in {rows, rows \ {req[r].who}}
  /\ Goto(r, "unredeem")
  /\ UNCHANGED <<row, invite, owner, link, access, drawn, vouched>>

Unredeem(r) ==
  /\ At(r, "unredeem")
  /\ invite' = [c \in Codes |->
                  IF invite[c].redeemedBy = req[r].who
                    THEN [invite[c] EXCEPT !.redeemedBy = None] ELSE invite[c]]
  /\ Goto(r, "uninvite")
  /\ UNCHANGED <<row, owner, link, rows, access, drawn, vouched>>

Uninvite(r) ==
  /\ At(r, "uninvite")
  /\ invite' = [c \in Codes |->
                  IF invite[c].by = req[r].who THEN NoInvite ELSE invite[c]]
  /\ Goto(r, "revokeAll")
  /\ UNCHANGED <<row, owner, link, rows, access, drawn, vouched>>

RevokeAllRefreshTokens(u) == owner' = [t \in Tokens |-> IF owner[t] = u THEN None ELSE owner[t]]

RevokeAll(r) ==
  /\ At(r, "revokeAll")
  /\ RevokeAllRefreshTokens(req[r].who)
  /\ Goto(r, "deleteRow")
  /\ UNCHANGED <<row, invite, link, rows, access, drawn, vouched>>

DeleteRow(r) ==
  /\ At(r, "deleteRow")
  /\ DeleteUser(req[r].who)
  /\ Answer(r)
  /\ UNCHANGED <<invite, rows, access, drawn>>

\* INSERT INTO invite_codes: the code is new, created_by refers to the account.
CreateInviteCode(c, me, role) ==
  /\ c \in Codes \ drawn
  /\ Exists(me)
  /\ invite' = [invite EXCEPT ![c] = [NoInvite EXCEPT !.by = me, !.role = role]]
  /\ drawn' = drawn \cup {c}

CreateInvite ==
  /\ \E me \in Callers({"admin", "moderator"}), c \in Codes, role \in Roles :
       CreateInviteCode(c, me, role)
  /\ UNCHANGED <<row, owner, link, rows, access, vouched, req>>

DeleteInvite ==
  /\ Callers({"admin", "moderator"}) # {}
  /\ \E c \in Codes : invite' = [invite EXCEPT ![c] = NoInvite]
  /\ UNCHANGED <<row, owner, link, rows, access, drawn, vouched, req>>

-----------------------------------------------------------------------------
(* What accounts are used for.                                             *)

\* A message, a memory or a task of the account.
UseAccount ==
  /\ \E u \in Callers(Roles) \cap Accounts : rows' = rows \cup {u}
  /\ UNCHANGED <<row, invite, owner, link, access, drawn, vouched, req>>

SignUpStep(r) ==
  \/ Register(r) \/ SocialLogin(r) \/ CountUsers(r) \/ CreateSocial(r) \/ Redeem(r)
  \/ Spend(r) \/ GiveRole(r) \/ LinkIdentity(r) \/ UndoSignUp(r) \/ IssueTokens(r)

SessionStep(r) ==
  \/ Setup(r) \/ CreateFirstAdmin(r) \/ Login(r) \/ Refresh(r) \/ Revoke(r) \/ GetUser(r)
  \/ LinkOAuth(r) \/ UnlinkOAuth(r) \/ Unlink(r)

AdminStep(r) ==
  \/ Administer(r) \/ CountAdmins(r) \/ UpdateRole(r) \/ Reassign(r)
  \/ Wipe(r) \/ Unredeem(r) \/ Uninvite(r) \/ RevokeAll(r) \/ DeleteRow(r)

Next ==
  \/ \E r \in Requests : SignUpStep(r) \/ SessionStep(r) \/ AdminStep(r)
  \/ Logout \/ ResetPassword \/ CreateInvite \/ DeleteInvite \/ UseAccount

Spec == Init /\ [][Next]_vars

-----------------------------------------------------------------------------
(* Properties.                                                             *)

\* No row refers to an account that is gone, in whatever order accounts are
\* deleted, tokens issued, invites spent and tasks handed over: a token or a
\* link that outlives its account would sign in to nothing.
NoDanglingRows ==
  /\ \A t \in Tokens : owner[t] # None => Exists(owner[t])
  /\ \A i \in Identities : link[i] # None => Exists(link[i])
  /\ \A c \in Codes : {invite[c].by, invite[c].redeemedBy} \ {None} \subseteq Accounts
  /\ rows \subseteq Accounts

\* "CreateFirstAdmin atomically creates the first admin account, but only if
\* no users exist yet": a setup that waited while another account appeared is
\* refused.
SetupIsAtomic ==
  [][\A r \in Requests : At(r, "setup") /\ At(r, "issue")' => Accounts = {}]_vars

\* A sign-up whose invite is refused leaves no account behind (handleRegister,
\* "Cleanup the user we just created"), unless somebody signed in to it or
\* gave it a role before the cleanup: every other account has been vouched
\* for, or its sign-up still runs.
RefusedSignUpsLeaveNothing ==
  \A u \in Accounts \ vouched :
    \E r \in Requests : req[r].who = u /\ req[r].at \in {"redeem", "spend", "undo"}
=============================================================================
