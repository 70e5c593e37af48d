--------------------------- MODULE AccountsProofs ---------------------------
(***************************************************************************)
(* Proofs about Accounts for every number of handlers, accounts, invite    *)
(* codes, tokens and identities.                                           *)
(***************************************************************************)
EXTENDS Accounts, TLAPS

\* The statements that one action or two are made of are read through everywhere.
USE DEF InsertSocial, SetRole, SetPassword, Authenticate, HasPassword, GetByOAuthLink,
        ListOAuthLinks, ValidateRefreshToken, StoreRefreshToken, RevokeRefreshToken,
        RevokeAllRefreshTokens, CreateInviteCode

-----------------------------------------------------------------------------
(* Types, and the references between tables.                               *)

\* A sign-up that is neither the first nor past its invite has a code.
CodeGiven ==
  \A r \in Requests :
    \/ At(r, "create") /\ req[r].role # "admin"
    \/ At(r, "redeem")
    \/ At(r, "spend")
    => req[r].code \in Codes

Asked == req \in [Requests -> Request] /\ CodeGiven
Typed == TypeOK /\ CodeGiven /\ NoDanglingRows

\* Whatever a request becomes, the others stay typed.
LEMMA Moves ==
  ASSUME Asked, NEW r \in Requests, NEW q \in Request,
         req' = [req EXCEPT ![r] = q],
         (q.at = "create" /\ q.role # "admin") \/ q.at \in {"redeem", "spend"} => q.code \in Codes
  PROVE  Asked'
BY DEF Asked, CodeGiven, At

LEMMA AnswerMoves == ASSUME Asked, NEW r \in Requests, Answer(r) PROVE Asked'
<1>1. Idle \in Request /\ Idle.at = "idle"
  BY AccountsAssumption DEF Idle, Request, Places, Operations
<1> QED
  BY <1>1, Moves DEF Answer

LEMMA GotoMoves ==
  ASSUME Asked, NEW r \in Requests, NEW place \in Places, Goto(r, place),
         place \in {"create", "redeem", "spend"} => req[r].code \in Codes
  PROVE  Asked'
<1> DEFINE q == [req[r] EXCEPT !.at = place]
<1>1. q \in Request /\ q.at = place /\ q.code = req[r].code
  BY DEF Asked, Request
<1>2. req' = [req EXCEPT ![r] = q]
  BY DEF Goto
<1> QED
  BY <1>1, <1>2, Moves

LEMMA SignInType ==
  ASSUME NEW u \in Users \cup {None}, NEW role \in Roles
  PROVE  SignIn(u, role) \in Request /\ SignIn(u, role).at = "issue"
BY AccountsAssumption DEF SignIn, Idle, Request, Places, Operations

LEMMA IssueMoves ==
  ASSUME Asked, NEW r \in Requests, NEW u \in Users \cup {None}, NEW role \in Roles,
         Issue(r, u, role)
  PROVE  Asked'
BY SignInType, Moves DEF Issue

LEMMA SettleMoves == ASSUME Asked, NEW r \in Requests, Settle(r) PROVE Asked'
<1>1. req[r].who \in Users \cup {None} /\ req[r].role \in Roles /\ "link" \in Places
  BY DEF Asked, Request, Places
<1> QED
  BY <1>1, GotoMoves, IssueMoves DEF Settle

\* The statements on the table users.
LEMMA InsertTyped ==
  ASSUME TypeOK, NEW u \in Users, NEW password \in BOOLEAN, NEW role \in Roles,
         InsertUser(u, password, role)
  PROVE  row' \in [Users -> UserRow] /\ drawn' \subseteq Users \cup Codes \cup Tokens
BY DEF TypeOK, InsertUser, UserRow

LEMMA InsertKeeps ==
  ASSUME TypeOK, NoDanglingRows, NEW u \in Users, NEW password \in BOOLEAN, NEW role \in Roles,
         InsertUser(u, password, role), UNCHANGED <<invite, owner, link, rows>>
  PROVE  NoDanglingRows'
<1>1. \A v \in Users : Exists(v) => Exists(v)'
  BY AccountsAssumption DEF TypeOK, InsertUser, Exists, UserRow
<1> QED
  BY <1>1 DEF NoDanglingRows, Accounts, Exists

LEMMA DeleteTyped ==
  ASSUME TypeOK, NEW u, DeleteUser(u)
  PROVE  /\ row' \in [Users -> UserRow]
         /\ owner' \in [Tokens -> Users \cup {None}]
         /\ link' \in [Identities -> Users \cup {None}]
         /\ vouched' \subseteq Users
<1>1. NoUser \in UserRow
  BY DEF NoUser, UserRow
<1>2. CASE Exists(u) /\ ~Referenced(u)
  BY <1>1, <1>2 DEF TypeOK, DeleteUser
<1>3. CASE ~(Exists(u) /\ ~Referenced(u))
  BY <1>3 DEF TypeOK, DeleteUser
<1> QED
  BY <1>2, <1>3

LEMMA DeleteKeeps ==
  ASSUME TypeOK, NoDanglingRows, NEW u, DeleteUser(u), UNCHANGED <<invite, rows>>
  PROVE  NoDanglingRows'
<1>1. CASE Exists(u) /\ ~Referenced(u)
  <2>1. u \in Users /\ u # None /\ row' = [row EXCEPT ![u] = NoUser]
    BY <1>1, AccountsAssumption DEF DeleteUser, Exists
  <2>2. \A v : Exists(v) /\ v # u => v \in Users /\ row'[v] = row[v]
    BY <2>1 DEF Exists, TypeOK
  <2>3. \A t \in Tokens : owner'[t] # None => owner'[t] = owner[t] /\ owner[t] # u
    BY <1>1, <2>1 DEF DeleteUser, TypeOK
  <2>4. \A i \in Identities : link'[i] # None => link'[i] = link[i] /\ link[i] # u
    BY <1>1, <2>1 DEF DeleteUser, TypeOK
  <2>5. u \notin rows /\ \A c \in Codes : u \notin {invite[c].by, invite[c].redeemedBy}
    BY <1>1 DEF Referenced
  <2>6. (\A t \in Tokens : owner[t] # None => Exists(owner[t]))'
    BY <2>2, <2>3 DEF NoDanglingRows, Exists
  <2>7. (\A i \in Identities : link[i] # None => Exists(link[i]))'
    BY <2>2, <2>4 DEF NoDanglingRows, Exists
  <2>8. rows' \subseteq Accounts'
    BY <2>2, <2>5 DEF NoDanglingRows, Accounts, Exists
  <2>9. (\A c \in Codes : {invite[c].by, invite[c].redeemedBy} \ {None} \subseteq Accounts)'
    BY <2>2, <2>5 DEF NoDanglingRows, Accounts, Exists
  <2> QED
    BY <2>6, <2>7, <2>8, <2>9 DEF NoDanglingRows
<1>2. CASE ~(Exists(u) /\ ~Referenced(u))
  <2>1. UNCHANGED <<row, owner, link, invite, rows>>
    BY <1>2 DEF DeleteUser
  <2> QED
    BY <2>1 DEF NoDanglingRows, Accounts, Exists
<1> QED
  BY <1>1, <1>2

\* A step that changes no table.
LEMMA TablesStay ==
  ASSUME Typed, Asked', UNCHANGED <<tables, access, drawn, vouched>>
  PROVE  Typed'
BY DEF Typed, Asked, TypeOK, NoDanglingRows, tables, Accounts, Exists


-----------------------------------------------------------------------------
(* The actions, one lemma each or one for those alike.                     *)

LEMMA LookupsTyped ==
  ASSUME Typed, NEW r \in Requests,
         \/ SocialLogin(r) \/ CountUsers(r) \/ Redeem(r) \/ Setup(r) \/ Login(r)
         \/ Refresh(r) \/ GetUser(r) \/ LinkOAuth(r) \/ UnlinkOAuth(r)
         \/ Administer(r) \/ CountAdmins(r)
  PROVE  Typed'
<1> USE AccountsAssumption
<1>0. TypeOK /\ CodeGiven /\ NoDanglingRows /\ Asked
  BY DEF Typed, TypeOK, Asked
<1>1. \A u \in Users : Exists(u) => row[u].role \in Roles
  BY <1>0 DEF TypeOK, UserRow, Exists
<1>2. UNCHANGED <<tables, access, drawn, vouched>> /\ Asked'
  <2>1. CASE SocialLogin(r)
    <3>1. PICK i \in Identities, c \in Codes \cup {None}, claim \in BOOLEAN :
            \/ link[i] # None /\ Begin(r, SignIn(link[i], row[link[i]].role))
            \/ /\ link[i] = None
               /\ claim \/ c # None
               /\ Begin(r, [Idle EXCEPT !.op = "signUp", !.code = c, !.ident = i,
                                        !.at = IF claim THEN "count" ELSE "create"])
      BY <2>1 DEF SocialLogin
    <3>2. CASE link[i] # None /\ Begin(r, SignIn(link[i], row[link[i]].role))
      <4>1. link[i] \in Users /\ row[link[i]].role \in Roles
        BY <1>0, <1>1, <3>2 DEF NoDanglingRows, Exists
      <4> QED
        BY <1>0, <2>1, <3>2, <4>1, IssueMoves DEF Begin, Issue, SocialLogin
    <3>3. CASE /\ claim \/ c # None
               /\ Begin(r, [Idle EXCEPT !.op = "signUp", !.code = c, !.ident = i,
                                        !.at = IF claim THEN "count" ELSE "create"])
      <4> DEFINE q == [Idle EXCEPT !.op = "signUp", !.code = c, !.ident = i,
                                   !.at = IF claim THEN "count" ELSE "create"]
      <4>1. q \in Request
        BY DEF Idle, Request, Places, Operations
      <4>2. q.at = "create" => q.code \in Codes
        BY <3>3 DEF Idle
      <4>3. q.at \in {"count", "create"}
        BY DEF Idle
      <4>4. req' = [req EXCEPT ![r] = q]
        BY <3>3 DEF Begin
      <4> HIDE DEF q
      <4> QED
        BY <1>0, <2>1, <4>1, <4>2, <4>3, <4>4, Moves DEF SocialLogin
    <3> QED
      BY <3>1, <3>2, <3>3
  <2>2. CASE CountUsers(r)
    <3>1. CASE req' = [req EXCEPT ![r].at = "create", ![r].role = "admin"]
      <4> DEFINE q == [req[r] EXCEPT !.at = "create", !.role = "admin"]
      <4>0. req[r] \in Request /\ "create" \in Places /\ "admin" \in Roles
        BY <1>0, AccountsAssumption DEF Asked, Places
      <4>1. q \in Request /\ q.at = "create" /\ q.role = "admin"
        BY <4>0 DEF Request
      <4>2. req' = [req EXCEPT ![r] = q]
        BY <1>0, <3>1 DEF Asked
      <4> QED
        BY <1>0, <2>2, <4>1, <4>2, Moves DEF CountUsers
    <3>2. CASE req[r].code # None /\ Goto(r, "create")
      <4>1. req[r].code \in Codes /\ "create" \in Places
        BY <1>0, <3>2 DEF Asked, Request, Places
      <4> QED
        BY <1>0, <2>2, <3>2, <4>1, GotoMoves DEF CountUsers
    <3>3. CASE Answer(r)
      BY <1>0, <2>2, <3>3, AnswerMoves DEF CountUsers
    <3> QED
      BY <2>2, <3>1, <3>2, <3>3 DEF CountUsers
  <2>3. CASE Redeem(r)
    <3>1. req[r].code \in Codes
      BY <1>0, <2>3 DEF CodeGiven, Redeem
    <3>2. CASE req' = [req EXCEPT ![r].at = "spend", ![r].role = invite[req[r].code].role]
      <4> DEFINE q == [req[r] EXCEPT !.at = "spend", !.role = invite[req[r].code].role]
      <4>0. invite[req[r].code].role \in Roles /\ req[r] \in Request
        BY <1>0, <3>1 DEF TypeOK, Invite
      <4>1. q \in Request /\ q.code \in Codes
        BY <3>1, <4>0 DEF Request, Places
      <4>2. req' = [req EXCEPT ![r] = q]
        BY <1>0, <3>2 DEF Asked
      <4> QED
        BY <1>0, <2>3, <4>1, <4>2, Moves DEF Redeem
    <3>3. CASE Goto(r, "undo")
      BY <1>0, <2>3, <3>3, GotoMoves DEF Redeem, Places
    <3> QED
      BY <2>3, <3>2, <3>3 DEF Redeem
  <2>4. CASE Setup(r)
    <3>1. [Idle EXCEPT !.at = "setup"] \in Request /\ [Idle EXCEPT !.at = "setup"].at = "setup"
      BY DEF Idle, Request, Places, Operations
    <3> QED
      BY <1>0, <2>4, <3>1, Moves DEF Setup, Begin
  <2>5. CASE Login(r)
    <3>1. PICK u \in Users : Exists(u) /\ Begin(r, SignIn(u, row[u].role))
      BY <2>5 DEF Login, Accounts
    <3>2. Issue(r, u, row[u].role)
      BY <3>1 DEF Begin, Issue
    <3> QED
      BY <1>0, <1>1, <2>5, <3>1, <3>2, IssueMoves DEF Login
  <2>6. CASE Refresh(r)
    <3>1. PICK t \in Tokens :
            Begin(r, [Idle EXCEPT !.at = "revoke", !.token = t, !.who = owner[t]])
      BY <2>6 DEF Refresh
    <3> DEFINE q == [Idle EXCEPT !.at = "revoke", !.token = t, !.who = owner[t]]
    <3>2. owner[t] \in Users \cup {None}
      BY <1>0 DEF TypeOK
    <3>3. q \in Request /\ q.at = "revoke"
      BY <3>2 DEF Idle, Request, Places, Operations
    <3> QED
      BY <1>0, <2>6, <3>1, <3>3, Moves DEF Refresh, Begin
  <2>7. CASE GetUser(r)
    <3>1. CASE Exists(req[r].who)
      <4>1. req[r].who \in Users /\ row[req[r].who].role \in Roles
        BY <1>1, <3>1 DEF Exists
      <4> QED
        BY <1>0, <2>7, <3>1, <4>1, IssueMoves DEF GetUser
    <3>2. CASE ~Exists(req[r].who)
      BY <1>0, <2>7, <3>2, AnswerMoves DEF GetUser
    <3> QED
      BY <3>1, <3>2
  <2>8. CASE LinkOAuth(r) \/ UnlinkOAuth(r)
    <3>1. Callers(Roles) \subseteq Users
      BY <1>0 DEF Callers, TypeOK
    <3>2. PICK u \in Users, i \in Identities, place \in {"link", "unlink"} :
            Begin(r, [Idle EXCEPT !.at = place, !.who = u, !.ident = i])
      BY <2>8, <3>1 DEF LinkOAuth, UnlinkOAuth
    <3> DEFINE q == [Idle EXCEPT !.at = place, !.who = u, !.ident = i]
    <3>3. q \in Request /\ q.at \in {"link", "unlink"}
      BY DEF Idle, Request, Places, Operations
    <3> QED
      BY <1>0, <2>8, <3>2, <3>3, Moves DEF LinkOAuth, UnlinkOAuth, Begin
  <2>9. CASE Administer(r)
    <3>1. Callers({"admin"}) \subseteq Users
      BY <1>0 DEF Callers, TypeOK
    <3>2. PICK me \in Users, who \in Users, op \in {"changeRole", "delete"}, role \in Roles,
               place \in {"admins", "reassign", "write"} :
            Begin(r, [Idle EXCEPT !.op = op, !.me = me, !.who = who, !.role = role,
                                  !.at = place])
      BY <2>9, <3>1 DEF Administer, Accounts, Permitted
    <3> DEFINE q == [Idle EXCEPT !.op = op, !.me = me, !.who = who, !.role = role,
                                 !.at = place]
    <3>3. q \in Request /\ q.at \in {"admins", "reassign", "write"}
      BY DEF Idle, Request, Places, Operations
    <3> QED
      BY <1>0, <2>9, <3>2, <3>3, Moves DEF Administer, Begin
  <2>10. CASE CountAdmins(r)
    BY <1>0, <2>10, AnswerMoves, GotoMoves DEF CountAdmins, Permitted, Places
  <2> QED
    BY <2>1, <2>2, <2>3, <2>4, <2>5, <2>6, <2>7, <2>8, <2>9, <2>10
<1> QED
  BY <1>2, TablesStay

\* What is left to show of a step that changes tables.
LEMMA TypedAgain ==
  ASSUME Typed, Asked', NoDanglingRows',
         row' \in [Users -> UserRow],
         invite' \in [Codes -> Invite],
         owner' \in [Tokens -> Users \cup {None}],
         link' \in [Identities -> Users \cup {None}],
         rows' \subseteq Users,
         access' \subseteq Users \X Roles,
         drawn' \subseteq Users \cup Codes \cup Tokens,
         vouched' \subseteq Users
  PROVE  Typed'
BY DEF Typed, Asked, TypeOK

LEMMA FirstSteps ==
  Typed => /\ TypeOK /\ CodeGiven /\ NoDanglingRows /\ Asked
           /\ \A r \in Requests : req[r] \in Request
BY DEF Typed, TypeOK, Asked

LEMMA CreationsTyped ==
  ASSUME Typed, NEW r \in Requests, Register(r) \/ CreateSocial(r) \/ CreateFirstAdmin(r)
  PROVE  Typed'
<1> USE AccountsAssumption
<1>0. TypeOK /\ CodeGiven /\ NoDanglingRows /\ Asked /\ req[r] \in Request
  BY FirstSteps
<1>1. UNCHANGED <<invite, owner, link, rows, access>>
  BY DEF Register, CreateSocial, CreateFirstAdmin
<1>2. ASSUME NEW u \in Users, NEW password \in BOOLEAN, NEW role \in Roles,
             InsertUser(u, password, role), Asked', vouched' \subseteq Users
      PROVE  Typed'
  BY <1>0, <1>1, <1>2, InsertTyped, InsertKeeps, TypedAgain DEF TypeOK
<1>3. CASE Register(r)
  <2>1. PICK u \in Users, c \in Codes :
          /\ InsertUser(u, TRUE, "user")
          /\ Begin(r, [Idle EXCEPT !.op = "signUp", !.at = "redeem", !.who = u, !.code = c])
    BY <1>3 DEF Register
  <2> DEFINE q == [Idle EXCEPT !.op = "signUp", !.at = "redeem", !.who = u, !.code = c]
  <2>2. q \in Request /\ q.code \in Codes
    BY DEF Idle, Request, Places, Operations
  <2>3. Asked' /\ vouched' \subseteq Users
    BY <1>0, <1>3, <2>1, <2>2, Moves DEF Register, Begin, TypeOK
  <2> QED
    BY <1>2, <2>1, <2>3
<1>4. ASSUME CreateSocial(r), NEW u \in Users, InsertUser(u, FALSE, req[r].role),
             req' = [req EXCEPT ![r].who = u,
                               ![r].at = IF req[r].role = "admin" THEN "link" ELSE "redeem"],
             vouched' = IF req[r].role = "admin" THEN vouched \cup {u} ELSE vouched
      PROVE  Typed'
  <2> DEFINE q == [req[r] EXCEPT !.who = u,
                                 !.at = IF req[r].role = "admin" THEN "link" ELSE "redeem"]
  <2>1. At(r, "create") /\ req[r].role \in Roles
    BY <1>0, <1>4 DEF CreateSocial, Request
  <2>2. q.code = req[r].code /\ q.at = IF req[r].role = "admin" THEN "link" ELSE "redeem"
    BY <1>0 DEF Request
  <2>3. q.at \in {"redeem", "spend", "create"} => q.code \in Codes
    BY <1>0, <2>1, <2>2 DEF CodeGiven
  <2>4. q \in Request
    <3>1. "link" \in Places /\ "redeem" \in Places
      BY DEF Places
    <3> QED
      BY <1>0, <2>2, <3>1 DEF Request
  <2>5. req' = [req EXCEPT ![r] = q]
    BY <1>0, <1>4 DEF Asked
  <2>6. Asked'
    BY <1>0, <2>3, <2>4, <2>5, Moves
  <2> QED
    BY <1>0, <1>2, <1>4, <2>1, <2>6 DEF TypeOK
<1>5. ASSUME Answer(r), UNCHANGED <<row, drawn, vouched>> PROVE Typed'
  BY <1>0, <1>1, <1>5, AnswerMoves, TablesStay DEF tables
<1>6. CASE CreateFirstAdmin(r)
  <2>1. ASSUME NEW u \in Users, InsertUser(u, TRUE, "admin"), Issue(r, u, "admin"),
               vouched' = vouched \cup {u}
        PROVE  Typed'
    BY <1>0, <1>2, <2>1, IssueMoves DEF TypeOK
  <2> QED
    BY <1>5, <1>6, <2>1 DEF CreateFirstAdmin
<1> QED
  BY <1>3, <1>4, <1>5, <1>6 DEF CreateSocial

LEMMA DeletionsTyped ==
  ASSUME Typed, NEW r \in Requests, UndoSignUp(r) \/ DeleteRow(r)
  PROVE  Typed'
<1>1. TypeOK /\ NoDanglingRows /\ Asked
  BY FirstSteps
<1>2. Asked' /\ DeleteUser(req[r].who) /\ UNCHANGED <<invite, rows, access, drawn>>
  BY <1>1, AnswerMoves DEF UndoSignUp, DeleteRow
<1>3. NoDanglingRows'
  BY <1>1, <1>2, DeleteKeeps
<1> QED
  BY <1>1, <1>2, <1>3, DeleteTyped, TypedAgain DEF TypeOK

\* A step that changes the table of invites only.
LEMMA InvitesTyped ==
  ASSUME Typed, Asked', UNCHANGED <<row, owner, link, rows, access>>,
         drawn' \subseteq Users \cup Codes \cup Tokens, vouched' \subseteq Users,
         invite' \in [Codes -> Invite],
         \A c \in Codes : {invite'[c].by, invite'[c].redeemedBy} \ {None} \subseteq Accounts
  PROVE  Typed'
<1>1. NoDanglingRows'
  BY DEF Typed, NoDanglingRows, Accounts, Exists
<1> QED
  BY <1>1, TypedAgain DEF Typed, TypeOK

LEMMA SpendTyped == ASSUME Typed, NEW r \in Requests, Spend(r) PROVE Typed'
<1> USE AccountsAssumption
<1>0. TypeOK /\ CodeGiven /\ NoDanglingRows /\ Asked /\ req[r] \in Request
  BY FirstSteps
<1> DEFINE c == req[r].code
           u == req[r].who
<1>1. c \in Codes
  BY <1>0 DEF Spend, CodeGiven
<1>2. CASE Goto(r, "undo") /\ UNCHANGED <<invite, vouched>>
  BY <1>0, <1>2, GotoMoves, TablesStay DEF Spend, Places, tables
<1>3. CASE /\ ~(invite[c].by # None /\ ~Exists(u))
           /\ invite' = IF invite[c].by = None THEN invite
                        ELSE [invite EXCEPT ![c].redeemedBy = u]
           /\ vouched' = vouched \cup ({u} \cap Accounts)
           /\ AfterSpend(r)
  <2>1. Asked'
    <3>1. CASE Goto(r, "giveRole")
      BY <1>0, <3>1, GotoMoves DEF Places
    <3> QED
      BY <1>0, <1>3, <3>1, SettleMoves DEF AfterSpend
  <2>2. CASE invite[c].by = None
    BY <1>0, <1>3, <2>1, <2>2, InvitesTyped DEF Spend, TypeOK, Accounts, NoDanglingRows
  <2>3. CASE invite[c].by # None
    <3>1. Exists(u) /\ u \in Users /\ u \in Accounts
      BY <1>3, <2>3 DEF Exists, Accounts
    <3>2. \A d \in Codes : invite'[d] = IF d = c THEN [invite[c] EXCEPT !.redeemedBy = u]
                                                 ELSE invite[d]
      BY <1>0, <1>3, <2>3 DEF TypeOK
    <3>3. \A d \in Codes : /\ invite'[d].by = invite[d].by
                           /\ invite'[d].redeemedBy \in {invite[d].redeemedBy, u}
      BY <1>0, <3>2 DEF TypeOK, Invite
    <3>4. invite' \in [Codes -> Invite]
      <4>1. [invite[c] EXCEPT !.redeemedBy = u] \in Invite
        BY <1>0, <1>1, <3>1 DEF TypeOK, Invite
      <4> QED
        BY <1>0, <1>1, <1>3, <2>3, <4>1 DEF TypeOK
    <3>5. \A d \in Codes : {invite'[d].by, invite'[d].redeemedBy} \ {None} \subseteq Accounts
      BY <1>0, <3>1, <3>3 DEF NoDanglingRows
    <3> QED
      BY <1>0, <1>3, <2>1, <3>4, <3>5, InvitesTyped DEF Spend, TypeOK, Accounts
  <2> QED
    BY <2>2, <2>3
<1> QED
  BY <1>2, <1>3 DEF Spend

LEMMA UninvitesTyped ==
  ASSUME Typed, NEW r \in Requests, Unredeem(r) \/ Uninvite(r)
  PROVE  Typed'
<1> USE AccountsAssumption
<1>0. TypeOK /\ CodeGiven /\ NoDanglingRows /\ Asked
  BY FirstSteps
<1>1. Asked'
  BY <1>0, GotoMoves DEF Unredeem, Uninvite, Places
<1>2. NoInvite \in Invite
  BY DEF NoInvite, Invite
<1>3. \A c \in Codes : invite[c] \in Invite /\ [invite[c] EXCEPT !.redeemedBy = None] \in Invite
  BY <1>0 DEF TypeOK, Invite
<1>4. invite' \in [Codes -> Invite]
  BY <1>2, <1>3 DEF Unredeem, Uninvite
<1>5. \A c \in Codes : invite'[c] \in {invite[c], [invite[c] EXCEPT !.redeemedBy = None], NoInvite}
  BY DEF Unredeem, Uninvite
<1>6. \A c \in Codes : {invite'[c].by, invite'[c].redeemedBy}
                         \subseteq {invite[c].by, invite[c].redeemedBy, None}
  BY <1>3, <1>5 DEF NoInvite, Invite
<1>7. \A c \in Codes : {invite'[c].by, invite'[c].redeemedBy} \ {None} \subseteq Accounts
  BY <1>0, <1>6 DEF NoDanglingRows
<1> QED
  BY <1>0, <1>1, <1>4, <1>7, InvitesTyped DEF Unredeem, Uninvite, TypeOK

\* A step that gives one account another role or a password.
LEMMA RowsTyped ==
  ASSUME Typed, Asked', NEW u \in Users, NEW new \in UserRow, Exists(u), new.role # "none",
         row' = [row EXCEPT ![u] = new],
         UNCHANGED <<invite, owner, link, rows, access, drawn>>, vouched' \subseteq Users
  PROVE  Typed'
<1>1. row' \in [Users -> UserRow]
  BY DEF Typed, TypeOK
<1>2. \A v : Exists(v)' <=> Exists(v)
  BY DEF Typed, TypeOK, Exists
<1>3. NoDanglingRows'
  BY <1>2 DEF Typed, NoDanglingRows, Accounts, Exists
<1> QED
  BY <1>1, <1>3, TypedAgain DEF Typed, TypeOK

LEMMA RolesTyped ==
  ASSUME Typed, NEW r \in Requests, GiveRole(r) \/ UpdateRole(r)
  PROVE  Typed'
<1> USE AccountsAssumption
<1>0. TypeOK /\ NoDanglingRows /\ Asked /\ req[r] \in Request
  BY FirstSteps
<1>1. Asked' /\ vouched' \subseteq Users /\ UNCHANGED <<invite, owner, link, rows, access, drawn>>
  BY <1>0, AnswerMoves, SettleMoves DEF GiveRole, UpdateRole, TypeOK, Accounts
<1>2. CASE UNCHANGED row
  <2>1. NoDanglingRows'
    BY <1>0, <1>1, <1>2 DEF NoDanglingRows, Accounts, Exists
  <2> QED
    BY <1>0, <1>1, <1>2, <2>1, TypedAgain DEF TypeOK
<1>3. CASE /\ Exists(req[r].who)
           /\ row' = [row EXCEPT ![req[r].who].role = req[r].role]
  <2> DEFINE u == req[r].who
             new == [row[u] EXCEPT !.role = req[r].role]
  <2>1. u \in Users /\ row[u] \in UserRow /\ req[r].role \in Roles
    BY <1>0, <1>3 DEF Exists, TypeOK, Request
  <2>2. new \in UserRow /\ new.role # "none"
    BY <2>1 DEF UserRow
  <2>3. row' = [row EXCEPT ![u] = new]
    BY <1>0, <1>3, <2>1 DEF TypeOK
  <2> QED
    BY <1>1, <1>3, <2>1, <2>2, <2>3, RowsTyped
<1> QED
  BY <1>2, <1>3 DEF GiveRole, UpdateRole

LEMMA ResetPasswordTyped == ASSUME Typed, ResetPassword PROVE Typed'
<1>1. TypeOK /\ Asked
  BY FirstSteps
<1>2. PICK u \in Accounts : row' = [row EXCEPT ![u].password = TRUE]
  BY DEF ResetPassword
<1> DEFINE new == [row[u] EXCEPT !.password = TRUE]
<1>3. u \in Users /\ Exists(u) /\ row[u] \in UserRow
  BY <1>1 DEF Accounts, TypeOK
<1>4. new \in UserRow /\ new.role # "none"
  BY <1>3 DEF UserRow, Exists
<1>5. row' = [row EXCEPT ![u] = new]
  BY <1>1, <1>2, <1>3 DEF TypeOK
<1>6. Asked'
  BY <1>1 DEF ResetPassword, Asked, CodeGiven, At
<1> QED
  BY <1>1, <1>3, <1>4, <1>5, <1>6, RowsTyped DEF ResetPassword, TypeOK

\* Steps on refresh tokens, links and the rows of accounts.
LEMMA ReferencesTyped ==
  ASSUME Typed, Asked', UNCHANGED <<row, invite>>,
         owner' \in [Tokens -> Users \cup {None}],
         link' \in [Identities -> Users \cup {None}],
         \A t \in Tokens : owner'[t] # None => Exists(owner'[t]),
         \A i \in Identities : link'[i] # None => Exists(link'[i]),
         rows' \subseteq Accounts, access' \subseteq Users \X Roles,
         drawn' \subseteq Users \cup Codes \cup Tokens, vouched' \subseteq Users
  PROVE  Typed'
<1>1. NoDanglingRows'
  BY DEF Typed, NoDanglingRows, Accounts, Exists
<1>2. rows' \subseteq Users
  BY DEF Accounts
<1> QED
  BY <1>1, <1>2, TypedAgain DEF Typed, TypeOK

LEMMA SessionsTyped ==
  ASSUME Typed, NEW r \in Requests,
         \/ LinkIdentity(r) \/ IssueTokens(r) \/ Revoke(r) \/ Unlink(r)
         \/ Reassign(r) \/ Wipe(r) \/ RevokeAll(r)
  PROVE  Typed'
<1> USE AccountsAssumption
<1>0. TypeOK /\ NoDanglingRows /\ Asked /\ req[r] \in Request
  BY FirstSteps
<1>1. req[r].who \in Users \cup {None} /\ req[r].role \in Roles
  BY <1>0 DEF Request
<1>2. Asked'
  BY <1>0, <1>1, AnswerMoves, GotoMoves, IssueMoves
     DEF LinkIdentity, IssueTokens, Revoke, Unlink, Reassign, Wipe, RevokeAll, Places
<1>3. UNCHANGED <<row, invite>>
  BY DEF LinkIdentity, IssueTokens, Revoke, Unlink, Reassign, Wipe, RevokeAll
<1>4. \A t \in Tokens : owner'[t] \in {owner[t], None} \/ (Exists(req[r].who) /\ owner'[t] = req[r].who)
  BY <1>0 DEF LinkIdentity, IssueTokens, Revoke, Unlink, Reassign, Wipe, RevokeAll, TypeOK
<1>5. \A i \in Identities : link'[i] \in {link[i], None} \/ (Exists(req[r].who) /\ link'[i] = req[r].who)
  BY <1>0 DEF LinkIdentity, IssueTokens, Revoke, Unlink, Reassign, Wipe, RevokeAll, TypeOK
<1>6. owner' \in [Tokens -> Users \cup {None}]
  BY <1>0, <1>1 DEF LinkIdentity, IssueTokens, Revoke, Unlink, Reassign, Wipe, RevokeAll, TypeOK
<1>7. link' \in [Identities -> Users \cup {None}]
  BY <1>0, <1>1 DEF LinkIdentity, IssueTokens, Revoke, Unlink, Reassign, Wipe, RevokeAll, TypeOK
<1>8. rows' \subseteq Accounts
  BY <1>0 DEF LinkIdentity, IssueTokens, Revoke, Unlink, Reassign, Wipe, RevokeAll,
              NoDanglingRows, Accounts, Exists
<1>9. access' \subseteq Users \X Roles /\ vouched' \subseteq Users
  BY <1>0, <1>1 DEF LinkIdentity, IssueTokens, Revoke, Unlink, Reassign, Wipe, RevokeAll,
                    TypeOK, Exists
<1>10. drawn' \subseteq Users \cup Codes \cup Tokens
  BY <1>0 DEF LinkIdentity, IssueTokens, Revoke, Unlink, Reassign, Wipe, RevokeAll, TypeOK
<1>11. /\ \A t \in Tokens : owner'[t] # None => Exists(owner'[t])
       /\ \A i \in Identities : link'[i] # None => Exists(link'[i])
  BY <1>0, <1>4, <1>5 DEF NoDanglingRows
<1> QED
  BY <1>2, <1>3, <1>6, <1>7, <1>8, <1>9, <1>10, <1>11, ReferencesTyped

LEMMA OthersTyped ==
  ASSUME Typed, Logout \/ CreateInvite \/ DeleteInvite \/ UseAccount
  PROVE  Typed'
<1> USE AccountsAssumption
<1>0. TypeOK /\ NoDanglingRows /\ Asked
  BY FirstSteps
<1>1. Asked'
  BY <1>0 DEF Logout, CreateInvite, DeleteInvite, UseAccount, Asked, CodeGiven, At
<1>2. CASE Logout \/ UseAccount
  <2>1. UNCHANGED <<row, invite, link, access, drawn, vouched>>
    BY <1>2 DEF Logout, UseAccount
  <2>2. \A t \in Tokens : owner'[t] \in {owner[t], None}
    BY <1>0, <1>2 DEF Logout, UseAccount, TypeOK
  <2>3. owner' \in [Tokens -> Users \cup {None}]
    BY <1>0, <1>2 DEF Logout, UseAccount, TypeOK
  <2>4. rows' \subseteq Accounts
    BY <1>0, <1>2 DEF Logout, UseAccount, NoDanglingRows
  <2> QED
    BY <1>0, <1>1, <2>1, <2>2, <2>3, <2>4, ReferencesTyped DEF NoDanglingRows, TypeOK
<1>3. CASE CreateInvite \/ DeleteInvite
  <2>1. NoInvite \in Invite /\ NoInvite.by = None /\ NoInvite.redeemedBy = None
    BY DEF NoInvite, Invite
  <2>2. PICK c \in Codes, new \in Invite :
          /\ invite' = [invite EXCEPT ![c] = new]
          /\ new.by \in Accounts \cup {None} /\ new.redeemedBy = None
    <3>1. \A me \in Accounts, role \in Roles :
            LET new == [NoInvite EXCEPT !.by = me, !.role = role]
            IN  new \in Invite /\ new.by = me /\ new.redeemedBy = None
      BY DEF NoInvite, Invite, Accounts
    <3>2. CASE CreateInvite
      <4>1. PICK me \in Accounts, c \in Codes, role \in Roles :
              invite' = [invite EXCEPT ![c] = [NoInvite EXCEPT !.by = me, !.role = role]]
        BY <3>2 DEF CreateInvite, Accounts, Exists
      <4> DEFINE new == [NoInvite EXCEPT !.by = me, !.role = role]
      <4>2. new \in Invite /\ new.by \in Accounts /\ new.redeemedBy = None
        BY <3>1
      <4>3. invite' = [invite EXCEPT ![c] = new]
        BY <4>1
      <4> HIDE DEF new
      <4> QED
        BY <4>2, <4>3
    <3>3. CASE DeleteInvite
      BY <2>1, <3>3 DEF DeleteInvite
    <3> QED
      BY <1>3, <3>2, <3>3
  <2>3. invite' \in [Codes -> Invite]
    BY <1>0, <2>2 DEF TypeOK
  <2>4. \A d \in Codes : {invite'[d].by, invite'[d].redeemedBy} \ {None} \subseteq Accounts
    BY <1>0, <2>2 DEF TypeOK, NoDanglingRows
  <2> QED
    BY <1>0, <1>1, <1>3, <2>3, <2>4, InvitesTyped DEF CreateInvite, DeleteInvite, TypeOK
<1> QED
  BY <1>2, <1>3

LEMMA StutterTyped == Typed /\ UNCHANGED vars => Typed'
BY DEF Typed, TypeOK, CodeGiven, At, NoDanglingRows, Accounts, Exists, vars, tables

LEMMA StepTyped == Typed /\ [Next]_vars => Typed'
BY LookupsTyped, CreationsTyped, DeletionsTyped, SpendTyped, UninvitesTyped, RolesTyped,
   ResetPasswordTyped, SessionsTyped, OthersTyped, StutterTyped
   DEF Next, SignUpStep, SessionStep, AdminStep

LEMMA InitTyped == Init => Typed
<1> SUFFICES ASSUME Init PROVE Typed
  OBVIOUS
<1> USE AccountsAssumption
<1>1. req \in [Requests -> Request]
  BY DEF Init, Idle, Request, Places, Operations
<1>2. row \in [Users -> UserRow]
  <2>1. NoUser \in UserRow /\ [password |-> TRUE, role |-> "admin"] \in UserRow
    BY DEF NoUser, UserRow
  <2> QED
    BY <2>1 DEF Init
<1>3. drawn \subseteq Users /\ vouched \subseteq Users
  BY DEF Init
<1>4. invite \in [Codes -> Invite]
  BY DEF Init, NoInvite, Invite
<1>5. TypeOK
  BY <1>1, <1>2, <1>3, <1>4 DEF Init, TypeOK
<1>6. CodeGiven
  BY DEF Init, CodeGiven, At, Idle
<1>7. NoDanglingRows
  BY DEF Init, NoDanglingRows, NoInvite
<1> QED
  BY <1>5, <1>6, <1>7 DEF Typed

\* Every variable keeps its type, for any number of handlers, accounts, codes,
\* tokens and identities: tables hold rows of their columns' types, and every
\* handler is at a statement the code has.
THEOREM TypeCorrect == Spec => []TypeOK
BY InitTyped, StepTyped, PTL DEF Spec, Typed

\* Whatever the handlers interleave, tokens, links, invites and other rows refer
\* to accounts that exist.
THEOREM RowsStayAnchored == Spec => []NoDanglingRows
BY InitTyped, StepTyped, PTL DEF Spec, Typed

-----------------------------------------------------------------------------
(* Refused sign-ups.                                                       *)

SigningUp(u, r) == req[r].who = u /\ req[r].at \in {"redeem", "spend", "undo"}

\* Ids are new when they are drawn, and only vouched accounts act or are
\* referred to: an access token, a caller and a reference each come after
\* whatever vouched for the account.
Vouching ==
  /\ Accounts \subseteq drawn
  /\ \A a \in access : a[1] \in drawn /\ (Exists(a[1]) => a[1] \in vouched)
  /\ \A r \in Requests : req[r].me # None =>
       req[r].me \in drawn /\ (Exists(req[r].me) => req[r].me \in vouched)
  /\ \A u \in Accounts : Referenced(u) => u \in vouched
  /\ RefusedSignUpsLeaveNothing

IInv == Typed /\ Vouching

\* A step that neither adds nor removes accounts, nor takes a sign-up from a
\* place where it may still be refused without vouching for its account.
LEMMA VouchingStays ==
  ASSUME Typed, Vouching,
         \A u \in Users : Exists(u)' => Exists(u),
         \A u \in Accounts : Exists(u)' /\ u \in vouched => u \in vouched',
         drawn \subseteq drawn',
         \A a \in access' : a \in access \/ (a[1] \in Accounts /\ a[1] \in vouched'),
         \A r \in Requests :
           req'[r].me \in {req[r].me, None} \/ req'[r].me \in {a[1] : a \in access},
         \A u \in Accounts : Exists(u)' /\ Referenced(u)' => Referenced(u) \/ u \in vouched',
         \A u \in Accounts, r \in Requests :
           SigningUp(u, r) /\ Exists(u)' /\ u \notin vouched' => SigningUp(u, r)'
  PROVE  Vouching'
<1>1. Accounts' \subseteq Accounts /\ Accounts' \subseteq drawn'
  BY DEF Accounts, Vouching
<1>2. \A v : Exists(v)' => v \in Users /\ Exists(v)
  BY DEF Exists
<1>3. (\A a \in access : a[1] \in drawn /\ (Exists(a[1]) => a[1] \in vouched))'
  <2> SUFFICES ASSUME NEW a \in access'
               PROVE  a[1] \in drawn' /\ (Exists(a[1])' => a[1] \in vouched')
    OBVIOUS
  <2>1. a[1] \in drawn
    BY DEF Vouching
  <2> QED
    BY <1>2, <2>1 DEF Vouching, Accounts
<1>4. (\A r \in Requests : req[r].me # None =>
        req[r].me \in drawn /\ (Exists(req[r].me) => req[r].me \in vouched))'
  <2> SUFFICES ASSUME NEW r \in Requests, NEW m, m = req'[r].me, m # None
               PROVE  m \in drawn' /\ (Exists(m)' => m \in vouched')
    OBVIOUS
  <2>1. m \in drawn /\ (Exists(m) => m \in vouched)
    BY DEF Vouching
  <2> QED
    BY <1>2, <2>1 DEF Accounts
<1>5. (\A u \in Accounts : Referenced(u) => u \in vouched)'
  BY <1>1, <1>2 DEF Vouching, Accounts
<1>6. RefusedSignUpsLeaveNothing'
  <2> SUFFICES ASSUME NEW u \in Accounts', u \notin vouched'
               PROVE  \E r \in Requests : SigningUp(u, r)'
    BY DEF RefusedSignUpsLeaveNothing, SigningUp
  <2>1. u \in Accounts /\ Exists(u)' /\ u \notin vouched
    BY <1>1 DEF Accounts
  <2>2. PICK r \in Requests : SigningUp(u, r)
    BY <2>1 DEF Vouching, RefusedSignUpsLeaveNothing, SigningUp
  <2> QED
    BY <2>1, <2>2
<1> QED
  BY <1>1, <1>3, <1>4, <1>5, <1>6 DEF Vouching

\* What a step does to the requests when it ends no sign-up.
Harmless ==
  /\ \A s \in Requests :
       req'[s].me \in {req[s].me, None} \/ req'[s].me \in {a[1] : a \in access}
  /\ \A u \in Users, s \in Requests : SigningUp(u, s) => SigningUp(u, s)'

LEMMA HarmlessMove ==
  ASSUME Typed, NEW r \in Requests, NEW q,
         req' = [req EXCEPT ![r] = q],
         q.me \in {req[r].me, None} \/ q.me \in {a[1] : a \in access},
         \/ req[r].at \notin {"redeem", "spend", "undo"}
         \/ q.who = req[r].who /\ q.at \in {"redeem", "spend", "undo"}
  PROVE  Harmless
BY FirstSteps DEF Harmless, SigningUp, Asked

LEMMA HarmlessGoto ==
  ASSUME Typed, NEW r \in Requests, NEW place, Goto(r, place),
         \/ req[r].at \notin {"redeem", "spend", "undo"}
         \/ place \in {"redeem", "spend", "undo"}
  PROVE  Harmless
<1> DEFINE q == [req[r] EXCEPT !.at = place]
<1>1. req[r] \in Request
  BY FirstSteps
<1>2. q.me = req[r].me /\ q.who = req[r].who /\ q.at = place
  BY <1>1 DEF Request
<1>3. req' = [req EXCEPT ![r] = q]
  BY DEF Goto
<1> HIDE DEF q
<1> QED
  BY <1>2, <1>3, HarmlessMove

LEMMA HarmlessAnswer ==
  ASSUME Typed, NEW r \in Requests, Answer(r), req[r].at \notin {"redeem", "spend", "undo"}
  PROVE  Harmless
<1>1. Idle.me = None
  BY DEF Idle
<1> QED
  BY <1>1, HarmlessMove DEF Answer

LEMMA HarmlessIssue ==
  ASSUME Typed, NEW r \in Requests, NEW u, NEW role, Issue(r, u, role),
         req[r].at \notin {"redeem", "spend", "undo"}
  PROVE  Harmless
<1>1. SignIn(u, role).me = None
  BY DEF SignIn, Idle
<1> QED
  BY <1>1, HarmlessMove DEF Issue

LEMMA HarmlessBegin ==
  ASSUME Typed, NEW r \in Requests, NEW q, Begin(r, q),
         q.me = None \/ q.me \in {a[1] : a \in access}
  PROVE  Harmless
<1>1. req[r].at = "idle"
  BY DEF Begin, Idle
<1> QED
  BY <1>1, HarmlessMove DEF Begin

\* A step that changes no account, vouches for nobody less, and refers only to
\* accounts that are vouched for.
LEMMA VouchingKept ==
  ASSUME Typed, Vouching, Harmless, UNCHANGED drawn,
         \A u \in Users : Exists(u)' <=> Exists(u),
         vouched \subseteq vouched',
         \A a \in access' : a \in access \/ (a[1] \in Accounts /\ a[1] \in vouched'),
         \A u \in Accounts : Referenced(u)' => Referenced(u) \/ u \in vouched'
  PROVE  Vouching'
BY VouchingStays DEF Harmless, Accounts

LEMMA LookupsVouch ==
  ASSUME Typed, Vouching, NEW r \in Requests,
         \/ SocialLogin(r) \/ CountUsers(r) \/ Redeem(r) \/ Setup(r) \/ Login(r)
         \/ Refresh(r) \/ GetUser(r) \/ LinkOAuth(r) \/ UnlinkOAuth(r)
         \/ Administer(r) \/ CountAdmins(r)
  PROVE  Vouching'
<1>0. UNCHANGED <<tables, access, drawn, vouched>>
  BY DEF SocialLogin, CountUsers, Redeem, Setup, Login, Refresh, GetUser, LinkOAuth,
         UnlinkOAuth, Administer, CountAdmins
<1>1. req[r] \in Request
  BY FirstSteps
<1>2. CASE SocialLogin(r)
  <2>1. \A i, c : [Idle EXCEPT !.op = "signUp", !.code = c, !.ident = i, !.at = "count"].me = None
    BY DEF Idle
  <2>2. \A i, c : [Idle EXCEPT !.op = "signUp", !.code = c, !.ident = i, !.at = "create"].me = None
    BY DEF Idle
  <2>3. \A u, role : SignIn(u, role).me = None
    BY DEF SignIn, Idle
  <2>4. PICK q : Begin(r, q) /\ q.me = None
    <3>1. PICK i \in Identities, c \in Codes \cup {None}, claim \in BOOLEAN :
            \/ link[i] # None /\ Begin(r, SignIn(link[i], row[link[i]].role))
            \/ /\ link[i] = None
               /\ claim \/ c # None
               /\ Begin(r, [Idle EXCEPT !.op = "signUp", !.code = c, !.ident = i,
                                        !.at = IF claim THEN "count" ELSE "create"])
      BY <1>2 DEF SocialLogin
    <3> QED
      BY <2>1, <2>2, <2>3, <3>1
  <2>5. Harmless
    BY <2>4, HarmlessBegin
  <2> QED
    BY <2>5, <1>0, VouchingKept DEF tables, Exists, Referenced
<1>3. CASE CountUsers(r)
  <2>1. CASE req' = [req EXCEPT ![r].at = "create", ![r].role = "admin"]
    <3> DEFINE q == [req[r] EXCEPT !.at = "create", !.role = "admin"]
    <3>1. q.me = req[r].me
      BY <1>1 DEF Request
    <3>2. req' = [req EXCEPT ![r] = q]
      BY <2>1, FirstSteps DEF Asked
    <3> QED
      BY <1>3, <3>1, <3>2, HarmlessMove, <1>0, VouchingKept
         DEF CountUsers, At, tables, Exists, Referenced
  <2> QED
    BY <1>3, <2>1, HarmlessGoto, HarmlessAnswer, <1>0, VouchingKept
       DEF CountUsers, At, tables, Exists, Referenced
<1>4. CASE Redeem(r)
  <2>1. CASE req' = [req EXCEPT ![r].at = "spend", ![r].role = invite[req[r].code].role]
    <3> DEFINE q == [req[r] EXCEPT !.at = "spend", !.role = invite[req[r].code].role]
    <3>1. q.me = req[r].me /\ q.who = req[r].who /\ q.at = "spend"
      BY <1>1 DEF Request
    <3>2. req' = [req EXCEPT ![r] = q]
      BY <2>1, FirstSteps DEF Asked
    <3> HIDE DEF q
    <3> QED
      BY <3>1, <3>2, HarmlessMove, <1>0, VouchingKept DEF tables, Exists, Referenced
  <2> QED
    BY <1>4, <2>1, HarmlessGoto, <1>0, VouchingKept DEF Redeem, tables, Exists, Referenced
<1>5. CASE Setup(r)
  <2>1. [Idle EXCEPT !.at = "setup"].me = None
    BY DEF Idle
  <2> QED
    BY <1>5, <2>1, HarmlessBegin, <1>0, VouchingKept DEF Setup, tables, Exists, Referenced
<1>6. CASE Login(r)
  <2>1. \A u, role : SignIn(u, role).me = None
    BY DEF SignIn, Idle
  <2>2. Harmless
    BY <1>6, <2>1, HarmlessBegin DEF Login
  <2> QED
    BY <2>2, <1>0, VouchingKept DEF tables, Exists, Referenced
<1>7. CASE Refresh(r)
  <2>1. \A t, u : [Idle EXCEPT !.at = "revoke", !.token = t, !.who = u].me = None
    BY DEF Idle
  <2>2. Harmless
    BY <1>7, <2>1, HarmlessBegin DEF Refresh
  <2> QED
    BY <2>2, <1>0, VouchingKept DEF tables, Exists, Referenced
<1>8. CASE GetUser(r)
  BY <1>8, HarmlessIssue, HarmlessAnswer, <1>0, VouchingKept
     DEF GetUser, At, tables, Exists, Referenced
<1>9. CASE LinkOAuth(r) \/ UnlinkOAuth(r)
  <2>1. \A u, i, place : [Idle EXCEPT !.at = place, !.who = u, !.ident = i].me = None
    BY DEF Idle
  <2>2. PICK u, i, place : Begin(r, [Idle EXCEPT !.at = place, !.who = u, !.ident = i])
    BY <1>9 DEF LinkOAuth, UnlinkOAuth
  <2>3. Harmless
    BY <2>1, <2>2, HarmlessBegin
  <2> QED
    BY <2>3, <1>0, VouchingKept DEF tables, Exists, Referenced
<1>10. CASE Administer(r)
  <2>0. PICK me \in Callers({"admin"}), who \in Accounts, op \in {"changeRole", "delete"}, role \in Roles :
          Begin(r, [Idle EXCEPT !.op = op, !.me = me, !.who = who, !.role = role,
                                !.at = IF who \in Admins /\ role # "admin"
                                         THEN "admins" ELSE Permitted(op)])
    BY <1>10 DEF Administer
  <2>1. PICK place : Begin(r, [Idle EXCEPT !.op = op, !.me = me, !.who = who, !.role = role,
                                           !.at = place])
    BY <2>0
  <2> DEFINE q == [Idle EXCEPT !.op = op, !.me = me, !.who = who, !.role = role, !.at = place]
  <2>2. q.me = me /\ me \in {a[1] : a \in access}
    BY <2>1 DEF Idle, Callers
  <2>3. Begin(r, q)
    BY <2>1
  <2> HIDE DEF q
  <2>4. Harmless
    BY <2>2, <2>3, HarmlessBegin
  <2> QED
    BY <2>4, <1>0, VouchingKept DEF tables, Exists, Referenced
<1>11. CASE CountAdmins(r)
  BY <1>11, HarmlessGoto, HarmlessAnswer, <1>0, VouchingKept
     DEF CountAdmins, At, tables, Exists, Referenced
<1> QED
  BY <1>2, <1>3, <1>4, <1>5, <1>6, <1>7, <1>8, <1>9, <1>10, <1>11

\* A new account has no invite yet, but a sign-up that may undo it, unless it is
\* made in place of one.
LEMMA CreationVouches ==
  ASSUME Typed, Vouching, NEW u \in Users, NEW password, NEW role,
         InsertUser(u, password, role), UNCHANGED <<invite, rows, access>>,
         \A s \in Requests : req'[s].me \in {req[s].me, None},
         \A v \in Users, s \in Requests : SigningUp(v, s) => SigningUp(v, s)',
         vouched \subseteq vouched',
         u \in vouched' \/ \E r \in Requests : SigningUp(u, r)'
  PROVE  Vouching'
<1>1. u \notin drawn /\ u \in drawn' /\ drawn \subseteq drawn'
  BY DEF InsertUser
<1>2. \A v : v # u /\ Exists(v)' => Exists(v)
  BY DEF InsertUser, Exists, Typed, TypeOK
<1>3. ~Exists(u) /\ ~Referenced(u)
  <2>1. ~Exists(u)
    BY <1>1 DEF Vouching, Accounts
  <2> QED
    BY <2>1, AccountsAssumption DEF Typed, NoDanglingRows, Referenced, Accounts
<1>4. \A v : Referenced(v)' <=> Referenced(v)
  BY DEF Referenced
<1>5. Accounts' \subseteq drawn'
  BY <1>1, <1>2 DEF Vouching, Accounts
<1>6. (\A a \in access : a[1] \in drawn /\ (Exists(a[1]) => a[1] \in vouched))'
  BY <1>1, <1>2 DEF Vouching
<1>7. (\A s \in Requests : req[s].me # None =>
        req[s].me \in drawn /\ (Exists(req[s].me) => req[s].me \in vouched))'
  BY <1>1, <1>2 DEF Vouching
<1>8. (\A v \in Accounts : Referenced(v) => v \in vouched)'
  BY <1>2, <1>3, <1>4 DEF Vouching, Accounts
<1>9. RefusedSignUpsLeaveNothing'
  <2> SUFFICES ASSUME NEW v \in Accounts', v \notin vouched'
               PROVE  \E r \in Requests : SigningUp(v, r)'
    BY DEF RefusedSignUpsLeaveNothing, SigningUp
  <2>1. CASE v # u
    <3>1. v \in Accounts \ vouched /\ v \in Users
      BY <1>2, <2>1 DEF Accounts
    <3>2. PICK r \in Requests : SigningUp(v, r)
      BY <3>1 DEF Vouching, RefusedSignUpsLeaveNothing, SigningUp
    <3> QED
      BY <3>1, <3>2
  <2> QED
    BY <2>1
<1> QED
  BY <1>5, <1>6, <1>7, <1>8, <1>9 DEF Vouching

LEMMA CreationsVouch ==
  ASSUME Typed, Vouching, NEW r \in Requests,
         Register(r) \/ CreateSocial(r) \/ CreateFirstAdmin(r)
  PROVE  Vouching'
<1>0. req[r] \in Request /\ req \in [Requests -> Request]
  BY FirstSteps DEF Asked
<1>1. CASE Register(r)
  <2>1. PICK u \in Users, c \in Codes :
          /\ InsertUser(u, TRUE, "user")
          /\ Begin(r, [Idle EXCEPT !.op = "signUp", !.at = "redeem", !.who = u, !.code = c])
    BY <1>1 DEF Register
  <2> DEFINE q == [Idle EXCEPT !.op = "signUp", !.at = "redeem", !.who = u, !.code = c]
  <2>2. q.me = None /\ q.at = "redeem" /\ q.who = u
    BY DEF Idle
  <2>3. req' = [req EXCEPT ![r] = q] /\ req[r].at = "idle"
    BY <2>1 DEF Begin, Idle
  <2> HIDE DEF q
  <2>4. /\ \A s \in Requests : req'[s].me \in {req[s].me, None}
        /\ \A v \in Users, s \in Requests : SigningUp(v, s) => SigningUp(v, s)'
        /\ SigningUp(u, r)'
    BY <1>0, <2>2, <2>3 DEF SigningUp
  <2> QED
    BY <1>1, <2>1, <2>4, CreationVouches DEF Register
<1>2. ASSUME CreateSocial(r), NEW u \in Users, InsertUser(u, FALSE, req[r].role),
             req' = [req EXCEPT ![r].who = u,
                               ![r].at = IF req[r].role = "admin" THEN "link" ELSE "redeem"],
             vouched' = IF req[r].role = "admin" THEN vouched \cup {u} ELSE vouched
      PROVE  Vouching'
  <2> DEFINE q == [req[r] EXCEPT !.who = u,
                                 !.at = IF req[r].role = "admin" THEN "link" ELSE "redeem"]
  <2>1. /\ q.me = req[r].me /\ q.who = u
        /\ q.at = IF req[r].role = "admin" THEN "link" ELSE "redeem"
    BY <1>0 DEF Request
  <2>2. req' = [req EXCEPT ![r] = q] /\ req[r].at = "create"
    BY <1>0, <1>2 DEF CreateSocial, At
  <2> HIDE DEF q
  <2>3. /\ \A s \in Requests : req'[s].me \in {req[s].me, None}
        /\ \A v \in Users, s \in Requests : SigningUp(v, s) => SigningUp(v, s)'
        /\ req[r].role # "admin" => SigningUp(u, r)'
    BY <1>0, <2>1, <2>2 DEF SigningUp
  <2> QED
    BY <1>2, <2>3, CreationVouches DEF CreateSocial
<1>3. CASE CreateFirstAdmin(r)
  <2>1. ASSUME NEW u \in Users, InsertUser(u, TRUE, "admin"), Issue(r, u, "admin"),
               vouched' = vouched \cup {u}
        PROVE  Vouching'
    <3>1. SignIn(u, "admin").me = None
      BY DEF SignIn, Idle
    <3>2. /\ \A s \in Requests : req'[s].me \in {req[s].me, None}
          /\ \A v \in Users, s \in Requests : SigningUp(v, s) => SigningUp(v, s)'
      BY <1>0, <1>3, <2>1, <3>1 DEF CreateFirstAdmin, At, Issue, SigningUp
    <3> QED
      BY <1>3, <2>1, <3>2, CreationVouches DEF CreateFirstAdmin
  <2>2. ASSUME Answer(r), UNCHANGED <<row, drawn, vouched>> PROVE Vouching'
    <3>1. Harmless
      BY <1>3, <2>2, HarmlessAnswer DEF CreateFirstAdmin, At
    <3> QED
      BY <1>3, <2>2, <3>1, VouchingKept DEF CreateFirstAdmin, Exists, Referenced
  <2> QED
    BY <1>3, <2>1, <2>2 DEF CreateFirstAdmin
<1>4. ASSUME CreateSocial(r), Answer(r), UNCHANGED <<row, drawn, vouched>> PROVE Vouching'
  <2>1. Harmless
    BY <1>4, HarmlessAnswer DEF CreateSocial, At
  <2> QED
    BY <1>4, <2>1, VouchingKept DEF CreateSocial, Exists, Referenced
<1> QED
  BY <1>1, <1>2, <1>3, <1>4 DEF CreateSocial

\* A deletion of an account to which nothing refers: whoever deletes it, and if
\* it is refused, the account was vouched for.
LEMMA DeletionsVouch ==
  ASSUME Typed, Vouching, NEW r \in Requests, UndoSignUp(r) \/ DeleteRow(r)
  PROVE  Vouching'
<1>0. req \in [Requests -> Request]
  BY FirstSteps DEF Asked
<1>. PICK u : u = req[r].who
  OBVIOUS
<1>1. /\ DeleteUser(u) /\ Answer(r) /\ UNCHANGED <<invite, rows, access, drawn>>
      /\ req[r].at \in {"undo", "deleteRow"}
  BY DEF UndoSignUp, DeleteRow, At
<1>2. /\ \A s \in Requests : req'[s].me \in {req[s].me, None}
      /\ \A v \in Users, s \in Requests : SigningUp(v, s) /\ v # u => SigningUp(v, s)'
  <2>1. Idle.me = None
    BY DEF Idle
  <2>2. req' = [req EXCEPT ![r] = Idle]
    BY <1>1 DEF Answer
  <2> QED
    BY <1>0, <2>1, <2>2 DEF SigningUp
<1>3. \A v : Referenced(v)' <=> Referenced(v)
  BY <1>1 DEF Referenced
<1>4. /\ \A v : Exists(v)' => Exists(v)
      /\ \A v : v \in vouched /\ Exists(v)' => v \in vouched'
      /\ Exists(u)' => u \in vouched
  <2>1. CASE Exists(u) /\ ~Referenced(u)
    <3>1. u \in Users /\ row' = [row EXCEPT ![u] = NoUser] /\ vouched' = vouched \ {u}
      BY <1>1, <2>1 DEF DeleteUser, Exists
    <3>2. ~Exists(u)'
      BY <3>1 DEF Exists, NoUser, Typed, TypeOK
    <3> QED
      BY <3>1, <3>2 DEF Exists, Typed, TypeOK
  <2>2. CASE ~(Exists(u) /\ ~Referenced(u))
    <3>1. UNCHANGED <<row, vouched>>
      BY <1>1, <2>2 DEF DeleteUser
    <3> QED
      BY <2>2, <3>1 DEF Exists, Vouching, Accounts
  <2> QED
    BY <2>1, <2>2
<1>5. \A v \in Accounts : Exists(v)' /\ v \notin vouched' => v # u
  BY <1>4
<1> QED
  BY <1>1, <1>2, <1>3, <1>4, <1>5, VouchingStays DEF Accounts

\* Spending an invite vouches for the account, or finds it gone.
LEMMA SpendVouches == ASSUME Typed, Vouching, NEW r \in Requests, Spend(r) PROVE Vouching'
<1>0. req \in [Requests -> Request] /\ req[r] \in Request
  BY FirstSteps DEF Asked
<1>. PICK c, u : c = req[r].code /\ u = req[r].who
  OBVIOUS
<1>1. UNCHANGED <<row, owner, link, rows, access, drawn>> /\ req[r].at = "spend"
  BY DEF Spend, At
<1>2. CASE Goto(r, "undo") /\ UNCHANGED <<invite, vouched>>
  <2>1. Harmless
    BY <1>2, HarmlessGoto
  <2> QED
    BY <1>1, <1>2, <2>1, VouchingKept DEF Exists, Referenced
<1>3. CASE /\ ~(invite[c].by # None /\ ~Exists(u))
           /\ invite' = IF invite[c].by = None THEN invite
                        ELSE [invite EXCEPT ![c].redeemedBy = u]
           /\ vouched' = vouched \cup ({u} \cap Accounts)
           /\ AfterSpend(r)
  <2>1. PICK q : req' = [req EXCEPT ![r] = q] /\ q.me \in {req[r].me, None}
    <3>1. \A place : [req[r] EXCEPT !.at = place].me = req[r].me
      BY <1>0 DEF Request
    <3>2. \A v, role : SignIn(v, role).me = None
      BY DEF SignIn, Idle
    <3>3. CASE \E place : Goto(r, place)
      BY <1>0, <3>1, <3>3 DEF Goto
    <3>4. CASE Issue(r, req[r].who, req[r].role)
      BY <3>2, <3>4 DEF Issue
    <3> QED
      BY <1>3, <3>3, <3>4 DEF AfterSpend, Settle
  <2>2. \A s \in Requests : req'[s].me \in {req[s].me, None}
    BY <1>0, <2>1
  <2>3. \A v \in Accounts, s \in Requests :
          SigningUp(v, s) /\ v \notin vouched' => SigningUp(v, s)'
    BY <1>0, <1>3, <2>1 DEF SigningUp
  <2>4. \A v \in Accounts : Referenced(v)' => Referenced(v) \/ v \in vouched'
    <3>1. c \in Codes /\ invite \in [Codes -> Invite]
      BY <1>1, FirstSteps DEF CodeGiven, At, TypeOK
    <3>2. \A d \in Codes : /\ invite'[d].by = invite[d].by
                           /\ invite'[d].redeemedBy \in {invite[d].redeemedBy, u}
      BY <1>3, <3>1 DEF Invite
    <3> QED
      BY <1>1, <1>3, <3>2 DEF Referenced
  <2> QED
    BY <1>1, <1>3, <2>2, <2>3, <2>4, VouchingStays DEF Exists, Accounts
<1> QED
  BY <1>2, <1>3 DEF Spend

\* The other steps of a handler end no sign-up that may still be refused.
LEMMA LaterHarmless ==
  ASSUME Typed, NEW r \in Requests,
         \/ GiveRole(r) \/ UpdateRole(r) \/ LinkIdentity(r) \/ IssueTokens(r) \/ Revoke(r)
         \/ Unlink(r) \/ Reassign(r) \/ Wipe(r) \/ Unredeem(r) \/ Uninvite(r) \/ RevokeAll(r)
  PROVE  Harmless
<1>1. req[r].at \notin {"redeem", "spend", "undo"}
  BY DEF GiveRole, UpdateRole, LinkIdentity, IssueTokens, Revoke, Unlink, Reassign, Wipe,
         Unredeem, Uninvite, RevokeAll, At
<1>2. \/ Answer(r)
      \/ \E place : Goto(r, place)
      \/ \E u, role : Issue(r, u, role)
  BY DEF GiveRole, UpdateRole, LinkIdentity, IssueTokens, Revoke, Unlink, Reassign, Wipe,
         Unredeem, Uninvite, RevokeAll, Settle
<1> QED
  BY <1>1, <1>2, HarmlessAnswer, HarmlessGoto, HarmlessIssue

LEMMA LaterVouch ==
  ASSUME Typed, Vouching, NEW r \in Requests,
         \/ GiveRole(r) \/ UpdateRole(r) \/ LinkIdentity(r) \/ IssueTokens(r) \/ Revoke(r)
         \/ Unlink(r) \/ Reassign(r) \/ Wipe(r) \/ Unredeem(r) \/ Uninvite(r) \/ RevokeAll(r)
  PROVE  Vouching'
<1>0. TypeOK /\ Harmless /\ req[r] \in Request
  BY LaterHarmless, FirstSteps
<1>1. CASE GiveRole(r) \/ UpdateRole(r)
  <2>1. \A u \in Users : Exists(u)' <=> Exists(u)
    <3>1. req[r].role # "none"
      BY <1>0, AccountsAssumption DEF Request
    <3> QED
      BY <1>0, <1>1, <3>1 DEF GiveRole, UpdateRole, Exists, TypeOK, UserRow
  <2>2. UNCHANGED <<invite, rows, access, drawn>> /\ vouched \subseteq vouched'
    BY <1>1 DEF GiveRole, UpdateRole
  <2> QED
    BY <1>0, <2>1, <2>2, VouchingKept DEF Referenced
<1>2. CASE LinkIdentity(r) \/ Revoke(r) \/ Unlink(r) \/ RevokeAll(r)
  <2>1. UNCHANGED <<row, invite, rows, access, drawn, vouched>>
    BY <1>2 DEF LinkIdentity, Revoke, Unlink, RevokeAll
  <2> QED
    BY <1>0, <2>1, VouchingKept DEF Exists, Referenced
<1>5. CASE Reassign(r)
  <2>1. UNCHANGED <<row, invite, access, drawn, vouched>>
    BY <1>5 DEF Reassign
  <2>2. \A u \in Accounts : u \in rows' => u \in rows \/ (u = req[r].me /\ Exists(u))
    BY <1>5 DEF Reassign
  <2>3. \A u \in Accounts : u = req[r].me => u \in vouched
    BY AccountsAssumption DEF Vouching, Accounts
  <2> QED
    BY <1>0, <2>1, <2>2, <2>3, VouchingKept DEF Exists, Referenced
<1>6. CASE Wipe(r)
  BY <1>0, <1>6, VouchingKept DEF Wipe, Exists, Referenced
<1>7. CASE Unredeem(r) \/ Uninvite(r)
  <2>1. UNCHANGED <<row, rows, access, drawn, vouched>>
    BY <1>7 DEF Unredeem, Uninvite
  <2>2. \A c \in Codes : {invite'[c].by, invite'[c].redeemedBy}
                           \subseteq {invite[c].by, invite[c].redeemedBy, None}
    <3>1. \A c \in Codes : invite'[c] \in {invite[c], [invite[c] EXCEPT !.redeemedBy = None], NoInvite}
      BY <1>7 DEF Unredeem, Uninvite
    <3>2. \A c \in Codes : invite[c] \in Invite
      BY <1>0 DEF TypeOK
    <3> QED
      BY <3>1, <3>2 DEF NoInvite, Invite
  <2>3. \A u \in Accounts : Referenced(u)' => Referenced(u)
    BY <2>1, <2>2, AccountsAssumption DEF Referenced, Accounts
  <2> QED
    BY <1>0, <2>1, <2>3, VouchingKept DEF Exists
<1>8. CASE IssueTokens(r)
  <2>1. UNCHANGED <<row, invite, rows>> /\ vouched \subseteq vouched' /\ drawn \subseteq drawn'
    BY <1>8 DEF IssueTokens
  <2>2. \A a \in access' : a \in access \/ (a[1] \in Accounts /\ a[1] \in vouched')
    BY <1>8 DEF IssueTokens, Accounts, Exists
  <2> QED
    BY <1>0, <2>1, <2>2, VouchingStays DEF Exists, Referenced, Accounts, Harmless
<1> QED
  BY <1>1, <1>2, <1>5, <1>6, <1>7, <1>8

LEMMA OthersVouch ==
  ASSUME Typed, Vouching,
         Logout \/ ResetPassword \/ CreateInvite \/ DeleteInvite \/ UseAccount
  PROVE  Vouching'
<1>0. TypeOK
  BY FirstSteps
<1>1. Harmless
  BY DEF Logout, ResetPassword, CreateInvite, DeleteInvite, UseAccount, Harmless, SigningUp
<1>2. UNCHANGED <<access, vouched>> /\ drawn \subseteq drawn'
  BY DEF Logout, ResetPassword, CreateInvite, DeleteInvite, UseAccount
<1>3. \A u \in Users : Exists(u)' <=> Exists(u)
  <2>1. CASE ResetPassword
    <3>1. PICK v \in Users : row' = [row EXCEPT ![v].password = TRUE]
      BY <2>1 DEF ResetPassword, Accounts
    <3> QED
      BY <1>0, <3>1 DEF Exists, TypeOK, UserRow
  <2> QED
    BY <2>1 DEF Logout, CreateInvite, DeleteInvite, UseAccount, Exists
<1>4. \A u \in Accounts : Referenced(u)' => Referenced(u) \/ u \in vouched
  <2>1. \A u, roles : u \in Accounts /\ u \in Callers(roles) => u \in vouched
    BY DEF Callers, Vouching, Accounts
  <2>2. CASE Logout \/ ResetPassword \/ UseAccount
    BY <2>1, <2>2 DEF Logout, ResetPassword, UseAccount, Referenced
  <2>3. CASE CreateInvite
    <3>1. PICK me \in Callers({"admin", "moderator"}) \cap Accounts, c \in Codes, role \in Roles :
            invite' = [invite EXCEPT ![c] = [NoInvite EXCEPT !.by = me, !.role = role]]
      BY <2>3 DEF CreateInvite, Accounts, Exists
    <3> DEFINE new == [NoInvite EXCEPT !.by = me, !.role = role]
    <3>2. new.by = me /\ new.redeemedBy = None /\ me \in vouched
      BY <2>1 DEF NoInvite
    <3>3. invite' = [invite EXCEPT ![c] = new]
      BY <3>1
    <3> HIDE DEF new
    <3>4. \A d \in Codes : /\ invite'[d].by \in {invite[d].by, me}
                           /\ invite'[d].redeemedBy \in {invite[d].redeemedBy, None}
      BY <1>0, <3>2, <3>3 DEF TypeOK
    <3> QED
      BY <2>3, <3>2, <3>4, AccountsAssumption DEF CreateInvite, Referenced, Accounts
  <2>4. CASE DeleteInvite
    <3>1. NoInvite.by = None /\ NoInvite.redeemedBy = None
      BY DEF NoInvite
    <3> QED
      BY <1>0, <2>4, <3>1, AccountsAssumption DEF DeleteInvite, Referenced, Accounts, TypeOK
  <2> QED
    BY <2>2, <2>3, <2>4
<1> QED
  BY <1>1, <1>2, <1>3, <1>4, VouchingStays DEF Harmless, Accounts

LEMMA InitVouching == Init => Vouching
<1> SUFFICES ASSUME Init PROVE Vouching
  OBVIOUS
<1>1. \A u \in Users : Exists(u) => u \in drawn /\ u \in vouched
  BY DEF Init, Exists, NoUser
<1>2. \A u : ~Referenced(u) \/ u = None
  BY DEF Init, Referenced, NoInvite
<1>3. access = {} /\ \A r \in Requests : req[r].me = None
  BY DEF Init, Idle
<1> QED
  BY <1>1, <1>2, <1>3, AccountsAssumption DEF Vouching, Accounts, RefusedSignUpsLeaveNothing

LEMMA StutterVouching == Typed /\ Vouching /\ UNCHANGED vars => Vouching'
BY DEF Vouching, Accounts, Exists, Referenced, RefusedSignUpsLeaveNothing, vars, tables

LEMMA StepVouching == Typed /\ Vouching /\ [Next]_vars => Vouching'
BY LookupsVouch, CreationsVouch, DeletionsVouch, SpendVouches, LaterVouch, OthersVouch,
   StutterVouching DEF Next, SignUpStep, SessionStep, AdminStep

\* A refused sign-up leaves no account, whatever the other handlers do between
\* its statements, unless somebody vouched for the account meanwhile.
THEOREM RefusalsUndo == Spec => []RefusedSignUpsLeaveNothing
<1>1. Init => IInv
  BY InitTyped, InitVouching DEF IInv
<1>2. IInv /\ [Next]_vars => IInv'
  BY StepTyped, StepVouching DEF IInv
<1>3. IInv => RefusedSignUpsLeaveNothing
  BY DEF IInv, Vouching
<1> QED
  BY <1>1, <1>2, <1>3, PTL DEF Spec

\* A handler that waits to make the first admin goes on to sign it in only from
\* a state without accounts.
THEOREM FirstAdminIsFirst == Spec => SetupIsAtomic
<1>1. ASSUME Typed, NEW r \in Requests, At(r, "setup"), At(r, "issue")', [Next]_vars
      PROVE  Accounts = {}
  <2>1. req' # req /\ req \in [Requests -> Request]
    BY <1>1, FirstSteps DEF At, Asked
  <2>2. PICK s \in Requests : SignUpStep(s) \/ SessionStep(s) \/ AdminStep(s)
    BY <1>1, <2>1 DEF Next, vars, Logout, ResetPassword, CreateInvite, DeleteInvite, UseAccount
  <2>3. \E q : req' = [req EXCEPT ![s] = q]
    BY <2>2 DEF SignUpStep, SessionStep, AdminStep, Register, SocialLogin, CountUsers,
      CreateSocial, Redeem, Spend, GiveRole, LinkIdentity, UndoSignUp, IssueTokens, Setup,
      CreateFirstAdmin, Login, Refresh, Revoke, GetUser, LinkOAuth, UnlinkOAuth, Unlink,
      Administer, CountAdmins, UpdateRole, Reassign, Wipe, Unredeem, Uninvite, RevokeAll,
      DeleteRow, AfterSpend, Settle, Goto, Answer, Begin, Issue
  <2>4. s = r
    BY <1>1, <2>1, <2>3 DEF At
  <2>5. req[r].at = "setup" /\ req[r] # Idle
    BY <1>1 DEF At, Idle
  <2>6. CreateFirstAdmin(r)
    BY <2>2, <2>4, <2>5 DEF SignUpStep, SessionStep, AdminStep, Register, SocialLogin,
      CountUsers, CreateSocial, Redeem, Spend, GiveRole, LinkIdentity, UndoSignUp, IssueTokens,
      Setup, Login, Refresh, Revoke, GetUser, LinkOAuth, UnlinkOAuth, Unlink, Administer,
      CountAdmins, UpdateRole, Reassign, Wipe, Unredeem, Uninvite, RevokeAll, DeleteRow,
      Begin, At
  <2>7. ~Answer(r)
    BY <1>1, <2>1 DEF Answer, At, Idle
  <2> QED
    BY <2>6, <2>7 DEF CreateFirstAdmin
<1>2. Typed /\ [Next]_vars =>
        [\A r \in Requests : At(r, "setup") /\ At(r, "issue")' => Accounts = {}]_vars
  BY <1>1
<1> QED
  BY InitTyped, StepTyped, <1>2, PTL DEF Spec, SetupIsAtomic

=============================================================================
