-------------------------------- MODULE Auth --------------------------------
(***************************************************************************)
(* Accounts and tokens of the API (auth/auth.service.ts): a phone is       *)
(* verified by a one-time code kept in Redis, an account is made with      *)
(* it, and a sign-in or a refresh stores the id of the one refresh token   *)
(* that is accepted next.  A request is a slot; every await of a handler   *)
(* ends a step.  Secrets, signatures and hashes are left out: a token is   *)
(* its user and id, a code is a number.                                    *)
(***************************************************************************)
EXTENDS Integers, FiniteSets

CONSTANTS
  Emails, Phones,   \* as normalized by the handlers
  Requests,         \* slots for requests in progress
  MaxCode,          \* bound on one-time codes
  MaxToken          \* bound on refresh tokens

BoundsAssumption == MaxCode \in Nat /\ MaxToken \in Nat

VARIABLES
  users,      \* rows of users
  otp,        \* otp[p]: the code stored for a phone, 0 for none
  session,    \* session[u]: the stored id of a refresh token, 0 for none
  req,        \* the requests in progress
  codes,      \* codes generated
  tokens,     \* refresh tokens signed
  issued,     \* tokens that clients were given
  rotated,    \* history: tokens that a finished refresh has replaced
  held,       \* history: held[u]: the id in the last answer of a sign-in or refresh
  disturbed   \* history: users with two of these in progress at once, or a lost answer

vars == <<users, otp, session, req, codes, tokens, issued, rotated, held, disturbed>>

User == [email : Emails, phone : Phones]
Token == [user : User, jti : 1..MaxToken]

Idle == [op |-> "idle"]
OtpRequest == [op : {"otp"}, pc : {"lookup", "store"}, phone : Phones]
Verification == [op : {"verify"}, pc : {"code", "conflicts", "create", "delete"},
                 user : User, code : 1..MaxCode]
Refresh == [op : {"refresh"}, pc : {"session", "user"}, token : Token]
SignIn == [op : {"issue"}, pc : {"store", "answer"}, user : User, jti : 0..MaxToken,
           replaces : 0..MaxToken]
Request == {Idle} \cup OtpRequest \cup Verification \cup Refresh \cup SignIn

TypeOK ==
  /\ users \subseteq User
  /\ otp \in [Phones -> 0..MaxCode]
  /\ session \in [User -> 0..MaxToken] /\ held \in [User -> 0..MaxToken]
  /\ req \in [Requests -> Request]
  /\ codes \in 0..MaxCode /\ tokens \in 0..MaxToken
  /\ rotated \subseteq issued /\ issued \subseteq Token
  /\ disturbed \subseteq User

Init ==
  /\ users = {} /\ otp = [p \in Phones |-> 0]
  /\ session = [u \in User |-> 0] /\ held = [u \in User |-> 0]
  /\ req = [r \in Requests |-> Idle]
  /\ codes = 0 /\ tokens = 0
  /\ issued = {} /\ rotated = {} /\ disturbed = {}

-----------------------------------------------------------------------------
Goto(r, record) == req' = [req EXCEPT ![r] = record]
End(r) == Goto(r, Idle)
At(r, op, pc) == req[r].op = op /\ req[r].pc = pc

\* The user whose token a request is about to replace.
Signing(r) == CASE req[r].op = "refresh" -> {req[r].token.user}
                [] req[r].op \in {"issue", "verify"} -> {req[r].user}
                [] OTHER -> {}

\* A request that may end in a token for u begins in slot r.
NoteSignIn(r, u) ==
  disturbed' = IF \E q \in Requests \ {r} : u \in Signing(q) THEN disturbed \cup {u}
               ELSE disturbed

accounts == <<users, otp, codes>>
signIns == <<session, tokens, issued, rotated, held, disturbed>>

-----------------------------------------------------------------------------
(* requestPhoneOtp                                                         *)

BeginOtp(r, p) ==
  /\ req[r] = Idle
  /\ Goto(r, [op |-> "otp", pc |-> "lookup", phone |-> p])
  /\ UNCHANGED <<accounts, signIns>>

LookUpPhone(r) ==
  /\ At(r, "otp", "lookup")
  /\ IF \E u \in users : u.phone = req[r].phone THEN End(r)
     ELSE Goto(r, [req[r] EXCEPT !.pc = "store"])
  /\ UNCHANGED <<accounts, signIns>>

StoreOtp(r) ==
  /\ At(r, "otp", "store")
  /\ codes < MaxCode
  /\ codes' = codes + 1
  /\ otp' = [otp EXCEPT ![req[r].phone] = codes + 1]
  /\ End(r)
  /\ UNCHANGED <<users, signIns>>

-----------------------------------------------------------------------------
(* verifyPhoneOtpAndRegister                                               *)

BeginVerify(r, u, code) ==
  /\ req[r] = Idle
  /\ Goto(r, [op |-> "verify", pc |-> "code", user |-> u, code |-> code])
  /\ NoteSignIn(r, u)
  /\ UNCHANGED <<accounts, session, tokens, issued, rotated, held>>

CheckOtp(r) ==
  /\ At(r, "verify", "code")
  /\ IF otp[req[r].user.phone] = req[r].code
       THEN Goto(r, [req[r] EXCEPT !.pc = "conflicts"])
       ELSE End(r)
  /\ UNCHANGED <<accounts, signIns>>

Conflicting(u) == \E v \in users : v.email = u.email \/ v.phone = u.phone

FindConflict(r) ==
  /\ At(r, "verify", "conflicts")
  /\ IF Conflicting(req[r].user) THEN End(r)
     ELSE Goto(r, [req[r] EXCEPT !.pc = "create"])
  /\ UNCHANGED <<accounts, signIns>>

\* Mutant: the unique indexes of users are missing.
CreateUserUnchecked(r) ==
  /\ At(r, "verify", "create")
  /\ users' = users \cup {req[r].user}
  /\ Goto(r, [req[r] EXCEPT !.pc = "delete"])
  /\ UNCHANGED <<otp, codes, signIns>>

\* user.create: the unique indexes turn a late conflict into an error.
CreateUser(r) ==
  /\ At(r, "verify", "create")
  /\ IF Conflicting(req[r].user)
       THEN End(r) /\ UNCHANGED users
       ELSE /\ users' = users \cup {req[r].user}
            /\ Goto(r, [req[r] EXCEPT !.pc = "delete"])
  /\ UNCHANGED <<otp, codes, signIns>>

DeleteOtp(r) ==
  /\ At(r, "verify", "delete")
  /\ otp' = [otp EXCEPT ![req[r].user.phone] = 0]
  /\ Goto(r, [op |-> "issue", pc |-> "store", user |-> req[r].user, jti |-> 0, replaces |-> 0])
  /\ UNCHANGED <<users, codes, signIns>>

-----------------------------------------------------------------------------
(* login and refreshTokens                                                 *)

\* login: the account is found and the password matches.
BeginLogin(r, u) ==
  /\ req[r] = Idle
  /\ u \in users
  /\ Goto(r, [op |-> "issue", pc |-> "store", user |-> u, jti |-> 0, replaces |-> 0])
  /\ NoteSignIn(r, u)
  /\ UNCHANGED <<accounts, session, tokens, issued, rotated, held>>

BeginRefresh(r, token) ==
  /\ req[r] = Idle
  /\ Goto(r, [op |-> "refresh", pc |-> "session", token |-> token])
  /\ NoteSignIn(r, token.user)
  /\ UNCHANGED <<accounts, session, tokens, issued, rotated, held>>

CheckSession(r) ==
  /\ At(r, "refresh", "session")
  /\ IF session[req[r].token.user] = req[r].token.jti
       THEN Goto(r, [req[r] EXCEPT !.pc = "user"])
       ELSE End(r)
  /\ UNCHANGED <<accounts, signIns>>

FindUser(r) ==
  /\ At(r, "refresh", "user")
  /\ IF req[r].token.user \in users
       THEN Goto(r, [op |-> "issue", pc |-> "store", user |-> req[r].token.user,
                     jti |-> 0, replaces |-> req[r].token.jti])
       ELSE End(r)
  /\ UNCHANGED <<accounts, signIns>>

\* Mutant: a refresh keeps the id of the token it was given.
StoreSessionSameId(r) ==
  /\ At(r, "issue", "store")
  /\ tokens < MaxToken
  /\ tokens' = tokens + 1
  /\ LET jti == IF req[r].replaces = 0 THEN tokens + 1 ELSE req[r].replaces
     IN  /\ session' = [session EXCEPT ![req[r].user] = jti]
         /\ Goto(r, [req[r] EXCEPT !.pc = "answer", !.jti = jti])
  /\ UNCHANGED <<accounts, issued, rotated, held, disturbed>>

\* issueTokenPair: a new id is stored over the one before.
StoreSession(r) ==
  /\ At(r, "issue", "store")
  /\ tokens < MaxToken
  /\ tokens' = tokens + 1
  /\ session' = [session EXCEPT ![req[r].user] = tokens + 1]
  /\ Goto(r, [req[r] EXCEPT !.pc = "answer", !.jti = tokens + 1])
  /\ UNCHANGED <<accounts, issued, rotated, held, disturbed>>

\* The client gets its token pair.
AnswerTokens(r) ==
  /\ At(r, "issue", "answer")
  /\ LET u == req[r].user IN
       /\ issued' = issued \cup {[user |-> u, jti |-> req[r].jti]}
       /\ rotated' = rotated \cup
            (IF req[r].replaces = 0 THEN {} ELSE {[user |-> u, jti |-> req[r].replaces]})
       /\ held' = [held EXCEPT ![u] = req[r].jti]
  /\ End(r)
  /\ UNCHANGED <<accounts, session, tokens, disturbed>>

-----------------------------------------------------------------------------
\* Redis, the database or the process fails, or the answer is lost.
Abort(r) ==
  /\ req[r] # Idle
  /\ disturbed' = disturbed \cup Signing(r)
  /\ End(r)
  /\ UNCHANGED <<accounts, session, tokens, issued, rotated, held>>

\* AUTH_OTP_TTL_SECONDS, AUTH_REFRESH_SESSION_TTL_SECONDS
Expire ==
  \/ \E p \in Phones : /\ otp[p] # 0 /\ otp' = [otp EXCEPT ![p] = 0]
                       /\ UNCHANGED <<users, codes, session>>
  \/ \E u \in User : /\ session[u] # 0 /\ session' = [session EXCEPT ![u] = 0]
                     /\ UNCHANGED accounts

Next ==
  \/ \E r \in Requests :
       \/ \E p \in Phones : BeginOtp(r, p)
       \/ \E u \in User : BeginLogin(r, u) \/ \E code \in 1..codes : BeginVerify(r, u, code)
       \/ \E token \in issued : BeginRefresh(r, token)
       \/ LookUpPhone(r) \/ StoreOtp(r)
       \/ CheckOtp(r) \/ FindConflict(r) \/ CreateUser(r) \/ DeleteOtp(r)
       \/ CheckSession(r) \/ FindUser(r) \/ StoreSession(r) \/ AnswerTokens(r)
       \/ Abort(r)
  \/ Expire /\ UNCHANGED <<req, tokens, issued, rotated, held, disturbed>>

Spec == Init /\ [][Next]_vars

-----------------------------------------------------------------------------
\* However verifications overlap, no two accounts share a phone or an email.
AccountsAreUnique ==
  \A u, v \in users : u.phone = v.phone \/ u.email = v.email => u = v

\* A refresh token that has been exchanged is never accepted again, and a user
\* whose requests did not overlap holds the token that is accepted next.
TokensRotate ==
  /\ \A t \in rotated : session[t.user] # t.jti
  /\ \A u \in users \ disturbed :
       (\A r \in Requests : u \notin Signing(r)) => session[u] \in {0, held[u]}

=============================================================================
