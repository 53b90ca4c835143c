---------------------------- MODULE ServicesProofs ----------------------------
(***************************************************************************)
(* Proofs about MCServices: what holds of the services beside wallet,      *)
(* sessions and chargers in every one of their behaviours, for every value *)
(* of the constants.  Each service has an invariant of its own, which the  *)
(* steps of that service preserve; that of the import is in ImportProofs.  *)
(***************************************************************************)
EXTENDS ImportProofs

-----------------------------------------------------------------------------
(* Accounts                                                                *)

(* A request r may still end in a token for u.                              *)
Signs(r, u) ==
  \/ accountReq[r].op = "refresh" /\ accountReq[r].token.user = u
  \/ accountReq[r].op \in {"issue", "verify"} /\ accountReq[r].user = u

(* A request has stored the id of its token and not answered yet.           *)
Answering(r) == Accounts!At(r, "issue", "answer")

(* Ids are stored in the order they are made, clients hold ids that were    *)
(* made, and what a request replaces is a token that a client holds, which  *)
(* once the new id is stored is not the stored one.                         *)
TokensKnow ==
  /\ \A u \in Accounts!User : session[u] <= tokens
  /\ \A t \in issued : t.jti <= tokens
  /\ \A t \in rotated : session[t.user] # t.jti
  /\ \A r \in Requests :
       /\ accountReq[r].op = "refresh" => accountReq[r].token \in issued
       /\ accountReq[r].op = "issue" /\ accountReq[r].replaces # 0 =>
            [user |-> accountReq[r].user, jti |-> accountReq[r].replaces] \in issued
       /\ Answering(r) =>
            /\ accountReq[r].jti \in 1..tokens
            /\ accountReq[r].replaces # 0 =>
                 session[accountReq[r].user] # accountReq[r].replaces

(* Of an undisturbed user there is one such request at most, and the stored *)
(* id is that of the last answer, or of the answer on its way, or expired.  *)
OneAtATime ==
  \A u \in Accounts!User \ disturbed :
    /\ \A q, r \in Requests : Signs(q, u) /\ Signs(r, u) => q = r
    /\ \A r \in Requests :
         Signs(r, u) /\ Answering(r) => session[u] \in {0, accountReq[r].jti}
    /\ (\A r \in Requests : Signs(r, u) => ~Answering(r)) =>
         session[u] \in {0, held[u]}

AccountsInv ==
  Accounts!TypeOK /\ Accounts!AccountsAreUnique /\ TokensKnow /\ OneAtATime

(* Signs says what Signing says.                                            *)
LEMMA SignsIsSigning ==
  ASSUME NEW r \in Requests, NEW u
  PROVE  u \in Accounts!Signing(r) <=> Signs(r, u)
<1>1. CASE accountReq[r].op = "refresh"
  BY <1>1 DEF Signs, Accounts!Signing
<1>2. CASE accountReq[r].op \in {"issue", "verify"}
  BY <1>2 DEF Signs, Accounts!Signing
<1>3. CASE accountReq[r].op \notin {"refresh", "issue", "verify"}
  BY <1>3 DEF Signs, Accounts!Signing
<1> QED BY <1>1, <1>2, <1>3

(* What the slot of a request holds, by the operation and step of it.       *)
LEMMA AccountSlot ==
  ASSUME Accounts!TypeOK, NEW r \in Requests
  PROVE  /\ accountReq[r] \in Accounts!Request
         /\ accountReq[r].op = "otp" => accountReq[r] \in Accounts!OtpRequest
         /\ accountReq[r].op = "verify" => accountReq[r] \in Accounts!Verification
         /\ accountReq[r].op = "refresh" => accountReq[r] \in Accounts!Refresh
         /\ accountReq[r].op = "issue" => accountReq[r] \in Accounts!SignIn
BY DEF Accounts!TypeOK, Accounts!Request, Accounts!Idle, Accounts!OtpRequest,
       Accounts!Verification, Accounts!Refresh, Accounts!SignIn

(* One slot is written and the others stay.                                 *)
LEMMA AccountMoves ==
  ASSUME Accounts!TypeOK, NEW r \in Requests, NEW g \in Accounts!Request,
         Accounts!Goto(r, g)
  PROVE  /\ accountReq' \in [Requests -> Accounts!Request]
         /\ accountReq'[r] = g
         /\ \A q \in Requests \ {r} : accountReq'[q] = accountReq[q]
BY DEF Accounts!TypeOK, Accounts!Goto

(* A step of r that stores no id and gives no token keeps what is known of  *)
(* the tokens, if the request that it goes on with knows its own.           *)
LEMMA TokensKept ==
  ASSUME AccountsInv, NEW r \in Requests, NEW g \in Accounts!Request,
         Accounts!Goto(r, g), UNCHANGED <<session, tokens, issued, rotated>>,
         g.op = "refresh" => g.token \in issued,
         g.op = "issue" => g.pc = "store",
         g.op = "issue" /\ g.replaces # 0 =>
           [user |-> g.user, jti |-> g.replaces] \in issued
  PROVE  TokensKnow'
<1>1. /\ accountReq'[r] = g
      /\ \A q \in Requests \ {r} : accountReq'[q] = accountReq[q]
  BY AccountMoves DEF AccountsInv
<1> QED BY <1>1 DEF AccountsInv, TokensKnow, Answering, Accounts!At

(* Such a step keeps the order of the requests of an undisturbed user, if r *)
(* is the one of the user before, or no other is.                           *)
LEMMA OrderKept ==
  ASSUME AccountsInv, NEW r \in Requests, NEW g \in Accounts!Request,
         Accounts!Goto(r, g), UNCHANGED <<session, held>>, disturbed \subseteq disturbed',
         ~(g.op = "issue" /\ g.pc = "answer"),
         \A u \in Accounts!User \ disturbed' :
           /\ Signs(r, u) => ~Answering(r)
           /\ Signs(r, u)' => Signs(r, u) \/ \A q \in Requests \ {r} : ~Signs(q, u)
  PROVE  OneAtATime'
<1>1. /\ accountReq'[r] = g
      /\ \A q \in Requests \ {r} : accountReq'[q] = accountReq[q]
  BY AccountMoves DEF AccountsInv
<1>2. ~Answering(r)'
  BY <1>1 DEF Answering, Accounts!At
<1>3. \A q \in Requests \ {r} :
        (Answering(q)' <=> Answering(q)) /\ (\A u : Signs(q, u)' <=> Signs(q, u))
  BY <1>1 DEF Answering, Accounts!At, Signs
<1>4. SUFFICES ASSUME NEW u \in Accounts!User \ disturbed'
               PROVE  /\ \A p, q \in Requests : Signs(p, u)' /\ Signs(q, u)' => p = q
                      /\ \A q \in Requests : Signs(q, u)' /\ Answering(q)' =>
                           session[u] \in {0, accountReq'[q].jti}
                      /\ (\A q \in Requests : Signs(q, u)' => ~Answering(q)') =>
                           session[u] \in {0, held[u]}
  BY DEF OneAtATime, Accounts!User
<1>5. /\ \A p, q \in Requests : Signs(p, u) /\ Signs(q, u) => p = q
      /\ \A q \in Requests : Signs(q, u) /\ Answering(q) =>
           session[u] \in {0, accountReq[q].jti}
      /\ (\A q \in Requests : Signs(q, u) => ~Answering(q)) => session[u] \in {0, held[u]}
  BY <1>4 DEF AccountsInv, OneAtATime
<1>6. Signs(r, u) => ~Answering(r)
  BY <1>4
<1>7. Signs(r, u)' => Signs(r, u) \/ \A q \in Requests \ {r} : ~Signs(q, u)
  BY <1>4
<1> HIDE DEF Signs, Answering
<1>8. \A p, q \in Requests : Signs(p, u)' /\ Signs(q, u)' => p = q
  BY <1>3, <1>5, <1>7
<1>9. \A q \in Requests : Signs(q, u)' /\ Answering(q)' =>
        session[u] \in {0, accountReq'[q].jti}
  BY <1>1, <1>2, <1>3, <1>5
<1>10. (\A q \in Requests : Signs(q, u)' => ~Answering(q)') => session[u] \in {0, held[u]}
  BY <1>3, <1>5, <1>6
<1> QED BY <1>8, <1>9, <1>10

(* A step of r that writes no more than its slot, rows of users that are    *)
(* not in conflict, codes, and the users it disturbs.                       *)
LEMMA QuietAccountStep ==
  ASSUME AccountsInv, NEW r \in Requests, NEW g \in Accounts!Request,
         Accounts!Goto(r, g), UNCHANGED <<session, tokens, issued, rotated, held>>,
         users' \subseteq Accounts!User, Accounts!AccountsAreUnique',
         otp' \in [Numbers -> 0..MaxCode], codes' \in 0..MaxCode,
         disturbed \subseteq disturbed', disturbed' \subseteq Accounts!User,
         g.op = "refresh" => g.token \in issued,
         g.op = "issue" => g.pc = "store",
         g.op = "issue" /\ g.replaces # 0 =>
           [user |-> g.user, jti |-> g.replaces] \in issued,
         \A u \in Accounts!User \ disturbed' :
           /\ Signs(r, u) => ~Answering(r)
           /\ Signs(r, u)' => Signs(r, u) \/ \A q \in Requests \ {r} : ~Signs(q, u)
  PROVE  AccountsInv'
<1>1. Accounts!TypeOK'
  BY AccountMoves DEF AccountsInv, Accounts!TypeOK
<1>2. TokensKnow'
  BY TokensKept
<1>3. OneAtATime'
  BY OrderKept
<1> QED BY <1>1, <1>2, <1>3 DEF AccountsInv

(* A request that begins notes its user if another request is signing.      *)
LEMMA BeginAccountRequest ==
  ASSUME AccountsInv, NEW r \in Requests, NEW g \in Accounts!Request,
         accountReq[r] = Accounts!Idle, Accounts!Goto(r, g), NEW u \in Accounts!User,
         Accounts!NoteSignIn(r, u),
         UNCHANGED <<users, otp, codes, session, tokens, issued, rotated, held>>,
         g.op = "refresh" => g.token \in issued /\ g.token.user = u,
         g.op = "issue" => g.pc = "store" /\ g.replaces = 0,
         g.op \in {"issue", "verify"} => g.user = u
  PROVE  AccountsInv'
<1>1. accountReq'[r] = g
  BY AccountMoves DEF AccountsInv
<1>2. \A v : ~Signs(r, v)
  BY DEF Signs, Accounts!Idle
<1>3. \A v : Signs(r, v)' => v = u
  BY <1>1 DEF Signs
<1>4. disturbed' = IF \E q \in Requests \ {r} : Signs(q, u) THEN disturbed \cup {u}
                   ELSE disturbed
  BY SignsIsSigning DEF Accounts!NoteSignIn
<1>5. disturbed \subseteq Accounts!User
  BY DEF AccountsInv, Accounts!TypeOK
<1>6. /\ disturbed \subseteq disturbed' /\ disturbed' \subseteq Accounts!User
      /\ \A v \in Accounts!User \ disturbed' :
           /\ Signs(r, v) => ~Answering(r)
           /\ Signs(r, v)' => Signs(r, v) \/ \A q \in Requests \ {r} : ~Signs(q, v)
  BY <1>2, <1>3, <1>4, <1>5
<1>7. /\ users' \subseteq Accounts!User /\ Accounts!AccountsAreUnique'
      /\ otp' \in [Numbers -> 0..MaxCode] /\ codes' \in 0..MaxCode
  BY DEF AccountsInv, Accounts!TypeOK, Accounts!AccountsAreUnique
<1> QED BY <1>6, <1>7, QuietAccountStep

(* A request that goes on for the same user, or ends, before it has stored  *)
(* an id.                                                                   *)
LEMMA GoOnAccountRequest ==
  ASSUME AccountsInv, NEW r \in Requests, NEW g \in Accounts!Request,
         ~Answering(r), Accounts!Goto(r, g),
         UNCHANGED <<session, tokens, issued, rotated, held, disturbed>>,
         users' \subseteq Accounts!User, Accounts!AccountsAreUnique',
         otp' \in [Numbers -> 0..MaxCode], codes' \in 0..MaxCode,
         g.op = "refresh" => g.token \in issued /\ Signs(r, g.token.user),
         g.op = "issue" => g.pc = "store" /\
           (g.replaces # 0 => [user |-> g.user, jti |-> g.replaces] \in issued),
         g.op \in {"issue", "verify"} => Signs(r, g.user)
  PROVE  AccountsInv'
<1>1. accountReq'[r] = g
  BY AccountMoves DEF AccountsInv
<1>2. \A v : Signs(r, v)' => Signs(r, v)
  BY <1>1 DEF Signs
<1>3. disturbed' \subseteq Accounts!User /\ disturbed \subseteq disturbed'
  BY DEF AccountsInv, Accounts!TypeOK
<1> QED BY <1>2, <1>3, QuietAccountStep

(* The slot of a request that is over.                                      *)
LEMMA IdleAccountSlot ==
  /\ Accounts!Idle \in Accounts!Request
  /\ Accounts!Idle.op = "idle"
BY DEF Accounts!Idle, Accounts!Request

LEMMA BeginOtpSafe ==
  ASSUME AccountsInv, NEW r \in Requests, NEW p \in Numbers, Accounts!BeginOtp(r, p)
  PROVE  AccountsInv'
<1> DEFINE g == [op |-> "otp", pc |-> "lookup", phone |-> p]
<1>1. g \in Accounts!Request /\ g.op = "otp"
  BY DEF Accounts!Request, Accounts!OtpRequest
<1>2. /\ Accounts!Goto(r, g)
      /\ UNCHANGED <<users, otp, codes, session, tokens, issued, rotated, held, disturbed>>
      /\ ~Answering(r)
  BY DEF Accounts!BeginOtp, Accounts!accounts, Accounts!signIns, Answering, Accounts!At,
         Accounts!Idle
<1>3. /\ users' \subseteq Accounts!User /\ Accounts!AccountsAreUnique'
      /\ otp' \in [Numbers -> 0..MaxCode] /\ codes' \in 0..MaxCode
  BY <1>2 DEF AccountsInv, Accounts!TypeOK, Accounts!AccountsAreUnique
<1> QED BY <1>1, <1>2, <1>3, GoOnAccountRequest

(* requestPhoneOtp: its steps store at most a code.                         *)
LEMMA OtpStepsSafe ==
  ASSUME AccountsInv, Accounts!BoundsAssumption, NEW r \in Requests,
         Accounts!LookUpPhone(r) \/ Accounts!StoreOtp(r)
  PROVE  AccountsInv'
<1>1. /\ accountReq[r].op = "otp" /\ ~Answering(r)
      /\ accountReq[r] \in Accounts!OtpRequest
  BY AccountSlot
     DEF AccountsInv, Accounts!LookUpPhone, Accounts!StoreOtp, Accounts!At, Answering
<1>2. UNCHANGED <<users, session, tokens, issued, rotated, held, disturbed>>
  BY DEF Accounts!LookUpPhone, Accounts!StoreOtp, Accounts!accounts, Accounts!signIns
<1>3. users' \subseteq Accounts!User /\ Accounts!AccountsAreUnique'
  BY <1>2 DEF AccountsInv, Accounts!TypeOK, Accounts!AccountsAreUnique
<1>4. otp' \in [Numbers -> 0..MaxCode] /\ codes' \in 0..MaxCode
  BY <1>1 DEF AccountsInv, Accounts!TypeOK, Accounts!LookUpPhone, Accounts!StoreOtp,
              Accounts!accounts, Accounts!BoundsAssumption, Accounts!OtpRequest
<1>5. PICK g \in Accounts!Request : g.op \in {"otp", "idle"} /\ Accounts!Goto(r, g)
  <2>1. [accountReq[r] EXCEPT !.pc = "store"] \in Accounts!Request
    BY <1>1 DEF Accounts!Request, Accounts!OtpRequest
  <2>2. [accountReq[r] EXCEPT !.pc = "store"].op = "otp"
    BY <1>1 DEF Accounts!OtpRequest
  <2> QED BY <2>1, <2>2, IdleAccountSlot
          DEF Accounts!LookUpPhone, Accounts!StoreOtp, Accounts!End
<1> QED BY <1>1, <1>2, <1>3, <1>4, <1>5, GoOnAccountRequest

LEMMA BeginVerifySafe ==
  ASSUME AccountsInv, Accounts!BoundsAssumption, NEW r \in Requests, NEW u \in Accounts!User, NEW code \in 1..codes,
         Accounts!BeginVerify(r, u, code)
  PROVE  AccountsInv'
<1> DEFINE g == [op |-> "verify", pc |-> "code", user |-> u, code |-> code]
<1>1. code \in 1..MaxCode
  BY DEF AccountsInv, Accounts!TypeOK, Accounts!BoundsAssumption
<1>2. g \in Accounts!Request /\ g.op = "verify" /\ g.user = u
  BY <1>1 DEF Accounts!Request, Accounts!Verification
<1>3. /\ accountReq[r] = Accounts!Idle /\ Accounts!Goto(r, g) /\ Accounts!NoteSignIn(r, u)
      /\ UNCHANGED <<users, otp, codes, session, tokens, issued, rotated, held>>
  BY DEF Accounts!BeginVerify, Accounts!accounts
<1> QED BY <1>2, <1>3, BeginAccountRequest

(* verifyPhoneOtpAndRegister: up to its delete, where it goes on to the     *)
(* tokens of its user.                                                      *)
LEMMA VerifyStepsSafe ==
  ASSUME AccountsInv, Accounts!BoundsAssumption, NEW r \in Requests,
         \/ Accounts!CheckOtp(r) \/ Accounts!FindConflict(r) \/ Accounts!CreateUser(r)
         \/ Accounts!DeleteOtp(r)
  PROVE  AccountsInv'
<1>1. /\ accountReq[r].op = "verify" /\ ~Answering(r)
      /\ accountReq[r] \in Accounts!Verification
  BY AccountSlot
     DEF AccountsInv, Accounts!CheckOtp, Accounts!FindConflict, Accounts!CreateUser,
         Accounts!DeleteOtp, Accounts!At, Answering
<1>2. accountReq[r].user \in Accounts!User /\ Signs(r, accountReq[r].user)
  BY <1>1 DEF Accounts!Verification, Signs
<1>3. UNCHANGED <<session, tokens, issued, rotated, held, disturbed>>
  BY DEF Accounts!CheckOtp, Accounts!FindConflict, Accounts!CreateUser,
         Accounts!DeleteOtp, Accounts!accounts, Accounts!signIns
<1>4. /\ users' \subseteq Accounts!User /\ Accounts!AccountsAreUnique'
      /\ codes' = codes
  <2>1. CASE users' = users
    BY <2>1 DEF AccountsInv, Accounts!TypeOK, Accounts!AccountsAreUnique,
         Accounts!CheckOtp, Accounts!FindConflict, Accounts!CreateUser,
         Accounts!DeleteOtp, Accounts!accounts
  <2>2. CASE users' # users
    <3>1. /\ users' = users \cup {accountReq[r].user}
          /\ ~Accounts!Conflicting(accountReq[r].user)
          /\ codes' = codes
      BY <2>2 DEF Accounts!CheckOtp, Accounts!FindConflict, Accounts!CreateUser,
         Accounts!DeleteOtp, Accounts!accounts
    <3> QED BY <3>1, <1>2
            DEF AccountsInv, Accounts!TypeOK, Accounts!AccountsAreUnique,
                Accounts!Conflicting
  <2> QED BY <2>1, <2>2
<1>5. otp' \in [Numbers -> 0..MaxCode] /\ codes' \in 0..MaxCode
  BY <1>4 DEF AccountsInv, Accounts!TypeOK, Accounts!CheckOtp, Accounts!FindConflict,
       Accounts!CreateUser, Accounts!DeleteOtp, Accounts!accounts, Accounts!BoundsAssumption
<1>6. PICK g \in Accounts!Request :
        /\ Accounts!Goto(r, g)
        /\ g.op \in {"idle", "verify", "issue"}
        /\ g.op = "issue" => g.pc = "store" /\ g.replaces = 0
        /\ g.op \in {"verify", "issue"} => g.user = accountReq[r].user
  <2>1. \A pc \in {"conflicts", "create", "delete"} :
          /\ [accountReq[r] EXCEPT !.pc = pc] \in Accounts!Request
          /\ [accountReq[r] EXCEPT !.pc = pc].op = "verify"
          /\ [accountReq[r] EXCEPT !.pc = pc].user = accountReq[r].user
    BY <1>1 DEF Accounts!Request, Accounts!Verification
  <2>2. [op |-> "issue", pc |-> "store", user |-> accountReq[r].user, jti |-> 0,
         replaces |-> 0] \in Accounts!Request
    BY <1>2 DEF Accounts!Request, Accounts!SignIn, Accounts!BoundsAssumption
  <2>3. CASE Accounts!DeleteOtp(r)
    BY <2>2, <2>3 DEF Accounts!DeleteOtp
  <2>4. CASE Accounts!CheckOtp(r)
    BY <2>1, <2>4, IdleAccountSlot DEF Accounts!CheckOtp, Accounts!End
  <2>5. CASE Accounts!FindConflict(r)
    BY <2>1, <2>5, IdleAccountSlot DEF Accounts!FindConflict, Accounts!End
  <2>6. CASE Accounts!CreateUser(r)
    BY <2>1, <2>6, IdleAccountSlot DEF Accounts!CreateUser, Accounts!End
  <2> QED BY <2>3, <2>4, <2>5, <2>6
<1> QED BY <1>1, <1>2, <1>3, <1>4, <1>5, <1>6, GoOnAccountRequest

(* A sign-in and a refresh begin.                                           *)
LEMMA BeginLoginSafe ==
  ASSUME AccountsInv, Accounts!BoundsAssumption, NEW r \in Requests,
         NEW u \in Accounts!User, Accounts!BeginLogin(r, u)
  PROVE  AccountsInv'
<1> DEFINE g == [op |-> "issue", pc |-> "store", user |-> u, jti |-> 0, replaces |-> 0]
<1>1. /\ g \in Accounts!Request /\ g.op = "issue" /\ g.pc = "store"
      /\ g.replaces = 0 /\ g.user = u
  BY DEF Accounts!Request, Accounts!SignIn, Accounts!BoundsAssumption
<1>2. /\ accountReq[r] = Accounts!Idle /\ Accounts!Goto(r, g) /\ Accounts!NoteSignIn(r, u)
      /\ UNCHANGED <<users, otp, codes, session, tokens, issued, rotated, held>>
  BY DEF Accounts!BeginLogin, Accounts!accounts
<1> QED BY <1>1, <1>2, BeginAccountRequest

LEMMA BeginRefreshSafe ==
  ASSUME AccountsInv, NEW r \in Requests, NEW token \in issued,
         Accounts!BeginRefresh(r, token)
  PROVE  AccountsInv'
<1> DEFINE g == [op |-> "refresh", pc |-> "session", token |-> token]
<1>1. token \in Accounts!Token /\ token.user \in Accounts!User
  BY DEF AccountsInv, Accounts!TypeOK, Accounts!Token
<1>2. g \in Accounts!Request /\ g.op = "refresh" /\ g.token = token
  BY <1>1 DEF Accounts!Request, Accounts!Refresh
<1>3. /\ accountReq[r] = Accounts!Idle /\ Accounts!Goto(r, g)
      /\ Accounts!NoteSignIn(r, token.user)
      /\ UNCHANGED <<users, otp, codes, session, tokens, issued, rotated, held>>
  BY DEF Accounts!BeginRefresh, Accounts!accounts
<1> QED BY <1>1, <1>2, <1>3, BeginAccountRequest

(* refreshTokens, until it goes on to the new token of its user.            *)
LEMMA RefreshStepsSafe ==
  ASSUME AccountsInv, Accounts!BoundsAssumption, NEW r \in Requests,
         Accounts!CheckSession(r) \/ Accounts!FindUser(r)
  PROVE  AccountsInv'
<1>1. /\ accountReq[r].op = "refresh" /\ ~Answering(r)
      /\ accountReq[r] \in Accounts!Refresh
  BY AccountSlot
     DEF AccountsInv, Accounts!CheckSession, Accounts!FindUser, Accounts!At, Answering
<1>2. UNCHANGED <<users, otp, codes, session, tokens, issued, rotated, held, disturbed>>
  BY DEF Accounts!CheckSession, Accounts!FindUser, Accounts!accounts, Accounts!signIns
<1>3. /\ users' \subseteq Accounts!User /\ Accounts!AccountsAreUnique'
      /\ otp' \in [Numbers -> 0..MaxCode] /\ codes' \in 0..MaxCode
  BY <1>2 DEF AccountsInv, Accounts!TypeOK, Accounts!AccountsAreUnique
<1> DEFINE token == accountReq[r].token
           new == [op |-> "issue", pc |-> "store", user |-> token.user, jti |-> 0,
                   replaces |-> token.jti]
           next == [accountReq[r] EXCEPT !.pc = "user"]
<1>4. token \in issued /\ token \in Accounts!Token /\ Signs(r, token.user)
  BY <1>1 DEF AccountsInv, TokensKnow, Accounts!Refresh, Signs
<1>5. /\ next \in Accounts!Request /\ next.op = "refresh" /\ next.token = token
  BY <1>1 DEF Accounts!Request, Accounts!Refresh
<1>6. token = [user |-> token.user, jti |-> token.jti]
  BY <1>4 DEF Accounts!Token
<1>7. /\ new \in Accounts!Request /\ new.op = "issue" /\ new.pc = "store"
      /\ new.user = token.user /\ new.replaces = token.jti
  BY <1>4 DEF Accounts!Request, Accounts!SignIn, Accounts!BoundsAssumption, Accounts!Token
<1>8. CASE Accounts!Goto(r, next)
  BY <1>1, <1>2, <1>3, <1>4, <1>5, <1>8, GoOnAccountRequest
<1>9. CASE Accounts!Goto(r, new)
  BY <1>1, <1>2, <1>3, <1>4, <1>6, <1>7, <1>9, GoOnAccountRequest
<1>10. CASE Accounts!Goto(r, Accounts!Idle)
  BY <1>1, <1>2, <1>3, <1>10, IdleAccountSlot, GoOnAccountRequest
<1> QED BY <1>8, <1>9, <1>10
        DEF Accounts!CheckSession, Accounts!FindUser, Accounts!End

(* issueTokenPair stores an id that no client holds, and that no other      *)
(* request of the user goes for.                                            *)
LEMMA StoreSessionSafe ==
  ASSUME AccountsInv, Accounts!BoundsAssumption, NEW r \in Requests,
         Accounts!StoreSession(r)
  PROVE  AccountsInv'
<1> DEFINE w == accountReq[r].user
           g == [accountReq[r] EXCEPT !.pc = "answer", !.jti = tokens + 1]
<1>1. /\ accountReq[r] \in Accounts!SignIn /\ accountReq[r].op = "issue"
      /\ accountReq[r].pc = "store" /\ w \in Accounts!User
  BY AccountSlot DEF AccountsInv, Accounts!StoreSession, Accounts!At, Accounts!SignIn
<1>2. /\ tokens \in Nat /\ tokens' = tokens + 1 /\ tokens' \in 1..MaxRefresh
      /\ UNCHANGED <<users, otp, codes, issued, rotated, held, disturbed>>
  BY DEF AccountsInv, Accounts!TypeOK, Accounts!StoreSession, Accounts!BoundsAssumption,
         Accounts!accounts
<1>3. /\ g \in Accounts!Request
      /\ g.op = "issue" /\ g.pc = "answer" /\ g.user = w /\ g.jti = tokens + 1
      /\ g.replaces = accountReq[r].replaces
  <2>1. tokens + 1 \in 0..MaxRefresh
    BY <1>2 DEF Accounts!BoundsAssumption
  <2>2. g \in Accounts!SignIn
    BY <1>1, <2>1 DEF Accounts!SignIn
  <2>3. /\ g.op = "issue" /\ g.pc = "answer" /\ g.user = w /\ g.jti = tokens + 1
        /\ g.replaces = accountReq[r].replaces
    BY <1>1 DEF Accounts!SignIn
  <2> QED BY <2>2, <2>3 DEF Accounts!Request
<1>4. /\ accountReq' \in [Requests -> Accounts!Request] /\ accountReq'[r] = g
      /\ \A q \in Requests \ {r} : accountReq'[q] = accountReq[q]
  BY <1>3, AccountMoves DEF AccountsInv, Accounts!StoreSession
<1>5. /\ session' \in [Accounts!User -> 0..MaxRefresh]
      /\ session'[w] = tokens + 1
      /\ \A u \in Accounts!User \ {w} : session'[u] = session[u]
  BY <1>1, <1>2 DEF AccountsInv, Accounts!TypeOK, Accounts!StoreSession,
     Accounts!BoundsAssumption
<1> HIDE DEF g, w
<1>6. Accounts!TypeOK' /\ Accounts!AccountsAreUnique'
  BY <1>2, <1>4, <1>5 DEF AccountsInv, Accounts!TypeOK, Accounts!AccountsAreUnique,
     Accounts!BoundsAssumption
<1>7. /\ \A t \in issued : t \in Accounts!Token /\ t.user \in Accounts!User
                            /\ t.jti \in 1..MaxRefresh /\ t.jti <= tokens
      /\ \A t \in rotated : t \in issued
      /\ \A u \in Accounts!User : session[u] \in Nat /\ session[u] <= tokens
  BY DEF AccountsInv, Accounts!TypeOK, Accounts!Token, TokensKnow, Accounts!BoundsAssumption
<1>8. TokensKnow'
  <2>1. \A u \in Accounts!User : session'[u] <= tokens'
    BY <1>2, <1>5, <1>7
  <2>2. \A t \in issued : t.jti <= tokens'
    BY <1>2, <1>7
  <2>3. \A t \in rotated : session'[t.user] # t.jti
    BY <1>2, <1>5, <1>7 DEF AccountsInv, TokensKnow
  <2>4. ASSUME NEW q \in Requests
        PROVE  /\ accountReq'[q].op = "refresh" => accountReq'[q].token \in issued
               /\ accountReq'[q].op = "issue" /\ accountReq'[q].replaces # 0 =>
                    [user |-> accountReq'[q].user, jti |-> accountReq'[q].replaces] \in issued
    BY <1>1, <1>3, <1>4 DEF AccountsInv, TokensKnow, w
  <2>5. ASSUME NEW q \in Requests, Answering(q)'
        PROVE  /\ accountReq'[q].jti \in 1..tokens'
               /\ accountReq'[q].replaces # 0 =>
                    session'[accountReq'[q].user] # accountReq'[q].replaces
    <3>0. accountReq'[q].op = "issue" /\ accountReq'[q].pc = "answer"
      BY <2>5 DEF Answering, Accounts!At
    <3>1. accountReq'[q] \in Accounts!SignIn
      BY <1>6, <3>0 DEF Accounts!TypeOK, Accounts!Request, Accounts!Idle,
         Accounts!OtpRequest, Accounts!Verification, Accounts!Refresh
    <3>2. accountReq'[q].user \in Accounts!User /\ accountReq'[q].replaces \in Nat
      BY <3>1 DEF Accounts!SignIn, Accounts!BoundsAssumption
    <3>3. accountReq'[q].replaces # 0 => accountReq'[q].replaces <= tokens
      <4>1. ASSUME accountReq'[q].replaces # 0
            PROVE  [user |-> accountReq'[q].user, jti |-> accountReq'[q].replaces] \in issued
        BY <2>4, <3>0, <4>1
      <4> QED BY <4>1, <1>7
    <3>4. CASE q = r
      BY <1>2, <1>3, <1>4, <1>5, <3>2, <3>3, <3>4
    <3>5. CASE q # r
      <4>1. Answering(q) /\ accountReq'[q] = accountReq[q]
        BY <1>4, <3>0, <3>5 DEF Answering, Accounts!At
      <4>2. /\ accountReq[q].jti \in 1..tokens
            /\ accountReq[q].replaces # 0 =>
                 session[accountReq[q].user] # accountReq[q].replaces
        BY <4>1 DEF AccountsInv, TokensKnow
      <4> QED BY <4>1, <4>2, <1>2, <1>5, <3>2, <3>3
    <3> QED BY <3>4, <3>5
  <2> QED BY <1>2, <2>1, <2>2, <2>3, <2>4, <2>5 DEF TokensKnow
<1>9. \A q \in Requests : \A u : Signs(q, u)' <=> Signs(q, u)
  BY <1>1, <1>3, <1>4 DEF Signs, w
<1>10. /\ \A q \in Requests \ {r} : Answering(q)' <=> Answering(q)
       /\ Answering(r)' /\ ~Answering(r) /\ Signs(r, w)
  BY <1>1, <1>3, <1>4 DEF Answering, Accounts!At, Signs, w
<1>11. OneAtATime'
  <2>1. SUFFICES ASSUME NEW u \in Accounts!User \ disturbed
                 PROVE  /\ \A p, q \in Requests : Signs(p, u)' /\ Signs(q, u)' => p = q
                        /\ \A q \in Requests : Signs(q, u)' /\ Answering(q)' =>
                             session'[u] \in {0, accountReq'[q].jti}
                        /\ (\A q \in Requests : Signs(q, u)' => ~Answering(q)') =>
                             session'[u] \in {0, held[u]}
    BY <1>2 DEF OneAtATime, Accounts!User
  <2>2. /\ \A p, q \in Requests : Signs(p, u) /\ Signs(q, u) => p = q
        /\ \A q \in Requests : Signs(q, u) /\ Answering(q) =>
             session[u] \in {0, accountReq[q].jti}
        /\ (\A q \in Requests : Signs(q, u) => ~Answering(q)) => session[u] \in {0, held[u]}
    BY <2>1 DEF AccountsInv, OneAtATime
  <2> HIDE DEF Signs, Answering
  <2>3. CASE u = w
    BY <1>3, <1>4, <1>5, <1>9, <1>10, <2>2, <2>3
  <2>4. CASE u # w
    <3>1. ~Signs(r, u)
      BY <1>1, <2>4 DEF Signs, w
    <3> QED BY <1>4, <1>5, <1>9, <1>10, <2>2, <2>4, <3>1
  <2> QED BY <2>3, <2>4
<1> QED BY <1>6, <1>8, <1>11 DEF AccountsInv

(* The answer gives the client the stored id and takes the old one from it. *)
LEMMA AnswerTokensSafe ==
  ASSUME AccountsInv, Accounts!BoundsAssumption, NEW r \in Requests,
         Accounts!AnswerTokens(r)
  PROVE  AccountsInv'
<1> DEFINE w == accountReq[r].user
           new == [user |-> w, jti |-> accountReq[r].jti]
           old == [user |-> w, jti |-> accountReq[r].replaces]
<1>1. /\ accountReq[r] \in Accounts!SignIn /\ Answering(r) /\ Signs(r, w)
      /\ accountReq[r].jti \in 1..tokens /\ w \in Accounts!User
  BY AccountSlot DEF AccountsInv, TokensKnow, Accounts!AnswerTokens, Accounts!At, Signs,
     Answering, Accounts!SignIn
<1>2. accountReq[r].replaces # 0 => old \in issued /\ session[w] # accountReq[r].replaces
  BY <1>1 DEF AccountsInv, TokensKnow, Answering, Accounts!At
<1>3. /\ UNCHANGED <<users, otp, codes, session, tokens, disturbed>>
      /\ Accounts!Goto(r, Accounts!Idle)
      /\ issued' = issued \cup {new}
      /\ rotated' = rotated \cup (IF accountReq[r].replaces = 0 THEN {} ELSE {old})
      /\ held' = [held EXCEPT ![w] = accountReq[r].jti]
  BY DEF Accounts!AnswerTokens, Accounts!accounts, Accounts!End
<1>4. /\ accountReq' \in [Requests -> Accounts!Request] /\ accountReq'[r] = Accounts!Idle
      /\ \A q \in Requests \ {r} : accountReq'[q] = accountReq[q]
  BY <1>3, IdleAccountSlot, AccountMoves DEF AccountsInv
<1>5. tokens \in Nat /\ tokens <= MaxRefresh /\ MaxRefresh \in Nat
  BY DEF AccountsInv, Accounts!TypeOK, Accounts!BoundsAssumption
<1>6. new \in Accounts!Token /\ new.jti <= tokens /\ accountReq[r].jti \in 0..MaxRefresh
  BY <1>1, <1>5 DEF Accounts!Token
<1>7. /\ held' \in [Accounts!User -> 0..MaxRefresh] /\ held'[w] = accountReq[r].jti
      /\ \A u \in Accounts!User \ {w} : held'[u] = held[u]
  BY <1>1, <1>3, <1>6 DEF AccountsInv, Accounts!TypeOK
<1>8. issued' \subseteq Accounts!Token /\ rotated' \subseteq issued'
  BY <1>2, <1>3, <1>6 DEF AccountsInv, Accounts!TypeOK
<1>9. Accounts!TypeOK' /\ Accounts!AccountsAreUnique'
  BY <1>3, <1>4, <1>7, <1>8 DEF AccountsInv, Accounts!TypeOK, Accounts!AccountsAreUnique
<1>10. ~Signs(r, w)' /\ \A u : ~Signs(r, u)'
  BY <1>4, IdleAccountSlot DEF Signs
<1>11. /\ ~Answering(r)'
       /\ \A q \in Requests \ {r} :
            (Answering(q)' <=> Answering(q)) /\ (\A u : Signs(q, u)' <=> Signs(q, u))
  BY <1>4, IdleAccountSlot DEF Answering, Accounts!At, Signs
<1>12. \A t \in rotated' : session[t.user] # t.jti
  <2>1. accountReq[r].replaces # 0 => session[old.user] # old.jti
    BY <1>2
  <2>2. \A t \in rotated : session[t.user] # t.jti
    BY DEF AccountsInv, TokensKnow
  <2> HIDE DEF old
  <2> QED BY <1>3, <2>1, <2>2
<1>13. \A t \in issued' : t.jti <= tokens
  BY <1>3, <1>6 DEF AccountsInv, TokensKnow
<1>14. TokensKnow'
  <2> HIDE DEF new, old, w
  <2>1. issued \subseteq issued'
    BY <1>3
  <2>2. \A u \in Accounts!User : session'[u] <= tokens'
    BY <1>3 DEF AccountsInv, TokensKnow
  <2>3. ASSUME NEW q \in Requests
        PROVE  /\ accountReq'[q].op = "refresh" => accountReq'[q].token \in issued'
               /\ accountReq'[q].op = "issue" /\ accountReq'[q].replaces # 0 =>
                    [user |-> accountReq'[q].user, jti |-> accountReq'[q].replaces] \in issued'
               /\ Answering(q)' =>
                    /\ accountReq'[q].jti \in 1..tokens'
                    /\ accountReq'[q].replaces # 0 =>
                         session'[accountReq'[q].user] # accountReq'[q].replaces
    BY <1>3, <1>4, <1>11, <2>1, IdleAccountSlot DEF AccountsInv, TokensKnow
  <2> QED BY <1>3, <1>12, <1>13, <2>2, <2>3 DEF TokensKnow
<1>15. OneAtATime'
  <2>1. SUFFICES ASSUME NEW u \in Accounts!User \ disturbed
                 PROVE  /\ \A p, q \in Requests : Signs(p, u)' /\ Signs(q, u)' => p = q
                        /\ \A q \in Requests : Signs(q, u)' /\ Answering(q)' =>
                             session[u] \in {0, accountReq'[q].jti}
                        /\ (\A q \in Requests : Signs(q, u)' => ~Answering(q)') =>
                             session[u] \in {0, held'[u]}
    BY <1>3 DEF OneAtATime, Accounts!User
  <2>2. /\ \A p, q \in Requests : Signs(p, u) /\ Signs(q, u) => p = q
        /\ \A q \in Requests : Signs(q, u) /\ Answering(q) =>
             session[u] \in {0, accountReq[q].jti}
        /\ (\A q \in Requests : Signs(q, u) => ~Answering(q)) => session[u] \in {0, held[u]}
    BY <2>1 DEF AccountsInv, OneAtATime
  <2>3. u # w => ~Signs(r, u)
    BY <1>1 DEF Signs, Answering, Accounts!At
  <2> HIDE DEF Signs, Answering, new, old, w
  <2>4. CASE u = w
    BY <1>1, <1>4, <1>7, <1>10, <1>11, <2>2, <2>4
  <2>5. CASE u # w
    BY <1>4, <1>7, <1>10, <1>11, <2>2, <2>3, <2>5
  <2> QED BY <2>4, <2>5
<1> QED BY <1>9, <1>14, <1>15 DEF AccountsInv

(* A request that is cut off disturbs its user.                             *)
LEMMA AbortAccountSafe ==
  ASSUME AccountsInv, NEW r \in Requests, Accounts!Abort(r)
  PROVE  AccountsInv'
<1>1. /\ Accounts!Goto(r, Accounts!Idle)
      /\ UNCHANGED <<users, otp, codes, session, tokens, issued, rotated, held>>
      /\ disturbed' = disturbed \cup Accounts!Signing(r)
  BY DEF Accounts!Abort, Accounts!accounts, Accounts!End
<1>2. accountReq'[r] = Accounts!Idle
  BY <1>1, IdleAccountSlot, AccountMoves DEF AccountsInv
<1>3. Accounts!Signing(r) \subseteq Accounts!User
  <2>1. CASE accountReq[r].op = "refresh"
    BY <2>1, AccountSlot DEF AccountsInv, Accounts!Signing, Accounts!Refresh, Accounts!Token
  <2>2. CASE accountReq[r].op \in {"issue", "verify"}
    BY <2>2, AccountSlot DEF AccountsInv, Accounts!Signing, Accounts!SignIn,
       Accounts!Verification
  <2>3. CASE accountReq[r].op \notin {"refresh", "issue", "verify"}
    BY <2>3 DEF Accounts!Signing
  <2> QED BY <2>1, <2>2, <2>3
<1>4. \A u \in Accounts!User \ disturbed' : ~Signs(r, u) /\ ~Signs(r, u)'
  <2>1. \A u : ~Signs(r, u)'
    BY <1>2, IdleAccountSlot DEF Signs
  <2> QED BY <1>1, <2>1, SignsIsSigning
<1>5. /\ users' \subseteq Accounts!User /\ Accounts!AccountsAreUnique'
      /\ otp' \in [Numbers -> 0..MaxCode] /\ codes' \in 0..MaxCode
      /\ disturbed \subseteq disturbed' /\ disturbed' \subseteq Accounts!User
  BY <1>1, <1>3 DEF AccountsInv, Accounts!TypeOK, Accounts!AccountsAreUnique
<1> QED BY <1>1, <1>4, <1>5, IdleAccountSlot, QuietAccountStep

(* A code or a stored id expires.                                           *)
LEMMA ExpireAccountSafe ==
  ASSUME AccountsInv, Accounts!BoundsAssumption, Accounts!Expire,
         UNCHANGED <<accountReq, tokens, issued, rotated, held, disturbed>>
  PROVE  AccountsInv'
<1>1. /\ users' = users /\ codes' = codes
      /\ otp' \in [Numbers -> 0..MaxCode]
      /\ session' \in [Accounts!User -> 0..MaxRefresh]
      /\ \A u \in Accounts!User : session'[u] \in {0, session[u]}
  BY DEF Accounts!Expire, AccountsInv, Accounts!TypeOK, Accounts!accounts,
     Accounts!BoundsAssumption
<1>2. Accounts!TypeOK' /\ Accounts!AccountsAreUnique'
  BY <1>1 DEF AccountsInv, Accounts!TypeOK, Accounts!AccountsAreUnique
<1>3. TokensKnow'
  <2>1. /\ tokens \in Nat
        /\ \A t \in issued : t.user \in Accounts!User /\ t.jti # 0
        /\ rotated \subseteq issued
    BY DEF AccountsInv, Accounts!TypeOK, Accounts!Token, Accounts!BoundsAssumption
  <2>2. /\ \A u \in Accounts!User : session'[u] <= tokens'
        /\ \A t \in issued' : t.jti <= tokens'
        /\ \A t \in rotated' : session'[t.user] # t.jti
    BY <1>1, <2>1 DEF AccountsInv, TokensKnow
  <2>3. ASSUME NEW q \in Requests, Answering(q), accountReq[q].replaces # 0
        PROVE  session'[accountReq[q].user] # accountReq[q].replaces
    <3>1. accountReq[q].user \in Accounts!User
      BY <2>3, AccountSlot DEF AccountsInv, Answering, Accounts!At, Accounts!SignIn
    <3> QED BY <1>1, <2>3, <3>1 DEF AccountsInv, TokensKnow
  <2> QED BY <2>2, <2>3 DEF AccountsInv, TokensKnow, Answering, Accounts!At
<1>4. OneAtATime'
  <2>1. SUFFICES ASSUME NEW u \in Accounts!User \ disturbed
                 PROVE  /\ \A p, q \in Requests : Signs(p, u) /\ Signs(q, u) => p = q
                        /\ \A q \in Requests : Signs(q, u) /\ Answering(q) =>
                             session'[u] \in {0, accountReq[q].jti}
                        /\ (\A q \in Requests : Signs(q, u) => ~Answering(q)) =>
                             session'[u] \in {0, held[u]}
    BY DEF OneAtATime, Accounts!User, Signs, Answering, Accounts!At
  <2> QED BY <1>1, <2>1 DEF AccountsInv, OneAtATime
<1> QED BY <1>2, <1>3, <1>4 DEF AccountsInv

LEMMA AccountsNext ==
  ASSUME AccountsInv, Accounts!BoundsAssumption, [Accounts!Next]_accountVars
  PROVE  AccountsInv'
<1>1. CASE UNCHANGED accountVars
  BY <1>1 DEF accountVars, AccountsInv, Accounts!TypeOK, Accounts!AccountsAreUnique,
     TokensKnow, OneAtATime, Signs, Answering, Accounts!At
<1>2. CASE Accounts!Expire /\ UNCHANGED <<accountReq, tokens, issued, rotated, held, disturbed>>
  BY <1>2, ExpireAccountSafe
<1>3. ASSUME NEW r \in Requests,
             \/ \E p \in Numbers : Accounts!BeginOtp(r, p)
             \/ \E u \in Accounts!User :
                  \/ Accounts!BeginLogin(r, u)
                  \/ \E code \in 1..codes : Accounts!BeginVerify(r, u, code)
             \/ \E token \in issued : Accounts!BeginRefresh(r, token)
      PROVE  AccountsInv'
  BY <1>3, BeginOtpSafe, BeginLoginSafe, BeginVerifySafe, BeginRefreshSafe
<1>4. ASSUME NEW r \in Requests,
             \/ Accounts!LookUpPhone(r) \/ Accounts!StoreOtp(r)
             \/ Accounts!CheckOtp(r) \/ Accounts!FindConflict(r)
             \/ Accounts!CreateUser(r) \/ Accounts!DeleteOtp(r)
             \/ Accounts!CheckSession(r) \/ Accounts!FindUser(r)
             \/ Accounts!StoreSession(r) \/ Accounts!AnswerTokens(r) \/ Accounts!Abort(r)
      PROVE  AccountsInv'
  BY <1>4, OtpStepsSafe, VerifyStepsSafe, RefreshStepsSafe, StoreSessionSafe,
     AnswerTokensSafe, AbortAccountSafe
<1> QED BY <1>1, <1>2, <1>3, <1>4 DEF Accounts!Next

LEMMA AccountsInit ==
  ASSUME Accounts!Init, Accounts!BoundsAssumption
  PROVE  AccountsInv
<1>1. \A r \in Requests : accountReq[r] = Accounts!Idle
  BY DEF Accounts!Init
<1>2. \A r \in Requests : ~Answering(r) /\ \A u : ~Signs(r, u)
  BY <1>1, IdleAccountSlot DEF Answering, Accounts!At, Signs
<1>3. Accounts!TypeOK /\ Accounts!AccountsAreUnique
  BY IdleAccountSlot DEF Accounts!Init, Accounts!TypeOK, Accounts!AccountsAreUnique,
     Accounts!BoundsAssumption
<1>4. TokensKnow
  BY <1>1, <1>2, IdleAccountSlot DEF Accounts!Init, TokensKnow
<1>5. OneAtATime
  BY <1>2 DEF Accounts!Init, OneAtATime
<1> QED BY <1>3, <1>4, <1>5 DEF AccountsInv

LEMMA AccountsSafeBecause ==
  AccountsInv => Accounts!AccountsAreUnique /\ Accounts!TokensRotate
<1> SUFFICES ASSUME AccountsInv
             PROVE  Accounts!TokensRotate
  BY DEF AccountsInv
<1>1. ASSUME NEW u \in users \ disturbed, \A r \in Requests : u \notin Accounts!Signing(r)
      PROVE  session[u] \in {0, held[u]}
  <2>1. u \in Accounts!User \ disturbed
    BY <1>1 DEF AccountsInv, Accounts!TypeOK
  <2>2. \A r \in Requests : ~Signs(r, u)
    BY <1>1, SignsIsSigning
  <2> QED BY <2>1, <2>2 DEF AccountsInv, OneAtATime
<1> QED BY <1>1 DEF AccountsInv, TokensKnow, Accounts!TokensRotate

(* However the requests of an account overlap, are cut off or expire, no    *)
(* two accounts share a phone or an email, an exchanged refresh token is    *)
(* never accepted again, and an undisturbed user holds the token that is    *)
(* accepted next (auth.service.ts).                                         *)
THEOREM AccountsStaySafe ==
  Spec => []AccountsAreSafe
<1> DEFINE Inv == part = "accounts" => AccountsInv
<1>1. Init => Inv
  BY ServicesAssumptions, AccountsInit DEF Init
<1>2. Inv /\ [Next]_vars => Inv'
  <2>1. SUFFICES ASSUME Inv, [Next]_vars, part' = "accounts"
                 PROVE  AccountsInv'
    OBVIOUS
  <2>2. part = "accounts" /\ [Accounts!Next]_accountVars
    BY <2>1, PartStep
  <2> QED BY <2>1, <2>2, ServicesAssumptions, AccountsNext
<1>3. Inv => AccountsAreSafe
  BY AccountsSafeBecause DEF AccountsAreSafe
<1> QED BY <1>1, <1>2, <1>3, PTL DEF Spec

-----------------------------------------------------------------------------
(* Payment methods                                                         *)

Rows == DOMAIN methods
DefaultRows == {i \in Rows : methods[i].isDefault}
NewDefault == {chosen} \ {0}

(* A method that a choice or a lookup has found is there.                   *)
FoundIsThere ==
  /\ chosen \in Rows \cup {0}
  /\ \A r \in Requests : methodReq[r].op \in {"set", "lookup"} =>
       methodReq[r].found \in Rows \cup {0}

(* What a choice knows by itself.                                           *)
ChoiceKnows(r) ==
  /\ methodReq[r].pc = "clear" => methodReq[r].isDefault = "yes"
  /\ methodReq[r].gateway = "WALLET" => methodReq[r].pc # "exchange"

(* What it knows while no other choice is in progress: the method it found  *)
(* is the one of its token, and if it found none, there is none; its flag   *)
(* is still that of the method.                                             *)
ChoiceIsCurrent(r) ==
  methodReq[r].pc \in {"clear", "save"} =>
    /\ methodReq[r].found = 0 =>
         \A i \in Rows : ~(methods[i].gateway = methodReq[r].gateway
                            /\ methods[i].token = methodReq[r].token)
    /\ methodReq[r].found # 0 =>
         /\ methods[methodReq[r].found].gateway = methodReq[r].gateway
         /\ methods[methodReq[r].found].token = methodReq[r].token
    /\ methodReq[r].isDefault = "keep" /\ methodReq[r].found # 0 =>
         methodReq[r].flag = methods[methodReq[r].found].isDefault

(* A choice that has cleared the defaults and is about to save its own.     *)
Cleared(r) ==
  methodReq[r].op = "set" /\ methodReq[r].pc = "save" /\ methodReq[r].isDefault = "yes"

(* A token has one method, and the wallet too.                              *)
OneMethodEach ==
  \A i, j \in Rows :
    methods[i].gateway \in {"APPLE_PAY", "GOOGLE_PAY", "WALLET"}
      /\ methods[i].gateway = methods[j].gateway
      /\ methods[i].token = methods[j].token => i = j

(* Is the chosen method one of these gateways?                              *)
ChosenFits(gateways) == chosen \in Rows /\ methods[chosen].gateway \in gateways

(* A lookup that began between choices goes for the chosen one.             *)
LookupIsCurrent(r) ==
  methodReq[r].steady =>
    /\ \A q \in Requests : methodReq[q].op # "set"
    /\ methodReq[r].pc = "oldest" => ~ChosenFits(methodReq[r].gateways)
    /\ methodReq[r].pc = "found" =>
         (ChosenFits(methodReq[r].gateways) => methodReq[r].found = chosen)

(* Without overlap and failure: one choice at a time, and the default is    *)
(* the chosen method, or none once a choice has cleared the defaults.       *)
ChoicesKnow ==
  /\ \A q, r \in Requests : methodReq[q].op = "set" /\ methodReq[r].op = "set" => q = r
  /\ \A r \in Requests : methodReq[r].op = "set" => ChoiceIsCurrent(r)
  /\ \A r \in Requests : Cleared(r) => DefaultRows = {}
  /\ (\A r \in Requests : ~Cleared(r)) => DefaultRows = NewDefault
  /\ OneMethodEach
  /\ \A r \in Requests : methodReq[r].op = "lookup" => LookupIsCurrent(r)

MethodsInv ==
  /\ Methods!TypeOK /\ FoundIsThere
  /\ \A r \in Requests : methodReq[r].op = "set" => ChoiceKnows(r)
  /\ ~cutOff => ChoicesKnow

(* What the slot of a request holds, by the operation of it.                *)
LEMMA MethodSlot ==
  ASSUME Methods!TypeOK, NEW r \in Requests
  PROVE  /\ methodReq[r].op = "set" => methodReq[r] \in Methods!Exchange
         /\ methodReq[r].op = "lookup" => methodReq[r] \in Methods!Lookup
         /\ methodReq[r].op \in {"idle", "set", "lookup"}
         /\ methodReq[r].op = "idle" => methodReq[r] = Methods!Idle
BY DEF Methods!TypeOK, Methods!Idle, Methods!Exchange, Methods!Lookup

LEMMA IdleMethodSlot == Methods!Idle.op = "idle"
BY DEF Methods!Idle

(* One slot is written and the others stay.                                 *)
LEMMA MethodMoves ==
  ASSUME Methods!TypeOK, NEW r \in Requests,
         NEW g \in {Methods!Idle} \cup Methods!Exchange \cup Methods!Lookup,
         Methods!Goto(r, g)
  PROVE  /\ methodReq' \in [Requests -> {Methods!Idle} \cup Methods!Exchange \cup Methods!Lookup]
         /\ methodReq'[r] = g
         /\ \A q \in Requests \ {r} : methodReq'[q] = methodReq[q]
BY DEF Methods!TypeOK, Methods!Goto

(* A step of r that leaves the methods and the choice alone, keeps choices  *)
(* where they were, and goes on with what it knows.                         *)
LEMMA MethodSlotStep ==
  ASSUME MethodsInv, NEW r \in Requests,
         NEW g \in {Methods!Idle} \cup Methods!Exchange \cup Methods!Lookup,
         Methods!Goto(r, g), UNCHANGED <<methods, chosen>>,
         cutOff' \in BOOLEAN, cutOff => cutOff',
         g.op \in {"set", "lookup"} => g.found \in Rows \cup {0},
         g.op = "set" => methodReq[r].op = "set" /\ ChoiceKnows(r)',
         ~cutOff' => /\ g.op = "set" => ChoiceIsCurrent(r)'
                     /\ ~Cleared(r)' /\ ~Cleared(r)
                     /\ g.op = "lookup" /\ g.steady =>
                          /\ \A q \in Requests : methodReq[q].op # "set"
                          /\ g.pc = "oldest" => ~ChosenFits(g.gateways)
                          /\ g.pc = "found" => (ChosenFits(g.gateways) => g.found = chosen)
  PROVE  MethodsInv'
<1>1. /\ methodReq' \in [Requests -> {Methods!Idle} \cup Methods!Exchange \cup Methods!Lookup]
      /\ methodReq'[r] = g
      /\ \A q \in Requests \ {r} : methodReq'[q] = methodReq[q]
  BY MethodMoves DEF MethodsInv
<1>2. Methods!TypeOK'
  BY <1>1 DEF MethodsInv, Methods!TypeOK
<1>3. FoundIsThere'
  BY <1>1 DEF MethodsInv, FoundIsThere, Rows
<1>4. \A q \in Requests : methodReq'[q].op = "set" => ChoiceKnows(q)'
  BY <1>1 DEF MethodsInv, ChoiceKnows
<1>5. ASSUME ~cutOff'
      PROVE  ChoicesKnow'
  <2>1. ChoicesKnow
    BY <1>5 DEF MethodsInv
  <2>2. \A q \in Requests \ {r} :
          /\ ChoiceIsCurrent(q)' <=> ChoiceIsCurrent(q)
          /\ Cleared(q)' <=> Cleared(q)
    BY <1>1 DEF ChoiceIsCurrent, Cleared, Rows
  <2>3. DefaultRows' = DefaultRows /\ NewDefault' = NewDefault
    BY DEF DefaultRows, NewDefault, Rows
  <2>4. \A p, q \in Requests : methodReq'[p].op = "set" /\ methodReq'[q].op = "set" => p = q
    BY <1>1, <2>1 DEF ChoicesKnow
  <2>5. \A q \in Requests : methodReq'[q].op = "set" => ChoiceIsCurrent(q)'
    BY <1>1, <1>5, <2>1, <2>2 DEF ChoicesKnow
  <2>6. /\ \A q \in Requests : Cleared(q)' => DefaultRows' = {}
        /\ (\A q \in Requests : ~Cleared(q)') => DefaultRows' = NewDefault'
    <3> HIDE DEF DefaultRows, NewDefault, Cleared
    <3> QED BY <1>5, <2>1, <2>2, <2>3 DEF ChoicesKnow
  <2>8. ASSUME NEW q \in Requests, methodReq'[q].op = "lookup"
        PROVE  LookupIsCurrent(q)'
    <3>1. CASE q = r
      <4>1. g.steady =>
               /\ \A p \in Requests : methodReq[p].op # "set"
               /\ g.pc = "oldest" => ~ChosenFits(g.gateways)
               /\ g.pc = "found" => (ChosenFits(g.gateways) => g.found = chosen)
        BY <1>1, <1>5, <2>8, <3>1
      <4>2. g.steady => \A p \in Requests : methodReq'[p].op # "set"
        BY <1>1, <2>8, <3>1, <4>1
      <4>3. ChosenFits(g.gateways)' <=> ChosenFits(g.gateways)
        BY DEF ChosenFits, Rows
      <4> HIDE DEF ChosenFits
      <4> QED BY <1>1, <3>1, <4>1, <4>2, <4>3 DEF LookupIsCurrent
    <3>2. CASE q # r
      <4>1. methodReq'[q] = methodReq[q] /\ LookupIsCurrent(q)
        BY <1>1, <2>1, <2>8, <3>2 DEF ChoicesKnow
      <4>2. methodReq[q].steady => \A p \in Requests : methodReq'[p].op # "set"
        BY <1>1, <4>1 DEF LookupIsCurrent
      <4> QED BY <4>1, <4>2 DEF LookupIsCurrent, ChosenFits, Rows
    <3> QED BY <3>1, <3>2
  <2>9. OneMethodEach'
    BY <2>1 DEF ChoicesKnow, OneMethodEach, Rows
  <2> QED BY <2>4, <2>5, <2>6, <2>8, <2>9 DEF ChoicesKnow
<1> QED BY <1>2, <1>3, <1>4, <1>5 DEF MethodsInv

(* exchangeToken answers.                                                   *)
LEMMA AnswerExchangeSafe ==
  ASSUME MethodsInv, NEW r \in Requests, Methods!AnswerExchange(r)
  PROVE  MethodsInv'
<1>1. /\ methodReq[r] \in Methods!Exchange /\ methodReq[r].pc = "exchange"
      /\ methodReq[r].op = "set" /\ UNCHANGED <<methods, chosen, cutOff>>
  BY MethodSlot DEF MethodsInv, Methods!AnswerExchange, Methods!At
<1>2. PICK token \in Tokens :
        Methods!Goto(r, [methodReq[r] EXCEPT !.pc = "find", !.token = token])
  BY DEF Methods!AnswerExchange
<1> DEFINE g == [methodReq[r] EXCEPT !.pc = "find", !.token = token]
<1>3. /\ g \in Methods!Exchange /\ g.op = "set" /\ g.pc = "find"
      /\ g.found = methodReq[r].found /\ g.gateway = methodReq[r].gateway
  BY <1>1 DEF Methods!Exchange
<1>4. methodReq'[r] = g
  BY <1>2, <1>3, MethodMoves DEF MethodsInv
<1> HIDE DEF g
<1>5. ChoiceKnows(r)' /\ ChoiceIsCurrent(r)' /\ ~Cleared(r)' /\ ~Cleared(r)
  BY <1>1, <1>3, <1>4 DEF ChoiceKnows, ChoiceIsCurrent, Cleared
<1>6. g.found \in Rows \cup {0} /\ cutOff' \in BOOLEAN
  BY <1>1, <1>3 DEF MethodsInv, FoundIsThere, Methods!TypeOK
<1> QED BY <1>1, <1>2, <1>3, <1>5, <1>6, MethodSlotStep DEF g

(* findFirst of the method of a token.                                      *)
LEMMA FindExistingSafe ==
  ASSUME MethodsInv, Methods!MethodsAssumption, NEW r \in Requests, Methods!FindExisting(r)
  PROVE  MethodsInv'
<1>1. /\ methodReq[r] \in Methods!Exchange /\ methodReq[r].pc = "find"
      /\ methodReq[r].op = "set" /\ UNCHANGED <<methods, chosen, cutOff>>
  BY MethodSlot DEF MethodsInv, Methods!FindExisting, Methods!At
<1> DEFINE flag(found) == found # Methods!NoMethod /\ methods[found].isDefault
           pc == IF methodReq[r].isDefault = "yes" THEN "clear" ELSE "save"
           g(found) == [methodReq[r] EXCEPT !.found = found, !.flag = flag(found), !.pc = pc]
<1>2. PICK found \in IF Methods!Matches(r) = {} THEN {0} ELSE Methods!Matches(r) :
        Methods!Goto(r, g(found))
  BY DEF Methods!FindExisting, Methods!NoMethod
<1>3. /\ found = 0 \/ found \in Rows
      /\ found = 0 => \A i \in Rows : ~(methods[i].gateway = methodReq[r].gateway
                                         /\ methods[i].token = methodReq[r].token)
      /\ found # 0 => /\ methods[found].gateway = methodReq[r].gateway
                      /\ methods[found].token = methodReq[r].token
  <2>1. 0 \notin Rows
    BY DEF MethodsInv, Methods!TypeOK, Rows, Methods!Ids
  <2> QED BY <1>2, <2>1 DEF Methods!Matches, Rows
<1>4. found \in 0..MaxMethods /\ flag(found) \in BOOLEAN /\ pc \in {"clear", "save"}
  <2>1. \A i \in Rows : i \in 1..MaxMethods /\ methods[i].isDefault \in BOOLEAN
    BY DEF MethodsInv, Methods!TypeOK, Rows, Methods!Ids, Methods!Method
  <2>3. 0 \in 0..MaxMethods
    BY DEF Methods!MethodsAssumption
  <2> QED BY <1>3, <2>1, <2>3 DEF Methods!NoMethod
<1>5. found # 0 => flag(found) = methods[found].isDefault
  <2>1. found # 0 => methods[found].isDefault \in BOOLEAN
    BY <1>3 DEF MethodsInv, Methods!TypeOK, Rows, Methods!Method
  <2> QED BY <2>1 DEF Methods!NoMethod
<1> HIDE DEF flag
<1>6. /\ g(found) \in Methods!Exchange /\ g(found).op = "set" /\ g(found).pc = pc
      /\ g(found).found = found /\ g(found).flag = flag(found)
      /\ g(found).gateway = methodReq[r].gateway /\ g(found).token = methodReq[r].token
      /\ g(found).isDefault = methodReq[r].isDefault
  BY <1>1, <1>4 DEF Methods!Exchange
<1> HIDE DEF g
<1>7. methodReq'[r] = g(found)
  BY <1>2, <1>6, MethodMoves DEF MethodsInv
<1>8. ChoiceKnows(r)' /\ ChoiceIsCurrent(r)' /\ ~Cleared(r)' /\ ~Cleared(r)
  <2>1. ~Cleared(r)' /\ ~Cleared(r) /\ ChoiceKnows(r)'
    BY <1>1, <1>6, <1>7 DEF ChoiceKnows, Cleared
  <2>2. methods' = methods /\ Rows' = Rows
    BY <1>1 DEF Rows
  <2>3. ChoiceIsCurrent(r)'
    BY <1>3, <1>5, <1>6, <1>7, <2>2 DEF ChoiceIsCurrent
  <2> QED BY <2>1, <2>3
<1>9. cutOff' \in BOOLEAN
  BY <1>1 DEF MethodsInv, Methods!TypeOK
<1> QED BY <1>1, <1>2, <1>3, <1>6, <1>8, <1>9, MethodSlotStep

(* The lookup of the method that a session is charged with.                 *)
LEMMA BeginLookupSafe ==
  ASSUME MethodsInv, Methods!MethodsAssumption, NEW r \in Requests,
         NEW gateways \in SUBSET Methods!Supported, Methods!BeginLookup(r, gateways)
  PROVE  MethodsInv'
<1> DEFINE g == [op |-> "lookup", pc |-> "default", gateways |-> gateways,
                 found |-> Methods!NoMethod, steady |-> Methods!Choosing = {}]
<1>1. /\ Methods!Goto(r, g) /\ methodReq[r] = Methods!Idle
      /\ UNCHANGED <<methods, chosen, cutOff>>
  BY DEF Methods!BeginLookup
<1>2. /\ g \in Methods!Lookup /\ g.op = "lookup" /\ g.found = 0 /\ g.pc = "default"
      /\ g.steady = (Methods!Choosing = {})
  BY DEF Methods!Lookup, Methods!NoMethod, Methods!MethodsAssumption
<1>3. g.steady => \A q \in Requests : methodReq[q].op # "set"
  BY <1>2 DEF Methods!Choosing
<1> HIDE DEF g
<1>4. methodReq'[r] = g
  BY <1>1, <1>2, MethodMoves DEF MethodsInv
<1>5. ~Cleared(r)' /\ ~Cleared(r) /\ cutOff' \in BOOLEAN
  BY <1>1, <1>2, <1>4, IdleMethodSlot DEF Cleared, MethodsInv, Methods!TypeOK
<1> QED BY <1>1, <1>2, <1>3, <1>5, MethodSlotStep

LEMMA LookupStepsSafe ==
  ASSUME MethodsInv, Methods!MethodsAssumption, NEW r \in Requests,
         Methods!FindDefault(r) \/ Methods!FindOldest(r)
  PROVE  MethodsInv'
<1>1. /\ methodReq[r] \in Methods!Lookup /\ methodReq[r].op = "lookup"
      /\ UNCHANGED <<methods, chosen, cutOff>>
  BY MethodSlot DEF MethodsInv, Methods!FindDefault, Methods!FindOldest, Methods!At
<1> DEFINE row == methodReq[r]
           next == [row EXCEPT !.pc = "oldest"]
           there(i) == [row EXCEPT !.pc = "found", !.found = i]
<1>2. /\ next \in Methods!Lookup /\ next.op = "lookup" /\ next.pc = "oldest"
      /\ next.found = row.found /\ next.steady = row.steady
      /\ next.gateways = row.gateways
  BY <1>1 DEF Methods!Lookup
<1>3. \A i \in 0..MaxMethods :
        /\ there(i) \in Methods!Lookup /\ there(i).op = "lookup" /\ there(i).pc = "found"
        /\ there(i).found = i /\ there(i).steady = row.steady
        /\ there(i).gateways = row.gateways
  BY <1>1 DEF Methods!Lookup
<1>4. ~Cleared(r) /\ cutOff' \in BOOLEAN
  BY <1>1 DEF Cleared, MethodsInv, Methods!TypeOK
<1>5. row.steady /\ ~cutOff =>
        /\ \A q \in Requests : methodReq[q].op # "set"
        /\ DefaultRows = NewDefault
        /\ row.pc = "oldest" => ~ChosenFits(row.gateways)
  <2>1. SUFFICES ASSUME row.steady, ~cutOff
                 PROVE  /\ \A q \in Requests : methodReq[q].op # "set"
                        /\ DefaultRows = NewDefault
                        /\ row.pc = "oldest" => ~ChosenFits(row.gateways)
    OBVIOUS
  <2>2. LookupIsCurrent(r) /\ ChoicesKnow
    BY <1>1, <2>1 DEF MethodsInv, ChoicesKnow
  <2>3. \A q \in Requests : methodReq[q].op # "set"
    BY <2>1, <2>2 DEF LookupIsCurrent
  <2>4. \A q \in Requests : ~Cleared(q)
    BY <2>3 DEF Cleared
  <2>5. DefaultRows = NewDefault
    BY <2>2, <2>4 DEF ChoicesKnow
  <2> QED BY <2>1, <2>2, <2>3, <2>5 DEF LookupIsCurrent
<1>6. 0 \notin Rows /\ Rows \subseteq 1..MaxMethods /\ 0 \in 0..MaxMethods
  BY DEF MethodsInv, Methods!TypeOK, Rows, Methods!Ids, Methods!MethodsAssumption
<1>7. row.found \in Rows \cup {0}
  BY <1>1 DEF MethodsInv, FoundIsThere
<1> HIDE DEF next, there
<1>8. CASE Methods!FindDefault(r) /\ Methods!Defaults(row.gateways) = {}
  <2>1. Methods!Goto(r, next)
    BY <1>8 DEF Methods!FindDefault, next
  <2>2. methodReq'[r] = next
    BY <1>2, <2>1, MethodMoves DEF MethodsInv
  <2>3. row.steady /\ ~cutOff => ~ChosenFits(row.gateways)
    <3>1. SUFFICES ASSUME row.steady, ~cutOff, ChosenFits(row.gateways)
                   PROVE  FALSE
      OBVIOUS
    <3>2. chosen \in DefaultRows
      BY <1>5, <1>6, <3>1 DEF NewDefault, ChosenFits
    <3>3. chosen \in Methods!Defaults(row.gateways)
      BY <3>1, <3>2 DEF ChosenFits, DefaultRows, Rows, Methods!Defaults,
         Methods!Candidates
    <3> QED BY <1>8, <3>3
  <2>4. ~Cleared(r)'
    BY <1>2, <2>2 DEF Cleared
  <2> QED BY <1>1, <1>2, <1>4, <1>5, <1>7, <2>1, <2>3, <2>4, MethodSlotStep
<1>9. CASE Methods!FindDefault(r) /\ Methods!Defaults(row.gateways) # {}
  <2>1. PICK i \in Methods!Defaults(row.gateways) : Methods!Goto(r, there(i))
    BY <1>9 DEF Methods!FindDefault, Methods!Found, there
  <2>2. i \in DefaultRows /\ i \in Rows
    BY <2>1 DEF Methods!Defaults, Methods!Candidates, DefaultRows, Rows
  <2>3. i \in 0..MaxMethods
    BY <1>6, <2>2
  <2>4. methodReq'[r] = there(i)
    BY <1>3, <2>1, <2>3, MethodMoves DEF MethodsInv
  <2>5. row.steady /\ ~cutOff => i = chosen
    BY <1>5, <2>2 DEF NewDefault
  <2>6. ~Cleared(r)'
    BY <1>3, <2>3, <2>4 DEF Cleared
  <2> QED BY <1>1, <1>3, <1>4, <1>5, <2>1, <2>2, <2>3, <2>5, <2>6, MethodSlotStep
<1>10. CASE Methods!FindOldest(r)
  <2> DEFINE rows == Methods!Candidates(row.gateways)
             i == IF rows = {} THEN 0 ELSE CHOOSE i \in rows : \A j \in rows : i <= j
  <2>1. Methods!Goto(r, there(i)) /\ row.pc = "oldest"
    BY <1>10 DEF Methods!FindOldest, Methods!Found, there, Methods!NoMethod, Methods!At
  <2>2. i \in Rows \cup {0}
    <3>1. rows \subseteq Rows
      BY DEF Methods!Candidates, Rows
    <3> HIDE DEF rows
    <3>2. rows \subseteq Nat
      <4>1. \A j \in 1..MaxMethods : j \in Nat
        OBVIOUS
      <4> QED BY <1>6, <3>1, <4>1
    <3>3. rows # {} => \E k \in rows : \A j \in rows : k <= j
      BY <3>2, LeastNumber
    <3> QED BY <3>1, <3>3
  <2> HIDE DEF i
  <2>3. i \in 0..MaxMethods
    BY <1>6, <2>2
  <2>4. methodReq'[r] = there(i)
    BY <1>3, <2>1, <2>3, MethodMoves DEF MethodsInv
  <2>5. ~Cleared(r)'
    BY <1>3, <2>3, <2>4 DEF Cleared
  <2> QED BY <1>1, <1>3, <1>4, <1>5, <2>1, <2>2, <2>3, <2>5, MethodSlotStep
<1> QED BY <1>8, <1>9, <1>10

(* A lookup that is over, and a request that is cut off.                    *)
LEMMA EndMethodRequestSafe ==
  ASSUME MethodsInv, NEW r \in Requests, Methods!UseMethod(r) \/ Methods!Abort(r)
  PROVE  MethodsInv'
<1>1. /\ Methods!Goto(r, Methods!Idle) /\ UNCHANGED <<methods, chosen>>
      /\ cutOff' = (cutOff \/ methodReq[r].op = "set")
  BY DEF Methods!UseMethod, Methods!Abort, Methods!End, Methods!At, Methods!Choosing,
     MethodsInv, Methods!TypeOK
<1>2. methodReq'[r] = Methods!Idle
  BY <1>1, MethodMoves DEF MethodsInv
<1>3. /\ cutOff' \in BOOLEAN /\ (cutOff => cutOff')
      /\ ~cutOff' => ~Cleared(r)
  BY <1>1 DEF MethodsInv, Methods!TypeOK, Cleared
<1>4. ~Cleared(r)'
  BY <1>2, IdleMethodSlot DEF Cleared
<1> QED BY <1>1, <1>3, <1>4, IdleMethodSlot, MethodSlotStep

LEMMA SameCardinality ==
  \A S : Methods!Cardinality(S) = Cardinality(S)
BY DEF Methods!Cardinality, Cardinality


(* A choice of exchangeToken or setWalletAsPaymentMethod begins.            *)
LEMMA BeginChoiceSafe ==
  ASSUME MethodsInv, NEW r \in Requests, NEW request \in Methods!Exchange,
         request.pc \in {"exchange", "find"}, request.found = 0,
         request.gateway = "WALLET" => request.pc = "find",
         Methods!BeginChoice(r, request)
  PROVE  MethodsInv'
<1>1. /\ methodReq[r] = Methods!Idle /\ UNCHANGED <<methods, chosen>>
      /\ cutOff' = (cutOff \/ Methods!Choosing # {})
  BY DEF Methods!BeginChoice
<1>2. request.op = "set"
  BY DEF Methods!Exchange
<1>3. /\ methodReq' \in [Requests -> {Methods!Idle} \cup Methods!Exchange \cup Methods!Lookup]
      /\ methodReq'[r] = request
      /\ \A q \in Requests \ {r} :
           /\ methodReq[q].op # "lookup" => methodReq'[q] = methodReq[q]
           /\ methodReq[q].op = "lookup" =>
                /\ methodReq'[q] \in Methods!Lookup
                /\ methodReq'[q].op = "lookup" /\ methodReq'[q].steady = FALSE
                /\ methodReq'[q].found = methodReq[q].found
  <2>1. methodReq' = [q \in Requests |->
           CASE q = r -> request
             [] methodReq[q].op = "lookup" -> [methodReq[q] EXCEPT !.steady = FALSE]
             [] OTHER -> methodReq[q]]
    BY DEF Methods!BeginChoice
  <2>2. methodReq[r].op # "lookup"
    BY <1>1, IdleMethodSlot
  <2>3. methodReq'[r] = request
    BY <2>1, <2>2
  <2>4. \A q \in Requests \ {r} :
          /\ methodReq[q].op # "lookup" => methodReq'[q] = methodReq[q]
          /\ methodReq[q].op = "lookup" =>
               methodReq'[q] = [methodReq[q] EXCEPT !.steady = FALSE]
    BY <2>1
  <2>5. ASSUME NEW q \in Requests, methodReq[q].op = "lookup"
        PROVE  /\ [methodReq[q] EXCEPT !.steady = FALSE] \in Methods!Lookup
               /\ [methodReq[q] EXCEPT !.steady = FALSE].op = "lookup"
               /\ [methodReq[q] EXCEPT !.steady = FALSE].steady = FALSE
               /\ [methodReq[q] EXCEPT !.steady = FALSE].found = methodReq[q].found
    <3>1. methodReq[q] \in Methods!Lookup
      BY <2>5, MethodSlot DEF MethodsInv
    <3> QED BY <2>5, <3>1 DEF Methods!Lookup
  <2>6. \A q \in Requests :
          methodReq'[q] \in {Methods!Idle} \cup Methods!Exchange \cup Methods!Lookup
    BY <2>3, <2>4, <2>5 DEF MethodsInv, Methods!TypeOK
  <2> QED BY <2>1, <2>3, <2>4, <2>5, <2>6
<1>4. /\ cutOff' \in BOOLEAN /\ (cutOff => cutOff')
      /\ ~cutOff' => \A q \in Requests : methodReq[q].op # "set"
  BY <1>1 DEF MethodsInv, Methods!TypeOK, Methods!Choosing
<1>5. Rows' = Rows /\ DefaultRows' = DefaultRows /\ NewDefault' = NewDefault
  BY <1>1 DEF Rows, DefaultRows, NewDefault
<1>6. Methods!TypeOK'
  BY <1>1, <1>3, <1>4 DEF MethodsInv, Methods!TypeOK
<1>7. FoundIsThere'
  BY <1>1, <1>2, <1>3, <1>5 DEF MethodsInv, FoundIsThere
<1>8. \A q \in Requests : methodReq'[q].op = "set" => ChoiceKnows(q)'
  <2>1. ChoiceKnows(r)'
    BY <1>3 DEF ChoiceKnows
  <2>2. ASSUME NEW q \in Requests \ {r}, methodReq'[q].op = "set"
        PROVE  ChoiceKnows(q)'
    BY <1>3, <2>2 DEF MethodsInv, ChoiceKnows
  <2> QED BY <2>1, <2>2
<1>9. ASSUME ~cutOff'
      PROVE  ChoicesKnow'
  <2>1. /\ \A q \in Requests : methodReq[q].op # "set"
        /\ \A q \in Requests : methodReq'[q].op = "set" => q = r
    BY <1>3, <1>4, <1>9
  <2>2. ChoicesKnow
    BY <1>4, <1>9 DEF MethodsInv
  <2>3. ChoiceIsCurrent(r)'
    BY <1>3 DEF ChoiceIsCurrent
  <2>4. /\ \A q \in Requests : ~Cleared(q)
        /\ \A q \in Requests : ~Cleared(q)'
    BY <1>3, <2>1 DEF Cleared
  <2>5. DefaultRows' = NewDefault'
    BY <1>5, <2>2, <2>4 DEF ChoicesKnow
  <2>6. OneMethodEach'
    BY <1>1, <2>2 DEF ChoicesKnow, OneMethodEach, Rows
  <2>7. \A q \in Requests : methodReq'[q].op = "lookup" => LookupIsCurrent(q)'
    BY <1>2, <1>3 DEF LookupIsCurrent
  <2> QED BY <2>1, <2>3, <2>4, <2>5, <2>6, <2>7 DEF ChoicesKnow
<1> QED BY <1>6, <1>7, <1>8, <1>9 DEF MethodsInv

LEMMA BeginChoicesSafe ==
  ASSUME MethodsInv, Methods!MethodsAssumption, NEW r \in Requests,
         \/ \E gateway \in Methods!TokenPay, isDefault \in {"yes", "no", "keep"} :
              Methods!BeginExchange(r, gateway, isDefault)
         \/ Methods!BeginWallet(r)
  PROVE  MethodsInv'
<1> DEFINE request(pc, gateway, isDefault) ==
             [op |-> "set", pc |-> pc, gateway |-> gateway, token |-> Methods!NoToken,
              isDefault |-> isDefault, found |-> Methods!NoMethod, flag |-> FALSE]
<1>1. \A pc \in {"exchange", "find"}, gateway \in Methods!TokenPay \cup {"WALLET"},
         isDefault \in {"yes", "no", "keep"} :
        /\ request(pc, gateway, isDefault) \in Methods!Exchange
        /\ request(pc, gateway, isDefault).pc = pc
        /\ request(pc, gateway, isDefault).found = 0
        /\ request(pc, gateway, isDefault).gateway = gateway
  BY DEF Methods!Exchange, Methods!Flags, Methods!NoMethod, Methods!MethodsAssumption
<1>2. ASSUME NEW gateway \in Methods!TokenPay, NEW isDefault \in {"yes", "no", "keep"},
             Methods!BeginExchange(r, gateway, isDefault)
      PROVE  MethodsInv'
  <2>1. gateway # "WALLET"
    BY DEF Methods!TokenPay
  <2>2. Methods!BeginChoice(r, request("exchange", gateway, isDefault))
    BY <1>2 DEF Methods!BeginExchange
  <2> HIDE DEF request
  <2> QED BY <1>1, <2>1, <2>2, BeginChoiceSafe
<1>3. CASE Methods!BeginWallet(r)
  <2>2. Methods!BeginChoice(r, request("find", "WALLET", "yes"))
    BY <1>3 DEF Methods!BeginWallet
  <2> HIDE DEF request
  <2> QED BY <1>1, <2>2, BeginChoiceSafe
<1> QED BY <1>2, <1>3


(* The ids of the methods are the first numbers.                            *)
LEMMA MethodIds ==
  ASSUME Methods!TypeOK, Methods!MethodsAssumption
  PROVE  \E n \in 0..MaxMethods : Rows = 1..n /\ Methods!Cardinality(DOMAIN methods) = n
<1> DEFINE n == Methods!Cardinality(DOMAIN methods)
<1>1. Rows \subseteq 1..MaxMethods /\ Rows = 1..n /\ n = Cardinality(Rows)
  BY SameCardinality DEF Methods!TypeOK, Rows, Methods!Ids
<1>2. IsFiniteSet(1..MaxMethods) /\ Cardinality(1..MaxMethods) = MaxMethods
  <2>1. MaxMethods \in Nat
    BY DEF Methods!MethodsAssumption
  <2> QED BY <2>1, FS_Interval
<1>3. IsFiniteSet(Rows) /\ Cardinality(Rows) <= MaxMethods
  BY <1>1, <1>2, FS_Subset
<1>4. n \in 0..MaxMethods
  BY <1>1, <1>3, FS_CardinalityType DEF Methods!MethodsAssumption
<1> QED BY <1>1, <1>4

LEMMA CardinalityOfIds ==
  ASSUME NEW n \in Nat
  PROVE  Methods!Cardinality(1..n) = n
BY SameCardinality, FS_Interval

(* updateMany leaves no default.                                            *)
LEMMA ClearDefaultsSafe ==
  ASSUME MethodsInv, NEW r \in Requests, Methods!ClearDefaults(r)
  PROVE  MethodsInv'
<1> DEFINE g == [methodReq[r] EXCEPT !.pc = "save"]
<1>1. /\ methodReq[r] \in Methods!Exchange /\ methodReq[r].pc = "clear"
      /\ methodReq[r].op = "set" /\ UNCHANGED <<chosen, cutOff>> /\ Methods!Goto(r, g)
  BY MethodSlot DEF MethodsInv, Methods!ClearDefaults, Methods!At
<1>2. /\ g \in Methods!Exchange /\ g.op = "set" /\ g.pc = "save"
      /\ g.found = methodReq[r].found /\ g.gateway = methodReq[r].gateway
      /\ g.token = methodReq[r].token /\ g.isDefault = methodReq[r].isDefault
  BY <1>1 DEF Methods!Exchange
<1> HIDE DEF g
<1>3. /\ methodReq' \in [Requests -> {Methods!Idle} \cup Methods!Exchange \cup Methods!Lookup]
      /\ methodReq'[r] = g
      /\ \A q \in Requests \ {r} : methodReq'[q] = methodReq[q]
  BY <1>1, <1>2, MethodMoves DEF MethodsInv
<1>4. methodReq[r].isDefault = "yes"
  BY <1>1 DEF MethodsInv, ChoiceKnows
<1>5. /\ Rows' = Rows
      /\ \A i \in Rows : /\ methods'[i] \in Methods!Method
                         /\ methods'[i].gateway = methods[i].gateway
                         /\ methods'[i].token = methods[i].token
                         /\ methods'[i].isDefault = FALSE
  <2>1. methods' = [i \in DOMAIN methods |-> [methods[i] EXCEPT !.isDefault = FALSE]]
    BY DEF Methods!ClearDefaults
  <2>2. \A i \in Rows : methods[i] \in Methods!Method
    BY DEF MethodsInv, Methods!TypeOK, Rows
  <2>3. Rows' = Rows /\ \A i \in Rows : methods'[i] = [methods[i] EXCEPT !.isDefault = FALSE]
    BY <2>1 DEF Rows
  <2>4. ASSUME NEW i \in Rows
        PROVE  /\ methods'[i] \in Methods!Method
               /\ methods'[i].gateway = methods[i].gateway
               /\ methods'[i].token = methods[i].token
               /\ methods'[i].isDefault = FALSE
    BY <2>2, <2>3 DEF Methods!Method
  <2> QED BY <2>3, <2>4
<1>6. Methods!TypeOK'
  BY <1>1, <1>3, <1>5 DEF MethodsInv, Methods!TypeOK, Rows
<1>7. FoundIsThere'
  BY <1>1, <1>2, <1>3, <1>5 DEF MethodsInv, FoundIsThere
<1>8. \A q \in Requests : methodReq'[q].op = "set" => ChoiceKnows(q)'
  BY <1>1, <1>2, <1>3 DEF MethodsInv, ChoiceKnows
<1>9. ASSUME ~cutOff
      PROVE  ChoicesKnow'
  <2>1. ChoicesKnow
    BY <1>9 DEF MethodsInv
  <2>2. \A p, q \in Requests : methodReq'[p].op = "set" /\ methodReq'[q].op = "set" => p = q
    BY <1>1, <1>2, <1>3, <2>1 DEF ChoicesKnow
  <2>3. ChoiceIsCurrent(r)'
    <3>1. ChoiceIsCurrent(r)
      BY <1>1, <2>1 DEF ChoicesKnow
    <3>2. methodReq[r].found = 0 \/ methodReq[r].found \in Rows
      BY <1>1 DEF MethodsInv, FoundIsThere
    <3> QED BY <1>1, <1>2, <1>3, <1>4, <1>5, <3>1, <3>2 DEF ChoiceIsCurrent
  <2>4. \A q \in Requests : methodReq'[q].op = "set" => ChoiceIsCurrent(q)'
    <3>1. \A q \in Requests : methodReq'[q].op = "set" => q = r
      BY <1>2, <1>3, <2>2
    <3> QED BY <2>3, <3>1
  <2>5. DefaultRows' = {} /\ Cleared(r)'
    BY <1>2, <1>3, <1>4, <1>5 DEF DefaultRows, Cleared
  <2>6. OneMethodEach'
    BY <1>5, <2>1 DEF ChoicesKnow, OneMethodEach
  <2>7. \A q \in Requests : methodReq'[q].op = "lookup" => LookupIsCurrent(q)'
    <3>1. \A q \in Requests : methodReq[q].op = "lookup" => ~methodReq[q].steady
      BY <1>1, <2>1 DEF ChoicesKnow, LookupIsCurrent
    <3>2. \A q \in Requests : methodReq'[q].op = "lookup" => ~methodReq'[q].steady
      BY <1>2, <1>3, <3>1
    <3> QED BY <3>2 DEF LookupIsCurrent
  <2> QED BY <2>2, <2>4, <2>5, <2>6, <2>7 DEF ChoicesKnow
<1> QED BY <1>1, <1>6, <1>7, <1>8, <1>9 DEF MethodsInv

(* The save of a choice: the end of it, and what it has written.            *)
LEMMA SaveEnds ==
  ASSUME MethodsInv, NEW r \in Requests,
         methodReq[r].op = "set", Methods!Goto(r, Methods!Idle), cutOff' = cutOff,
         Rows \subseteq Rows', chosen' \in Rows' \cup {0}, Methods!TypeOK',
         ~cutOff => DefaultRows' = NewDefault' /\ OneMethodEach'
  PROVE  MethodsInv'
<1>1. /\ methodReq'[r] = Methods!Idle
      /\ \A q \in Requests \ {r} : methodReq'[q] = methodReq[q]
  BY MethodMoves DEF MethodsInv
<1>2. FoundIsThere'
  BY <1>1, IdleMethodSlot DEF MethodsInv, FoundIsThere
<1>3. \A q \in Requests : methodReq'[q].op = "set" => ChoiceKnows(q)'
  BY <1>1, IdleMethodSlot DEF MethodsInv, ChoiceKnows
<1>4. ASSUME ~cutOff
      PROVE  ChoicesKnow'
  <2>1. ChoicesKnow
    BY <1>4 DEF MethodsInv
  <2>2. \A q \in Requests : methodReq'[q].op # "set"
    BY <1>1, <2>1, IdleMethodSlot DEF ChoicesKnow
  <2>3. \A q \in Requests : ~Cleared(q)'
    BY <2>2 DEF Cleared
  <2>4. \A q \in Requests : methodReq'[q].op = "lookup" => LookupIsCurrent(q)'
    <3>1. \A q \in Requests : methodReq[q].op = "lookup" => ~methodReq[q].steady
      BY <2>1 DEF ChoicesKnow, LookupIsCurrent
    <3>2. \A q \in Requests : methodReq'[q].op = "lookup" => ~methodReq'[q].steady
      BY <1>1, <3>1, IdleMethodSlot
    <3> QED BY <3>2 DEF LookupIsCurrent
  <2> QED BY <1>4, <2>2, <2>3, <2>4 DEF ChoicesKnow
<1> QED BY <1>2, <1>3, <1>4 DEF MethodsInv

(* No other choice has cleared the defaults when one is saved.              *)
LEMMA DefaultsAtSave ==
  ASSUME MethodsInv, ~cutOff, NEW r \in Requests,
         methodReq[r].op = "set", methodReq[r].pc = "save"
  PROVE  /\ methodReq[r].isDefault = "yes" => DefaultRows = {}
         /\ methodReq[r].isDefault # "yes" => DefaultRows = NewDefault
         /\ ChoiceIsCurrent(r) /\ OneMethodEach
<1>1. ChoicesKnow
  BY DEF MethodsInv
<1>2. \A q \in Requests \ {r} : ~Cleared(q)
  BY <1>1 DEF ChoicesKnow, Cleared
<1> HIDE DEF DefaultRows, NewDefault
<1>3. methodReq[r].isDefault = "yes" => DefaultRows = {}
  BY <1>1 DEF ChoicesKnow, Cleared
<1>4. methodReq[r].isDefault # "yes" => DefaultRows = NewDefault
  BY <1>1, <1>2 DEF ChoicesKnow, Cleared
<1> QED BY <1>1, <1>3, <1>4 DEF ChoicesKnow


(* The create of a method that was not found.                               *)
LEMMA CreateMethodSafe ==
  ASSUME MethodsInv, Methods!MethodsAssumption, NEW r \in Requests, Methods!Save(r),
         methodReq[r].op = "set", methodReq[r].found = 0
  PROVE  MethodsInv'
<1>1. PICK n \in 0..MaxMethods : Rows = 1..n /\ Methods!Cardinality(DOMAIN methods) = n
  BY MethodIds DEF MethodsInv
<1>2. /\ methodReq[r] \in Methods!Exchange /\ methodReq[r].pc = "save"
      /\ Methods!Goto(r, Methods!Idle) /\ cutOff' = cutOff
  BY MethodSlot DEF MethodsInv, Methods!Save, Methods!At, Methods!End
<1> DEFINE row == [gateway |-> methodReq[r].gateway, token |-> methodReq[r].token,
                   isDefault |-> methodReq[r].isDefault = "yes"]
           new == n + 1
<1>3. /\ new <= MaxMethods
      /\ methods' = [k \in 1..new |-> IF k < new THEN methods[k] ELSE row]
      /\ chosen' = IF methodReq[r].isDefault = "yes" THEN new ELSE chosen
  BY <1>1 DEF Methods!Save, Methods!NoMethod
<1>4. row \in Methods!Method /\ row.gateway = methodReq[r].gateway
      /\ row.token = methodReq[r].token
      /\ row.isDefault = (methodReq[r].isDefault = "yes")
  BY <1>2 DEF Methods!Exchange, Methods!Method, Methods!Gateways, Methods!TokenPay
<1> HIDE DEF row
<1>5. n \in Nat /\ MaxMethods \in Nat /\ new \in Rows' /\ new \notin Rows /\ new # 0
  BY <1>1, <1>3 DEF Rows, Methods!MethodsAssumption
<1>6. /\ Rows' = Rows \cup {new}
      /\ methods'[new] = row
      /\ \A k \in Rows : methods'[k] = methods[k]
  BY <1>1, <1>3, <1>5 DEF Rows
<1>7. methodReq' \in [Requests -> {Methods!Idle} \cup Methods!Exchange \cup Methods!Lookup]
  BY <1>2, MethodMoves DEF MethodsInv
<1>8. chosen \in Rows \cup {0}
  BY DEF MethodsInv, FoundIsThere
<1>9. Methods!TypeOK'
  <2>1. Rows' = 1..new /\ Methods!Cardinality(1..new) = new
    BY <1>3, <1>5, CardinalityOfIds DEF Rows
  <2>2. \A k \in Rows' : k \in 1..MaxMethods
    BY <1>3, <1>5, <2>1
  <2>3. \A k \in Rows' : methods'[k] \in Methods!Method
    BY <1>4, <1>6 DEF MethodsInv, Methods!TypeOK, Rows
  <2>4. chosen' \in 0..MaxMethods
    BY <1>3, <1>5 DEF MethodsInv, Methods!TypeOK
  <2> QED BY <1>2, <1>7, <2>1, <2>2, <2>3, <2>4
          DEF MethodsInv, Methods!TypeOK, Rows, Methods!Ids
<1> HIDE DEF new
<1>10. chosen' \in Rows' \cup {0}
  BY <1>3, <1>6, <1>8
<1>11. ASSUME ~cutOff
       PROVE  DefaultRows' = NewDefault' /\ OneMethodEach'
  <2>1. /\ methodReq[r].isDefault = "yes" => DefaultRows = {}
        /\ methodReq[r].isDefault # "yes" => DefaultRows = NewDefault
        /\ ChoiceIsCurrent(r) /\ OneMethodEach
    BY <1>2, <1>11, DefaultsAtSave
  <2>2. \A i \in Rows : ~(methods[i].gateway = methodReq[r].gateway
                           /\ methods[i].token = methodReq[r].token)
    BY <1>2, <2>1 DEF ChoiceIsCurrent
  <2>3. DefaultRows' = IF methodReq[r].isDefault = "yes" THEN DefaultRows \cup {new}
                       ELSE DefaultRows
    BY <1>4, <1>5, <1>6 DEF DefaultRows
  <2>4. DefaultRows' = NewDefault'
    BY <1>3, <1>5, <2>1, <2>3 DEF NewDefault
  <2>5. OneMethodEach'
    <3> HIDE DEF Rows
    <3> QED BY <1>4, <1>6, <2>1, <2>2 DEF OneMethodEach
  <2> QED BY <2>4, <2>5
<1> QED BY <1>2, <1>6, <1>9, <1>10, <1>11, SaveEnds

(* The update of the method that was found.                                 *)
LEMMA UpdateMethodSafe ==
  ASSUME MethodsInv, Methods!MethodsAssumption, NEW r \in Requests, Methods!Save(r),
         methodReq[r].op = "set", methodReq[r].found # 0
  PROVE  MethodsInv'
<1> DEFINE i == methodReq[r].found
           flag == IF methodReq[r].isDefault = "keep" THEN methodReq[r].flag
                   ELSE methodReq[r].isDefault = "yes"
<1>1. /\ methodReq[r] \in Methods!Exchange /\ methodReq[r].pc = "save"
      /\ Methods!Goto(r, Methods!Idle) /\ cutOff' = cutOff
      /\ methodReq[r].isDefault \in {"yes", "no", "keep"} /\ flag \in BOOLEAN
  BY MethodSlot DEF MethodsInv, Methods!Save, Methods!At, Methods!End, Methods!Exchange,
     Methods!Flags
<1>2. /\ methods' = [methods EXCEPT ![i].isDefault = flag]
      /\ chosen' = CASE methodReq[r].isDefault = "yes" -> i
                     [] methodReq[r].isDefault = "no" /\ i = chosen -> Methods!NoMethod
                     [] OTHER -> chosen
  BY DEF Methods!Save, Methods!NoMethod
<1>3. i \in Rows /\ chosen \in Rows \cup {0} /\ i # 0
  BY DEF MethodsInv, FoundIsThere
<1>4. chosen' = IF methodReq[r].isDefault = "yes" THEN i
                ELSE IF methodReq[r].isDefault = "no" /\ i = chosen THEN 0 ELSE chosen
  BY <1>1, <1>2 DEF Methods!NoMethod
<1> HIDE DEF flag
<1>5. /\ Rows' = Rows
      /\ methods'[i] = [methods[i] EXCEPT !.isDefault = flag]
      /\ \A k \in Rows \ {i} : methods'[k] = methods[k]
  BY <1>2, <1>3 DEF Rows
<1>6. \A k \in Rows : methods[k] \in Methods!Method
  BY DEF MethodsInv, Methods!TypeOK, Rows
<1>7. /\ methods'[i] \in Methods!Method /\ methods'[i].gateway = methods[i].gateway
      /\ methods'[i].token = methods[i].token /\ methods'[i].isDefault = flag
  BY <1>1, <1>3, <1>5, <1>6 DEF Methods!Method
<1>8. methodReq' \in [Requests -> {Methods!Idle} \cup Methods!Exchange \cup Methods!Lookup]
  BY <1>1, MethodMoves DEF MethodsInv
<1>9. chosen' \in Rows' \cup {0}
  BY <1>3, <1>4, <1>5
<1>10. Methods!TypeOK'
  <2>1. i \in 0..MaxMethods /\ chosen \in 0..MaxMethods /\ 0 \in 0..MaxMethods
    BY <1>1 DEF MethodsInv, Methods!TypeOK, Methods!Exchange, Methods!MethodsAssumption
  <2>2. chosen' \in 0..MaxMethods
    BY <1>4, <2>1
  <2>3. \A k \in Rows' : methods'[k] \in Methods!Method
    BY <1>5, <1>6, <1>7
  <2> QED BY <1>1, <1>5, <1>8, <2>2, <2>3 DEF MethodsInv, Methods!TypeOK, Rows
<1> HIDE DEF i
<1>11. ASSUME ~cutOff
       PROVE  DefaultRows' = NewDefault' /\ OneMethodEach'
  <2>1. /\ methodReq[r].isDefault = "yes" => DefaultRows = {}
        /\ methodReq[r].isDefault # "yes" => DefaultRows = NewDefault
        /\ ChoiceIsCurrent(r) /\ OneMethodEach
    BY <1>1, <1>11, DefaultsAtSave
  <2>2. methodReq[r].isDefault = "keep" => flag = methods[i].isDefault
    BY <1>1, <1>3, <2>1 DEF ChoiceIsCurrent, i, flag
  <2>3. methodReq[r].isDefault = "yes" => flag = TRUE
    BY DEF flag
  <2>4. methodReq[r].isDefault = "no" => flag = FALSE
    BY DEF flag
  <2>5. DefaultRows' = {k \in Rows : IF k = i THEN flag ELSE methods[k].isDefault}
    BY <1>3, <1>5, <1>7 DEF DefaultRows
  <2>6. DefaultRows' = NewDefault'
    <3>1. CASE methodReq[r].isDefault = "yes"
      BY <1>3, <1>4, <2>1, <2>3, <2>5, <3>1 DEF NewDefault, DefaultRows
    <3>2. CASE methodReq[r].isDefault = "no"
      BY <1>3, <1>4, <2>1, <2>4, <2>5, <3>2 DEF NewDefault, DefaultRows
    <3>3. CASE methodReq[r].isDefault = "keep"
      BY <1>3, <1>4, <2>1, <2>2, <2>5, <3>3 DEF NewDefault, DefaultRows
    <3> QED BY <1>1, <3>1, <3>2, <3>3
  <2>7. \A k \in Rows : methods'[k].gateway = methods[k].gateway
                         /\ methods'[k].token = methods[k].token
    BY <1>5, <1>7
  <2>8. OneMethodEach'
    <3> HIDE DEF Rows
    <3> QED BY <1>5, <2>1, <2>7 DEF OneMethodEach
  <2> QED BY <2>6, <2>8
<1> QED BY <1>1, <1>5, <1>9, <1>10, <1>11, SaveEnds

LEMMA MethodsNext ==
  ASSUME MethodsInv, Methods!MethodsAssumption, [Methods!Next]_methodVars
  PROVE  MethodsInv'
<1>1. CASE UNCHANGED methodVars
  BY <1>1 DEF methodVars, MethodsInv, Methods!TypeOK, FoundIsThere, ChoiceKnows, ChoicesKnow,
     ChoiceIsCurrent, Cleared, DefaultRows, NewDefault, Rows, OneMethodEach,
     LookupIsCurrent, ChosenFits
<1>2. ASSUME NEW r \in Requests,
             \/ \E gateway \in Methods!TokenPay, isDefault \in {"yes", "no", "keep"} :
                  Methods!BeginExchange(r, gateway, isDefault)
             \/ Methods!BeginWallet(r)
             \/ \E gateways \in {Methods!Supported, {"IDRAM"}} :
                  Methods!BeginLookup(r, gateways)
             \/ Methods!FindDefault(r) \/ Methods!FindOldest(r)
             \/ Methods!UseMethod(r) \/ Methods!Abort(r)
      PROVE  MethodsInv'
  <2>1. {Methods!Supported, {"IDRAM"}} \subseteq SUBSET Methods!Supported
    BY DEF Methods!Supported, Methods!Gateways
  <2> QED BY <1>2, <2>1, BeginChoicesSafe, BeginLookupSafe, LookupStepsSafe,
             EndMethodRequestSafe
<1>3. ASSUME NEW r \in Requests, Methods!ExchangeToken(r) \/ Methods!SetWallet(r)
      PROVE  MethodsInv'
  <2>1. methodReq[r].op = "set"
    BY <1>3 DEF Methods!ExchangeToken, Methods!SetWallet
  <2>2. CASE Methods!AnswerExchange(r)
    BY <2>2, AnswerExchangeSafe
  <2>3. CASE Methods!FindExisting(r)
    BY <2>3, FindExistingSafe
  <2>4. CASE Methods!ClearDefaults(r)
    BY <2>4, ClearDefaultsSafe
  <2>5. CASE Methods!Save(r)
    BY <2>1, <2>5, CreateMethodSafe, UpdateMethodSafe
  <2> QED BY <1>3, <2>2, <2>3, <2>4, <2>5 DEF Methods!ExchangeToken, Methods!SetWallet
<1> QED BY <1>1, <1>2, <1>3 DEF Methods!Next

LEMMA MethodsInit ==
  ASSUME Methods!Init, Methods!MethodsAssumption
  PROVE  MethodsInv
<1>1. /\ DOMAIN Seeded = {1} /\ Seeded[1] = "IDRAM"
      /\ \A r \in Requests : methodReq[r].op = "idle"
  BY IdleMethodSlot DEF Methods!Init, Seeded
<1>2. /\ Rows = {1} /\ chosen = 1 /\ cutOff = FALSE
      /\ methods[1] = [gateway |-> "IDRAM", token |-> Methods!NoToken, isDefault |-> TRUE]
  BY <1>1 DEF Methods!Init, Rows
<1>3. Methods!Cardinality({1}) = 1 /\ {1} = 1..1
  <2>1. {1} = 1..1
    OBVIOUS
  <2> QED BY <2>1, CardinalityOfIds
<1>4. 1 <= MaxMethods /\ MaxMethods \in Nat
  BY <1>1, <1>3 DEF Methods!MethodsAssumption
<1>5. Methods!TypeOK
  <2>1. methods[1] \in Methods!Method
    BY <1>2 DEF Methods!Method, Methods!Gateways
  <2>2. DOMAIN methods = {1} /\ DOMAIN methods = 1..Methods!Cardinality(DOMAIN methods)
    BY <1>2, <1>3 DEF Rows
  <2>3. \A i \in DOMAIN methods : i \in Methods!Ids /\ methods[i] \in Methods!Method
    BY <1>4, <2>1, <2>2 DEF Methods!Ids
  <2>4. methodReq \in [Requests -> {Methods!Idle} \cup Methods!Exchange \cup Methods!Lookup]
    BY DEF Methods!Init
  <2>5. chosen \in 0..MaxMethods
    BY <1>2, <1>4
  <2>6. cutOff \in BOOLEAN
    BY <1>2
  <2> QED BY <2>2, <2>3, <2>4, <2>5, <2>6 DEF Methods!TypeOK
<1>6. FoundIsThere /\ \A r \in Requests : methodReq[r].op = "set" => ChoiceKnows(r)
  BY <1>1, <1>2 DEF FoundIsThere
<1>7. DefaultRows = NewDefault /\ OneMethodEach
  BY <1>2 DEF DefaultRows, NewDefault, OneMethodEach
<1>8. ChoicesKnow
  BY <1>1, <1>7 DEF ChoicesKnow, Cleared
<1> QED BY <1>5, <1>6, <1>8 DEF MethodsInv

LEMMA ChoicesKeptBecause ==
  MethodsInv => Methods!DefaultIsTheChoice /\ Methods!ChargesTheChoice
<1> SUFFICES ASSUME MethodsInv
             PROVE  Methods!DefaultIsTheChoice /\ Methods!ChargesTheChoice
  OBVIOUS
<1>1. ASSUME ~cutOff
      PROVE  /\ DefaultRows \in {NewDefault, {}}
             /\ (\A r \in Requests : ~Methods!At(r, "set", "save")) =>
                  DefaultRows = NewDefault
             /\ OneMethodEach
  <2>1. ChoicesKnow
    BY <1>1 DEF MethodsInv
  <2>2. \A r \in Requests : Cleared(r) => Methods!At(r, "set", "save")
    BY DEF Cleared, Methods!At
  <2> HIDE DEF DefaultRows, NewDefault
  <2> QED BY <2>1, <2>2 DEF ChoicesKnow
<1>2. Methods!DefaultIsTheChoice
  BY <1>1 DEF Methods!DefaultIsTheChoice, DefaultRows, NewDefault, OneMethodEach, Rows,
     Methods!NoMethod, Methods!TokenPay
<1>3. Methods!ChargesTheChoice
  <2>1. SUFFICES ASSUME NEW r \in Requests, Methods!At(r, "lookup", "found"),
                        methodReq[r].steady, ~cutOff,
                        chosen \in Methods!Candidates(methodReq[r].gateways)
                 PROVE  methodReq[r].found = chosen
    BY DEF Methods!ChargesTheChoice
  <2>2. LookupIsCurrent(r) /\ methodReq[r].pc = "found"
    BY <2>1 DEF MethodsInv, ChoicesKnow, Methods!At
  <2>3. ChosenFits(methodReq[r].gateways)
    BY <2>1 DEF ChosenFits, Methods!Candidates, Rows
  <2> QED BY <2>1, <2>2, <2>3 DEF LookupIsCurrent
<1> QED BY <1>2, <1>3

(* While choices neither overlap nor are cut off, the default is the method *)
(* that was chosen last, a token has one method, and a session that starts  *)
(* between choices is charged with the chosen one (payments.service.ts).    *)
THEOREM ChoicesStayKept ==
  Spec => []ChoicesAreKept
<1> DEFINE Inv == part = "methods" => MethodsInv
<1>1. Init => Inv
  BY ServicesAssumptions, MethodsInit DEF Init
<1>2. Inv /\ [Next]_vars => Inv'
  <2>1. SUFFICES ASSUME Inv, [Next]_vars, part' = "methods"
                 PROVE  MethodsInv'
    OBVIOUS
  <2>2. part = "methods" /\ [Methods!Next]_methodVars
    BY <2>1, PartStep
  <2> QED BY <2>1, <2>2, ServicesAssumptions, MethodsNext
<1>3. Inv => ChoicesAreKept
  BY ChoicesKeptBecause DEF ChoicesAreKept
<1> QED BY <1>1, <1>2, <1>3, PTL DEF Spec

-----------------------------------------------------------------------------
(* Calls of the app                                                        *)

(* What a call has been told, and whether it was performed: by a user who   *)
(* is signed in, if it was not refused.                                     *)
CallKnows(c) ==
  /\ calls[c].pc \in {"token", "fetch"} => calls[c].status = 0 /\ ~calls[c].acted
  /\ calls[c].pc \in {"body", "respond"} =>
       /\ calls[c].status # 0
       /\ calls[c].acted <=> calls[c].status = 200
       /\ calls[c].status # 401 => calls[c].user # "nobody"
  /\ calls[c].pc = "respond" => calls[c].status = 200

(* Versions only grow; an entry, and an answer on its way to be one, is not *)
(* older than the last invalidation, unless an answer was on its way then.  *)
VersionsKnow ==
  /\ \A k \in Resources : floor[k] <= server[k]
  /\ \A c \in Api!OnTheirWay :
       calls[c].resource \notin raced => calls[c].version >= floor[calls[c].resource]
  /\ \A k \in Resources \ raced : cache[k] # Api!Missing => cache[k].version >= floor[k]

(* An entry is of the user who is signed in, unless that has changed.       *)
OwnersKnown ==
  \A k \in Resources \ strangers : cache[k] # Api!Missing => cache[k].user = signedIn

ApiInv ==
  /\ Api!TypeOK /\ Api!OutcomeIsTrue
  /\ \A c \in Requests : calls[c] # Api!Idle => CallKnows(c)
  /\ VersionsKnow /\ OwnersKnown

(* What the slot of a call holds.                                           *)
LEMMA CallSlot ==
  ASSUME Api!TypeOK, NEW c \in Requests
  PROVE  /\ calls[c].pc \in {"idle", "token", "fetch", "body", "respond"}
         /\ calls[c].pc = "idle" <=> calls[c] = Api!Idle
         /\ calls[c].pc # "idle" => calls[c] \in Api!Call
BY DEF Api!TypeOK, Api!Idle, Api!Call

LEMMA IdleCall == Api!Idle.pc = "idle"
BY DEF Api!Idle

(* One call is written and the others stay.                                 *)
LEMMA CallMoves ==
  ASSUME Api!TypeOK, NEW c \in Requests, NEW g \in {Api!Idle} \cup Api!Call,
         calls' = [calls EXCEPT ![c] = g]
  PROVE  /\ calls' \in [Requests -> {Api!Idle} \cup Api!Call]
         /\ calls'[c] = g
         /\ \A d \in Requests \ {c} : calls'[d] = calls[d]
BY DEF Api!TypeOK

(* No entry is what is missing.                                             *)
LEMMA MissingIsNoEntry ==
  \A e \in Api!Entry : e # Api!Missing
BY DEF Api!Entry, Api!Missing, Api!Versions

(* A step of c of which the cache hears nothing: the call goes on with what *)
(* it knows and no older than the last invalidation, or it ends with what   *)
(* is true.                                                                 *)
LEMMA CallStep ==
  ASSUME ApiInv, NEW c \in Requests, NEW g \in {Api!Idle} \cup Api!Call,
         calls' = [calls EXCEPT ![c] = g],
         UNCHANGED <<signedIn, clock, cache, floor, raced, strangers>>,
         server' \in [Resources -> Api!Versions],
         \A k \in Resources : server[k] <= server'[k],
         ended' \in Api!Outcome, Api!OutcomeIsTrue',
         g # Api!Idle => CallKnows(c)',
         g.pc \in {"body", "respond"} /\ g.method = "GET" /\ g.resource \notin raced =>
           g.version >= floor[g.resource]
  PROVE  ApiInv'
<1>1. /\ calls' \in [Requests -> {Api!Idle} \cup Api!Call]
      /\ calls'[c] = g
      /\ \A d \in Requests \ {c} : calls'[d] = calls[d]
  BY CallMoves DEF ApiInv
<1>2. Api!TypeOK'
  BY <1>1 DEF ApiInv, Api!TypeOK
<1>3. \A d \in Requests : calls'[d] # Api!Idle => CallKnows(d)'
  BY <1>1 DEF ApiInv, CallKnows
<1>4. VersionsKnow'
  <2>1. \A k \in Resources : floor[k] <= server'[k]
    <3>1. \A k \in Resources : floor[k] \in Int /\ server[k] \in Int /\ server'[k] \in Int
      BY DEF ApiInv, Api!TypeOK, Api!Versions
    <3> QED BY <3>1 DEF ApiInv, VersionsKnow
  <2>2. ASSUME NEW d \in Requests, calls'[d].pc \in {"body", "respond"},
               calls'[d].method = "GET", calls'[d].resource \notin raced
        PROVE  calls'[d].version >= floor[calls'[d].resource]
    BY <1>1, <2>2 DEF ApiInv, VersionsKnow, Api!OnTheirWay
  <2> QED BY <2>1, <2>2 DEF ApiInv, VersionsKnow, Api!OnTheirWay, Api!Missing
<1>5. OwnersKnown'
  BY DEF ApiInv, OwnersKnown, Api!Missing
<1> QED BY <1>2, <1>3, <1>4, <1>5 DEF ApiInv

(* A call that begins.                                                      *)
LEMMA BeginCallSafe ==
  ASSUME ApiInv, Api!CallsAssumption, NEW c \in Requests, NEW method \in {"GET", "PATCH"},
         NEW k \in Resources, Api!Begin(c, method, k)
  PROVE  ApiInv'
<1> DEFINE g == [pc |-> "token", method |-> method, resource |-> k, user |-> Api!Nobody,
                 status |-> 0, version |-> 0, acted |-> FALSE]
<1>1. /\ g \in Api!Call /\ g.pc = "token" /\ g.status = 0 /\ g.acted = FALSE
  BY DEF Api!Call, Api!Nobody, Api!Versions, Api!CallsAssumption
<1>2. /\ calls' = [calls EXCEPT ![c] = g]
      /\ UNCHANGED <<server, signedIn, clock, cache, ended, floor, raced, strangers>>
  BY DEF Api!Begin, Api!history
<1> HIDE DEF g
<1>3. calls'[c] = g
  BY <1>1, <1>2, CallMoves DEF ApiInv
<1>4. CallKnows(c)'
  BY <1>1, <1>3 DEF CallKnows
<1>5. /\ server' \in [Resources -> Api!Versions] /\ \A j \in Resources : server[j] <= server'[j]
      /\ ended' \in Api!Outcome /\ Api!OutcomeIsTrue'
  BY <1>2 DEF ApiInv, Api!TypeOK, Api!OutcomeIsTrue, Api!Versions
<1> QED BY <1>1, <1>2, <1>4, <1>5, CallStep

(* What mapToApiClientError makes of a call is true.                        *)
LEMMA ErrorsAreTrue ==
  ASSUME ApiInv, NEW c \in Requests, calls[c] # Api!Idle,
         NEW code \in {"HTTP_ERROR", "NETWORK_ERROR", "PARSING_ERROR"},
         NEW status \in {0, 200, 401, 500},
         code = "HTTP_ERROR" => status = calls[c].status /\ status # 200
                                /\ calls[c].pc \in {"body", "respond"},
         code = "PARSING_ERROR" => status = calls[c].status,
         code = "NETWORK_ERROR" => status = 0,
         ended' = Api!ErrorOf(calls[c], code, status)
  PROVE  ended' \in Api!Outcome /\ Api!OutcomeIsTrue'
<1>1. calls[c] \in Api!Call /\ CallKnows(c)
  BY CallSlot, IdleCall DEF ApiInv
<1>2. calls[c].status \in {0, 200, 401, 500} /\ calls[c].acted \in BOOLEAN
  BY <1>1 DEF Api!Call
<1>3. /\ ended'.code = code /\ ended'.status = status /\ ended'.answered = calls[c].status
      /\ ended'.acted = calls[c].acted
  BY DEF Api!ErrorOf
<1>4. ended' \in Api!Outcome
  BY <1>2 DEF Api!Outcome, Api!ErrorOf
<1>5. code = "HTTP_ERROR" => calls[c].acted = FALSE
  BY <1>1, <1>2 DEF CallKnows
<1>6. ended'.unauthorized <=> status = 401
  BY DEF Api!ErrorOf
<1>7. Api!OutcomeIsTrue'
  <2>1. ended'.code = "HTTP_ERROR" => ~ended'.acted
    BY <1>2, <1>3, <1>5
  <2>2. ended'.code # "OK" /\ (ended'.code = "HTTP_ERROR" => ended'.status = ended'.answered)
    BY <1>3
  <2>3. status = 401 => calls[c].status = 401
    BY <1>3
  <2>4. calls[c].status = 401 /\ code # "NETWORK_ERROR" => status = 401
    BY <1>3
  <2> QED BY <1>3, <1>6, <2>1, <2>2, <2>3, <2>4 DEF Api!OutcomeIsTrue
<1> QED BY <1>4, <1>7

(* The fields of a call that a step writes.                                 *)
LEMMA CallGoesOn ==
  ASSUME NEW call \in Api!Call, NEW user \in AppUsers \cup {Api!Nobody}
  PROVE  [call EXCEPT !.pc = "fetch", !.user = user] \in Api!Call
<1> DEFINE a == [call EXCEPT !.pc = "fetch"]
           b == [a EXCEPT !.user = user]
<1>1. b \in Api!Call
  <2>1. a \in Api!Call
    BY DEF Api!Call
  <2> HIDE DEF a
  <2> QED BY <2>1 DEF Api!Call
<1> QED BY <1>1

(* createAuthInterceptor adds the token of whoever is signed in.            *)
LEMMA AddTokenSafe ==
  ASSUME ApiInv, NEW c \in Requests, Api!AddToken(c)
  PROVE  ApiInv'
<1>1. /\ calls[c] # Api!Idle /\ calls[c] \in Api!Call /\ CallKnows(c)
      /\ calls[c].pc = "token"
      /\ UNCHANGED <<server, signedIn, clock, cache, floor, raced, strangers>>
  BY CallSlot, IdleCall DEF ApiInv, Api!AddToken, Api!history
<1>2. /\ server' \in [Resources -> Api!Versions] /\ \A j \in Resources : server[j] <= server'[j]
  BY <1>1 DEF ApiInv, Api!TypeOK, Api!Versions
<1> DEFINE g == [calls[c] EXCEPT !.pc = "fetch", !.user = signedIn]
<1>3. CASE calls' = [calls EXCEPT ![c] = g] /\ UNCHANGED ended
  <2>0. signedIn \in AppUsers \cup {Api!Nobody}
    BY DEF ApiInv, Api!TypeOK
  <2>1. /\ g \in Api!Call /\ g.pc = "fetch" /\ g.status = calls[c].status
        /\ g.acted <=> calls[c].acted
    <3>1. g \in Api!Call
      BY <1>1, <2>0, CallGoesOn
    <3>2. g.pc = "fetch" /\ g.status = calls[c].status
      BY <1>1 DEF Api!Call
    <3>3. g.acted <=> calls[c].acted
      BY <1>1 DEF Api!Call
    <3> QED BY <3>1, <3>2, <3>3
  <2> HIDE DEF g
  <2>2. calls'[c] = g
    BY <1>3, <2>1, CallMoves DEF ApiInv
  <2>3. CallKnows(c)'
    BY <1>1, <2>1, <2>2 DEF CallKnows
  <2>4. ended' \in Api!Outcome /\ Api!OutcomeIsTrue'
    BY <1>3 DEF ApiInv, Api!TypeOK, Api!OutcomeIsTrue
  <2> QED BY <1>1, <1>2, <1>3, <2>1, <2>3, <2>4, CallStep
<1>4. CASE Api!End(c, Api!ErrorOf(calls[c], "NETWORK_ERROR", 0))
  <2>1. ended' \in Api!Outcome /\ Api!OutcomeIsTrue'
    BY <1>1, <1>4, ErrorsAreTrue DEF Api!End
  <2>2. calls' = [calls EXCEPT ![c] = Api!Idle]
    BY <1>4 DEF Api!End
  <2> QED BY <1>1, <1>2, <2>1, <2>2, IdleCall, CallStep
<1>5. calls' = [calls EXCEPT ![c].pc = "fetch", ![c].user = signedIn]
        => calls' = [calls EXCEPT ![c] = g]
  BY DEF ApiInv, Api!TypeOK
<1> QED BY <1>3, <1>4, <1>5 DEF Api!AddToken

(* The body is read, or cannot be.                                          *)
LEMMA ReadBodySafe ==
  ASSUME ApiInv, NEW c \in Requests, Api!ReadBody(c) \/ Api!FailToFetch(c)
  PROVE  ApiInv'
<1>1. /\ calls[c] # Api!Idle /\ calls[c] \in Api!Call /\ CallKnows(c)
      /\ calls[c].pc \in {"fetch", "body"}
      /\ UNCHANGED <<server, signedIn, clock, cache, floor, raced, strangers>>
  BY CallSlot, IdleCall DEF ApiInv, Api!ReadBody, Api!FailToFetch, Api!history
<1>2. /\ server' \in [Resources -> Api!Versions] /\ \A j \in Resources : server[j] <= server'[j]
  BY <1>1 DEF ApiInv, Api!TypeOK, Api!Versions
<1> DEFINE g == [calls[c] EXCEPT !.pc = "respond"]
<1>3. CASE /\ calls' = [calls EXCEPT ![c] = g] /\ UNCHANGED ended
           /\ calls[c].status = 200 /\ calls[c].pc = "body"
  <2>1. /\ g \in Api!Call /\ g.pc = "respond" /\ g.status = calls[c].status
        /\ g.acted <=> calls[c].acted
        /\ g.user = calls[c].user /\ g.method = calls[c].method
        /\ g.resource = calls[c].resource /\ g.version = calls[c].version
    BY <1>1 DEF Api!Call
  <2> HIDE DEF g
  <2>2. calls'[c] = g
    BY <1>3, <2>1, CallMoves DEF ApiInv
  <2>3. CallKnows(c)'
    BY <1>1, <1>3, <2>1, <2>2 DEF CallKnows
  <2>4. ended' \in Api!Outcome /\ Api!OutcomeIsTrue'
    BY <1>3 DEF ApiInv, Api!TypeOK, Api!OutcomeIsTrue
  <2>5. g.method = "GET" /\ g.resource \notin raced => g.version >= floor[g.resource]
    <3>1. calls[c].pc = "body"
      BY <1>3
    <3>2. calls[c].method = "GET" /\ calls[c].resource \notin raced =>
            calls[c].version >= floor[calls[c].resource]
      BY <3>1 DEF ApiInv, VersionsKnow, Api!OnTheirWay
    <3> QED BY <2>1, <3>2
  <2> QED BY <1>1, <1>2, <1>3, <2>1, <2>3, <2>4, <2>5, CallStep
<1>4. ASSUME NEW code \in {"HTTP_ERROR", "NETWORK_ERROR", "PARSING_ERROR"},
             NEW status \in {0, 200, 401, 500},
             code = "HTTP_ERROR" => status = calls[c].status /\ status # 200
                                    /\ calls[c].pc \in {"body", "respond"},
             code = "PARSING_ERROR" => status = calls[c].status,
             code = "NETWORK_ERROR" => status = 0,
             Api!End(c, Api!ErrorOf(calls[c], code, status))
      PROVE  ApiInv'
  <2>1. ended' \in Api!Outcome /\ Api!OutcomeIsTrue'
    BY <1>1, <1>4, ErrorsAreTrue DEF Api!End
  <2>2. calls' = [calls EXCEPT ![c] = Api!Idle]
    BY <1>4 DEF Api!End
  <2> QED BY <1>1, <1>2, <2>1, <2>2, IdleCall, CallStep, ZenonT(30)
<1>5. calls' = [calls EXCEPT ![c].pc = "respond"] => calls' = [calls EXCEPT ![c] = g]
  BY DEF ApiInv, Api!TypeOK
<1>6. calls[c].status \in {0, 200, 401, 500}
  BY <1>1 DEF Api!Call
<1>7. CASE Api!FailToFetch(c)
  BY <1>4, <1>7 DEF Api!FailToFetch
<1>8. CASE Api!ReadBody(c)
  BY <1>3, <1>4, <1>5, <1>6, <1>8 DEF Api!ReadBody
<1> QED BY <1>7, <1>8

(* The server answers a call: what it has done, and what it answers.        *)
LEMMA ServeSafe ==
  ASSUME ApiInv, Api!CallsAssumption, NEW c \in Requests, NEW status \in {200, 401, 500},
         NEW arrives \in BOOLEAN, Api!Serve(c, status, arrives)
  PROVE  ApiInv'
<1> DEFINE call == calls[c]
           k == calls[c].resource
           now == IF status = 200 /\ call.method = "PATCH" THEN server[k] + 1 ELSE server[k]
           g == [call EXCEPT !.pc = "body", !.status = status, !.version = now,
                             !.acted = (status = 200)]
           lost == [g EXCEPT !.status = 0]
<1>1. /\ calls[c] # Api!Idle /\ call \in Api!Call /\ call.pc = "fetch" /\ k \in Resources
      /\ (status = 401) <=> (call.user = Api!Nobody)
      /\ now <= MaxVersion /\ server' = [server EXCEPT ![k] = now]
      /\ UNCHANGED <<signedIn, clock, cache, floor, raced, strangers>>
  BY CallSlot, IdleCall DEF ApiInv, Api!Serve, Api!history, Api!Call
<1>2. \A j \in Resources : server[j] \in Nat /\ server[j] <= MaxVersion /\ floor[j] \in Nat
  BY DEF ApiInv, Api!TypeOK, Api!Versions, Api!CallsAssumption
<1>3. now \in Api!Versions /\ server[k] <= now
  BY <1>1, <1>2 DEF Api!Versions, Api!CallsAssumption
<1> HIDE DEF now
<1>4. /\ g \in Api!Call
      /\ g.pc = "body" /\ g.status = status /\ g.version = now
      /\ g.acted <=> status = 200
      /\ g.user = call.user /\ g.resource = k /\ g.method = call.method
  <2>1. (status = 200) \in BOOLEAN /\ status \in {0, 200, 401, 500}
    OBVIOUS
  <2>2. g \in Api!Call
    <3> DEFINE a == [call EXCEPT !.pc = "body"]
               b == [a EXCEPT !.status = status]
               d == [b EXCEPT !.version = now]
               ok == status = 200
               e == [d EXCEPT !.acted = ok]
    <3>1. call \in Api!Call /\ now \in Api!Versions
      BY <1>1, <1>3
    <3>2. a \in Api!Call
      BY <3>1 DEF Api!Call
    <3>3. b \in Api!Call
      <4> HIDE DEF a
      <4> QED BY <2>1, <3>2 DEF Api!Call
    <3>4. d \in Api!Call
      <4> HIDE DEF b
      <4> QED BY <3>1, <3>3 DEF Api!Call
    <3>5. e \in Api!Call
      <4>1. ok \in BOOLEAN
        OBVIOUS
      <4> HIDE DEF d, ok
      <4> QED BY <3>4, <4>1 DEF Api!Call
    <3> QED BY <3>5
  <2>3. /\ g.pc = "body" /\ g.status = status /\ g.version = now
        /\ g.user = call.user /\ g.resource = k /\ g.method = call.method
    BY <1>1 DEF Api!Call
  <2>4. g.acted <=> status = 200
    BY <1>1 DEF Api!Call
  <2> QED BY <2>2, <2>3, <2>4
<1>5. /\ server' \in [Resources -> Api!Versions]
      /\ \A j \in Resources : server[j] <= server'[j]
  BY <1>1, <1>2, <1>3 DEF ApiInv, Api!TypeOK, Api!Versions
<1>6. IF arrives THEN calls' = [calls EXCEPT ![c] = g] /\ UNCHANGED ended
      ELSE Api!End(c, Api!ErrorOf(lost, "NETWORK_ERROR", 0))
  BY DEF Api!Serve, now
<1>7. floor[k] <= now
  <2>1. floor[k] <= server[k] /\ floor[k] \in Nat /\ server[k] \in Nat /\ now \in Int
    BY <1>1, <1>2, <1>3 DEF ApiInv, VersionsKnow, Api!Versions
  <2> QED BY <1>3, <2>1
<1>8. CASE calls' = [calls EXCEPT ![c] = g] /\ UNCHANGED ended
  <2> HIDE DEF g
  <2>1. calls'[c] = g
    BY <1>4, <1>8, CallMoves DEF ApiInv
  <2>2. CallKnows(c)'
    BY <1>1, <1>4, <2>1 DEF CallKnows, Api!Nobody
  <2>3. ended' \in Api!Outcome /\ Api!OutcomeIsTrue'
    BY <1>8 DEF ApiInv, Api!TypeOK, Api!OutcomeIsTrue
  <2>4. g.version >= floor[g.resource]
    BY <1>1, <1>2, <1>3, <1>4, <1>7 DEF Api!Versions
  <2> QED BY <1>1, <1>4, <1>5, <1>8, <2>2, <2>3, <2>4, CallStep
<1>9. CASE Api!End(c, Api!ErrorOf(lost, "NETWORK_ERROR", 0))
  <2> HIDE DEF g
  <2>1. lost.status = 0 /\ lost.acted \in BOOLEAN
    BY <1>1, <1>4 DEF Api!Call
  <2> HIDE DEF lost
  <2>2. ended' = [code |-> "NETWORK_ERROR", status |-> 0, answered |-> lost.status,
                  unauthorized |-> FALSE, acted |-> lost.acted]
    <3>1. (0 = 401) = FALSE
      OBVIOUS
    <3> QED BY <1>9, <3>1 DEF Api!End, Api!ErrorOf
  <2>3. ended' \in Api!Outcome
    BY <2>1, <2>2 DEF Api!Outcome
  <2>5. Api!OutcomeIsTrue'
    <3>1. ended'.code = "NETWORK_ERROR" /\ ended'.answered = 0 /\ ~ended'.unauthorized
      BY <2>1, <2>2
    <3> QED BY <3>1 DEF Api!OutcomeIsTrue
  <2>4. calls' = [calls EXCEPT ![c] = Api!Idle]
    BY <1>9 DEF Api!End
  <2> QED BY <1>1, <1>5, <2>3, <2>4, <2>5, IdleCall, CallStep
<1> QED BY <1>6, <1>8, <1>9

(* createCacheInterceptor stores an answer, and the call ends.              *)
LEMMA RespondSafe ==
  ASSUME ApiInv, Api!CallsAssumption, NEW c \in Requests, NEW lifetime \in Lifetimes,
         Api!Respond(c, lifetime)
  PROVE  ApiInv'
<1> DEFINE k == calls[c].resource
           entry == [version |-> calls[c].version, user |-> calls[c].user,
                     expiresAt |-> clock + lifetime]
<1>1. /\ calls[c] # Api!Idle /\ calls[c] \in Api!Call /\ calls[c].pc = "respond"
      /\ CallKnows(c)
      /\ UNCHANGED <<server, signedIn, clock, floor, raced>>
  BY CallSlot, IdleCall DEF ApiInv, Api!Respond
<1>2. /\ k \in Resources /\ calls[c].version \in Api!Versions
      /\ calls[c].user \in AppUsers /\ calls[c].acted
  BY <1>1 DEF Api!Call, CallKnows, Api!Nobody
<1>3. entry \in Api!Entry
  <2>1. clock + lifetime \in Nat
    BY DEF ApiInv, Api!TypeOK, Api!CallsAssumption
  <2> QED BY <1>2, <2>1 DEF Api!Entry
<1>4. /\ entry.version = calls[c].version /\ entry.user = calls[c].user
      /\ entry # Api!Missing
  BY <1>3, MissingIsNoEntry
<1> HIDE DEF entry
<1>5. \/ cache' = cache
      \/ /\ cache' = [cache EXCEPT ![k] = entry] /\ calls[c].method = "GET"
  BY DEF Api!Respond, Api!Stored, entry
<1>6. \/ \A j \in Resources : cache'[j] = cache[j]
      \/ /\ cache'[k] = entry /\ calls[c].method = "GET"
         /\ \A j \in Resources \ {k} : cache'[j] = cache[j]
  BY <1>5 DEF ApiInv, Api!TypeOK
<1>7. cache' \in [Resources -> {Api!Missing} \cup Api!Entry]
  BY <1>3, <1>5 DEF ApiInv, Api!TypeOK
<1>8. /\ strangers' \subseteq Resources /\ strangers \subseteq strangers'
      /\ cache' # cache /\ calls[c].user # signedIn => k \in strangers'
  BY <1>2 DEF Api!Respond, ApiInv, Api!TypeOK
<1>9. /\ calls' = [calls EXCEPT ![c] = Api!Idle]
      /\ ended' \in Api!Outcome /\ Api!OutcomeIsTrue'
  <2>1. CASE Api!End(c, Api!ErrorOf(calls[c], "NETWORK_ERROR", 0))
    BY <1>1, <2>1, ErrorsAreTrue DEF Api!End
  <2>2. CASE Api!End(c, [code |-> "OK", status |-> 200, answered |-> 200,
                         unauthorized |-> FALSE, acted |-> calls[c].acted])
    <3>1. calls[c].acted \in BOOLEAN
      BY <1>1 DEF Api!Call
    <3>2. /\ calls' = [calls EXCEPT ![c] = Api!Idle]
          /\ ended' = [code |-> "OK", status |-> 200, answered |-> 200,
                       unauthorized |-> FALSE, acted |-> calls[c].acted]
      BY <2>2 DEF Api!End
    <3>3. ended' \in Api!Outcome
      BY <3>1, <3>2 DEF Api!Outcome
    <3>4. ended'.code = "OK" /\ ended'.answered = 200
      BY <3>2
    <3>5. ended'.acted
      BY <1>2, <3>2
    <3>6. ~ended'.unauthorized
      BY <3>2
    <3>7. Api!OutcomeIsTrue'
      BY <3>4, <3>5, <3>6 DEF Api!OutcomeIsTrue
    <3> QED BY <3>2, <3>3, <3>7
  <2> QED BY <2>1, <2>2 DEF Api!Respond
<1>10. /\ calls' \in [Requests -> {Api!Idle} \cup Api!Call]
       /\ calls'[c] = Api!Idle
       /\ \A d \in Requests \ {c} : calls'[d] = calls[d]
  BY <1>9, CallMoves DEF ApiInv
<1>11. Api!TypeOK'
  BY <1>1, <1>7, <1>8, <1>9, <1>10 DEF ApiInv, Api!TypeOK
<1>12. \A d \in Requests : calls'[d] # Api!Idle => CallKnows(d)'
  BY <1>10 DEF ApiInv, CallKnows
<1>13. VersionsKnow'
  <2>1. \A d \in Requests : calls'[d].pc \in {"body", "respond"} => calls'[d] = calls[d]
    BY <1>10, IdleCall
  <2>2. ASSUME NEW d \in Requests, calls'[d].pc \in {"body", "respond"},
               calls'[d].method = "GET", calls'[d].resource \notin raced
        PROVE  calls'[d].version >= floor[calls'[d].resource]
    BY <2>1, <2>2 DEF ApiInv, VersionsKnow, Api!OnTheirWay
  <2>3. calls[c].method = "GET" /\ k \notin raced => calls[c].version >= floor[k]
    BY <1>1 DEF ApiInv, VersionsKnow, Api!OnTheirWay
  <2>4. \A j \in Resources \ raced : cache'[j] # Api!Missing => cache'[j].version >= floor[j]
    <3>1. \A j \in Resources \ raced : cache[j] # Api!Missing => cache[j].version >= floor[j]
      BY DEF ApiInv, VersionsKnow
    <3> HIDE DEF k
    <3> QED BY <1>4, <1>6, <2>3, <3>1 DEF k
  <2> QED BY <1>1, <2>2, <2>4 DEF ApiInv, VersionsKnow, Api!OnTheirWay, Api!Missing
<1>14. OwnersKnown'
  <2>1. ASSUME NEW j \in Resources \ strangers', cache'[j] # Api!Missing
        PROVE  cache'[j].user = signedIn
    <3>1. CASE cache'[j] = cache[j]
      BY <1>8, <2>1, <3>1 DEF ApiInv, OwnersKnown
    <3>2. CASE cache'[j] # cache[j]
      BY <1>4, <1>6, <1>8, <2>1, <3>2
    <3> QED BY <3>1, <3>2
  <2> QED BY <1>1, <2>1 DEF OwnersKnown, Api!Missing
<1> QED BY <1>9, <1>11, <1>12, <1>13, <1>14 DEF ApiInv

(* An entry that has expired is deleted, time passes, and entries are       *)
(* invalidated: no call hears of it.                                        *)
LEMMA CacheStepsSafe ==
  ASSUME ApiInv, Api!CallsAssumption,
         \/ \E k \in Resources : Api!Expire(k)
         \/ \E resources \in SUBSET Resources \ {{}} : Api!Invalidate(resources)
         \/ \E u \in AppUsers \cup {Api!Nobody} : Api!ChangeSession(u)
         \/ Api!Tick
  PROVE  ApiInv'
<1>1. UNCHANGED <<server, calls, ended>>
  BY DEF Api!Expire, Api!Invalidate, Api!ChangeSession, Api!Tick, Api!history
<1>2. /\ \A c \in Requests : calls'[c] # Api!Idle => CallKnows(c)'
      /\ Api!OutcomeIsTrue'
  BY <1>1 DEF ApiInv, CallKnows, Api!OutcomeIsTrue
<1>3. \A k \in Resources : server[k] \in Nat /\ floor[k] \in Nat
  BY DEF ApiInv, Api!TypeOK, Api!Versions, Api!CallsAssumption
<1>4. CASE \E k \in Resources : Api!Expire(k)
  <2>1. PICK k \in Resources : Api!Expire(k)
    BY <1>4
  <2>2. /\ cache' = [cache EXCEPT ![k] = Api!Missing]
        /\ UNCHANGED <<signedIn, clock, floor, raced, strangers>>
    BY <2>1 DEF Api!Expire, Api!history
  <2>3. Api!TypeOK'
    BY <1>1, <2>2 DEF ApiInv, Api!TypeOK
  <2>4. \A j \in Resources : cache'[j] \in {cache[j], Api!Missing}
    BY <2>2 DEF ApiInv, Api!TypeOK
  <2>5. VersionsKnow'
    BY <1>1, <2>2, <2>4 DEF ApiInv, VersionsKnow, Api!OnTheirWay, Api!Missing
  <2>6. OwnersKnown'
    BY <2>2, <2>4 DEF ApiInv, OwnersKnown, Api!Missing
  <2> QED BY <1>2, <2>3, <2>5, <2>6 DEF ApiInv
<1>5. CASE \E resources \in SUBSET Resources \ {{}} : Api!Invalidate(resources)
  <2>1. PICK resources \in SUBSET Resources : Api!Invalidate(resources)
    BY <1>5
  <2>2. /\ cache' = [k \in Resources |-> IF k \in resources THEN Api!Missing ELSE cache[k]]
        /\ floor' = [k \in Resources |-> IF k \in resources THEN server[k] ELSE floor[k]]
        /\ raced' = (raced \ resources)
             \cup {k \in resources : \E c \in Api!OnTheirWay : calls[c].resource = k}
        /\ strangers' = strangers \ resources
        /\ UNCHANGED <<signedIn, clock>>
    BY <2>1 DEF Api!Invalidate, Api!Invalidated
  <2>3. Api!TypeOK'
    <3>1. /\ cache' \in [Resources -> {Api!Missing} \cup Api!Entry]
          /\ floor' \in [Resources -> Api!Versions]
          /\ raced' \subseteq Resources /\ strangers' \subseteq Resources
      BY <2>2 DEF ApiInv, Api!TypeOK
    <3> QED BY <1>1, <2>2, <3>1 DEF ApiInv, Api!TypeOK
  <2>4. VersionsKnow'
    <3>1. \A k \in Resources : floor'[k] <= server[k]
      BY <1>3, <2>2 DEF ApiInv, VersionsKnow
    <3>2. ASSUME NEW c \in Api!OnTheirWay, calls[c].resource \notin raced'
          PROVE  calls[c].version >= floor'[calls[c].resource]
      <4>1. calls[c].resource \notin resources /\ calls[c].resource \notin raced
        BY <2>2, <3>2
      <4>2. calls[c].resource \in Resources
        BY CallSlot DEF ApiInv, Api!OnTheirWay, Api!Call
      <4> QED BY <2>2, <4>1, <4>2 DEF ApiInv, VersionsKnow
    <3>3. \A k \in Resources \ raced' : cache'[k] # Api!Missing => cache'[k].version >= floor'[k]
      BY <2>2 DEF ApiInv, VersionsKnow
    <3> QED BY <1>1, <3>1, <3>2, <3>3 DEF VersionsKnow, Api!OnTheirWay, Api!Missing
  <2>5. OwnersKnown'
    BY <2>2 DEF ApiInv, OwnersKnown, Api!Missing
  <2> QED BY <1>2, <2>3, <2>4, <2>5 DEF ApiInv
<1>6. CASE \E u \in AppUsers \cup {Api!Nobody} : Api!ChangeSession(u)
  <2>1. PICK u \in AppUsers \cup {Api!Nobody} : Api!ChangeSession(u)
    BY <1>6
  <2>2. /\ signedIn' = u
        /\ strangers' = strangers \cup {k \in Resources : cache[k] # Api!Missing}
        /\ UNCHANGED <<clock, cache, floor, raced>>
    BY <2>1 DEF Api!ChangeSession
  <2>3. Api!TypeOK'
    BY <1>1, <2>2 DEF ApiInv, Api!TypeOK
  <2>4. VersionsKnow'
    BY <1>1, <2>2 DEF ApiInv, VersionsKnow, Api!OnTheirWay, Api!Missing
  <2>5. OwnersKnown'
    BY <2>2 DEF OwnersKnown, Api!Missing
  <2> QED BY <1>2, <2>3, <2>4, <2>5 DEF ApiInv
<1>7. CASE Api!Tick
  <2>1. /\ clock' \in 0..MaxClock
        /\ UNCHANGED <<signedIn, cache, floor, raced, strangers>>
    BY <1>7 DEF Api!Tick, Api!history, ApiInv, Api!TypeOK, Api!CallsAssumption
  <2>2. Api!TypeOK'
    BY <1>1, <2>1 DEF ApiInv, Api!TypeOK
  <2>3. VersionsKnow' /\ OwnersKnown'
    BY <1>1, <2>1 DEF ApiInv, VersionsKnow, Api!OnTheirWay, Api!Missing, OwnersKnown
  <2> QED BY <1>2, <2>2, <2>3 DEF ApiInv
<1> QED BY <1>4, <1>5, <1>6, <1>7

LEMMA ApiNext ==
  ASSUME ApiInv, Api!CallsAssumption, [Api!Next]_apiVars
  PROVE  ApiInv'
<1>1. CASE UNCHANGED apiVars
  BY <1>1 DEF apiVars, ApiInv, Api!TypeOK, Api!OutcomeIsTrue, CallKnows, VersionsKnow,
     Api!OnTheirWay, Api!Missing, OwnersKnown
<1>2. ASSUME NEW c \in Requests,
             \/ \E method \in {"GET", "PATCH"}, k \in Resources : Api!Begin(c, method, k)
             \/ Api!AddToken(c) \/ Api!FailToFetch(c) \/ Api!ReadBody(c)
             \/ \E status \in {200, 401, 500}, arrives \in BOOLEAN :
                  Api!Serve(c, status, arrives)
             \/ \E lifetime \in Lifetimes : Api!Respond(c, lifetime)
      PROVE  ApiInv'
  <2>1. CASE \E method \in {"GET", "PATCH"}, k \in Resources : Api!Begin(c, method, k)
    BY <2>1, BeginCallSafe
  <2>2. CASE Api!AddToken(c)
    BY <2>2, AddTokenSafe
  <2>3. CASE Api!FailToFetch(c) \/ Api!ReadBody(c)
    BY <2>3, ReadBodySafe
  <2>4. CASE \E status \in {200, 401, 500}, arrives \in BOOLEAN :
               Api!Serve(c, status, arrives)
    <3>1. PICK status \in {200, 401, 500}, arrives \in BOOLEAN :
            Api!Serve(c, status, arrives)
      BY <2>4
    <3> QED BY <3>1, ServeSafe
  <2>5. CASE \E lifetime \in Lifetimes : Api!Respond(c, lifetime)
    BY <2>5, RespondSafe
  <2> QED BY <1>2, <2>1, <2>2, <2>3, <2>4, <2>5
<1>3. CASE \/ \E k \in Resources : Api!Expire(k)
           \/ \E resources \in SUBSET Resources \ {{}} : Api!Invalidate(resources)
           \/ \E u \in AppUsers \cup {Api!Nobody} : Api!ChangeSession(u)
           \/ Api!Tick
  BY <1>3, CacheStepsSafe
<1> QED BY <1>1, <1>2, <1>3 DEF Api!Next

LEMMA ApiInit ==
  ASSUME Api!Init, Api!CallsAssumption
  PROVE  ApiInv
<1>1. /\ \A c \in Requests : calls[c] = Api!Idle
      /\ \A k \in Resources : cache[k] = Api!Missing /\ floor[k] = 0 /\ server[k] = 0
      /\ ended = [code |-> "OK", status |-> 200, answered |-> 200,
                  unauthorized |-> FALSE, acted |-> TRUE]
  BY DEF Api!Init
<1>2. Api!OutcomeIsTrue /\ ended \in Api!Outcome
  BY <1>1 DEF Api!OutcomeIsTrue, Api!Outcome
<1>3. Api!TypeOK
  <2>1. 0 \in Api!Versions /\ 0 \in 0..MaxClock
    BY DEF Api!Versions, Api!CallsAssumption
  <2>2. /\ server \in [Resources -> Api!Versions] /\ floor \in [Resources -> Api!Versions]
        /\ clock \in 0..MaxClock
    BY <2>1 DEF Api!Init
  <2>3. /\ signedIn \in AppUsers \cup {Api!Nobody}
        /\ cache \in [Resources -> {Api!Missing} \cup Api!Entry]
        /\ calls \in [Requests -> {Api!Idle} \cup Api!Call]
        /\ raced \subseteq Resources /\ strangers \subseteq Resources
    BY DEF Api!Init
  <2> QED BY <1>2, <2>2, <2>3 DEF Api!TypeOK
<1>4. VersionsKnow /\ OwnersKnown
  <2>1. Api!OnTheirWay = {}
    BY <1>1, IdleCall DEF Api!OnTheirWay
  <2> QED BY <1>1, <2>1 DEF VersionsKnow, OwnersKnown
<1> QED BY <1>1, <1>2, <1>3, <1>4 DEF ApiInv

(* The caller hears the truth of what the server did with its call, as far  *)
(* as anybody knows it, and the cache answers with nothing older than the   *)
(* last invalidation and nothing of another user, unless an answer was on   *)
(* its way or the user changed (api-client.ts, cache-interceptor.ts).       *)
THEOREM AnswersStayTrue ==
  Spec => []AnswersAreTrue
<1> DEFINE Inv == part = "api" => ApiInv
<1>1. Init => Inv
  BY ServicesAssumptions, ApiInit DEF Init
<1>2. Inv /\ [Next]_vars => Inv'
  <2>1. SUFFICES ASSUME Inv, [Next]_vars, part' = "api"
                 PROVE  ApiInv'
    OBVIOUS
  <2>2. part = "api" /\ [Api!Next]_apiVars
    BY <2>1, PartStep
  <2> QED BY <2>1, <2>2, ServicesAssumptions, ApiNext
<1>3. Inv => AnswersAreTrue
  <2>1. SUFFICES ASSUME ApiInv
                 PROVE  Api!OutcomeIsTrue /\ Api!CacheIsTrue
    BY DEF AnswersAreTrue
  <2>2. \A k \in Resources : Api!Cached(k) # Api!Missing => cache[k] # Api!Missing
    BY DEF Api!Cached
  <2> QED BY <2>1, <2>2 DEF ApiInv, VersionsKnow, OwnersKnown, Api!CacheIsTrue
<1> QED BY <1>1, <1>2, <1>3, PTL DEF Spec

-----------------------------------------------------------------------------
(* What users write                                                        *)

(* A request of u is about to create a review of s, having found none.      *)
Creates(r, u, s) ==
  /\ contentReq[r].op = "createReview" /\ contentReq[r].pc = "create"
  /\ contentReq[r].user = u /\ contentReq[r].station = s

(* Unless creations crossed, there is one review, or one creation at a      *)
(* time that found none.                                                    *)
OneReview(u, s) ==
  <<u, s>> \notin crossed =>
    /\ \A v, w \in Content!ReviewsOf(u, s) : v = w
    /\ \A r \in Requests : Creates(r, u, s) => Content!ReviewsOf(u, s) = {}

(* Ids are given once, and a mail on its way is one that was due.           *)
MailsKnow ==
  /\ \A p \in problems : p.id <= lastId
  /\ \A r \in Requests : contentReq[r].op = "mail" => contentReq[r].id <= lastId
  /\ \A r \in Requests, p \in problems :
       contentReq[r].op = "mail" /\ contentReq[r].id = p.id => Content!MailIsDue(p.station)

ContentInv ==
  /\ Content!TypeOK
  /\ \A u \in Writers, s \in Stations : OneReview(u, s)
  /\ MailsKnow /\ Content!AnsweredReportsAreMailed

(* What the slot of a request holds.                                        *)
LEMMA ContentSlot ==
  ASSUME Content!TypeOK, NEW r \in Requests
  PROVE  /\ contentReq[r].op = "idle" <=> contentReq[r] = Content!Idle
         /\ contentReq[r].op \in {"createReview", "saveFavorite", "removeFavorite", "createReport"}
              => contentReq[r] \in Content!Content
         /\ contentReq[r].op \in {"updateReview", "deleteReview"} =>
              contentReq[r] \in Content!Change
         /\ contentReq[r].op = "mail" => contentReq[r] \in Content!Mail
<1>1. contentReq[r] \in {Content!Idle} \cup Content!Content \cup Content!Change \cup Content!Mail
  BY DEF Content!TypeOK
<1> QED BY <1>1 DEF Content!Idle, Content!Content, Content!Change, Content!Mail

LEMMA IdleContentSlot == Content!Idle.op = "idle"
BY DEF Content!Idle

LEMMA ContentMoves ==
  ASSUME Content!TypeOK, NEW r \in Requests,
         NEW q \in {Content!Idle} \cup Content!Content \cup Content!Change \cup Content!Mail,
         contentReq' = [contentReq EXCEPT ![r] = q]
  PROVE  /\ contentReq' \in [Requests -> {Content!Idle} \cup Content!Content \cup
                                           Content!Change \cup Content!Mail]
         /\ contentReq'[r] = q
         /\ \A p \in Requests \ {r} : contentReq'[p] = contentReq[p]
BY DEF Content!TypeOK

(* A step of a request that writes no row, and is not one to create now.    *)
LEMMA QuietContentStep ==
  ASSUME ContentInv, NEW r \in Requests,
         NEW q \in {Content!Idle} \cup Content!Content \cup Content!Change \cup Content!Mail,
         contentReq' = [contentReq EXCEPT ![r] = q], UNCHANGED Content!rows,
         q.op # "mail",
         \A u \in Writers, s \in Stations : Creates(r, u, s)' => Content!ReviewsOf(u, s) = {}
  PROVE  ContentInv'
<1>1. /\ contentReq' \in [Requests -> {Content!Idle} \cup Content!Content \cup
                                        Content!Change \cup Content!Mail]
      /\ contentReq'[r] = q
      /\ \A p \in Requests \ {r} : contentReq'[p] = contentReq[p]
  BY ContentMoves DEF ContentInv
<1>2. /\ writers' = writers /\ reviews' = reviews /\ favorites' = favorites
      /\ problems' = problems /\ lastId' = lastId /\ crossed' = crossed
  BY DEF Content!rows
<1>3. Content!TypeOK'
  BY <1>1, <1>2 DEF ContentInv, Content!TypeOK
<1>4. ASSUME NEW u \in Writers, NEW s \in Stations
      PROVE  OneReview(u, s)'
  <2>1. Content!ReviewsOf(u, s)' = Content!ReviewsOf(u, s)
    BY <1>2 DEF Content!ReviewsOf
  <2>2. \A p \in Requests \ {r} : Creates(p, u, s)' => Creates(p, u, s)
    BY <1>1 DEF Creates
  <2> QED BY <1>2, <2>1, <2>2 DEF ContentInv, OneReview
<1>5. MailsKnow'
  BY <1>1, <1>2 DEF ContentInv, MailsKnow, Content!MailIsDue
<1>6. Content!AnsweredReportsAreMailed'
  BY <1>2 DEF ContentInv, Content!AnsweredReportsAreMailed, Content!MailIsDue
<1> QED BY <1>3, <1>4, <1>5, <1>6 DEF ContentInv

(* A request that begins, goes on in its own place, or ends.                *)
LEMMA BeginContentSafe ==
  ASSUME ContentInv, NEW r \in Requests, NEW q \in Content!Content \cup Content!Change,
         q.pc = "user", Content!Begin(r, q)
  PROVE  ContentInv'
<1>1. contentReq' = [contentReq EXCEPT ![r] = q] /\ UNCHANGED Content!rows
  BY DEF Content!Begin
<1>2. q.op # "mail"
  BY DEF Content!Content, Content!Change
<1>3. contentReq'[r] = q
  BY <1>1 DEF ContentInv, Content!TypeOK
<1>4. \A u \in Writers, s \in Stations : ~Creates(r, u, s)'
  BY <1>3 DEF Creates
<1> QED BY <1>1, <1>2, <1>4, QuietContentStep

LEMMA GoOnContent ==
  ASSUME ContentInv, NEW r \in Requests, NEW pc \in {"find", "create", "write"},
         contentReq[r].op \in {"createReview", "saveFavorite", "removeFavorite", "createReport",
                               "updateReview", "deleteReview"},
         contentReq[r].op \in {"updateReview", "deleteReview"} => pc # "create",
         contentReq[r].op = "createReview" /\ pc = "create" =>
           Content!ReviewsOf(contentReq[r].user, contentReq[r].station) = {},
         Content!Goto(r, pc), UNCHANGED Content!rows
  PROVE  ContentInv'
<1> DEFINE q == [contentReq[r] EXCEPT !.pc = pc]
<1>1. contentReq' = [contentReq EXCEPT ![r] = q]
  BY DEF Content!Goto
<1>2. contentReq[r] \in Content!Content \cup Content!Change
  BY ContentSlot DEF ContentInv
<1>3. CASE contentReq[r].op \in {"updateReview", "deleteReview"}
  <2>1. contentReq[r] \in Content!Change
    BY <1>3, ContentSlot DEF ContentInv
  <2>2. q \in Content!Change /\ q.op = contentReq[r].op
    BY <1>3, <2>1 DEF Content!Change
  <2> HIDE DEF q
  <2>3. contentReq'[r] = q
    BY <1>1 DEF ContentInv, Content!TypeOK
  <2>4. \A u \in Writers, s \in Stations : ~Creates(r, u, s)'
    BY <1>3, <2>2, <2>3 DEF Creates
  <2>5. q.op # "mail"
    BY <1>3, <2>2
  <2> QED BY <1>1, <2>2, <2>4, <2>5, QuietContentStep
<1>4. CASE contentReq[r].op \notin {"updateReview", "deleteReview"}
  <2>1. contentReq[r] \in Content!Content
    BY <1>4, ContentSlot DEF ContentInv
  <2>2. /\ q \in Content!Content /\ q.op = contentReq[r].op /\ q.pc = pc
        /\ q.user = contentReq[r].user /\ q.station = contentReq[r].station
    BY <2>1 DEF Content!Content
  <2> HIDE DEF q
  <2>3. contentReq'[r] = q
    BY <1>1 DEF ContentInv, Content!TypeOK
  <2>4. \A u \in Writers, s \in Stations : Creates(r, u, s)' => Content!ReviewsOf(u, s) = {}
    BY <2>2, <2>3 DEF Creates
  <2>5. q.op # "mail"
    BY <2>2
  <2> QED BY <1>1, <2>2, <2>4, <2>5, QuietContentStep
<1> QED BY <1>3, <1>4

LEMMA EndContent ==
  ASSUME ContentInv, NEW r \in Requests, Content!End(r), UNCHANGED Content!rows
  PROVE  ContentInv'
<1>1. contentReq' = [contentReq EXCEPT ![r] = Content!Idle]
  BY DEF Content!End
<1>2. contentReq'[r] = Content!Idle
  BY <1>1 DEF ContentInv, Content!TypeOK
<1>3. \A u \in Writers, s \in Stations : ~Creates(r, u, s)'
  BY <1>2, IdleContentSlot DEF Creates
<1> QED BY <1>1, <1>3, IdleContentSlot, QuietContentStep

(* The reads.                                                               *)
LEMMA FindContentSafe ==
  ASSUME ContentInv, NEW r \in Requests,
         Content!AssertReviewer(r) \/ Content!AssertOwner(r) \/ Content!FindReporter(r)
  PROVE  ContentInv'
<1>1. CASE Content!End(r) /\ UNCHANGED Content!rows
  BY <1>1, EndContent
<1>2. CASE ~(Content!End(r) /\ UNCHANGED Content!rows)
  <2>1. UNCHANGED Content!rows
    BY DEF Content!AssertReviewer, Content!AssertOwner, Content!FindReporter, Content!Find
  <2>2. CASE Content!AssertReviewer(r)
    <3>1. /\ contentReq[r].op \in {"createReview", "updateReview", "deleteReview"}
          /\ Content!Goto(r, "find")
      BY <1>2, <2>1, <2>2 DEF Content!AssertReviewer, Content!Find, Content!At
    <3> QED BY <2>1, <3>1, GoOnContent
  <2>3. CASE Content!AssertOwner(r)
    <3>1. /\ contentReq[r].op \in {"saveFavorite", "removeFavorite"}
          /\ Content!Goto(r, "write")
      BY <1>2, <2>1, <2>3 DEF Content!AssertOwner, Content!Find, Content!At
    <3> QED BY <2>1, <3>1, GoOnContent
  <2>4. CASE Content!FindReporter(r)
    <3>1. contentReq[r].op = "createReport" /\ Content!Goto(r, "create")
      BY <1>2, <2>1, <2>4 DEF Content!FindReporter, Content!Find, Content!At
    <3> QED BY <2>1, <3>1, GoOnContent
  <2> QED BY <2>2, <2>3, <2>4
<1> QED BY <1>1, <1>2

LEMMA FindReviewSafe ==
  ASSUME ContentInv, NEW r \in Requests, Content!FindReview(r)
  PROVE  ContentInv'
<1>1. contentReq[r].op = "createReview" /\ UNCHANGED Content!rows
  BY DEF Content!FindReview, Content!At
<1>2. CASE Content!ReviewsOf(contentReq[r].user, contentReq[r].station) = {}
  <2>1. Content!Goto(r, "create")
    BY <1>2 DEF Content!FindReview
  <2> QED BY <1>1, <1>2, <2>1, GoOnContent
<1>3. CASE Content!ReviewsOf(contentReq[r].user, contentReq[r].station) # {}
  <2>1. Content!End(r)
    BY <1>3 DEF Content!FindReview
  <2> QED BY <1>1, <2>1, EndContent
<1> QED BY <1>2, <1>3

LEMMA FindOwnedSafe ==
  ASSUME ContentInv, NEW r \in Requests, Content!FindOwned(r)
  PROVE  ContentInv'
<1>1. contentReq[r].op \in {"updateReview", "deleteReview"} /\ UNCHANGED Content!rows
  BY DEF Content!FindOwned, Content!At
<1>2. CASE Content!End(r)
  BY <1>1, <1>2, EndContent
<1>3. CASE Content!Goto(r, "write")
  BY <1>1, <1>3, GoOnContent
<1> QED BY <1>2, <1>3 DEF Content!FindOwned

(* A review is created: of two creations at a time the pair is crossed, and *)
(* a single one found no review.                                            *)
LEMMA CreateReviewSafe ==
  ASSUME ContentInv, Content!ContentAssumption, NEW r \in Requests, Content!CreateReview(r)
  PROVE  ContentInv'
<1> DEFINE user == contentReq[r].user
           place == contentReq[r].station
           row == [id |-> lastId + 1, user |-> user, station |-> place]
<1>1. /\ contentReq[r].op = "createReview" /\ contentReq[r].pc = "create" /\ lastId < MaxRows
      /\ contentReq' = [contentReq EXCEPT ![r] = Content!Idle]
      /\ writers' = writers /\ favorites' = favorites /\ problems' = problems
  BY DEF Content!CreateReview, Content!At, Content!End
<1>2. contentReq[r] \in Content!Content /\ user \in Writers /\ place \in Stations
  BY <1>1, ContentSlot DEF ContentInv, Content!Content
<1>3. CASE user \notin writers
  <2>1. UNCHANGED Content!rows
    BY <1>1, <1>3 DEF Content!CreateReview, Content!rows
  <2>2. Content!End(r)
    BY <1>1 DEF Content!End
  <2> QED BY <2>1, <2>2, EndContent
<1>4. CASE user \in writers
  <2>1. /\ reviews' = reviews \cup {row} /\ lastId' = lastId + 1
        /\ crossed \subseteq crossed' /\ crossed' \subseteq crossed \cup {<<user, place>>}
    BY <1>4 DEF Content!CreateReview
  <2>2. \A q \in Requests \ {r} : Creates(q, user, place) => <<user, place>> \in crossed'
    <3> SUFFICES ASSUME NEW q \in Requests \ {r}, Creates(q, user, place)
                 PROVE  <<user, place>> \in crossed'
      OBVIOUS
    <3>1. Content!At(q, {"createReview"}, "create")
            /\ <<contentReq[q].user, contentReq[q].station>> = <<user, place>>
      BY DEF Creates, Content!At
    <3> QED BY <1>4, <3>1 DEF Content!CreateReview
  <2>3. /\ row \in Content!Review /\ lastId + 1 \in Content!Ids /\ lastId \in Int
        /\ row.user = user /\ row.station = place
    BY <1>1, <1>2 DEF ContentInv, Content!TypeOK, Content!Review, Content!Ids,
         Content!ContentAssumption
  <2> HIDE DEF row
  <2>4. /\ contentReq' \in [Requests -> {Content!Idle} \cup Content!Content \cup
                                          Content!Change \cup Content!Mail]
        /\ contentReq'[r] = Content!Idle
        /\ \A p \in Requests \ {r} : contentReq'[p] = contentReq[p]
    BY <1>1, ContentMoves DEF ContentInv
  <2>5. Content!TypeOK'
    <3>1. \A v \in reviews' \cup problems' : v.user \in writers'
      BY <1>1, <1>4, <2>1, <2>3 DEF ContentInv, Content!TypeOK
    <3>2. crossed' \subseteq Writers \X Stations
      BY <1>2, <2>1 DEF ContentInv, Content!TypeOK
    <3> QED BY <1>1, <2>1, <2>3, <2>4, <3>1, <3>2 DEF ContentInv, Content!TypeOK
  <2>6. ASSUME NEW u \in Writers, NEW s \in Stations, <<u, s>> \notin crossed'
        PROVE  /\ \A v, w \in Content!ReviewsOf(u, s)' : v = w
               /\ \A q \in Requests : Creates(q, u, s)' => Content!ReviewsOf(u, s)' = {}
    <3>1. /\ \A v, w \in Content!ReviewsOf(u, s) : v = w
          /\ \A q \in Requests : Creates(q, u, s) => Content!ReviewsOf(u, s) = {}
      BY <2>1, <2>6 DEF ContentInv, OneReview
    <3>2. \A q \in Requests : Creates(q, u, s)' => q # r /\ Creates(q, u, s)
      BY <2>4, IdleContentSlot DEF Creates
    <3>3. CASE u = user /\ s = place
      <4>1. Content!ReviewsOf(u, s) = {}
        BY <1>1, <3>1, <3>3 DEF Creates
      <4>2. Content!ReviewsOf(u, s)' \subseteq {row}
        BY <2>1, <4>1 DEF Content!ReviewsOf
      <4>3. \A q \in Requests : ~Creates(q, u, s)'
        BY <2>2, <2>6, <3>2, <3>3
      <4> QED BY <4>2, <4>3
    <3>4. CASE ~(u = user /\ s = place)
      <4>1. Content!ReviewsOf(u, s)' = Content!ReviewsOf(u, s)
        BY <2>1, <2>3, <3>4 DEF Content!ReviewsOf
      <4> QED BY <3>1, <3>2, <4>1
    <3> QED BY <3>3, <3>4
  <2>7. MailsKnow'
    <3>1. \A p \in problems : p.id \in Int
      BY DEF ContentInv, Content!TypeOK, Content!Report, Content!Ids
    <3>2. \A q \in Requests : contentReq[q].op = "mail" => contentReq[q].id \in Int
      BY ContentSlot DEF ContentInv, Content!Mail, Content!Ids
    <3>3. \A p \in problems : p.id <= lastId + 1
      BY <2>3, <3>1 DEF ContentInv, MailsKnow
    <3>4. \A q \in Requests : contentReq[q].op = "mail" => contentReq[q].id <= lastId + 1
      BY <2>3, <3>2 DEF ContentInv, MailsKnow
    <3> QED BY <1>1, <2>1, <2>4, <3>3, <3>4, IdleContentSlot
          DEF ContentInv, MailsKnow, Content!MailIsDue
  <2>8. Content!AnsweredReportsAreMailed'
    BY <1>1 DEF ContentInv, Content!AnsweredReportsAreMailed, Content!MailIsDue
  <2> QED BY <2>5, <2>6, <2>7, <2>8 DEF ContentInv, OneReview
<1> QED BY <1>3, <1>4

(* Rows go, or favourites change: what is known of the others stays.        *)
LEMMA FewerRowsSafe ==
  ASSUME ContentInv, Content!TypeOK',
         \A q \in Requests : contentReq'[q] = contentReq[q] \/ contentReq'[q].op = "idle",
         reviews' \subseteq reviews, UNCHANGED <<problems, lastId, crossed>>
  PROVE  ContentInv'
<1>1. ASSUME NEW u \in Writers, NEW s \in Stations
      PROVE  OneReview(u, s)'
  <2>1. Content!ReviewsOf(u, s)' \subseteq Content!ReviewsOf(u, s)
    BY DEF Content!ReviewsOf
  <2>2. \A q \in Requests : Creates(q, u, s)' => Creates(q, u, s)
    BY DEF Creates
  <2> QED BY <2>1, <2>2 DEF ContentInv, OneReview
<1>2. MailsKnow'
  BY DEF ContentInv, MailsKnow, Content!MailIsDue
<1>3. Content!AnsweredReportsAreMailed'
  BY DEF ContentInv, Content!AnsweredReportsAreMailed, Content!MailIsDue
<1> QED BY <1>1, <1>2, <1>3 DEF ContentInv

LEMMA WriteContentSafe ==
  ASSUME ContentInv, NEW r \in Requests,
         Content!UpdateReview(r) \/ Content!DeleteReview(r)
           \/ Content!SaveFavorite(r) \/ Content!RemoveFavorite(r)
  PROVE  ContentInv'
<1>1. CASE Content!UpdateReview(r)
  BY <1>1, EndContent DEF Content!UpdateReview
<1>2. CASE ~Content!UpdateReview(r)
  <2>1. /\ contentReq' = [contentReq EXCEPT ![r] = Content!Idle]
        /\ writers' = writers /\ problems' = problems /\ lastId' = lastId /\ crossed' = crossed
        /\ reviews' \subseteq reviews
    BY <1>2 DEF Content!DeleteReview, Content!SaveFavorite, Content!RemoveFavorite, Content!End
  <2>2. contentReq' \in [Requests -> {Content!Idle} \cup Content!Content \cup
                                       Content!Change \cup Content!Mail]
    BY <2>1, ContentMoves DEF ContentInv
  <2>3. /\ favorites' \subseteq Writers \X Stations
        /\ \A pair \in favorites' : pair[1] \in writers
    <3>1. CASE Content!SaveFavorite(r)
      <4>1. contentReq[r] \in Content!Content
        BY <3>1, ContentSlot DEF ContentInv, Content!SaveFavorite, Content!At
      <4>2. contentReq[r].user \in Writers /\ contentReq[r].station \in Stations
        BY <4>1 DEF Content!Content
      <4> QED BY <3>1, <4>2 DEF ContentInv, Content!TypeOK, Content!SaveFavorite
    <3>2. CASE ~Content!SaveFavorite(r)
      <4>1. favorites' \subseteq favorites
        BY <1>2, <3>2 DEF Content!DeleteReview, Content!RemoveFavorite
      <4> QED BY <4>1 DEF ContentInv, Content!TypeOK
    <3> QED BY <3>1, <3>2
  <2>4. Content!TypeOK'
    BY <2>1, <2>2, <2>3 DEF ContentInv, Content!TypeOK
  <2>5. \A q \in Requests : contentReq'[q] = contentReq[q] \/ contentReq'[q].op = "idle"
    BY <2>1, IdleContentSlot DEF ContentInv, Content!TypeOK
  <2> QED BY <2>1, <2>4, <2>5, FewerRowsSafe
<1> QED BY <1>1, <1>2

LEMMA DeleteUserSafe ==
  ASSUME ContentInv, NEW u \in Writers, Content!DeleteUser(u)
  PROVE  ContentInv'
<1>1. /\ writers' = writers \ {u}
      /\ favorites' = {pair \in favorites : pair[1] # u}
      /\ \A row \in reviews \cup problems : row.user # u
      /\ UNCHANGED <<reviews, problems, lastId, contentReq, crossed>>
  BY DEF Content!DeleteUser
<1>2. Content!TypeOK'
  BY <1>1 DEF ContentInv, Content!TypeOK
<1> QED BY <1>1, <1>2, FewerRowsSafe

(* A report is created with an id of its own, and its mail is due or not.   *)
LEMMA CreateReportSafe ==
  ASSUME ContentInv, Content!ContentAssumption, NEW r \in Requests, Content!CreateReport(r)
  PROVE  ContentInv'
<1> DEFINE user == contentReq[r].user
           place == contentReq[r].station
           due == Content!MailIsDue(place)
           id == lastId + 1
           row == [id |-> id, user |-> user, station |-> place, answered |-> ~due,
                   mail |-> IF due THEN "due" ELSE "none"]
           q == IF due THEN [op |-> "mail", id |-> id] ELSE Content!Idle
<1>1. /\ contentReq[r].op = "createReport" /\ lastId < MaxRows
      /\ writers' = writers /\ reviews' = reviews /\ favorites' = favorites
      /\ crossed' = crossed
  BY DEF Content!CreateReport, Content!At
<1>2. contentReq[r] \in Content!Content /\ user \in Writers /\ place \in Stations
  BY <1>1, ContentSlot DEF ContentInv, Content!Content
<1>3. CASE user \notin writers
  <2>1. UNCHANGED Content!rows /\ Content!End(r)
    BY <1>1, <1>3 DEF Content!CreateReport, Content!rows
  <2> QED BY <2>1, EndContent
<1>4. CASE user \in writers
  <2>1. /\ problems' = problems \cup {row} /\ lastId' = id
        /\ contentReq' = [contentReq EXCEPT ![r] = q]
    BY <1>4 DEF Content!CreateReport
  <2>2. due \in BOOLEAN
    BY DEF Content!MailIsDue, Content!ContentAssumption
  <2>3. id \in Content!Ids /\ lastId \in Int /\ lastId <= id /\ lastId < id
    BY <1>1 DEF ContentInv, Content!TypeOK, Content!Ids, Content!ContentAssumption
  <2>4. due <=> Content!MailIsDue(place)
    OBVIOUS
  <2> HIDE DEF due, id
  <2>5. /\ row \in Content!Report /\ row.id = id /\ row.user = user /\ row.station = place
        /\ row.mail = IF due THEN "due" ELSE "none"
    BY <1>2, <2>2, <2>3 DEF Content!Report
  <2>6. row.answered <=> ~due
    OBVIOUS
  <2>7. /\ q \in {Content!Idle} \cup Content!Mail
        /\ q.op \in {"idle", "mail"}
        /\ q.op = "mail" => due /\ q.id = id
    BY <2>3, IdleContentSlot DEF Content!Mail
  <2> HIDE DEF row, q
  <2>8. /\ contentReq' \in [Requests -> {Content!Idle} \cup Content!Content \cup
                                          Content!Change \cup Content!Mail]
        /\ contentReq'[r] = q
        /\ \A p \in Requests \ {r} : contentReq'[p] = contentReq[p]
    BY <2>1, <2>7, ContentMoves DEF ContentInv
  <2>9. Content!TypeOK'
    <3>1. \A v \in reviews' \cup problems' : v.user \in writers'
      BY <1>1, <1>4, <2>1, <2>5 DEF ContentInv, Content!TypeOK
    <3> QED BY <1>1, <2>1, <2>3, <2>5, <2>8, <3>1 DEF ContentInv, Content!TypeOK
  <2>10. ASSUME NEW u \in Writers, NEW s \in Stations
         PROVE  OneReview(u, s)'
    <3>1. Content!ReviewsOf(u, s)' = Content!ReviewsOf(u, s)
      BY <1>1 DEF Content!ReviewsOf
    <3>2. \A p \in Requests : Creates(p, u, s)' => Creates(p, u, s)
      BY <2>7, <2>8 DEF Creates
    <3> QED BY <1>1, <3>1, <3>2 DEF ContentInv, OneReview
  <2>11. MailsKnow'
    <3>1. \A p \in problems : p.id \in Int
      BY DEF ContentInv, Content!TypeOK, Content!Report, Content!Ids
    <3>2. \A p \in Requests : contentReq[p].op = "mail" => contentReq[p].id \in Int
      BY ContentSlot DEF ContentInv, Content!Mail, Content!Ids
    <3>3. id \in Int
      BY <2>3 DEF Content!Ids, Content!ContentAssumption
    <3>4. \A p \in problems : p.id <= id /\ p.id # id
      BY <2>3, <3>1, <3>3 DEF ContentInv, MailsKnow
    <3>5. \A p \in Requests : contentReq[p].op = "mail" =>
            contentReq[p].id <= id /\ contentReq[p].id # id
      BY <2>3, <3>2, <3>3 DEF ContentInv, MailsKnow
    <3>6. id <= id
      BY <3>3
    <3>7. \A p \in problems' : p.id <= lastId'
      BY <2>1, <2>5, <3>4, <3>6
    <3>8. \A p \in Requests : contentReq'[p].op = "mail" => contentReq'[p].id <= lastId'
      BY <2>1, <2>7, <2>8, <3>5, <3>6
    <3>9. ASSUME NEW p \in Requests, NEW v \in problems', contentReq'[p].op = "mail",
                 contentReq'[p].id = v.id
          PROVE  Content!MailIsDue(v.station)
      <4>1. CASE v = row
        <5>1. p = r
          BY <2>5, <2>8, <3>5, <3>9, <4>1
        <5> QED BY <2>4, <2>5, <2>7, <2>8, <3>9, <4>1, <5>1
      <4>2. CASE v # row
        <5>1. v \in problems /\ v.id # id
          BY <2>1, <3>4, <4>2
        <5>2. p # r
          BY <2>7, <2>8, <3>9, <5>1
        <5> QED BY <2>8, <3>9, <5>1, <5>2 DEF ContentInv, MailsKnow
      <4> QED BY <4>1, <4>2
    <3> QED BY <3>7, <3>8, <3>9 DEF MailsKnow, Content!MailIsDue
  <2>12. Content!AnsweredReportsAreMailed'
    BY <2>1, <2>4, <2>5, <2>6
      DEF ContentInv, Content!AnsweredReportsAreMailed, Content!MailIsDue
  <2> QED BY <2>9, <2>10, <2>11, <2>12 DEF ContentInv
<1> QED BY <1>3, <1>4

(* The mail is sent, or fails and the report stays unanswered.              *)
LEMMA SendMailSafe ==
  ASSUME ContentInv, NEW r \in Requests, Content!SendMail(r)
  PROVE  ContentInv'
<1> DEFINE id == contentReq[r].id
<1>1. /\ contentReq[r].op = "mail"
      /\ contentReq' = [contentReq EXCEPT ![r] = Content!Idle]
      /\ writers' = writers /\ reviews' = reviews /\ favorites' = favorites
      /\ lastId' = lastId /\ crossed' = crossed
  BY DEF Content!SendMail, Content!End
<1>2. PICK outcome \in {"sent", "failed"}, answered \in BOOLEAN :
        /\ problems' = Content!Mailed(id, outcome, answered)
        /\ answered => outcome = "sent"
  BY DEF Content!SendMail
<1>3. ASSUME NEW v \in problems'
      PROVE  \E p \in problems :
               /\ v \in Content!Report /\ v.id = p.id /\ v.user = p.user /\ v.station = p.station
               /\ v = p \/ (p.id = id /\ v.mail = outcome /\ (v.answered <=> answered))
  <2>1. PICK p \in problems :
          v = IF p.id = id THEN [p EXCEPT !.mail = outcome, !.answered = answered] ELSE p
    BY <1>2, <1>3 DEF Content!Mailed
  <2>2. p \in Content!Report
    BY DEF ContentInv, Content!TypeOK
  <2>3. CASE p.id = id
    <3> DEFINE a == [p EXCEPT !.mail = outcome]
    <3>1. a \in Content!Report /\ a.id = p.id /\ a.user = p.user /\ a.station = p.station
            /\ a.mail = outcome
      BY <2>2 DEF Content!Report
    <3>2. v = [a EXCEPT !.answered = answered]
      BY <2>1, <2>3
    <3> HIDE DEF a
    <3>3. /\ v \in Content!Report /\ v.id = a.id /\ v.user = a.user /\ v.station = a.station
          /\ v.mail = a.mail /\ v.answered = answered
      BY <3>1, <3>2 DEF Content!Report
    <3> QED BY <2>3, <3>1, <3>3
  <2>4. CASE p.id # id
    BY <2>1, <2>2, <2>4
  <2> QED BY <2>3, <2>4
<1>4. /\ contentReq' \in [Requests -> {Content!Idle} \cup Content!Content \cup
                                        Content!Change \cup Content!Mail]
      /\ contentReq'[r] = Content!Idle
      /\ \A p \in Requests \ {r} : contentReq'[p] = contentReq[p]
  BY <1>1, ContentMoves DEF ContentInv
<1>5. Content!TypeOK'
  <2>1. problems' \subseteq Content!Report
    BY <1>3
  <2>2. \A v \in reviews' \cup problems' : v.user \in writers'
    BY <1>1, <1>3 DEF ContentInv, Content!TypeOK
  <2> QED BY <1>1, <1>4, <2>1, <2>2 DEF ContentInv, Content!TypeOK
<1>6. ASSUME NEW u \in Writers, NEW s \in Stations
      PROVE  OneReview(u, s)'
  <2>1. Content!ReviewsOf(u, s)' = Content!ReviewsOf(u, s)
    BY <1>1 DEF Content!ReviewsOf
  <2>2. \A p \in Requests : Creates(p, u, s)' => Creates(p, u, s)
    BY <1>4, IdleContentSlot DEF Creates
  <2> QED BY <1>1, <2>1, <2>2 DEF ContentInv, OneReview
<1>7. \A q \in Requests : contentReq'[q].op = "mail" => contentReq'[q] = contentReq[q]
  BY <1>4, IdleContentSlot
<1>8. MailsKnow'
  <2>1. \A v \in problems' : v.id <= lastId'
    BY <1>1, <1>3 DEF ContentInv, MailsKnow
  <2>2. \A q \in Requests : contentReq'[q].op = "mail" => contentReq'[q].id <= lastId'
    BY <1>1, <1>7 DEF ContentInv, MailsKnow
  <2>3. ASSUME NEW q \in Requests, NEW v \in problems', contentReq'[q].op = "mail",
               contentReq'[q].id = v.id
        PROVE  Content!MailIsDue(v.station)
    BY <1>3, <1>7, <2>3 DEF ContentInv, MailsKnow
  <2> QED BY <2>1, <2>2, <2>3 DEF MailsKnow, Content!MailIsDue
<1>9. Content!AnsweredReportsAreMailed'
  <2> SUFFICES ASSUME NEW v \in problems', v.answered
               PROVE  v.mail = IF Content!MailIsDue(v.station) THEN "sent" ELSE "none"
    BY DEF Content!AnsweredReportsAreMailed, Content!MailIsDue
  <2>1. PICK p \in problems :
          /\ v.station = p.station
          /\ v = p \/ (p.id = id /\ v.mail = outcome /\ (v.answered <=> answered))
    BY <1>3
  <2>2. CASE v = p
    BY <2>2 DEF ContentInv, Content!AnsweredReportsAreMailed
  <2>3. CASE v # p
    <3>1. p.id = id /\ v.mail = "sent"
      BY <1>2, <2>1, <2>3
    <3>2. Content!MailIsDue(p.station)
      BY <1>1, <3>1 DEF ContentInv, MailsKnow
    <3> QED BY <2>1, <3>1, <3>2
  <2> QED BY <2>2, <2>3
<1> QED BY <1>5, <1>6, <1>8, <1>9 DEF ContentInv

LEMMA FailContentSafe ==
  ASSUME ContentInv, NEW r \in Requests, Content!Fail(r)
  PROVE  ContentInv'
BY EndContent DEF Content!Fail

LEMMA ContentNext ==
  ASSUME ContentInv, Content!ContentAssumption, [Content!Next]_contentVars
  PROVE  ContentInv'
<1>1. CASE \E r \in Requests, u \in Writers, s \in Stations,
              op \in {"createReview", "saveFavorite", "removeFavorite", "createReport"} :
             Content!Begin(r, [op |-> op, pc |-> "user", user |-> u, station |-> s])
  <2>1. PICK r \in Requests, u \in Writers, s \in Stations,
             op \in {"createReview", "saveFavorite", "removeFavorite", "createReport"} :
          Content!Begin(r, [op |-> op, pc |-> "user", user |-> u, station |-> s])
    BY <1>1
  <2> DEFINE q == [op |-> op, pc |-> "user", user |-> u, station |-> s]
  <2>2. q \in Content!Content /\ q.pc = "user"
    BY DEF Content!Content
  <2> QED BY <2>1, <2>2, BeginContentSafe
<1>2. CASE \E r \in Requests, u \in Writers, id \in Content!Ids,
              op \in {"updateReview", "deleteReview"} :
             Content!Begin(r, [op |-> op, pc |-> "user", user |-> u, id |-> id])
  <2>1. PICK r \in Requests, u \in Writers, id \in Content!Ids,
             op \in {"updateReview", "deleteReview"} :
          Content!Begin(r, [op |-> op, pc |-> "user", user |-> u, id |-> id])
    BY <1>2
  <2> DEFINE q == [op |-> op, pc |-> "user", user |-> u, id |-> id]
  <2>2. q \in Content!Change /\ q.pc = "user"
    BY DEF Content!Change
  <2> QED BY <2>1, <2>2, BeginContentSafe
<1>3. CASE \E r \in Requests : Content!AssertReviewer(r) \/ Content!AssertOwner(r)
                                 \/ Content!FindReporter(r)
  BY <1>3, FindContentSafe
<1>4. CASE \E r \in Requests : Content!FindReview(r)
  BY <1>4, FindReviewSafe
<1>5. CASE \E r \in Requests : Content!CreateReview(r)
  BY <1>5, CreateReviewSafe
<1>6. CASE \E r \in Requests : Content!FindOwned(r)
  BY <1>6, FindOwnedSafe
<1>7. CASE \E r \in Requests : Content!UpdateReview(r) \/ Content!DeleteReview(r)
                                 \/ Content!SaveFavorite(r) \/ Content!RemoveFavorite(r)
  BY <1>7, WriteContentSafe
<1>8. CASE \E r \in Requests : Content!CreateReport(r)
  BY <1>8, CreateReportSafe
<1>9. CASE \E r \in Requests : Content!SendMail(r)
  BY <1>9, SendMailSafe
<1>10. CASE \E r \in Requests : Content!Fail(r)
  BY <1>10, FailContentSafe
<1>11. CASE \E u \in Writers : Content!DeleteUser(u)
  BY <1>11, DeleteUserSafe
<1>12. CASE UNCHANGED contentVars
  BY <1>12 DEF contentVars, ContentInv, OneReview, Creates, MailsKnow, Content!TypeOK,
       Content!ReviewsOf, Content!AnsweredReportsAreMailed, Content!MailIsDue
<1> QED BY <1>1, <1>2, <1>3, <1>4, <1>5, <1>6, <1>7, <1>8, <1>9, <1>10, <1>11, <1>12
      DEF Content!Next

LEMMA ContentInit ==
  Content!Init => ContentInv
<1> SUFFICES ASSUME Content!Init PROVE ContentInv
  OBVIOUS
<1>1. /\ reviews = {} /\ problems = {}
      /\ \A r \in Requests : contentReq[r].op = "idle"
  BY IdleContentSlot DEF Content!Init
<1>2. Content!TypeOK
  BY DEF Content!Init, Content!TypeOK
<1>3. \A u \in Writers, s \in Stations : OneReview(u, s)
  BY <1>1 DEF OneReview, Content!ReviewsOf
<1> QED BY <1>1, <1>2, <1>3 DEF ContentInv, MailsKnow, Content!AnsweredReportsAreMailed

LEMMA SameReviews == \A S : Content!Cardinality(S) = Cardinality(S)
BY DEF Content!Cardinality, Cardinality

LEMMA OneReviewBecause ==
  ContentInv => Content!OneReviewEach
<1> SUFFICES ASSUME ContentInv, NEW u \in Writers, NEW s \in Stations, <<u, s>> \notin crossed
             PROVE  Cardinality(Content!ReviewsOf(u, s)) <= 1
  BY SameReviews DEF Content!OneReviewEach
<1>1. \A v, w \in Content!ReviewsOf(u, s) : v = w
  BY DEF ContentInv, OneReview
<1>2. CASE Content!ReviewsOf(u, s) = {}
  BY <1>2, FS_EmptySet
<1>3. CASE Content!ReviewsOf(u, s) # {}
  <2>1. PICK v \in Content!ReviewsOf(u, s) : TRUE
    BY <1>3
  <2>2. Content!ReviewsOf(u, s) = {v}
    BY <1>1, <2>1
  <2>3. Cardinality({v}) = 1
    BY FS_Singleton
  <2> QED BY <2>2, <2>3
<1> QED BY <1>2, <1>3

-----------------------------------------------------------------------------
(* Vehicles                                                                *)

Detected(identity) == Cars!DetectConnector(identity.make, identity.model, identity.year)

(* What a request writes to the row: a connector that fits what the vehicle *)
(* will be, or none if it stays what it is.                                 *)
WritesWhatFits(row, q) ==
  ~q.named =>
    IF q.fields.connector = Cars!Keep
    THEN Cars!Merged(row, q.fields) = Cars!IdentityOf(row)
    ELSE q.fields.connector = Detected(Cars!Merged(row, q.fields))

(* A row that updates did not overlap on has its own connector, and gets no *)
(* other from the updates that are about to write it.                       *)
RowFits(v) ==
  vehicles[v] # Cars!Missing /\ v \notin entangled =>
    /\ ~vehicles[v].chosen => vehicles[v].connector = Detected(vehicles[v])
    /\ \A r \in Requests :
         vehicleReq[r].op = "update" /\ vehicleReq[r].id = v /\ vehicleReq[r].pc = "write" =>
           WritesWhatFits(vehicles[v], vehicleReq[r])

VehiclesInv ==
  /\ Cars!TypeOK
  /\ \A r \in Requests : vehicleReq[r].op = "update" /\ vehicleReq[r].pc = "find" =>
       (vehicleReq[r].named <=> vehicleReq[r].fields.connector # Cars!Keep)
  /\ \A v \in Vehicles : RowFits(v)

(* What the slot of a request holds, and what a row is.                     *)
LEMMA VehicleSlot ==
  ASSUME Cars!TypeOK, NEW r \in Requests
  PROVE  /\ vehicleReq[r].op \in {"idle", "update"}
         /\ vehicleReq[r].op = "idle" <=> vehicleReq[r] = Cars!Idle
         /\ vehicleReq[r].op = "update" => vehicleReq[r] \in Cars!Update
BY DEF Cars!TypeOK, Cars!Idle, Cars!Update

LEMMA VehicleRow ==
  ASSUME Cars!TypeOK, NEW v \in Vehicles, vehicles[v] # Cars!Missing
  PROVE  vehicles[v] \in Cars!Vehicle
BY DEF Cars!TypeOK

LEMMA IdleVehicleSlot == Cars!Idle.op = "idle"
BY DEF Cars!Idle

LEMMA VehicleIsThere == \A row \in Cars!Vehicle : row # Cars!Missing
<1>1. \A row \in Cars!Vehicle :
        DOMAIN row = {"make", "model", "year", "connector", "chosen"}
  BY DEF Cars!Vehicle
<1>2. DOMAIN Cars!Missing = {"make"}
  BY DEF Cars!Missing
<1>3. "model" \notin {"make"}
  OBVIOUS
<1> QED BY <1>1, <1>2, <1>3

(* The rules give a connector.                                              *)
LEMMA DetectedIsConnector ==
  ASSUME NEW make, NEW model, NEW year
  PROVE  /\ Cars!DetectConnector(make, model, year) \in Cars!Connectors
         /\ Cars!DetectConnector(make, model, year) # Cars!Keep
BY DEF Cars!DetectConnector, Cars!Connectors, Cars!Keep

(* Fields change a row into a row.                                          *)
LEMMA MergedIsIdentity ==
  ASSUME NEW row \in Cars!Vehicle, NEW fields \in Cars!Fields
  PROVE  Cars!Merged(row, fields) \in Cars!Identity
BY DEF Cars!Vehicle, Cars!Fields, Cars!Merged, Cars!Identity

(* Only the connector is added to the fields of a request.                  *)
LEMMA UpdateDataFits ==
  ASSUME NEW row \in Cars!Vehicle, NEW fields \in Cars!Fields
  PROVE  LET data == Cars!UpdateData(row, fields) IN
         /\ data \in Cars!Fields
         /\ fields.connector = Cars!Keep =>
              IF data.connector = Cars!Keep
              THEN Cars!Merged(row, data) = Cars!IdentityOf(row)
              ELSE data.connector = Detected(Cars!Merged(row, data))
<1> DEFINE new == Cars!Merged(row, fields)
           detected == Cars!DetectConnector(new.make, new.model, new.year)
           data == Cars!UpdateData(row, fields)
<1>1. detected \in Cars!Connectors /\ detected # Cars!Keep
  BY DetectedIsConnector
<1>2. CASE fields.connector # Cars!Keep \/ new = Cars!IdentityOf(row)
  <2>1. data = fields
    BY <1>2 DEF Cars!UpdateData
  <2> QED BY <1>2, <2>1
<1>3. CASE ~(fields.connector # Cars!Keep \/ new = Cars!IdentityOf(row))
  <2>1. data = [fields EXCEPT !.connector = detected]
    BY <1>3 DEF Cars!UpdateData
  <2> HIDE DEF detected, data
  <2>2. /\ data \in Cars!Fields
        /\ data.connector = detected /\ data.make = fields.make
        /\ data.model = fields.model /\ data.year = fields.year
    BY <1>1, <2>1 DEF Cars!Fields
  <2>3. Cars!Merged(row, data) = new
    BY <2>2 DEF Cars!Merged
  <2>4. detected = Detected(Cars!Merged(row, data))
    BY <2>3 DEF detected, Detected
  <2>5. data.connector # Cars!Keep /\ data.connector = Detected(Cars!Merged(row, data))
    BY <1>1, <2>2, <2>4
  <2> QED BY <2>2, <2>5 DEF data
<1> QED BY <1>2, <1>3

(* A row that is new.                                                       *)
LEMMA CreateVehicleSafe ==
  ASSUME VehiclesInv, NEW v \in Vehicles, NEW identity \in Cars!Identity,
         NEW named \in {Cars!Keep, "CCS"}, Cars!Create(v, identity, named)
  PROVE  VehiclesInv'
<1> DEFINE row == Cars!CreateData(identity, named)
<1>1. /\ row \in Cars!Vehicle
      /\ ~row.chosen => row.connector = Detected(row)
  <2>1. Cars!DetectConnector(identity.make, identity.model, identity.year) \in Cars!Connectors
    BY DetectedIsConnector
  <2>2. "CCS" \in Cars!Connectors
    BY DEF Cars!Connectors
  <2> QED BY <2>1, <2>2 DEF Cars!CreateData, Cars!Vehicle, Cars!Identity, Detected
<1> HIDE DEF row
<1>2. /\ vehicles' = [vehicles EXCEPT ![v] = row]
      /\ entangled' = entangled \ {v} /\ vehicleReq' = vehicleReq
  BY DEF Cars!Create, row
<1>3. vehicles'[v] = row /\ \A w \in Vehicles \ {v} : vehicles'[w] = vehicles[w]
  BY <1>2 DEF VehiclesInv, Cars!TypeOK
<1>4. Cars!TypeOK'
  BY <1>1, <1>2 DEF VehiclesInv, Cars!TypeOK
<1>5. \A r \in Requests : vehicleReq[r].op = "update" => vehicleReq[r].id # v
  BY DEF Cars!Create, Cars!Updating
<1>6. \A w \in Vehicles : RowFits(w)'
  BY <1>1, <1>2, <1>3, <1>5 DEF VehiclesInv, RowFits
<1> QED BY <1>2, <1>4, <1>6 DEF VehiclesInv

LEMMA DeleteVehicleSafe ==
  ASSUME VehiclesInv, NEW v \in Vehicles, Cars!Delete(v)
  PROVE  VehiclesInv'
<1>1. /\ vehicles' = [vehicles EXCEPT ![v] = Cars!Missing]
      /\ entangled' = entangled /\ vehicleReq' = vehicleReq
  BY DEF Cars!Delete
<1>2. /\ vehicles'[v] = Cars!Missing
      /\ \A w \in Vehicles \ {v} : vehicles'[w] = vehicles[w]
  BY <1>1 DEF VehiclesInv, Cars!TypeOK
<1>3. Cars!TypeOK'
  BY <1>1 DEF VehiclesInv, Cars!TypeOK
<1>4. \A w \in Vehicles : RowFits(w)'
  BY <1>1, <1>2 DEF VehiclesInv, RowFits
<1> QED BY <1>1, <1>3, <1>4 DEF VehiclesInv

(* An update that is new, and its read of the row.                          *)
LEMMA BeginUpdateSafe ==
  ASSUME VehiclesInv, NEW r \in Requests, NEW v \in Vehicles, NEW fields \in Cars!Fields,
         Cars!BeginUpdate(r, v, fields)
  PROVE  VehiclesInv'
<1> DEFINE named == fields.connector # Cars!Keep
<1>a. named \in BOOLEAN
  OBVIOUS
<1> HIDE DEF named
<1> DEFINE q == [op |-> "update", pc |-> "find", id |-> v, fields |-> fields, named |-> named]
<1>1. /\ q \in Cars!Update /\ q.op = "update" /\ q.pc = "find"
      /\ q.named = named /\ q.fields = fields
  BY <1>a DEF Cars!Update
<1>2. /\ vehicleReq' = [vehicleReq EXCEPT ![r] = q]
      /\ vehicles' = vehicles /\ entangled' = entangled
  BY DEF Cars!BeginUpdate, named
<1> HIDE DEF q
<1>3. vehicleReq'[r] = q /\ \A p \in Requests \ {r} : vehicleReq'[p] = vehicleReq[p]
  BY <1>2 DEF VehiclesInv, Cars!TypeOK
<1>4. Cars!TypeOK'
  BY <1>1, <1>2 DEF VehiclesInv, Cars!TypeOK
<1>5. \A p \in Requests : vehicleReq'[p].op = "update" /\ vehicleReq'[p].pc = "find" =>
        (vehicleReq'[p].named <=> vehicleReq'[p].fields.connector # Cars!Keep)
  BY <1>1, <1>3 DEF VehiclesInv, named
<1>6. \A w \in Vehicles : RowFits(w)'
  BY <1>1, <1>2, <1>3 DEF VehiclesInv, RowFits
<1> QED BY <1>4, <1>5, <1>6 DEF VehiclesInv

LEMMA FindVehicleSafe ==
  ASSUME VehiclesInv, NEW r \in Requests, Cars!FindVehicle(r)
  PROVE  VehiclesInv'
<1> DEFINE row == vehicles[vehicleReq[r].id]
           fields == vehicleReq[r].fields
           q == [vehicleReq[r] EXCEPT !.pc = "write", !.fields = Cars!UpdateData(row, fields)]
<1>1. /\ vehicleReq[r].op = "update" /\ vehicleReq[r].pc = "find"
      /\ vehicles' = vehicles /\ entangled' = entangled
  BY DEF Cars!FindVehicle
<1>2. /\ vehicleReq[r] \in Cars!Update /\ fields \in Cars!Fields
      /\ vehicleReq[r].id \in Vehicles
  BY <1>1, VehicleSlot DEF VehiclesInv, Cars!Update
<1>3. CASE row = Cars!Missing \/ fields = Cars!NoFields
  <2>1. vehicleReq' = [vehicleReq EXCEPT ![r] = Cars!Idle]
    BY <1>3 DEF Cars!FindVehicle
  <2>2. /\ vehicleReq'[r] = Cars!Idle
        /\ \A p \in Requests \ {r} : vehicleReq'[p] = vehicleReq[p]
    BY <2>1 DEF VehiclesInv, Cars!TypeOK
  <2>3. Cars!TypeOK'
    BY <1>1, <2>1 DEF VehiclesInv, Cars!TypeOK
  <2>4. \A w \in Vehicles : RowFits(w)'
    BY <1>1, <2>2, IdleVehicleSlot DEF VehiclesInv, RowFits
  <2> QED BY <2>2, <2>3, <2>4, IdleVehicleSlot DEF VehiclesInv
<1>4. CASE ~(row = Cars!Missing \/ fields = Cars!NoFields)
  <2>1. row \in Cars!Vehicle
    BY <1>2, <1>4, VehicleRow DEF VehiclesInv
  <2> DEFINE data == Cars!UpdateData(row, fields)
  <2>2. /\ data \in Cars!Fields
        /\ fields.connector = Cars!Keep =>
             IF data.connector = Cars!Keep
             THEN Cars!Merged(row, data) = Cars!IdentityOf(row)
             ELSE data.connector = Detected(Cars!Merged(row, data))
    BY <1>2, <2>1, UpdateDataFits
  <2>3. vehicleReq' = [vehicleReq EXCEPT ![r] = q]
    BY <1>4 DEF Cars!FindVehicle
  <2>4. q = [vehicleReq[r] EXCEPT !.pc = "write", !.fields = data]
    OBVIOUS
  <2> HIDE DEF data, q
  <2>5. /\ q \in Cars!Update /\ q.op = "update" /\ q.pc = "write" /\ q.fields = data
        /\ q.id = vehicleReq[r].id /\ q.named = vehicleReq[r].named
    BY <1>1, <1>2, <2>2, <2>4 DEF Cars!Update
  <2>6. WritesWhatFits(row, q)
    <3>1. ~vehicleReq[r].named => fields.connector = Cars!Keep
      BY <1>1 DEF VehiclesInv
    <3> QED BY <2>2, <2>5, <3>1 DEF WritesWhatFits
  <2> HIDE DEF row
  <2>7. /\ vehicleReq'[r] = q
        /\ \A p \in Requests \ {r} : vehicleReq'[p] = vehicleReq[p]
    BY <2>3 DEF VehiclesInv, Cars!TypeOK
  <2>8. Cars!TypeOK'
    BY <1>1, <2>3, <2>5 DEF VehiclesInv, Cars!TypeOK
  <2>9. \A w \in Vehicles : RowFits(w)'
    <3> SUFFICES ASSUME NEW w \in Vehicles, vehicles[w] # Cars!Missing, w \notin entangled,
                        NEW p \in Requests, vehicleReq'[p].op = "update",
                        vehicleReq'[p].id = w, vehicleReq'[p].pc = "write"
                 PROVE  WritesWhatFits(vehicles[w], vehicleReq'[p])
      BY <1>1 DEF VehiclesInv, RowFits
    <3>1. CASE p = r
      BY <2>5, <2>6, <2>7, <3>1 DEF row
    <3>2. CASE p # r
      BY <2>7, <3>2 DEF VehiclesInv, RowFits
    <3> QED BY <3>1, <3>2
  <2> QED BY <2>5, <2>7, <2>8, <2>9 DEF VehiclesInv
<1> QED BY <1>3, <1>4

(* The write: a row that nobody else is about to write fits afterwards.     *)
LEMMA WriteVehicleSafe ==
  ASSUME VehiclesInv, Cars!VehiclesAssumption, NEW r \in Requests, Cars!WriteVehicle(r)
  PROVE  VehiclesInv'
<1> DEFINE v == vehicleReq[r].id
           row == vehicles[v]
           fields == vehicleReq[r].fields
           new == Cars!Merged(row, fields)
           others == {q \in Cars!Updating \ {r} : vehicleReq[q].id = v /\ vehicleReq[q].pc = "write"}
           chosenNow == vehicleReq[r].named \/ (row.chosen /\ fields.connector = Cars!Keep)
           connectorNow == IF fields.connector = Cars!Keep THEN row.connector
                           ELSE fields.connector
           written == [make |-> new.make, model |-> new.model, year |-> new.year,
                       connector |-> connectorNow, chosen |-> chosenNow]
<1>1. /\ vehicleReq[r].op = "update" /\ vehicleReq[r].pc = "write"
      /\ vehicles' = IF row = Cars!Missing THEN vehicles ELSE [vehicles EXCEPT ![v] = written]
      /\ entangled' = IF others # {} THEN entangled \cup {v} ELSE entangled
      /\ vehicleReq' = [vehicleReq EXCEPT ![r] = Cars!Idle]
  BY DEF Cars!WriteVehicle
<1>2. /\ vehicleReq[r] \in Cars!Update /\ fields \in Cars!Fields /\ v \in Vehicles
  BY <1>1, VehicleSlot DEF VehiclesInv, Cars!Update
<1>3. /\ vehicleReq'[r] = Cars!Idle
      /\ \A p \in Requests \ {r} : vehicleReq'[p] = vehicleReq[p]
  BY <1>1 DEF VehiclesInv, Cars!TypeOK
<1>4. \A p \in Requests : vehicleReq'[p].op = "update" /\ vehicleReq'[p].pc = "find" =>
        (vehicleReq'[p].named <=> vehicleReq'[p].fields.connector # Cars!Keep)
  BY <1>3, IdleVehicleSlot DEF VehiclesInv
<1>5. entangled \subseteq entangled' /\ entangled' \subseteq Vehicles
  BY <1>1, <1>2 DEF VehiclesInv, Cars!TypeOK
<1>6. CASE row = Cars!Missing
  <2>1. vehicles' = vehicles
    BY <1>1, <1>6
  <2>2. Cars!TypeOK'
    BY <1>1, <1>5, <2>1 DEF VehiclesInv, Cars!TypeOK
  <2>3. \A w \in Vehicles : RowFits(w)'
    BY <1>3, <1>5, <2>1, IdleVehicleSlot DEF VehiclesInv, RowFits
  <2> QED BY <1>4, <2>2, <2>3 DEF VehiclesInv
<1>7. CASE row # Cars!Missing
  <2>1. row \in Cars!Vehicle
    BY <1>2, <1>7, VehicleRow DEF VehiclesInv
  <2>2. new \in Cars!Identity
    BY <1>2, <2>1, MergedIsIdentity
  <2>3. connectorNow \in Cars!Connectors
    BY <1>2, <2>1 DEF Cars!Vehicle, Cars!Fields
  <2>4. chosenNow \in BOOLEAN
    OBVIOUS
  <2>5. vehicles' = [vehicles EXCEPT ![v] = written]
    BY <1>1, <1>7
  <2>6. written = [make |-> new.make, model |-> new.model, year |-> new.year,
                   connector |-> connectorNow, chosen |-> chosenNow]
    OBVIOUS
  <2>7. v \notin entangled /\ ~chosenNow => connectorNow = Detected(new)
    <3> SUFFICES ASSUME v \notin entangled, ~chosenNow
                 PROVE  connectorNow = Detected(new)
      OBVIOUS
    <3>1. /\ ~row.chosen => row.connector = Detected(row)
          /\ WritesWhatFits(row, vehicleReq[r])
      BY <1>1, <1>2, <1>7 DEF VehiclesInv, RowFits
    <3>2. CASE fields.connector = Cars!Keep
      <4>1. ~row.chosen /\ new = Cars!IdentityOf(row) /\ connectorNow = row.connector
        BY <3>1, <3>2 DEF WritesWhatFits
      <4> HIDE DEF new
      <4>2. Detected(new) = Detected(row)
        BY <4>1 DEF Detected, Cars!IdentityOf
      <4> QED BY <3>1, <4>1, <4>2
    <3>3. CASE fields.connector # Cars!Keep
      BY <3>1, <3>3 DEF WritesWhatFits
    <3> QED BY <3>2, <3>3
  <2> HIDE DEF new, connectorNow, chosenNow
  <2>8. /\ written \in Cars!Vehicle
        /\ written.connector = connectorNow /\ written.make = new.make
        /\ written.model = new.model /\ written.year = new.year
    BY <2>2, <2>3, <2>4, <2>6 DEF Cars!Vehicle, Cars!Identity
  <2>9. written.chosen <=> chosenNow
    BY <2>4
  <2>10. v \notin entangled /\ ~written.chosen => written.connector = Detected(written)
    BY <2>7, <2>8, <2>9 DEF Detected
  <2> HIDE DEF written
  <2>11. Cars!TypeOK'
    BY <1>1, <1>5, <2>5, <2>8 DEF VehiclesInv, Cars!TypeOK
  <2>12. vehicles'[v] = written /\ \A w \in Vehicles \ {v} : vehicles'[w] = vehicles[w]
    BY <1>2, <2>5 DEF VehiclesInv, Cars!TypeOK
  <2>13. v \notin entangled' =>
           \A p \in Requests \ {r} :
             ~(vehicleReq[p].op = "update" /\ vehicleReq[p].id = v /\ vehicleReq[p].pc = "write")
    BY <1>1 DEF Cars!Updating
  <2>14. ASSUME NEW w \in Vehicles, w = v
         PROVE  RowFits(w)'
    <3>1. \A p \in Requests :
            vehicleReq'[p].op = "update" /\ vehicleReq'[p].id = w /\ vehicleReq'[p].pc = "write" =>
              w \in entangled'
      BY <1>3, <2>13, <2>14, IdleVehicleSlot
    <3>2. vehicles'[w] = written /\ (w \notin entangled /\ ~written.chosen =>
                                     written.connector = Detected(written))
      BY <2>10, <2>12, <2>14
    <3> HIDE DEF v
    <3> QED BY <1>5, <3>1, <3>2 DEF RowFits
  <2>15. ASSUME NEW w \in Vehicles, w # v
         PROVE  RowFits(w)'
    BY <1>3, <1>5, <2>12, <2>15, IdleVehicleSlot DEF VehiclesInv, RowFits
  <2>16. \A w \in Vehicles : RowFits(w)'
    BY <2>14, <2>15
  <2> HIDE DEF v
  <2> QED BY <1>4, <2>11, <2>16 DEF VehiclesInv
<1> QED BY <1>6, <1>7

(* What may be requested are fields.                                        *)
LEMMA RequestedAreFields == Cars!Requested \subseteq Cars!Fields
<1> DEFINE none == Cars!NoFields
<1>1. none \in Cars!Fields
  BY DEF Cars!NoFields, Cars!Fields
<1> HIDE DEF none
<1>2. "CCS" \in Cars!Connectors
  BY DEF Cars!Connectors
<1>3. /\ \A m \in Makes : [none EXCEPT !.make = m] \in Cars!Fields
      /\ \A m \in Models : [none EXCEPT !.model = m] \in Cars!Fields
      /\ \A y \in Years : [none EXCEPT !.year = y] \in Cars!Fields
  BY <1>1 DEF Cars!Fields
<1>4. \A m \in Makes \cup {Cars!Keep} :
        [none EXCEPT !.make = m, !.connector = "CCS"] \in Cars!Fields
  BY <1>1, <1>2 DEF Cars!Fields
<1> QED BY <1>1, <1>3, <1>4 DEF Cars!Requested, none

LEMMA VehiclesNext ==
  ASSUME VehiclesInv, Cars!VehiclesAssumption, [Cars!Next]_vehicleVars
  PROVE  VehiclesInv'
<1>1. CASE \E v \in Vehicles, identity \in Cars!Identity, named \in {Cars!Keep, "CCS"} :
             Cars!Create(v, identity, named)
  BY <1>1, CreateVehicleSafe
<1>2. CASE \E v \in Vehicles : Cars!Delete(v)
  BY <1>2, DeleteVehicleSafe
<1>3. CASE \E r \in Requests, v \in Vehicles, fields \in Cars!Requested :
             Cars!BeginUpdate(r, v, fields)
  BY <1>3, BeginUpdateSafe, RequestedAreFields
<1>4. CASE \E r \in Requests : Cars!FindVehicle(r)
  BY <1>4, FindVehicleSafe
<1>5. CASE \E r \in Requests : Cars!WriteVehicle(r)
  BY <1>5, WriteVehicleSafe
<1>6. CASE UNCHANGED vehicleVars
  BY <1>6 DEF vehicleVars, VehiclesInv, RowFits, Cars!TypeOK
<1> QED BY <1>1, <1>2, <1>3, <1>4, <1>5, <1>6 DEF Cars!Next

LEMMA VehiclesInit ==
  Cars!Init => VehiclesInv
<1> SUFFICES ASSUME Cars!Init PROVE VehiclesInv
  OBVIOUS
<1>1. /\ \A v \in Vehicles : vehicles[v] = Cars!Missing
      /\ \A r \in Requests : vehicleReq[r] = Cars!Idle
  BY DEF Cars!Init
<1>2. Cars!TypeOK
  BY DEF Cars!Init, Cars!TypeOK
<1> QED BY <1>1, <1>2, IdleVehicleSlot DEF VehiclesInv, RowFits

(* The rules, one by one: which makes and models a connector tells.         *)
LEMMA RulesTellConnectors ==
  ASSUME NEW make, NEW model, NEW year \in Nat
  PROVE  LET plug == Cars!DetectConnector(make, model, year) IN
         /\ plug = "CHADEMO" <=>
              /\ make \in Cars!ChademoMakes /\ model \notin Cars!Type2Models \cup {"TESLA"}
              /\ year > 2020 => model \in Cars!ChademoModels
         /\ plug = "TESLA" <=> "TESLA" \in {make, model}
         /\ plug = "GBT" <=> make \in Cars!GbtMakes /\ model # "TESLA"
         /\ plug = "TYPE_2" =>
              model \in Cars!Type2Models /\ make \notin Cars!GbtMakes \cup {"TESLA"}
         /\ plug = "TYPE_1" => model \in Cars!Type1Models
         /\ plug = "CCS" => model \notin Cars!Type1Models \cup Cars!Type2Models
<1> DEFINE old == year <= 2020
<1>1. old <=> ~(year > 2020)
  OBVIOUS
<1>2. Cars!DetectConnector(make, model, year) =
        IF "TESLA" \in {make, model} THEN "TESLA"
        ELSE IF make \in Cars!GbtMakes THEN "GBT"
        ELSE IF model \in Cars!Type2Models THEN "TYPE_2"
        ELSE IF make \in Cars!ChademoMakes /\ (old \/ model \in Cars!ChademoModels)
        THEN "CHADEMO"
        ELSE IF model \in Cars!Type1Models THEN "TYPE_1"
        ELSE "CCS"
  BY DEF Cars!DetectConnector
<1> HIDE DEF old
<1>3. "TESLA" \notin Cars!GbtMakes \cup Cars!ChademoMakes
  BY DEF Cars!GbtMakes, Cars!ChademoMakes
<1>4. Cars!GbtMakes \cap Cars!ChademoMakes = {}
  BY DEF Cars!GbtMakes, Cars!ChademoMakes
<1>5. Cars!Type1Models \cap Cars!Type2Models = {} /\ "TESLA" \notin Cars!Type2Models
  BY DEF Cars!Type1Models, Cars!Type2Models
<1>6. "TESLA" \notin Cars!Type1Models
  BY DEF Cars!Type1Models
<1> QED BY <1>1, <1>2, <1>3, <1>4, <1>5, <1>6

LEMMA ConnectorFitsBecause ==
  VehiclesInv => Cars!ConnectorFits
<1> SUFFICES ASSUME VehiclesInv, NEW v \in Vehicles,
                    vehicles[v] # Cars!Missing, v \notin entangled, ~vehicles[v].chosen
             PROVE  LET car == vehicles[v] IN
                    /\ car.connector = "CHADEMO" <=>
                         /\ car.make \in Cars!ChademoMakes
                         /\ car.model \notin Cars!Type2Models \cup {"TESLA"}
                         /\ car.year > 2020 => car.model \in Cars!ChademoModels
                    /\ car.connector = "TESLA" <=> "TESLA" \in {car.make, car.model}
                    /\ car.connector = "GBT" <=> car.make \in Cars!GbtMakes /\ car.model # "TESLA"
                    /\ car.connector = "TYPE_2" =>
                         car.model \in Cars!Type2Models /\ car.make \notin Cars!GbtMakes \cup {"TESLA"}
                    /\ car.connector = "TYPE_1" => car.model \in Cars!Type1Models
                    /\ car.connector = "CCS" =>
                         car.model \notin Cars!Type1Models \cup Cars!Type2Models
  BY DEF Cars!ConnectorFits
<1>1. vehicles[v].connector =
        Cars!DetectConnector(vehicles[v].make, vehicles[v].model, vehicles[v].year)
  BY DEF VehiclesInv, RowFits, Detected
<1>2. vehicles[v].year \in Nat
  BY VehicleRow, ServicesAssumptions DEF VehiclesInv, Cars!Vehicle, Cars!VehiclesAssumption
<1> QED BY <1>1, <1>2, RulesTellConnectors

(* What users write is sound: OneReviewEach, AnsweredReportsAreMailed and   *)
(* ConnectorFits (reviews, problem-reports and vehicles services), for any  *)
(* number of requests that interleave at every await and fail.              *)
THEOREM ContentStaysSound ==
  Spec => []ContentIsSound
<1> DEFINE Inv == /\ part = "content" => ContentInv
                  /\ part = "vehicles" => VehiclesInv
<1>1. Init => Inv
  BY ContentInit, VehiclesInit DEF Init
<1>2. Inv /\ [Next]_vars => Inv'
  <2>1. SUFFICES ASSUME Inv, [Next]_vars
                 PROVE  /\ part' = "content" => ContentInv'
                        /\ part' = "vehicles" => VehiclesInv'
    OBVIOUS
  <2>2. ASSUME part' = "content" PROVE ContentInv'
    <3>1. part = "content" /\ [Content!Next]_contentVars
      BY <2>1, <2>2, PartStep
    <3> QED BY <2>1, <3>1, ServicesAssumptions, ContentNext
  <2>3. ASSUME part' = "vehicles" PROVE VehiclesInv'
    <3>1. part = "vehicles" /\ [Cars!Next]_vehicleVars
      BY <2>1, <2>3, PartStep
    <3> QED BY <2>1, <3>1, ServicesAssumptions, VehiclesNext
  <2> QED BY <2>2, <2>3
<1>3. Inv => ContentIsSound
  <2>1. ContentInv => Content!AnsweredReportsAreMailed
    BY DEF ContentInv
  <2> QED BY <2>1, OneReviewBecause, ConnectorFitsBecause DEF ContentIsSound
<1> QED BY <1>1, <1>2, <1>3, PTL DEF Spec

-----------------------------------------------------------------------------
(* Metering                                                                *)

(* What the charger has measured since the session began.                   *)
Measured == IF time = 0 THEN 0 ELSE Metering!Energy(time) - Base

(* The register of a charger does not run backwards.                        *)
ReadingsGrow ==
  \A s, t \in 1..time : s <= t => Metering!Energy(s) <= Metering!Energy(t)

(* What a MeterValues in progress has read was stored, and is still there.  *)
IngestKnows(r) ==
  /\ ingest[r].times \subseteq 1..time
  /\ ingest[r].pc = "insert" => ingest[r].energy = Metering!Unread /\ ingest[r].latest = 0
  /\ ingest[r].pc # "insert" => samples # {}
  /\ ingest[r].pc \in {"cost", "emit"} =>
       ingest[r].energy # Metering!Unread /\ ingest[r].latest # 0
  /\ ingest[r].energy <= Metering!Delivered(samples)
  /\ ingest[r].latest \in samples \cup {0}

(* Nothing is shown that is not stored.                                     *)
ShownKnows ==
  shown.energy <= Metering!Delivered(samples) /\ shown.time \in samples \cup {0}

(* One MeterValues after the other: what it has read is not older than what *)
(* is shown.                                                                *)
OneAfterTheOther ==
  /\ \A q, r \in Requests :
       ingest[q] # Metering!Idle /\ ingest[r] # Metering!Idle => q = r
  /\ \A r \in Requests : ingest[r] # Metering!Idle =>
       /\ ingest[r].energy # Metering!Unread => shown.energy <= ingest[r].energy
       /\ ingest[r].latest # 0 => shown.time <= ingest[r].latest

(* Totals are those of the samples that are stored, unless some came late.  *)
StopKnows ==
  /\ stop.pc \in {"cost", "save", "done"} =>
       /\ stop.energy <= Measured
       /\ ~late => stop.energy = Metering!Delivered(samples)
  /\ stop.pc # "none" /\ stop.priced => stop.bill.charging + stop.bill.idle = stop.at

MeterInv ==
  /\ Metering!TypeOK /\ ReadingsGrow
  /\ \A r \in Requests : ingest[r] # Metering!Idle => IngestKnows(r)
  /\ ShownKnows /\ StopKnows
  /\ ~overlapped => OneAfterTheOther

-----------------------------------------------------------------------------
(* The least and the greatest of the numbers that the computations compare. *)
LEMMA LeastOf ==
  ASSUME NEW S, S \subseteq Int, S # {}, NEW a \in Int, \A x \in S : a <= x
  PROVE  Metering!Min(S) \in S /\ \A x \in S : Metering!Min(S) <= x
<1> DEFINE N == {x - a : x \in S}
<1>1. N \subseteq Nat /\ N # {}
  <2>1. ASSUME NEW x \in S PROVE x - a \in Nat
    <3>1. x \in Int /\ a <= x
      BY <2>1
    <3> QED BY <3>1
  <2>2. PICK y \in S : TRUE
    OBVIOUS
  <2> QED BY <2>1, <2>2
<1>2. PICK n \in N : \A m \in N : n <= m
  BY <1>1, LeastNumber
<1>3. PICK y \in S : n = y - a
  BY <1>2
<1>4. \A x \in S : y <= x
  <2> SUFFICES ASSUME NEW x \in S PROVE y <= x
    OBVIOUS
  <2>1. n <= x - a
    BY <1>2
  <2> QED BY <1>3, <2>1
<1> QED BY <1>4 DEF Metering!Min

LEMMA GreatestOf ==
  ASSUME NEW S, S \subseteq Int, S # {}, NEW b \in Int, \A x \in S : x <= b
  PROVE  Metering!Max(S) \in S /\ \A x \in S : x <= Metering!Max(S)
<1> DEFINE N == {b - x : x \in S}
<1>1. N \subseteq Nat /\ N # {}
  <2>1. ASSUME NEW x \in S PROVE b - x \in Nat
    <3>1. x \in Int /\ x <= b
      BY <2>1
    <3> QED BY <3>1
  <2>2. PICK y \in S : TRUE
    OBVIOUS
  <2> QED BY <2>1, <2>2
<1>2. PICK n \in N : \A m \in N : n <= m
  BY <1>1, LeastNumber
<1>3. PICK y \in S : n = b - y
  BY <1>2
<1>4. \A x \in S : y >= x
  <2> SUFFICES ASSUME NEW x \in S PROVE y >= x
    OBVIOUS
  <2>1. n <= b - x
    BY <1>2
  <2> QED BY <1>3, <2>1
<1> QED BY <1>4 DEF Metering!Max

(* What is known of the clock and the readings.                             *)
LEMMA ReadingTypes ==
  ASSUME Metering!TypeOK, Metering!MeteringAssumption
  PROVE  /\ time \in Nat /\ MaxReading \in Nat /\ Base \in Nat /\ time <= MaxReading
         /\ \A t \in 1..time : /\ Metering!Energy(t) \in Int
                               /\ Base <= Metering!Energy(t)
                               /\ Metering!Energy(t) <= Base + MaxReading
<1>1. /\ time \in Nat /\ MaxReading \in Nat /\ Base \in Nat /\ time <= MaxReading
  BY DEF Metering!TypeOK, Metering!MeteringAssumption
<1>2. ASSUME NEW t \in 1..time
      PROVE  readings[t].energy \in Base..(Base + MaxReading)
  BY DEF Metering!TypeOK, Metering!Reading, Metering!Energies
<1>3. \A t \in 1..time : Metering!Energy(t) \in Base..(Base + MaxReading)
  BY <1>2 DEF Metering!Energy
<1> QED BY <1>1, <1>3

(* The energy of more samples is not less, and not more than was measured.  *)
LEMMA DeliveredGrows ==
  ASSUME Metering!TypeOK, Metering!MeteringAssumption, ReadingsGrow,
         NEW S, NEW T, S \subseteq T, T \subseteq 1..time
  PROVE  /\ Metering!Delivered(S) \in 0..MaxReading
         /\ Metering!Delivered(T) \in 0..MaxReading
         /\ Metering!Delivered(S) <= Metering!Delivered(T)
         /\ Metering!Delivered(T) <= Measured
<1>1. /\ time \in Nat /\ MaxReading \in Nat /\ Base \in Nat /\ time <= MaxReading
      /\ \A t \in 1..time : /\ Metering!Energy(t) \in Int
                            /\ Base <= Metering!Energy(t)
                            /\ Metering!Energy(t) <= Base + MaxReading
  BY ReadingTypes
<1>2. Measured \in Int /\ 0 <= Measured
  <2>1. CASE time = 0
    BY <2>1 DEF Measured
  <2>2. CASE time # 0
    <3>1. time \in 1..time
      BY <1>1, <2>2
    <3> QED BY <1>1, <2>2, <3>1 DEF Measured
  <2> QED BY <2>1, <2>2
<1>3. ASSUME NEW U, U \subseteq 1..time, U # {}
      PROVE  LET E == {Metering!Energy(t) : t \in U} IN
             /\ Metering!Min(E) \in E /\ \A x \in E : Metering!Min(E) <= x
             /\ Metering!Max(E) \in E /\ \A x \in E : x <= Metering!Max(E)
             /\ Metering!Min(E) \in Int /\ Metering!Max(E) \in Int
             /\ Metering!Delivered(U) = Metering!Max(E) - Metering!Min(E)
             /\ Metering!Delivered(U) \in 0..MaxReading
             /\ Metering!Delivered(U) <= Measured
  <2> DEFINE E == {Metering!Energy(t) : t \in U}
             lo == Metering!Min(E)
             hi == Metering!Max(E)
  <2>1. E \subseteq Int /\ E # {} /\ \A x \in E : Base <= x /\ x <= Base + MaxReading
    BY <1>1, <1>3
  <2>2. Base \in Int /\ Base + MaxReading \in Int
    BY <1>1
  <2>3. lo \in E /\ \A x \in E : lo <= x
    BY <2>1, <2>2, LeastOf
  <2>4. hi \in E /\ \A x \in E : x <= hi
    BY <2>1, <2>2, GreatestOf
  <2>5. Metering!Delivered(U) = hi - lo
    BY <1>3 DEF Metering!Delivered
  <2>6. PICK t \in U : hi = Metering!Energy(t)
    BY <2>4
  <2>7. hi <= Metering!Energy(time) /\ time # 0 /\ time \in 1..time
    <3>1. t \in 1..time /\ time \in 1..time /\ t <= time /\ time # 0
      BY <1>1, <1>3
    <3> QED BY <2>6, <3>1 DEF ReadingsGrow
  <2> HIDE DEF E, lo, hi
  <2>8. lo \in Int /\ hi \in Int /\ lo <= hi /\ Base <= lo /\ hi <= Base + MaxReading
    BY <2>1, <2>3, <2>4
  <2>9. hi - lo \in 0..MaxReading /\ hi - lo <= Measured
    <3>1. Measured = Metering!Energy(time) - Base /\ Metering!Energy(time) \in Int
      BY <1>1, <2>7 DEF Measured
    <3> QED BY <1>1, <2>7, <2>8, <3>1
  <2> QED BY <2>3, <2>4, <2>5, <2>8, <2>9 DEF E, lo, hi
<1>4. CASE T = {}
  <2>1. S = {} /\ Metering!Delivered(S) = 0 /\ Metering!Delivered(T) = 0
    BY <1>4 DEF Metering!Delivered
  <2> QED BY <1>1, <1>2, <2>1
<1>5. CASE T # {} /\ S = {}
  <2>1. Metering!Delivered(S) = 0
    BY <1>5 DEF Metering!Delivered
  <2>2. Metering!Delivered(T) \in 0..MaxReading /\ Metering!Delivered(T) <= Measured
    BY <1>3, <1>5
  <2> QED BY <1>1, <2>1, <2>2
<1>6. CASE S # {}
  <2> DEFINE D == {Metering!Energy(t) : t \in S}
             E == {Metering!Energy(t) : t \in T}
  <2>1. T # {} /\ S \subseteq 1..time /\ D \subseteq E
    BY <1>6
  <2>2. /\ Metering!Min(D) \in D /\ Metering!Max(D) \in D
        /\ Metering!Min(D) \in Int /\ Metering!Max(D) \in Int
        /\ Metering!Delivered(S) = Metering!Max(D) - Metering!Min(D)
        /\ Metering!Delivered(S) \in 0..MaxReading
    BY <1>3, <1>6, <2>1
  <2>3. /\ \A x \in E : Metering!Min(E) <= x /\ x <= Metering!Max(E)
        /\ Metering!Min(E) \in Int /\ Metering!Max(E) \in Int
        /\ Metering!Delivered(T) = Metering!Max(E) - Metering!Min(E)
        /\ Metering!Delivered(T) \in 0..MaxReading
        /\ Metering!Delivered(T) <= Measured
    BY <1>3, <2>1
  <2>4. Metering!Min(E) <= Metering!Min(D) /\ Metering!Max(D) <= Metering!Max(E)
    BY <2>1, <2>2, <2>3
  <2> HIDE DEF D, E
  <2>5. Metering!Delivered(S) <= Metering!Delivered(T)
    BY <2>2, <2>3, <2>4
  <2> QED BY <2>2, <2>3, <2>5
<1> QED BY <1>4, <1>5, <1>6

(* The latest sample, and the part of the session after the charging.       *)
LEMMA LatestSample ==
  ASSUME Metering!TypeOK, Metering!MeteringAssumption, NEW S, S \subseteq 1..time, S # {}
  PROVE  /\ Metering!Max(S) \in S /\ \A x \in S : x <= Metering!Max(S)
         /\ Metering!Max(S) \in 1..time
<1>1. time \in Int /\ S \subseteq Int /\ \A x \in S : x <= time
  BY ReadingTypes
<1> QED BY <1>1, GreatestOf

LEMMA IdleIsPart ==
  ASSUME Metering!TypeOK, Metering!MeteringAssumption,
         NEW S, S \subseteq 1..time, NEW energy, NEW at \in 0..MaxReading
  PROVE  LET bill == Metering!SessionCost(S, energy, at) IN
         bill \in Metering!Bill /\ bill.charging + bill.idle = at
<1>0. MaxReading \in Nat /\ time \in Nat
  BY ReadingTypes
<1>1. \A from \in Nat : Metering!Duration(from, at) \in 0..at
  BY <1>0 DEF Metering!Duration
<1>2. Metering!IdleDuration(S, energy, at) \in 0..at
  <2>1. CASE S = {}
    BY <1>0, <2>1 DEF Metering!IdleDuration
  <2>2. CASE S # {} /\ Metering!ChargingTimes(S) # {}
    <3>1. Metering!ChargingTimes(S) \subseteq S
      BY DEF Metering!ChargingTimes
    <3>2. Metering!Max(Metering!ChargingTimes(S)) \in 1..time
      BY <2>2, <3>1, LatestSample
    <3> QED BY <1>1, <2>2, <3>2 DEF Metering!IdleDuration
  <2>3. CASE S # {} /\ Metering!ChargingTimes(S) = {}
    <3> DEFINE some == energy > 0
    <3>1. Metering!IdleDuration(S, energy, at) = IF some THEN 0 ELSE Metering!Duration(0, at)
      BY <2>3 DEF Metering!IdleDuration
    <3> HIDE DEF some
    <3>2. 0 \in 0..at
      BY <1>0
    <3> QED BY <1>1, <3>1, <3>2
  <2> QED BY <2>1, <2>2, <2>3
<1> DEFINE idle == Metering!IdleDuration(S, energy, at)
<1>3. Metering!Duration(0, at) = at
  BY <1>0 DEF Metering!Duration
<1>4. Metering!SessionCost(S, energy, at) =
        [charging |-> Metering!Duration(idle, at), idle |-> idle]
  BY <1>3 DEF Metering!SessionCost
<1> HIDE DEF idle
<1>5. Metering!Duration(idle, at) = at - idle
  BY <1>0, <1>2 DEF Metering!Duration, idle
<1>6. idle \in 0..MaxReading /\ at - idle \in 0..MaxReading /\ (at - idle) + idle = at
  BY <1>0, <1>2 DEF idle
<1> QED BY <1>4, <1>5, <1>6 DEF Metering!Bill

(* What the slot of a MeterValues holds.                                    *)
LEMMA IngestSlot ==
  ASSUME Metering!TypeOK, NEW r \in Requests
  PROVE  /\ ingest[r].pc \in {"idle", "insert", "read", "cost", "emit"}
         /\ ingest[r].pc = "idle" <=> ingest[r] = Metering!Idle
         /\ ingest[r] # Metering!Idle => ingest[r] \in Metering!Ingestion
BY DEF Metering!TypeOK, Metering!Idle, Metering!Ingestion

LEMMA IdleIngest == Metering!Idle.pc = "idle"
BY DEF Metering!Idle

LEMMA IngestionIsNotIdle ==
  \A q \in Metering!Ingestion :
    /\ q # Metering!Idle /\ q.pc \in {"insert", "read", "cost", "emit"}
    /\ q.times \subseteq Metering!Times
    /\ q.energy \in Metering!Unread..(Base + MaxReading) /\ q.latest \in 0..MaxReading
BY DEF Metering!Idle, Metering!Ingestion

LEMMA IngestMoves ==
  ASSUME Metering!TypeOK, NEW r \in Requests, NEW q \in {Metering!Idle} \cup Metering!Ingestion,
         ingest' = [ingest EXCEPT ![r] = q]
  PROVE  /\ ingest' \in [Requests -> {Metering!Idle} \cup Metering!Ingestion]
         /\ ingest'[r] = q
         /\ \A p \in Requests \ {r} : ingest'[p] = ingest[p]
BY DEF Metering!TypeOK

(* While nothing is measured or stored, the totals stay.                    *)
LEMMA TotalsStay ==
  ASSUME UNCHANGED <<time, readings, samples>>
  PROVE  /\ Metering!Delivered(samples)' = Metering!Delivered(samples)
         /\ Measured' = Measured
         /\ ReadingsGrow <=> ReadingsGrow'
BY DEF Metering!Delivered, Metering!Energy, Measured, ReadingsGrow

(* A step of r that neither stores nor shows anything.                      *)
LEMMA IngestStep ==
  ASSUME MeterInv, NEW r \in Requests, NEW q \in {Metering!Idle} \cup Metering!Ingestion,
         ingest' = [ingest EXCEPT ![r] = q],
         UNCHANGED <<time, readings, samples, shown, stop, late>>,
         overlapped' \in BOOLEAN, ~overlapped' => ~overlapped,
         q # Metering!Idle => IngestKnows(r)',
         ~overlapped' /\ q # Metering!Idle =>
           /\ \A p \in Requests \ {r} : ingest[p] = Metering!Idle
           /\ q.energy # Metering!Unread => shown.energy <= q.energy
           /\ q.latest # 0 => shown.time <= q.latest
  PROVE  MeterInv'
<1>1. /\ ingest' \in [Requests -> {Metering!Idle} \cup Metering!Ingestion]
      /\ ingest'[r] = q
      /\ \A p \in Requests \ {r} : ingest'[p] = ingest[p]
  BY IngestMoves DEF MeterInv
<1>2. /\ Metering!Delivered(samples)' = Metering!Delivered(samples)
      /\ Measured' = Measured
      /\ ReadingsGrow'
  BY TotalsStay DEF MeterInv
<1>3. Metering!TypeOK'
  BY <1>1 DEF MeterInv, Metering!TypeOK
<1>4. ASSUME NEW p \in Requests, ingest'[p] # Metering!Idle
      PROVE  IngestKnows(p)'
  BY <1>1, <1>2, <1>4 DEF MeterInv, IngestKnows
<1>5. ShownKnows' /\ StopKnows'
  BY <1>2 DEF MeterInv, ShownKnows, StopKnows
<1>6. ASSUME ~overlapped' PROVE OneAfterTheOther'
  <2>1. OneAfterTheOther
    BY <1>6 DEF MeterInv
  <2>2. \A p \in Requests : ingest'[p] # Metering!Idle => ingest'[p] = q \/ ingest'[p] = ingest[p]
    BY <1>1
  <2>3. \A o, p \in Requests :
          ingest'[o] # Metering!Idle /\ ingest'[p] # Metering!Idle => o = p
    BY <1>1, <1>6, <2>1 DEF OneAfterTheOther
  <2> QED BY <1>1, <1>6, <2>1, <2>3 DEF OneAfterTheOther
<1> QED BY <1>2, <1>3, <1>4, <1>5, <1>6 DEF MeterInv

LEMMA MeasureSafe ==
  ASSUME MeterInv, Metering!MeteringAssumption, NEW energy \in Metering!Energies,
         NEW active \in BOOLEAN, Metering!Measure(energy, active)
  PROVE  MeterInv'
<1> DEFINE new == [energy |-> energy, active |-> active]
<1>1. /\ time < MaxReading /\ stop = Metering!NoStop
      /\ energy >= (IF time = 0 THEN Base ELSE Metering!Energy(time))
      /\ time' = time + 1
      /\ readings' = [t \in 1..(time + 1) |-> IF t <= time THEN readings[t] ELSE new]
      /\ UNCHANGED <<samples, ingest, shown, stop, overlapped, late>>
  BY DEF Metering!Measure
<1>2. new \in Metering!Reading /\ new.energy = energy
  BY DEF Metering!Reading
<1> HIDE DEF new
<1>3. /\ time \in Nat /\ MaxReading \in Nat /\ time' \in 0..MaxReading
      /\ energy \in Int /\ Base \in Int
      /\ \A t \in 1..time : Metering!Energy(t) \in Int
  BY <1>1, ReadingTypes DEF MeterInv, Metering!Energies, Metering!MeteringAssumption
<1>4. /\ \A t \in 1..time : readings'[t] = readings[t]
      /\ readings'[time + 1] = new
      /\ 1..time \subseteq 1..(time + 1)
  <2>1. \A t \in 1..time : t \in 1..(time + 1) /\ t <= time
    BY <1>3
  <2>2. time + 1 \in 1..(time + 1) /\ ~(time + 1 <= time)
    BY <1>3
  <2> QED BY <1>1, <2>1, <2>2
<1>5. /\ \A t \in 1..time : readings'[t].energy = Metering!Energy(t)
      /\ readings'[time + 1].energy = energy
  BY <1>2, <1>4 DEF Metering!Energy
<1>6. readings' \in [1..time' -> Metering!Reading]
  <2>1. \A t \in 1..(time + 1) : (IF t <= time THEN readings[t] ELSE new) \in Metering!Reading
    <3> SUFFICES ASSUME NEW t \in 1..(time + 1), t <= time
                 PROVE  readings[t] \in Metering!Reading
      BY <1>2
    <3>1. t \in 1..time
      BY <1>3
    <3> QED BY <3>1 DEF MeterInv, Metering!TypeOK
  <2> QED BY <1>1, <2>1
<1>7. Metering!TypeOK'
  <2>1. samples \subseteq 1..time'
    BY <1>1, <1>4 DEF MeterInv, Metering!TypeOK
  <2> QED BY <1>1, <1>3, <1>6, <2>1 DEF MeterInv, Metering!TypeOK
<1>8. ReadingsGrow'
  <2> SUFFICES ASSUME NEW s \in 1..(time + 1), NEW t \in 1..(time + 1), s <= t
               PROVE  readings'[s].energy <= readings'[t].energy
    BY <1>1 DEF ReadingsGrow, Metering!Energy
  <2>1. CASE t <= time
    <3>1. s \in 1..time /\ t \in 1..time
      BY <1>3, <2>1
    <3> QED BY <1>5, <3>1 DEF MeterInv, ReadingsGrow
  <2>2. CASE t = time + 1 /\ s = time + 1
    BY <1>3, <1>5, <2>2
  <2>3. CASE t = time + 1 /\ s <= time
    <3>1. s \in 1..time /\ time \in 1..time /\ s <= time /\ time # 0
      BY <1>3, <2>3
    <3>2. Metering!Energy(s) <= Metering!Energy(time)
      BY <3>1 DEF MeterInv, ReadingsGrow
    <3>3. energy >= Metering!Energy(time)
      BY <1>1, <3>1
    <3>4. /\ readings'[s].energy = Metering!Energy(s) /\ Metering!Energy(s) \in Int
          /\ readings'[t].energy = energy /\ Metering!Energy(time) \in Int
      BY <1>3, <1>5, <2>3, <3>1
    <3> QED BY <1>3, <3>2, <3>3, <3>4
  <2> QED BY <1>3, <2>1, <2>2, <2>3
<1>9. Metering!Delivered(samples)' = Metering!Delivered(samples)
  <2>1. samples \subseteq 1..time
    BY DEF MeterInv, Metering!TypeOK
  <2>2. {readings'[t].energy : t \in samples} = {readings[t].energy : t \in samples}
    BY <1>5, <2>1 DEF Metering!Energy
  <2> QED BY <1>1, <2>2 DEF Metering!Delivered, Metering!Energy
<1>10. \A r \in Requests : ingest'[r] # Metering!Idle => IngestKnows(r)'
  BY <1>1, <1>4, <1>9 DEF MeterInv, IngestKnows
<1>11. ShownKnows'
  BY <1>1, <1>9 DEF MeterInv, ShownKnows
<1>12. StopKnows'
  BY <1>1 DEF StopKnows, Metering!NoStop
<1>13. ~overlapped' => OneAfterTheOther'
  BY <1>1 DEF MeterInv, OneAfterTheOther
<1> QED BY <1>7, <1>8, <1>10, <1>11, <1>12, <1>13 DEF MeterInv

LEMMA ReceiveSafe ==
  ASSUME MeterInv, Metering!MeteringAssumption, NEW r \in Requests,
         NEW times, times \subseteq 1..time, Metering!Receive(r, times)
  PROVE  MeterInv'
<1> DEFINE q == [pc |-> "insert", times |-> times, energy |-> Metering!Unread, latest |-> 0]
           busy == \E p \in Requests : ingest[p] # Metering!Idle
<1>0. time \in Nat /\ MaxReading \in Nat /\ Base \in Nat /\ time <= MaxReading
  BY ReadingTypes DEF MeterInv
<1>1. /\ ingest' = [ingest EXCEPT ![r] = q]
      /\ overlapped' = (overlapped \/ busy)
      /\ UNCHANGED <<time, readings, samples, shown, stop, late>>
  BY DEF Metering!Receive
<1>2. overlapped' \in BOOLEAN
  BY <1>1
<1>3. ~overlapped' => ~overlapped /\ \A p \in Requests : ingest[p] = Metering!Idle
  BY <1>1
<1>4. /\ q \in Metering!Ingestion
      /\ q.pc = "insert" /\ q.times = times /\ q.energy = Metering!Unread /\ q.latest = 0
  <2>1. times \in SUBSET Metering!Times
    BY <1>0 DEF Metering!Times
  <2>2. Metering!Unread \in Metering!Unread..(Base + MaxReading) /\ 0 \in 0..MaxReading
    BY <1>0 DEF Metering!Unread
  <2> QED BY <2>1, <2>2 DEF Metering!Ingestion
<1> HIDE DEF q, busy
<1>5. ingest'[r] = q
  BY <1>1 DEF MeterInv, Metering!TypeOK
<1>6. Metering!Unread <= Metering!Delivered(samples)'
  <2>1. Metering!Delivered(samples) \in 0..MaxReading
    BY DeliveredGrows DEF MeterInv, Metering!TypeOK
  <2>2. Metering!Delivered(samples)' = Metering!Delivered(samples)
    BY <1>1, TotalsStay
  <2> QED BY <1>0, <2>1, <2>2 DEF Metering!Unread
<1>7. IngestKnows(r)'
  BY <1>1, <1>4, <1>5, <1>6 DEF IngestKnows
<1> QED BY <1>1, <1>2, <1>3, <1>4, <1>7, IngestStep

LEMMA FailIngestSafe ==
  ASSUME MeterInv, NEW r \in Requests, Metering!Fail(r)
  PROVE  MeterInv'
BY IngestStep DEF Metering!Fail, MeterInv, Metering!TypeOK

(* The reads, which both end in ReadDone, and that of the cost.             *)
LEMMA ReadIngestSafe ==
  ASSUME MeterInv, NEW r \in Requests, NEW i \in Metering!Ingestion,
         ingest[r].pc \in {"read", "cost"}, i.times = ingest[r].times, i.pc # "insert",
         i.pc \in {"cost", "emit"} => i.energy # Metering!Unread /\ i.latest # 0,
         i.energy = ingest[r].energy \/ i.energy = Metering!Delivered(samples),
         i.latest = ingest[r].latest
           \/ (i.latest \in samples /\ \A t \in samples : t <= i.latest),
         ingest' = [ingest EXCEPT ![r] = i],
         UNCHANGED <<time, readings, samples, shown, stop, overlapped, late>>,
         Metering!MeteringAssumption
  PROVE  MeterInv'
<1>1. ingest[r] # Metering!Idle /\ ingest'[r] = i
  BY IdleIngest DEF MeterInv, Metering!TypeOK
<1>2. IngestKnows(r)
  BY <1>1 DEF MeterInv
<1>3. /\ Metering!Delivered(samples)' = Metering!Delivered(samples)
      /\ Metering!Delivered(samples) \in 0..MaxReading
  BY TotalsStay, DeliveredGrows DEF MeterInv, Metering!TypeOK
<1>4. samples # {}
  BY <1>2 DEF IngestKnows
<1>5. Metering!Delivered(samples) <= Metering!Delivered(samples)
  BY <1>3
<1>6. IngestKnows(r)'
  BY <1>1, <1>2, <1>3, <1>4, <1>5 DEF IngestKnows
<1>7. ASSUME ~overlapped
      PROVE  /\ \A p \in Requests \ {r} : ingest[p] = Metering!Idle
             /\ i.energy # Metering!Unread => shown.energy <= i.energy
             /\ i.latest # 0 => shown.time <= i.latest
  <2>1. OneAfterTheOther
    BY <1>7 DEF MeterInv
  <2>2. shown.time \in samples \cup {0} /\ shown.energy <= Metering!Delivered(samples)
    BY DEF MeterInv, ShownKnows
  <2>3. 0 <= i.latest
    <3>1. MaxReading \in Nat
      BY DEF Metering!MeteringAssumption
    <3> QED BY <3>1, IngestionIsNotIdle
  <2> QED BY <1>1, <2>1, <2>2, <2>3 DEF OneAfterTheOther
<1> QED BY <1>6, <1>7, IngestStep DEF MeterInv, Metering!TypeOK

LEMMA ReadDoneIs ==
  ASSUME NEW i \in Metering!Ingestion, i.pc = "read"
  PROVE  LET j == Metering!ReadDone(i) IN
         /\ j \in Metering!Ingestion /\ j.times = i.times /\ j.pc \in {"read", "cost"}
         /\ j.energy = i.energy /\ j.latest = i.latest
         /\ j.pc = "cost" => j.energy # Metering!Unread /\ j.latest # 0
BY DEF Metering!ReadDone, Metering!Ingestion

LEMMA ReadsSafe ==
  ASSUME MeterInv, Metering!MeteringAssumption, NEW r \in Requests,
         Metering!ReadAggregate(r) \/ Metering!ReadLatest(r) \/ Metering!ReadLiveCost(r)
  PROVE  MeterInv'
<1>1. /\ ingest[r].pc \in {"read", "cost"}
      /\ UNCHANGED <<time, readings, samples, shown, stop, overlapped, late>>
  BY DEF Metering!ReadAggregate, Metering!ReadLatest, Metering!ReadLiveCost
<1>2. ingest[r] \in Metering!Ingestion /\ ingest[r] # Metering!Idle
  BY <1>1, IngestSlot DEF MeterInv
<1>3. IngestKnows(r)
  BY <1>2 DEF MeterInv
<1>4. CASE Metering!ReadAggregate(r)
  <2> DEFINE total == Metering!Delivered(samples)
             i == [ingest[r] EXCEPT !.energy = total]
             j == Metering!ReadDone(i)
  <2>1. ingest[r].pc = "read" /\ ingest' = [ingest EXCEPT ![r] = j]
    BY <1>4 DEF Metering!ReadAggregate
  <2>2. total \in Metering!Unread..(Base + MaxReading)
    <3>1. total \in 0..MaxReading
      BY DeliveredGrows DEF MeterInv, Metering!TypeOK
    <3>2. MaxReading \in Nat /\ Base \in Nat
      BY DEF Metering!MeteringAssumption
    <3> QED BY <3>1, <3>2 DEF Metering!Unread
  <2>3. total = Metering!Delivered(samples)
    OBVIOUS
  <2> HIDE DEF total
  <2>4. /\ i \in Metering!Ingestion /\ i.pc = "read" /\ i.times = ingest[r].times
        /\ i.energy = total /\ i.latest = ingest[r].latest
    BY <1>2, <2>1, <2>2 DEF Metering!Ingestion
  <2> HIDE DEF i
  <2>5. /\ j \in Metering!Ingestion /\ j.times = i.times /\ j.pc \in {"read", "cost"}
        /\ j.energy = i.energy /\ j.latest = i.latest
        /\ j.pc = "cost" => j.energy # Metering!Unread /\ j.latest # 0
    BY <2>4, ReadDoneIs
  <2> HIDE DEF j
  <2> QED BY <1>1, <2>1, <2>3, <2>4, <2>5, ReadIngestSafe
<1>5. CASE Metering!ReadLatest(r)
  <2> DEFINE last == Metering!Max(samples)
             i == [ingest[r] EXCEPT !.latest = last]
             j == Metering!ReadDone(i)
  <2>1. ingest[r].pc = "read" /\ ingest' = [ingest EXCEPT ![r] = j]
    BY <1>5 DEF Metering!ReadLatest
  <2>2. last \in samples /\ (\A t \in samples : t <= last) /\ last \in 0..MaxReading
    <3>1. samples # {} /\ samples \subseteq 1..time
      BY <1>3, <2>1 DEF IngestKnows, MeterInv, Metering!TypeOK
    <3>2. last \in samples /\ (\A t \in samples : t <= last) /\ last \in 1..time
      BY <3>1, LatestSample DEF MeterInv
    <3> QED BY <3>2, ReadingTypes DEF MeterInv
  <2> HIDE DEF last
  <2>4. /\ i \in Metering!Ingestion /\ i.pc = "read" /\ i.times = ingest[r].times
        /\ i.latest = last /\ i.energy = ingest[r].energy
    BY <1>2, <2>1, <2>2 DEF Metering!Ingestion
  <2> HIDE DEF i
  <2>5. /\ j \in Metering!Ingestion /\ j.times = i.times /\ j.pc \in {"read", "cost"}
        /\ j.energy = i.energy /\ j.latest = i.latest
        /\ j.pc = "cost" => j.energy # Metering!Unread /\ j.latest # 0
    BY <2>4, ReadDoneIs
  <2> HIDE DEF j
  <2> QED BY <1>1, <2>1, <2>2, <2>4, <2>5, ReadIngestSafe
<1>6. CASE Metering!ReadLiveCost(r)
  <2> DEFINE j == [ingest[r] EXCEPT !.pc = "emit"]
  <2>1. ingest[r].pc = "cost" /\ ingest' = [ingest EXCEPT ![r] = j]
    BY <1>6 DEF Metering!ReadLiveCost
  <2>2. /\ j \in Metering!Ingestion /\ j.pc = "emit" /\ j.times = ingest[r].times
        /\ j.energy = ingest[r].energy /\ j.latest = ingest[r].latest
    BY <1>2 DEF Metering!Ingestion
  <2>3. j.energy # Metering!Unread /\ j.latest # 0
    BY <1>3, <2>1, <2>2 DEF IngestKnows
  <2> HIDE DEF j
  <2> QED BY <1>1, <2>1, <2>2, <2>3, ReadIngestSafe
<1> QED BY <1>4, <1>5, <1>6

(* New samples are stored: the totals grow, and those of a stop that has    *)
(* read them before are late.                                               *)
LEMMA InsertSafe ==
  ASSUME MeterInv, Metering!MeteringAssumption, NEW r \in Requests, Metering!Insert(r)
  PROVE  MeterInv'
<1> DEFINE q == [ingest[r] EXCEPT !.pc = "read"]
           i == IF ingest[r].times \subseteq samples THEN Metering!Idle ELSE q
           known == ingest[r].times \subseteq samples
           read == stop.pc \notin {"none", "totals"}
<1>1. /\ ingest[r].pc = "insert"
      /\ samples' = samples \cup ingest[r].times
      /\ ingest' = [ingest EXCEPT ![r] = i]
      /\ late' = (late \/ (read /\ ~known))
      /\ UNCHANGED <<time, readings, shown, stop, overlapped>>
  BY DEF Metering!Insert
<1>2. ingest[r] \in Metering!Ingestion /\ ingest[r] # Metering!Idle
  BY <1>1, IngestSlot DEF MeterInv
<1>3. IngestKnows(r)
  BY <1>2 DEF MeterInv
<1>4. /\ i \in {Metering!Idle} \cup Metering!Ingestion
      /\ i # Metering!Idle => /\ i.pc = "read" /\ i.times = ingest[r].times
                              /\ i.energy = Metering!Unread /\ i.latest = 0
                              /\ ~known
  BY <1>1, <1>2, <1>3 DEF Metering!Ingestion, IngestKnows
<1>5. late' \in BOOLEAN /\ (~late' => ~late) /\ (~late' /\ read => known)
  BY <1>1
<1> HIDE DEF q, i
<1>6. /\ ingest' \in [Requests -> {Metering!Idle} \cup Metering!Ingestion]
      /\ ingest'[r] = i
      /\ \A p \in Requests \ {r} : ingest'[p] = ingest[p]
  BY <1>1, <1>4, IngestMoves DEF MeterInv
<1>7. samples \subseteq samples' /\ samples' \subseteq 1..time /\ (known => samples' = samples)
  BY <1>1, <1>3 DEF IngestKnows, MeterInv, Metering!TypeOK
<1>8. Metering!TypeOK'
  BY <1>1, <1>5, <1>6, <1>7 DEF MeterInv, Metering!TypeOK
<1>9. Measured' = Measured /\ ReadingsGrow'
  BY <1>1 DEF MeterInv, Measured, ReadingsGrow, Metering!Energy
<1>10. /\ Metering!Delivered(samples) \in 0..MaxReading
       /\ Metering!Delivered(samples)' \in 0..MaxReading
       /\ Metering!Delivered(samples) <= Metering!Delivered(samples)'
       /\ known => Metering!Delivered(samples)' = Metering!Delivered(samples)
  <2> DEFINE more == samples \cup ingest[r].times
  <2>1. samples \subseteq more /\ more \subseteq 1..time
    BY <1>1, <1>7
  <2>2. Metering!Delivered(samples)' = Metering!Delivered(more)
    BY <1>1 DEF Metering!Delivered, Metering!Energy
  <2>3. known => more = samples
    OBVIOUS
  <2> HIDE DEF more, known
  <2>4. /\ Metering!Delivered(samples) \in 0..MaxReading
        /\ Metering!Delivered(more) \in 0..MaxReading
        /\ Metering!Delivered(samples) <= Metering!Delivered(more)
    BY <2>1, DeliveredGrows DEF MeterInv
  <2> QED BY <2>2, <2>3, <2>4
<1>11. MaxReading \in Nat /\ Base \in Nat /\ Metering!Unread \in Int /\ Metering!Unread < 0
  BY DEF Metering!MeteringAssumption, Metering!Unread
<1>12. ASSUME NEW p \in Requests, ingest'[p] # Metering!Idle
       PROVE  IngestKnows(p)'
  <2>1. CASE p = r
    <3>1. ingest'[r] = i /\ i # Metering!Idle
      BY <1>6, <1>12, <2>1
    <3>2. samples' # {} /\ ingest[r].times \subseteq 1..time
      BY <1>1, <1>3, <1>4, <3>1 DEF IngestKnows
    <3>3. Metering!Unread <= Metering!Delivered(samples)'
      BY <1>10, <1>11
    <3> HIDE DEF known, read
    <3> QED BY <1>1, <1>4, <2>1, <3>1, <3>2, <3>3 DEF IngestKnows
  <2>2. CASE p # r
    <3>1. ingest'[p] = ingest[p] /\ IngestKnows(p)
      BY <1>6, <1>12, <2>2 DEF MeterInv
    <3>2. ingest[p].energy \in Int
      BY <1>11, <1>12, <3>1, IngestSlot, IngestionIsNotIdle DEF MeterInv
    <3>3. ingest[p].energy <= Metering!Delivered(samples)'
      BY <1>10, <3>1, <3>2 DEF IngestKnows
    <3> HIDE DEF known, read
    <3> QED BY <1>1, <1>7, <3>1, <3>3 DEF IngestKnows
  <2> QED BY <2>1, <2>2
<1>13. ShownKnows'
  <2>1. shown.energy \in Int
    BY <1>11 DEF MeterInv, Metering!TypeOK
  <2>2. shown.energy <= Metering!Delivered(samples)'
    BY <1>10, <2>1 DEF MeterInv, ShownKnows
  <2> HIDE DEF known, read
  <2> QED BY <1>1, <1>7, <2>2 DEF MeterInv, ShownKnows
<1>14. StopKnows'
  <2> SUFFICES ASSUME stop.pc \in {"cost", "save", "done"}
               PROVE  /\ stop.energy <= Measured
                      /\ ~late' => stop.energy = Metering!Delivered(samples)'
    BY <1>1, <1>9 DEF MeterInv, StopKnows
  <2>1. read
    OBVIOUS
  <2> HIDE DEF known, read
  <2> QED BY <1>5, <1>10, <2>1 DEF MeterInv, StopKnows
<1>15. ASSUME ~overlapped' PROVE OneAfterTheOther'
  <2>1. OneAfterTheOther
    BY <1>1, <1>15 DEF MeterInv
  <2> HIDE DEF known, read
  <2>2. \A o, p \in Requests :
          ingest'[o] # Metering!Idle /\ ingest'[p] # Metering!Idle => o = p
    BY <1>2, <1>6, <2>1 DEF OneAfterTheOther
  <2> QED BY <1>1, <1>4, <1>6, <2>1, <2>2 DEF OneAfterTheOther
<1> QED BY <1>8, <1>9, <1>12, <1>13, <1>14, <1>15 DEF MeterInv

(* What has been read is shown.                                             *)
LEMMA EmitSafe ==
  ASSUME MeterInv, Metering!MeteringAssumption, NEW r \in Requests, Metering!Emit(r)
  PROVE  MeterInv' /\ Metering!LiveGoesOn
<1>1. /\ ingest[r].pc = "emit"
      /\ shown' = [time |-> ingest[r].latest, energy |-> ingest[r].energy]
      /\ ingest' = [ingest EXCEPT ![r] = Metering!Idle]
      /\ UNCHANGED <<time, readings, samples, stop, overlapped, late>>
  BY DEF Metering!Emit
<1>2. /\ ingest[r] \in Metering!Ingestion /\ ingest[r] # Metering!Idle
      /\ ingest[r].latest \in 0..MaxReading
      /\ ingest[r].energy \in Metering!Unread..(Base + MaxReading)
  BY <1>1, IngestSlot, IngestionIsNotIdle DEF MeterInv
<1>3. IngestKnows(r)
  BY <1>2 DEF MeterInv
<1>4. MaxReading \in Nat /\ Base \in Nat
  BY DEF Metering!MeteringAssumption
<1>5. /\ shown'.time = ingest[r].latest /\ shown'.energy = ingest[r].energy
      /\ shown' \in [time : 0..MaxReading, energy : 0..(Base + MaxReading)]
  <2>1. ingest[r].energy \in 0..(Base + MaxReading)
    BY <1>1, <1>2, <1>3, <1>4 DEF IngestKnows, Metering!Unread
  <2> QED BY <1>1, <1>2, <2>1
<1>6. /\ ingest' \in [Requests -> {Metering!Idle} \cup Metering!Ingestion]
      /\ ingest'[r] = Metering!Idle
      /\ \A p \in Requests \ {r} : ingest'[p] = ingest[p]
  BY <1>1, IngestMoves DEF MeterInv
<1>7. Metering!TypeOK'
  BY <1>1, <1>5, <1>6 DEF MeterInv, Metering!TypeOK
<1>8. /\ Metering!Delivered(samples)' = Metering!Delivered(samples)
      /\ Measured' = Measured
      /\ ReadingsGrow'
  BY <1>1, TotalsStay DEF MeterInv
<1>9. ASSUME NEW p \in Requests, ingest'[p] # Metering!Idle
      PROVE  IngestKnows(p)'
  BY <1>1, <1>6, <1>8, <1>9 DEF MeterInv, IngestKnows
<1>10. ShownKnows'
  BY <1>1, <1>3, <1>5, <1>8 DEF IngestKnows, ShownKnows
<1>11. StopKnows'
  BY <1>1, <1>8 DEF MeterInv, StopKnows
<1>12. ~overlapped => OneAfterTheOther
  BY DEF MeterInv
<1>13. ~overlapped => \A p \in Requests : ingest'[p] = Metering!Idle
  BY <1>2, <1>6, <1>12 DEF OneAfterTheOther
<1>14. ~overlapped' => OneAfterTheOther'
  BY <1>1, <1>13 DEF OneAfterTheOther
<1>15. Metering!LiveGoesOn
  <2> SUFFICES ASSUME ~overlapped
               PROVE  shown'.time >= shown.time /\ shown'.energy >= shown.energy
    BY DEF Metering!LiveGoesOn
  <2>1. shown.energy <= ingest[r].energy /\ shown.time <= ingest[r].latest
    BY <1>1, <1>2, <1>3, <1>12 DEF IngestKnows, OneAfterTheOther
  <2> QED BY <1>5, <2>1
<1> QED BY <1>7, <1>8, <1>9, <1>10, <1>11, <1>14, <1>15 DEF MeterInv

(* A step of the StopTransaction.                                           *)
LEMMA StopStep ==
  ASSUME MeterInv, UNCHANGED <<time, readings, samples, ingest, shown, overlapped, late>>,
         stop' \in Metering!StopHandler, StopKnows'
  PROVE  MeterInv'
<1>1. Metering!TypeOK'
  BY DEF MeterInv, Metering!TypeOK
<1>2. /\ Metering!Delivered(samples)' = Metering!Delivered(samples)
      /\ ReadingsGrow'
  BY TotalsStay DEF MeterInv
<1>3. \A r \in Requests : ingest'[r] # Metering!Idle => IngestKnows(r)'
  BY <1>2 DEF MeterInv, IngestKnows
<1>4. ShownKnows'
  BY <1>2 DEF MeterInv, ShownKnows
<1>5. ~overlapped' => OneAfterTheOther'
  BY DEF MeterInv, OneAfterTheOther
<1> QED BY <1>1, <1>2, <1>3, <1>4, <1>5 DEF MeterInv

LEMMA StopStepsSafe ==
  ASSUME MeterInv, Metering!MeteringAssumption,
         Metering!BeginStop \/ Metering!ReadTotals \/ Metering!CalculateCost
           \/ Metering!SaveTotals \/ Metering!FailStop
  PROVE  MeterInv'
<1>0. /\ UNCHANGED <<time, readings, samples, ingest, shown, overlapped, late>>
      /\ MaxReading \in Nat /\ Base \in Nat
      /\ time \in 0..MaxReading /\ samples \subseteq 1..time
  BY DEF Metering!BeginStop, Metering!ReadTotals, Metering!CalculateCost,
       Metering!SaveTotals, Metering!FailStop, MeterInv, Metering!TypeOK,
       Metering!MeteringAssumption
<1>1. /\ Metering!Delivered(samples)' = Metering!Delivered(samples)
      /\ Measured' = Measured
  BY <1>0, TotalsStay
<1>2. stop.pc # "none" => stop \in Metering!StopHandler
  BY DEF MeterInv, Metering!TypeOK, Metering!NoStop
<1>3. /\ Metering!Unread \in Metering!Unread..(Base + MaxReading)
      /\ Metering!Unpriced \in Metering!Bill
  BY <1>0 DEF Metering!Unread, Metering!Unpriced, Metering!Bill
<1>4. ASSUME NEW at \in 0..MaxReading,
             stop' = [pc |-> "totals", at |-> at, energy |-> Metering!Unread,
                      priced |-> FALSE, bill |-> Metering!Unpriced]
      PROVE  MeterInv'
  <2>1. stop' \in Metering!StopHandler
    BY <1>3, <1>4 DEF Metering!StopHandler
  <2>2. StopKnows'
    BY <1>4 DEF StopKnows
  <2> QED BY <1>0, <2>1, <2>2, StopStep
<1>5. CASE Metering!BeginStop
  BY <1>0, <1>4, <1>5 DEF Metering!BeginStop
<1>6. CASE Metering!FailStop
  <2>1. stop \in Metering!StopHandler
    BY <1>2, <1>6 DEF Metering!FailStop
  <2>2. stop.at \in 0..MaxReading
    BY <2>1 DEF Metering!StopHandler
  <2> QED BY <1>4, <1>6, <2>2 DEF Metering!FailStop
<1>7. CASE Metering!ReadTotals
  <2> DEFINE total == Metering!Delivered(samples)
             a == [stop EXCEPT !.pc = "cost"]
  <2>1. stop.pc = "totals" /\ stop' = [a EXCEPT !.energy = total]
    BY <1>7 DEF Metering!ReadTotals
  <2>2. stop \in Metering!StopHandler
    BY <1>2, <2>1
  <2>3. total \in 0..MaxReading /\ total <= Measured
    BY <1>0, DeliveredGrows DEF MeterInv
  <2>4. total \in Metering!Unread..(Base + MaxReading)
    BY <1>0, <2>3 DEF Metering!Unread
  <2> HIDE DEF total
  <2>5. /\ stop' \in Metering!StopHandler /\ stop'.energy = total
        /\ stop'.at = stop.at /\ stop'.bill = stop.bill
        /\ stop'.priced <=> stop.priced
    BY <2>1, <2>2, <2>4 DEF Metering!StopHandler
  <2>6. stop.priced => stop.bill.charging + stop.bill.idle = stop.at
    BY <2>1 DEF MeterInv, StopKnows
  <2>7. StopKnows'
    BY <1>0, <1>1, <2>3, <2>5, <2>6 DEF StopKnows, total
  <2> QED BY <1>0, <2>5, <2>7, StopStep
<1>8. CASE Metering!CalculateCost
  <2> DEFINE cost == Metering!SessionCost(samples, stop.energy, stop.at)
             a == [stop EXCEPT !.pc = "save"]
             b == [a EXCEPT !.priced = TRUE]
             c == [b EXCEPT !.bill = cost]
  <2>1. stop.pc = "cost" /\ (stop' = c \/ stop' = a)
    BY <1>8 DEF Metering!CalculateCost
  <2>2. stop \in Metering!StopHandler /\ stop.at \in 0..MaxReading
    BY <1>2, <2>1 DEF Metering!StopHandler
  <2>3. cost \in Metering!Bill /\ cost.charging + cost.idle = stop.at
    BY <1>0, <2>2, IdleIsPart DEF MeterInv
  <2> HIDE DEF cost
  <2>4. /\ a \in Metering!StopHandler /\ a.pc = "save" /\ a.energy = stop.energy
        /\ a.at = stop.at /\ a.bill = stop.bill
        /\ a.priced <=> stop.priced
    BY <2>2 DEF Metering!StopHandler
  <2> HIDE DEF a
  <2>5. /\ b \in Metering!StopHandler /\ b.pc = "save" /\ b.energy = stop.energy
        /\ b.at = stop.at
    BY <2>4 DEF Metering!StopHandler
  <2> HIDE DEF b
  <2>6. /\ c \in Metering!StopHandler /\ c.pc = "save" /\ c.energy = stop.energy
        /\ c.at = stop.at /\ c.bill = cost
    BY <2>3, <2>5 DEF Metering!StopHandler
  <2> HIDE DEF c
  <2>7. stop' \in Metering!StopHandler /\ stop'.pc = "save" /\ stop'.energy = stop.energy
    BY <2>1, <2>4, <2>6
  <2>8. stop'.priced => stop'.bill.charging + stop'.bill.idle = stop'.at
    <3>1. stop.priced => stop.bill.charging + stop.bill.idle = stop.at
      BY <2>1 DEF MeterInv, StopKnows
    <3>2. CASE stop' = a
      BY <2>4, <3>1, <3>2
    <3>3. CASE stop' = c
      BY <2>3, <2>6, <3>3
    <3> QED BY <2>1, <3>2, <3>3
  <2>9. /\ stop.energy <= Measured
        /\ ~late => stop.energy = Metering!Delivered(samples)
    BY <2>1 DEF MeterInv, StopKnows
  <2>10. StopKnows'
    BY <1>0, <1>1, <2>7, <2>8, <2>9 DEF StopKnows
  <2> QED BY <1>0, <2>7, <2>10, StopStep
<1>9. CASE Metering!SaveTotals
  <2> DEFINE a == [stop EXCEPT !.pc = "done"]
  <2>1. stop.pc = "save" /\ stop' = a
    BY <1>9 DEF Metering!SaveTotals
  <2>2. stop \in Metering!StopHandler
    BY <1>2, <2>1
  <2>3. /\ a \in Metering!StopHandler /\ a.energy = stop.energy
        /\ a.at = stop.at /\ a.bill = stop.bill
        /\ a.priced <=> stop.priced
    BY <2>2 DEF Metering!StopHandler
  <2> HIDE DEF a
  <2>4. /\ stop.energy <= Measured
        /\ ~late => stop.energy = Metering!Delivered(samples)
        /\ stop.priced => stop.bill.charging + stop.bill.idle = stop.at
    BY <2>1 DEF MeterInv, StopKnows
  <2>5. StopKnows'
    BY <1>0, <1>1, <2>1, <2>3, <2>4 DEF StopKnows
  <2> QED BY <1>0, <2>1, <2>3, <2>5, StopStep
<1> QED BY <1>5, <1>6, <1>7, <1>8, <1>9

(* Steps that show nothing do not go back.                                  *)
LEMMA ShownStays ==
  ASSUME MeterInv, UNCHANGED shown
  PROVE  Metering!LiveGoesOn
<1>1. shown.time \in Int /\ shown.energy \in Int
  <2>1. /\ shown.time \in 0..MaxReading
        /\ shown.energy \in 0..(Base + MaxReading)
    BY DEF MeterInv, Metering!TypeOK
  <2> QED BY <2>1
<1> QED BY <1>1 DEF Metering!LiveGoesOn

LEMMA MeterNext ==
  ASSUME MeterInv, Metering!MeteringAssumption, [Metering!Next]_meterVars
  PROVE  MeterInv' /\ Metering!LiveGoesOn
<1>1. CASE \E energy \in Metering!Energies, active \in BOOLEAN : Metering!Measure(energy, active)
  BY <1>1, MeasureSafe, ShownStays DEF Metering!Measure
<1>2. CASE \E r \in Requests, times \in SUBSET (1..time) \ {{}} : Metering!Receive(r, times)
  <2>1. PICK r \in Requests, times \in SUBSET (1..time) \ {{}} : Metering!Receive(r, times)
    BY <1>2
  <2>2. times \subseteq 1..time
    OBVIOUS
  <2>3. MeterInv'
    BY <2>1, <2>2, ReceiveSafe
  <2> QED BY <2>1, <2>3, ShownStays DEF Metering!Receive
<1>3. CASE \E r \in Requests : Metering!Insert(r)
  BY <1>3, InsertSafe, ShownStays DEF Metering!Insert
<1>4. CASE \E r \in Requests : Metering!ReadAggregate(r) \/ Metering!ReadLatest(r)
                                 \/ Metering!ReadLiveCost(r)
  <2>1. UNCHANGED shown
    BY <1>4 DEF Metering!ReadAggregate, Metering!ReadLatest, Metering!ReadLiveCost
  <2> QED BY <1>4, <2>1, ReadsSafe, ShownStays
<1>5. CASE \E r \in Requests : Metering!Emit(r)
  BY <1>5, EmitSafe
<1>6. CASE \E r \in Requests : Metering!Fail(r)
  BY <1>6, FailIngestSafe, ShownStays DEF Metering!Fail
<1>7. CASE Metering!BeginStop \/ Metering!ReadTotals \/ Metering!CalculateCost
             \/ Metering!SaveTotals \/ Metering!FailStop
  <2>1. UNCHANGED shown
    BY <1>7 DEF Metering!BeginStop, Metering!ReadTotals, Metering!CalculateCost,
         Metering!SaveTotals, Metering!FailStop
  <2> QED BY <1>7, <2>1, StopStepsSafe, ShownStays
<1>8. CASE UNCHANGED meterVars
  <2>1. UNCHANGED <<time, readings, samples, ingest, shown, stop, overlapped, late>>
    BY <1>8 DEF meterVars
  <2>2. Metering!TypeOK'
    BY <2>1 DEF MeterInv, Metering!TypeOK
  <2>3. /\ Metering!Delivered(samples)' = Metering!Delivered(samples)
        /\ Measured' = Measured
        /\ ReadingsGrow'
    BY <2>1, TotalsStay DEF MeterInv
  <2>4. \A r \in Requests : ingest'[r] # Metering!Idle => IngestKnows(r)'
    BY <2>1, <2>3 DEF MeterInv, IngestKnows
  <2>5. ShownKnows' /\ StopKnows'
    BY <2>1, <2>3 DEF MeterInv, ShownKnows, StopKnows
  <2>6. ~overlapped' => OneAfterTheOther'
    BY <2>1 DEF MeterInv, OneAfterTheOther
  <2> QED BY <2>1, <2>2, <2>3, <2>4, <2>5, <2>6, ShownStays DEF MeterInv
<1>9. CASE Metering!IgnoreStop
  BY <1>8, <1>9 DEF Metering!IgnoreStop, Metering!vars, meterVars
<1> QED BY <1>1, <1>2, <1>3, <1>4, <1>5, <1>6, <1>7, <1>8, <1>9 DEF Metering!Next

LEMMA MeterInit ==
  ASSUME Metering!MeteringAssumption
  PROVE  Metering!Init => MeterInv
<1> SUFFICES ASSUME Metering!Init PROVE MeterInv
  OBVIOUS
<1>1. /\ time = 0 /\ samples = {} /\ shown = [time |-> 0, energy |-> 0]
      /\ readings = [t \in {} |-> [energy |-> Base, active |-> FALSE]]
      /\ ingest = [r \in Requests |-> Metering!Idle]
      /\ stop = Metering!NoStop /\ ~overlapped /\ ~late
      /\ overlapped \in BOOLEAN /\ late \in BOOLEAN
  BY DEF Metering!Init
<1>2. MaxReading \in Nat /\ Base \in Nat
  BY DEF Metering!MeteringAssumption
<1>3. 1..time = {}
  BY <1>1
<1>4. Metering!TypeOK
  <2>1. readings \in [1..time -> Metering!Reading]
    BY <1>1, <1>3
  <2>2. shown \in [time : 0..MaxReading, energy : 0..(Base + MaxReading)]
    BY <1>1, <1>2
  <2>3. time \in 0..MaxReading /\ samples \subseteq 1..time
    BY <1>1, <1>2
  <2> QED BY <1>1, <2>1, <2>2, <2>3 DEF Metering!TypeOK
<1>5. ReadingsGrow
  BY <1>3 DEF ReadingsGrow
<1>6. ShownKnows
  BY <1>1 DEF ShownKnows, Metering!Delivered
<1>7. StopKnows
  BY <1>1 DEF StopKnows, Metering!NoStop
<1>8. \A r \in Requests : ingest[r] = Metering!Idle
  BY <1>1
<1> QED BY <1>4, <1>5, <1>6, <1>7, <1>8 DEF MeterInv, OneAfterTheOther

LEMMA BilledBecause ==
  ASSUME MeterInv, Metering!MeteringAssumption
  PROVE  Metering!BilledAsMeasured
<1> SUFFICES ASSUME stop.pc = "done"
             PROVE  /\ stop.energy <= Measured
                    /\ stop.priced => stop.bill.charging + stop.bill.idle = stop.at
                    /\ ~late => stop.energy >= shown.energy
  BY DEF Metering!BilledAsMeasured, Measured
<1>1. /\ stop.energy <= Measured
      /\ ~late => stop.energy = Metering!Delivered(samples)
      /\ stop.priced => stop.bill.charging + stop.bill.idle = stop.at
  BY DEF MeterInv, StopKnows
<1>2. shown.energy <= Metering!Delivered(samples)
  BY DEF MeterInv, ShownKnows
<1>3. Metering!Delivered(samples) \in Int /\ shown.energy \in Int
  <2>1. Metering!Delivered(samples) \in 0..MaxReading
    BY DeliveredGrows DEF MeterInv, Metering!TypeOK
  <2>2. shown.energy \in 0..(Base + MaxReading)
    BY DEF MeterInv, Metering!TypeOK
  <2> QED BY <2>1, <2>2
<1> QED BY <1>1, <1>2, <1>3

(* A session is billed as measured (Delivered, IdleDuration, the totals of  *)
(* handleStopTransaction), whatever the charger measures, and however late, *)
(* often or overlapping its samples come.                                   *)
THEOREM SessionsStayBilled ==
  Spec => []BilledAsMeasured
<1> DEFINE Inv == part = "metering" => MeterInv
<1>1. Init => Inv
  BY ServicesAssumptions, MeterInit DEF Init
<1>2. Inv /\ [Next]_vars => Inv'
  <2>1. SUFFICES ASSUME Inv, [Next]_vars, part' = "metering"
                 PROVE  MeterInv'
    OBVIOUS
  <2>2. part = "metering" /\ [Metering!Next]_meterVars
    BY <2>1, PartStep
  <2> QED BY <2>1, <2>2, ServicesAssumptions, MeterNext
<1>3. Inv => BilledAsMeasured
  BY ServicesAssumptions, BilledBecause DEF BilledAsMeasured
<1> QED BY <1>1, <1>2, <1>3, PTL DEF Spec

-----------------------------------------------------------------------------
(* What steps do not take away                                             *)

Deletes(r) == contentReq[r].op = "deleteReview" /\ contentReq[r].pc = "write"

(* Ids of reviews are given once, and a request that is about to delete one *)
(* has found it to be of its user.                                          *)
OwnersKnow ==
  /\ \A v \in reviews : v.id <= lastId
  /\ \A v, w \in reviews : v.id = w.id => v.user = w.user
  /\ \A r \in Requests : Deletes(r) =>
       /\ contentReq[r].id <= lastId
       /\ \A v \in reviews : v.id = contentReq[r].id => v.user = contentReq[r].user

LEMMA IdsAreNumbers ==
  ASSUME ContentInv, Content!ContentAssumption
  PROVE  /\ lastId \in Int
         /\ \A v \in reviews : v.id \in Int
         /\ \A r \in Requests : Deletes(r) => contentReq[r].id \in Int
<1>1. lastId \in Int /\ \A v \in reviews : v.id \in Int
  BY DEF ContentInv, Content!TypeOK, Content!Review, Content!Ids, Content!ContentAssumption
<1>2. ASSUME NEW r \in Requests, Deletes(r) PROVE contentReq[r].id \in Int
  <2>1. contentReq[r] \in Content!Change
    BY <1>2, ContentSlot DEF ContentInv, Deletes
  <2> QED BY <2>1 DEF Content!Change, Content!Ids
<1> QED BY <1>1, <1>2

(* A step that adds no review, and finds none.                              *)
LEMMA OwnersStay ==
  ASSUME ContentInv, Content!ContentAssumption, OwnersKnow,
         reviews' \subseteq reviews, lastId' = lastId \/ lastId' = lastId + 1,
         \A r \in Requests : Deletes(r)' => contentReq'[r] = contentReq[r]
  PROVE  OwnersKnow'
<1>1. /\ lastId \in Int
      /\ \A v \in reviews : v.id \in Int
      /\ \A r \in Requests : Deletes(r) => contentReq[r].id \in Int
  BY IdsAreNumbers
<1>2. \A r \in Requests : Deletes(r)' => Deletes(r)
  BY DEF Deletes
<1>3. ASSUME NEW n \in Int, n <= lastId PROVE n <= lastId'
  BY <1>1, <1>3
<1>4. \A v \in reviews' : v.id <= lastId'
  BY <1>1, <1>3 DEF OwnersKnow
<1>5. \A r \in Requests : Deletes(r)' => contentReq'[r].id <= lastId'
  BY <1>1, <1>2, <1>3 DEF OwnersKnow
<1> QED BY <1>2, <1>4, <1>5 DEF OwnersKnow

(* Which slots a step leaves alone.                                         *)
LEMMA OwnSlot ==
  ASSUME ContentInv, NEW r \in Requests, NEW q, contentReq' = [contentReq EXCEPT ![r] = q]
  PROVE  contentReq'[r] = q /\ \A p \in Requests \ {r} : contentReq'[p] = contentReq[p]
BY DEF ContentInv, Content!TypeOK

(* Reports stay, and a review that goes is deleted by its owner.            *)
LEMMA OwnersNext ==
  ASSUME ContentInv, Content!ContentAssumption, OwnersKnow, [Content!Next]_contentVars
  PROVE  OwnersKnow' /\ Content!TakesNothing
<1>1. ASSUME UNCHANGED <<reviews, problems>> PROVE Content!TakesNothing
  BY <1>1 DEF Content!TakesNothing
<1>2. ASSUME UNCHANGED Content!rows,
             \A r \in Requests : Deletes(r)' => contentReq'[r] = contentReq[r]
      PROVE  OwnersKnow' /\ Content!TakesNothing
  BY <1>1, <1>2, OwnersStay DEF Content!rows
<1>3. ASSUME NEW r \in Requests, Content!End(r)
      PROVE  \A p \in Requests : Deletes(p)' => contentReq'[p] = contentReq[p]
  BY <1>3, OwnSlot, IdleContentSlot DEF Content!End, Deletes
<1>4. ASSUME NEW r \in Requests, NEW q, q.pc = "user", Content!Begin(r, q)
      PROVE  OwnersKnow' /\ Content!TakesNothing
  <2>1. /\ contentReq' = [contentReq EXCEPT ![r] = q] /\ UNCHANGED Content!rows
    BY <1>4 DEF Content!Begin
  <2>2. \A p \in Requests : Deletes(p)' => contentReq'[p] = contentReq[p]
    BY <1>4, <2>1, OwnSlot DEF Deletes
  <2> QED BY <1>2, <2>1, <2>2
<1>5. CASE \E r \in Requests, u \in Writers, s \in Stations,
              op \in {"createReview", "saveFavorite", "removeFavorite", "createReport"} :
             Content!Begin(r, [op |-> op, pc |-> "user", user |-> u, station |-> s])
  BY <1>4, <1>5
<1>6. CASE \E r \in Requests, u \in Writers, id \in Content!Ids,
              op \in {"updateReview", "deleteReview"} :
             Content!Begin(r, [op |-> op, pc |-> "user", user |-> u, id |-> id])
  BY <1>4, <1>6
<1>7. ASSUME NEW r \in Requests, NEW pc \in {"find", "create", "write"}, Content!Goto(r, pc),
             contentReq[r].op \in {"createReview", "saveFavorite", "removeFavorite",
                                   "createReport", "updateReview", "deleteReview"},
             contentReq[r].op = "deleteReview" => pc # "write"
      PROVE  \A p \in Requests : Deletes(p)' => contentReq'[p] = contentReq[p]
  <2> DEFINE q == [contentReq[r] EXCEPT !.pc = pc]
  <2>1. contentReq' = [contentReq EXCEPT ![r] = q]
    BY <1>7 DEF Content!Goto
  <2>2. contentReq[r] \in Content!Content \cup Content!Change
    BY <1>7, ContentSlot DEF ContentInv
  <2>3. q.op = contentReq[r].op /\ q.pc = pc
    BY <2>2 DEF Content!Content, Content!Change
  <2> HIDE DEF q
  <2> QED BY <1>7, <2>1, <2>3, OwnSlot DEF Deletes
<1>8. CASE \E r \in Requests : Content!AssertReviewer(r) \/ Content!AssertOwner(r)
                                 \/ Content!FindReporter(r)
  <2>1. PICK r \in Requests : Content!AssertReviewer(r) \/ Content!AssertOwner(r)
                                \/ Content!FindReporter(r)
    BY <1>8
  <2>2. UNCHANGED Content!rows
    BY <2>1 DEF Content!AssertReviewer, Content!AssertOwner, Content!FindReporter, Content!Find
  <2>3. CASE Content!End(r)
    BY <1>2, <1>3, <2>2, <2>3
  <2>4. CASE ~Content!End(r)
    <3>1. \/ /\ contentReq[r].op \in {"createReview", "updateReview", "deleteReview"}
             /\ Content!Goto(r, "find")
          \/ /\ contentReq[r].op \in {"saveFavorite", "removeFavorite"}
             /\ Content!Goto(r, "write")
          \/ /\ contentReq[r].op = "createReport"
             /\ Content!Goto(r, "create")
      BY <2>1, <2>4 DEF Content!AssertReviewer, Content!AssertOwner, Content!FindReporter,
           Content!Find, Content!At
    <3>2. \A p \in Requests : Deletes(p)' => contentReq'[p] = contentReq[p]
      BY <1>7, <3>1
    <3> QED BY <1>2, <2>2, <3>2
  <2> QED BY <2>3, <2>4
<1>9. CASE \E r \in Requests : Content!FindReview(r)
  <2>1. PICK r \in Requests : Content!FindReview(r)
    BY <1>9
  <2>2. /\ UNCHANGED Content!rows /\ contentReq[r].op = "createReview"
        /\ Content!Goto(r, "create") \/ Content!End(r)
    BY <2>1 DEF Content!FindReview, Content!At
  <2>3. \A p \in Requests : Deletes(p)' => contentReq'[p] = contentReq[p]
    BY <1>3, <1>7, <2>2
  <2> QED BY <1>2, <2>2, <2>3
<1>10. CASE \E r \in Requests : Content!CreateReview(r)
  <2>1. PICK r \in Requests : Content!CreateReview(r)
    BY <1>10
  <2>2. Content!End(r) /\ problems' = problems
    BY <2>1 DEF Content!CreateReview
  <2>3. \A p \in Requests : Deletes(p)' => contentReq'[p] = contentReq[p]
    BY <1>3, <2>2
  <2>4. CASE contentReq[r].user \notin writers
    <3>1. UNCHANGED <<reviews, lastId>>
      BY <2>1, <2>4 DEF Content!CreateReview
    <3> QED BY <1>1, <2>2, <2>3, <3>1, OwnersStay
  <2>5. CASE contentReq[r].user \in writers
    <3> DEFINE row == [id |-> lastId + 1, user |-> contentReq[r].user,
                       station |-> contentReq[r].station]
    <3>1. reviews' = reviews \cup {row} /\ lastId' = lastId + 1
      BY <2>1, <2>5 DEF Content!CreateReview
    <3>2. row.id = lastId + 1
      OBVIOUS
    <3> HIDE DEF row
    <3>3. /\ lastId \in Int
          /\ \A v \in reviews : v.id \in Int
          /\ \A p \in Requests : Deletes(p) => contentReq[p].id \in Int
      BY IdsAreNumbers
    <3>4. \A v \in reviews : v.id <= lastId + 1 /\ v.id # lastId + 1
      BY <3>3 DEF OwnersKnow
    <3>5. \A p \in Requests : Deletes(p) =>
            contentReq[p].id <= lastId + 1 /\ contentReq[p].id # lastId + 1
      BY <3>3 DEF OwnersKnow
    <3>6. \A p \in Requests : Deletes(p)' => Deletes(p)
      BY <2>3 DEF Deletes
    <3>7. lastId + 1 <= lastId + 1
      BY <3>3
    <3>8. \A v \in reviews' : v.id <= lastId'
      BY <3>1, <3>2, <3>4, <3>7
    <3>9. \A v, w \in reviews' : v.id = w.id => v.user = w.user
      BY <3>1, <3>2, <3>4 DEF OwnersKnow
    <3>10. ASSUME NEW p \in Requests, Deletes(p)'
           PROVE  /\ contentReq'[p].id <= lastId'
                  /\ \A v \in reviews' : v.id = contentReq'[p].id => v.user = contentReq'[p].user
      BY <2>3, <3>1, <3>2, <3>5, <3>6, <3>10 DEF OwnersKnow
    <3>11. OwnersKnow'
      BY <3>8, <3>9, <3>10 DEF OwnersKnow
    <3>12. Content!TakesNothing
      BY <2>2, <3>1 DEF Content!TakesNothing
    <3> QED BY <3>11, <3>12
  <2> QED BY <2>4, <2>5
<1>11. CASE \E r \in Requests : Content!FindOwned(r)
  <2>1. PICK r \in Requests : Content!FindOwned(r)
    BY <1>11
  <2>2. /\ UNCHANGED Content!rows /\ UNCHANGED <<reviews, problems, lastId>>
        /\ contentReq[r].op \in {"updateReview", "deleteReview"}
    BY <2>1 DEF Content!FindOwned, Content!At, Content!rows
  <2>3. CASE Content!End(r)
    BY <1>2, <1>3, <2>2, <2>3
  <2>4. CASE ~Content!End(r)
    <3>1. /\ Content!Goto(r, "write")
          /\ \E v \in reviews : v.id = contentReq[r].id /\ v.user = contentReq[r].user
      BY <2>1, <2>4 DEF Content!FindOwned
    <3> DEFINE q == [contentReq[r] EXCEPT !.pc = "write"]
    <3>2. contentReq' = [contentReq EXCEPT ![r] = q]
      BY <3>1 DEF Content!Goto
    <3>3. contentReq[r] \in Content!Change
      BY <2>2, ContentSlot DEF ContentInv
    <3>4. q.id = contentReq[r].id /\ q.user = contentReq[r].user
      BY <3>3 DEF Content!Change
    <3> HIDE DEF q
    <3>5. contentReq'[r] = q /\ \A p \in Requests \ {r} : contentReq'[p] = contentReq[p]
      BY <3>2, OwnSlot
    <3>6. ASSUME NEW p \in Requests, Deletes(p)'
          PROVE  /\ contentReq'[p].id <= lastId
                 /\ \A v \in reviews : v.id = contentReq'[p].id => v.user = contentReq'[p].user
      <4>1. CASE p = r
        BY <3>1, <3>4, <3>5, <4>1 DEF OwnersKnow
      <4>2. CASE p # r
        BY <3>5, <3>6, <4>2 DEF OwnersKnow, Deletes
      <4> QED BY <4>1, <4>2
    <3>7. OwnersKnow'
      BY <2>2, <3>6 DEF OwnersKnow
    <3> QED BY <1>1, <2>2, <3>7
  <2> QED BY <2>3, <2>4
<1>12. CASE \E r \in Requests : Content!UpdateReview(r) \/ Content!SaveFavorite(r)
                                  \/ Content!RemoveFavorite(r) \/ Content!Fail(r)
  <2>1. PICK r \in Requests : Content!UpdateReview(r) \/ Content!SaveFavorite(r)
                                \/ Content!RemoveFavorite(r) \/ Content!Fail(r)
    BY <1>12
  <2>2. Content!End(r) /\ UNCHANGED <<reviews, problems, lastId>>
    BY <2>1 DEF Content!UpdateReview, Content!SaveFavorite, Content!RemoveFavorite,
         Content!Fail, Content!rows
  <2> QED BY <1>1, <1>3, <2>2, OwnersStay
<1>13. CASE \E r \in Requests : Content!DeleteReview(r)
  <2>1. PICK r \in Requests : Content!DeleteReview(r)
    BY <1>13
  <2>2. /\ Content!End(r) /\ UNCHANGED <<problems, lastId>> /\ Deletes(r)
        /\ reviews' = {v \in reviews : v.id # contentReq[r].id}
    BY <2>1 DEF Content!DeleteReview, Content!At, Deletes
  <2>3. OwnersKnow'
    BY <1>3, <2>2, OwnersStay
  <2>4. ASSUME NEW v \in reviews, v \notin reviews'
        PROVE  Content!At(r, {"deleteReview"}, "write") /\ contentReq[r].user = v.user
    BY <2>2, <2>4 DEF OwnersKnow, Deletes, Content!At
  <2>5. Content!TakesNothing
    BY <2>2, <2>4 DEF Content!TakesNothing
  <2> QED BY <2>3, <2>5
<1>14. CASE \E r \in Requests : Content!CreateReport(r)
  <2>1. PICK r \in Requests : Content!CreateReport(r)
    BY <1>14
  <2>2. /\ reviews' = reviews /\ (lastId' = lastId \/ lastId' = lastId + 1)
        /\ problems \subseteq problems'
        /\ \E q : contentReq' = [contentReq EXCEPT ![r] = q] /\ q.op # "deleteReview"
    BY <2>1, IdleContentSlot DEF Content!CreateReport, Content!End
  <2>3. \A p \in Requests : Deletes(p)' => contentReq'[p] = contentReq[p]
    BY <2>2, OwnSlot DEF Deletes
  <2> QED BY <2>2, <2>3, OwnersStay DEF Content!TakesNothing
<1>15. CASE \E r \in Requests : Content!SendMail(r)
  <2>1. PICK r \in Requests : Content!SendMail(r)
    BY <1>15
  <2>2. PICK outcome \in {"sent", "failed"}, answered \in BOOLEAN :
          problems' = Content!Mailed(contentReq[r].id, outcome, answered)
    BY <2>1 DEF Content!SendMail
  <2>3. Content!End(r) /\ UNCHANGED <<reviews, lastId>>
    BY <2>1 DEF Content!SendMail
  <2>4. ASSUME NEW p \in problems
        PROVE  \E q \in problems' : q.id = p.id /\ q.user = p.user
    <3> DEFINE q == IF p.id = contentReq[r].id
                    THEN [p EXCEPT !.mail = outcome, !.answered = answered] ELSE p
    <3>1. q \in problems'
      BY <2>2 DEF Content!Mailed
    <3>2. q.id = p.id /\ q.user = p.user
      BY DEF ContentInv, Content!TypeOK, Content!Report
    <3> QED BY <3>1, <3>2
  <2>5. Content!TakesNothing
    BY <2>3, <2>4 DEF Content!TakesNothing
  <2> QED BY <1>3, <2>3, <2>5, OwnersStay
<1>16. CASE \E u \in Writers : Content!DeleteUser(u)
  <2>1. UNCHANGED <<reviews, problems, lastId, contentReq>>
    BY <1>16 DEF Content!DeleteUser
  <2> QED BY <1>1, <2>1, OwnersStay
<1>17. CASE UNCHANGED contentVars
  <2>1. UNCHANGED <<reviews, problems, lastId, contentReq>>
    BY <1>17 DEF contentVars
  <2> QED BY <1>1, <2>1, OwnersStay
<1> QED BY <1>5, <1>6, <1>8, <1>9, <1>10, <1>11, <1>12, <1>13, <1>14, <1>15, <1>16, <1>17
      DEF Content!Next

-----------------------------------------------------------------------------
(* Reports of connectors                                                   *)

(* What is trusted is between a half and all, and reports follow each other *)
(* in time.                                                                 *)
ReportsInv ==
  /\ Believed!TypeOK
  /\ \A r \in Requests : reportReq[r].pc = "create" =>
       reportReq[r].confidence \in Believed!BaseConfidence..Believed!Full
  /\ \A i \in 1..Len(reports) :
       /\ reports[i].confidence \in Believed!BaseConfidence..Believed!Full
       /\ reports[i].at <= hour
  /\ \A i, j \in 1..Len(reports) : i <= j => reports[i].at <= reports[j].at

DoubleStep(doubled, n) == IF n = 0 THEN 1 ELSE 2 * doubled[n - 1]

(* The powers are a function on every number of them: the least number      *)
(* without one would be the next of a number that has it.                   *)
LEMMA PowersExist ==
  ASSUME NEW m \in Nat
  PROVE  \E doubled : doubled = [n \in 0..m |-> DoubleStep(doubled, n)]
<1> DEFINE Has(k) == \E doubled : doubled = [n \in 0..k |-> DoubleStep(doubled, n)]
           missing == {k \in Nat : ~Has(k)}
<1>1. SUFFICES ASSUME missing # {}
               PROVE  FALSE
  OBVIOUS
<1>2. PICK k \in missing : \A j \in missing : k <= j
  <2>1. missing \subseteq Nat
    OBVIOUS
  <2> HIDE DEF missing
  <2> QED BY <1>1, <2>1, LeastNumber
<1>3. k \in Nat /\ ~Has(k)
  OBVIOUS
<1>4. CASE k = 0
  <2> DEFINE one == [n \in 0..0 |-> 1]
  <2>1. one = [n \in 0..0 |-> DoubleStep(one, n)]
    BY DEF DoubleStep
  <2> QED BY <1>3, <1>4, <2>1
<1>5. CASE k # 0
  <2>1. k - 1 \in Nat /\ ~(k <= k - 1)
    BY <1>3, <1>5
  <2>2. Has(k - 1)
    BY <1>2, <2>1
  <2>3. PICK doubled : doubled = [n \in 0..(k - 1) |-> DoubleStep(doubled, n)]
    BY <2>2
  <2> DEFINE longer == [n \in 0..k |-> IF n = k THEN DoubleStep(doubled, k) ELSE doubled[n]]
  <2>4. \A n \in 0..k : longer[n] = DoubleStep(longer, n)
    <3>1. SUFFICES ASSUME NEW n \in 0..k
                   PROVE  longer[n] = DoubleStep(longer, n)
      OBVIOUS
    <3>2. n = 0 \/ (n - 1 \in 0..(k - 1) /\ n - 1 # k /\ n - 1 \in 0..k)
      BY <1>3
    <3>3. n # 0 => longer[n - 1] = doubled[n - 1]
      BY <3>2
    <3>4. DoubleStep(longer, n) = DoubleStep(doubled, n)
      BY <3>3 DEF DoubleStep
    <3>5. n # k => n \in 0..(k - 1)
      BY <1>3
    <3>6. n # k => doubled[n] = DoubleStep(doubled, n)
      BY <2>3, <3>5
    <3> QED BY <3>1, <3>4, <3>6
  <2>5. longer = [n \in 0..k |-> longer[n]]
    OBVIOUS
  <2> HIDE DEF longer
  <2>6. longer = [n \in 0..k |-> DoubleStep(longer, n)]
    BY <2>4, <2>5
  <2> QED BY <1>3, <2>6
<1> QED BY <1>4, <1>5

(* Each power is the double of the one before, and positive.                *)
LEMMA PowersDouble ==
  ASSUME Believed!ReportsAssumption
  PROVE  \A n \in 0..MaxHour :
           /\ Believed!Doubled[n] \in Nat \ {0}
           /\ n # 0 => Believed!Doubled[n] = 2 * Believed!Doubled[n - 1]
<1> DEFINE Is(doubled) == doubled = [n \in 0..MaxHour |-> DoubleStep(doubled, n)]
           powers == CHOOSE doubled : Is(doubled)
<1>1. MaxHour \in Nat
  BY DEF Believed!ReportsAssumption
<1>2. \E doubled : Is(doubled)
  BY <1>1, PowersExist
<1>3. Is(powers)
  BY <1>2
<1>4. Believed!Doubled = powers
  BY DEF Believed!Doubled, DoubleStep
<1>5. \A n \in 0..MaxHour : Believed!Doubled[n] = DoubleStep(Believed!Doubled, n)
  BY <1>3, <1>4
<1> HIDE DEF powers, Is
<1> DEFINE bad == {n \in 0..MaxHour : Believed!Doubled[n] \notin Nat \ {0}}
<1>6. bad = {}
  <2>1. SUFFICES ASSUME bad # {}
                 PROVE  FALSE
    OBVIOUS
  <2>2. PICK k \in bad : \A j \in bad : k <= j
    <3>1. bad \subseteq Nat
      OBVIOUS
    <3> HIDE DEF bad
    <3> QED BY <2>1, <3>1, LeastNumber
  <2>3. k \in 0..MaxHour /\ k \in Nat /\ Believed!Doubled[k] \notin Nat \ {0}
    OBVIOUS
  <2>4. CASE k = 0
    BY <1>5, <2>3, <2>4 DEF DoubleStep
  <2>5. CASE k # 0
    <3>1. k - 1 \in 0..MaxHour /\ ~(k <= k - 1)
      BY <1>1, <2>3, <2>5
    <3>2. Believed!Doubled[k - 1] \in Nat \ {0}
      BY <2>2, <3>1
    <3>3. Believed!Doubled[k] = 2 * Believed!Doubled[k - 1]
      BY <1>5, <2>3, <2>5 DEF DoubleStep
    <3> QED BY <2>3, <3>2, <3>3
  <2> QED BY <2>4, <2>5
<1> QED BY <1>5, <1>6 DEF DoubleStep

(* Later powers are at least twice the earlier ones.                        *)
LEMMA PowersGrow ==
  ASSUME Believed!ReportsAssumption, NEW a \in 0..MaxHour, NEW b \in 0..MaxHour, a < b
  PROVE  2 * Believed!Doubled[a] <= Believed!Doubled[b]
<1> DEFINE D(n) == Believed!Doubled[n]
           bad == {n \in 0..MaxHour : a < n /\ ~(2 * D(a) <= D(n))}
<1>1. MaxHour \in Nat
  BY DEF Believed!ReportsAssumption
<1>2. \A n \in 0..MaxHour : D(n) \in Nat /\ (n # 0 => D(n) = 2 * D(n - 1))
  BY PowersDouble
<1> HIDE DEF D
<1>3. SUFFICES ASSUME bad # {}
               PROVE  FALSE
  BY DEF D
<1>4. PICK k \in bad : \A j \in bad : k <= j
  <2>1. bad \subseteq Nat
    OBVIOUS
  <2> HIDE DEF bad
  <2> QED BY <1>3, <2>1, LeastNumber
<1>5. k \in 0..MaxHour /\ k \in Nat /\ a < k /\ ~(2 * D(a) <= D(k)) /\ a \in Nat
  OBVIOUS
<1>6. k - 1 \in 0..MaxHour /\ ~(k <= k - 1) /\ k # 0
  BY <1>1, <1>5
<1>7. D(k) = 2 * D(k - 1) /\ D(k - 1) \in Nat /\ D(a) \in Nat
  BY <1>2, <1>5, <1>6
<1>8. CASE k - 1 = a
  BY <1>5, <1>7, <1>8
<1>9. CASE k - 1 # a
  <2>1. a < k - 1
    BY <1>5, <1>9
  <2>2. 2 * D(a) <= D(k - 1)
    BY <1>4, <1>6, <2>1
  <2> QED BY <1>5, <1>7, <2>2
<1> QED BY <1>8, <1>9

LEMMA LesserOfTwo ==
  ASSUME NEW a \in Int, NEW b \in Int, NEW S, S = {a, b}
  PROVE  Believed!Min(S) \in S /\ Believed!Min(S) <= a /\ Believed!Min(S) <= b
<1>1. \E x \in S : \A y \in S : x <= y
  <2>1. CASE a <= b
    BY <2>1
  <2>2. CASE ~(a <= b)
    BY <2>2
  <2> QED BY <2>1, <2>2
<1> QED BY <1>1 DEF Believed!Min

(* Everybody is trusted a little, and nobody more than fully.               *)
LEMMA ConfidenceIsBounded ==
  ASSUME NEW merit, merit.reviews \in Nat, merit.sessions \in Nat
  PROVE  Believed!InitialConfidence(merit) \in Believed!BaseConfidence..Believed!Full
<1> DEFINE A == {2 * merit.reviews, 6}
           B == {merit.sessions, 10}
           sum == 10 + (Believed!Min(A) + Believed!Min(B))
           C == {sum, 20}
<1>1. Believed!Min(A) \in A
  <2>1. 2 * merit.reviews \in Int /\ 6 \in Int
    OBVIOUS
  <2>2. A = {2 * merit.reviews, 6}
    OBVIOUS
  <2> HIDE DEF A, B, C, sum
  <2> QED BY <2>1, <2>2, LesserOfTwo
<1>2. Believed!Min(B) \in B
  <2>1. B = {merit.sessions, 10}
    OBVIOUS
  <2>2. merit.sessions \in Int /\ 10 \in Int
    OBVIOUS
  <2> HIDE DEF A, B, C, sum
  <2> QED BY <2>1, <2>2, LesserOfTwo
<1>3. sum \in Int /\ 10 <= sum
  <2>1. Believed!Min(A) \in Nat
    BY <1>1
  <2>2. Believed!Min(B) \in Nat
    BY <1>2
  <2> HIDE DEF A, B
  <2> QED BY <2>1, <2>2
<1>4. Believed!InitialConfidence(merit) = Believed!Min(C)
  BY DEF Believed!InitialConfidence, Believed!Reputation, Believed!BaseConfidence, Believed!Full
<1> HIDE DEF sum
<1>5. Believed!Min(C) \in C /\ Believed!Min(C) <= 20
  <2>1. C = {sum, 20}
    OBVIOUS
  <2> HIDE DEF C
  <2> QED BY <1>3, <2>1, LesserOfTwo
<1> QED BY <1>3, <1>4, <1>5 DEF Believed!BaseConfidence, Believed!Full

(* A product grows with its factors.                                        *)
LEMMA ProductGrows ==
  ASSUME NEW a \in Nat, NEW b \in Nat, NEW c \in Nat, NEW d \in Nat, a <= b, c <= d
  PROVE  a * c <= b * d
<1>1. a * c <= b * c
  OBVIOUS
<1>2. b * c <= b * d
  OBVIOUS
<1>3. a * c \in Int /\ b * c \in Int /\ b * d \in Int
  OBVIOUS
<1> QED BY <1>1, <1>2, <1>3

LEMMA ReportType ==
  ASSUME ReportsInv, Believed!ReportsAssumption, NEW i \in 1..Len(reports)
  PROVE  /\ reports[i].confidence \in 10..20 /\ reports[i].confidence \in Nat
         /\ reports[i].at \in 0..MaxHour /\ reports[i].at <= hour
         /\ hour - reports[i].at \in 0..MaxHour
         /\ MaxHour - (hour - reports[i].at) \in 0..MaxHour
<1>1. reports \in Seq(Believed!Report) /\ hour \in 0..MaxHour /\ MaxHour \in Nat
  BY DEF ReportsInv, Believed!TypeOK, Believed!ReportsAssumption
<1>2. reports[i] \in Believed!Report
  BY <1>1
<1>3. reports[i].at \in 0..MaxHour /\ reports[i].at <= hour
      /\ reports[i].confidence \in 10..20
  BY <1>2 DEF ReportsInv, Believed!Report, Believed!BaseConfidence, Believed!Full
<1> QED BY <1>1, <1>3

(* The confidence of now, with the power of two that the age gives.         *)
Weight(i) == Believed!Doubled[MaxHour - (hour - reports[i].at)]
Now(i) == Believed!ConfidenceNow(reports[i], hour)

LEMMA WeightType ==
  ASSUME ReportsInv, Believed!ReportsAssumption, NEW i \in 1..Len(reports)
  PROVE  /\ Weight(i) \in Nat \ {0} /\ Now(i) \in Nat
         /\ Now(i) = reports[i].confidence * Weight(i)
<1>1. Weight(i) \in Nat \ {0}
  BY ReportType, PowersDouble DEF Weight
<1>2. Now(i) = reports[i].confidence * Weight(i)
  BY DEF Now, Weight, Believed!ConfidenceNow
<1> QED BY <1>1, <1>2, ReportType

(* However little its user is trusted, a report of a later hour is trusted  *)
(* as much as one of an earlier hour.                                       *)
LEMMA LaterIsTrusted ==
  ASSUME ReportsInv, Believed!ReportsAssumption, NEW i \in 1..Len(reports),
         NEW j \in 1..Len(reports), reports[i].at < reports[j].at
  PROVE  Now(i) <= Now(j)
<1>1. /\ MaxHour - (hour - reports[i].at) \in 0..MaxHour
      /\ MaxHour - (hour - reports[j].at) \in 0..MaxHour
  BY ReportType
<1>2. MaxHour - (hour - reports[i].at) < MaxHour - (hour - reports[j].at)
  <2>1. reports[i].at \in Nat /\ reports[j].at \in Nat
    BY ReportType
  <2>2. hour \in Nat /\ MaxHour \in Nat
    BY DEF ReportsInv, Believed!TypeOK, Believed!ReportsAssumption
  <2> QED BY <2>1, <2>2
<1>3. 2 * Weight(i) <= Weight(j)
  BY <1>1, <1>2, PowersGrow DEF Weight
<1> DEFINE u == Weight(i)
           v == Weight(j)
           a == reports[i].confidence
           b == reports[j].confidence
<1>4. /\ u \in Nat /\ v \in Nat /\ a \in Nat /\ b \in Nat /\ a <= 20 /\ 10 <= b
      /\ Now(i) = a * u /\ Now(j) = b * v
  <2>1. u \in Nat /\ v \in Nat /\ Now(i) = a * u /\ Now(j) = b * v
    BY WeightType
  <2>2. a \in 10..20 /\ b \in 10..20
    BY ReportType
  <2> HIDE DEF u, v, a, b
  <2> QED BY <2>1, <2>2
<1>5. 2 * u <= v
  BY <1>3
<1> HIDE DEF u, v, a, b
<1>6. a * u <= 20 * u
  BY <1>4, ProductGrows
<1>7. 10 * (2 * u) <= b * v
  <2>1. 2 * u \in Nat
    BY <1>4
  <2> QED BY <1>4, <1>5, <2>1, ProductGrows
<1>8. a * u \in Int /\ b * v \in Int
  BY <1>4
<1> QED BY <1>4, <1>6, <1>7, <1>8

(* Of two reports of one hour, the trust in their users decides.            *)
LEMMA SameHour ==
  ASSUME ReportsInv, Believed!ReportsAssumption, NEW i \in 1..Len(reports),
         NEW j \in 1..Len(reports), reports[i].at = reports[j].at
  PROVE  /\ reports[i].confidence < reports[j].confidence => Now(i) < Now(j)
         /\ reports[i].confidence = reports[j].confidence => Now(i) = Now(j)
<1> DEFINE u == Weight(i)
           a == reports[i].confidence
           b == reports[j].confidence
<1>1. u \in Nat \ {0} /\ a \in Nat /\ b \in Nat /\ Now(i) = a * u /\ Now(j) = b * u
  BY WeightType, ReportType DEF Weight
<1> HIDE DEF u, a, b
<1>2. a < b => a * u < b * u
  <2>1. ASSUME a < b
        PROVE  a * u < b * u
    <3>1. a + 1 \in Nat /\ u \in Nat /\ a + 1 <= b /\ u <= u
      BY <1>1, <2>1
    <3>2. (a + 1) * u <= b * u
      BY <1>1, <3>1, ProductGrows
    <3>3. (a + 1) * u = a * u + u
      BY <1>1
    <3>4. a * u \in Int /\ b * u \in Int /\ 0 < u
      BY <1>1
    <3> QED BY <1>1, <3>2, <3>3, <3>4
  <2> QED BY <2>1
<1>3. a = b => a * u = b * u
  OBVIOUS
<1> QED BY <1>1, <1>2, <1>3 DEF a, b

(* A set of naturals with a bound has a greatest member.                    *)
LEMMA GreatestNumber ==
  ASSUME NEW S, S \subseteq Nat, S # {}, NEW top \in Nat, \A x \in S : x <= top
  PROVE  \E m \in S : \A x \in S : x <= m
<1> DEFINE below == {n \in Nat : \E x \in S : n = top - x}
<1>1. below \subseteq Nat /\ below # {}
  <2>1. PICK x \in S : x \in Nat /\ x <= top
    OBVIOUS
  <2>2. top - x \in below
    BY <2>1
  <2> QED BY <2>2
<1>2. PICK n \in below : \A k \in below : n <= k
  <2> HIDE DEF below
  <2> QED BY <1>1, LeastNumber
<1>3. PICK m \in S : n = top - m
  OBVIOUS
<1>4. ASSUME NEW x \in S
      PROVE  x <= m
  <2>1. x \in Nat /\ m \in Nat /\ x <= top
    BY <1>4
  <2>2. top - x \in below
    BY <1>4, <2>1
  <2>3. n <= top - x
    BY <1>2, <2>2
  <2> QED BY <1>3, <2>1, <2>3
<1> QED BY <1>4

(* Among the recent reports, j is not above m: later first, then more       *)
(* trusted, then newer.                                                     *)
NotAbove(j, m) ==
  \/ reports[j].at < reports[m].at
  \/ /\ reports[j].at = reports[m].at
     /\ \/ reports[j].confidence < reports[m].confidence
        \/ reports[j].confidence = reports[m].confidence /\ j <= m

LEMMA OneIsAbove ==
  ASSUME ReportsInv, Believed!ReportsAssumption, Believed!RecentReports # {}
  PROVE  \E m \in Believed!RecentReports : \A j \in Believed!RecentReports : NotAbove(j, m)
<1> DEFINE R == Believed!RecentReports
           times == {reports[i].at : i \in R}
<1>1. R \subseteq 1..Len(reports) /\ R # {}
  BY DEF Believed!RecentReports
<1>2. /\ Len(reports) \in Nat /\ MaxHour \in Nat
      /\ \A i \in R : /\ i \in Nat /\ i <= Len(reports)
                      /\ reports[i].at \in Nat /\ reports[i].at <= MaxHour
                      /\ reports[i].confidence \in Nat /\ reports[i].confidence <= 20
  <2>1. Len(reports) \in Nat /\ MaxHour \in Nat
    BY DEF ReportsInv, Believed!TypeOK, Believed!ReportsAssumption
  <2>2. ASSUME NEW i \in R
        PROVE  /\ i \in Nat /\ i <= Len(reports)
               /\ reports[i].at \in Nat /\ reports[i].at <= MaxHour
               /\ reports[i].confidence \in Nat /\ reports[i].confidence <= 20
    <3>1. i \in 1..Len(reports)
      BY <1>1, <2>2
    <3>2. reports[i].confidence \in 10..20 /\ reports[i].at \in 0..MaxHour
      BY <3>1, ReportType
    <3> QED BY <2>1, <3>1, <3>2
  <2> QED BY <2>1, <2>2
<1> HIDE DEF R
<1>3. PICK t \in times : \A x \in times : x <= t
  <2>1. times \subseteq Nat /\ times # {} /\ \A x \in times : x <= MaxHour
    BY <1>1, <1>2
  <2> HIDE DEF times
  <2> QED BY <1>2, <2>1, GreatestNumber
<1> DEFINE latest == {i \in R : reports[i].at = t}
           trusts == {reports[i].confidence : i \in latest}
<1>4. PICK c \in trusts : \A x \in trusts : x <= c
  <2>1. latest # {}
    BY <1>3
  <2>2. trusts \subseteq Nat /\ trusts # {} /\ \A x \in trusts : x <= 20
    BY <1>2, <2>1
  <2> HIDE DEF trusts
  <2> QED BY <2>2, GreatestNumber
<1> DEFINE top == {i \in latest : reports[i].confidence = c}
<1>5. PICK m \in top : \A x \in top : x <= m
  <2>1. top # {}
    BY <1>4
  <2>2. top \subseteq Nat /\ \A x \in top : x <= Len(reports)
    BY <1>2
  <2> HIDE DEF top
  <2> QED BY <1>2, <2>1, <2>2, GreatestNumber
<1>6. ASSUME NEW j \in R
      PROVE  NotAbove(j, m)
  <2>1. reports[j].at <= t /\ reports[m].at = t /\ reports[m].confidence = c
    BY <1>3, <1>5, <1>6
  <2>2. reports[j].at \in Nat /\ t \in Nat /\ c \in Nat /\ reports[j].confidence \in Nat
    BY <1>2, <1>3, <1>4, <1>6
  <2>3. CASE reports[j].at < t
    BY <2>1, <2>3 DEF NotAbove
  <2>4. CASE reports[j].at = t
    <3>1. reports[j].confidence <= c
      BY <1>4, <1>6, <2>4
    <3>2. reports[j].confidence = c => j <= m
      BY <1>5, <1>6, <2>4
    <3> QED BY <2>1, <2>2, <2>4, <3>1, <3>2 DEF NotAbove
  <2> QED BY <2>1, <2>2, <2>3, <2>4
<1>7. m \in R
  BY <1>5
<1> QED BY <1>6, <1>7 DEF R

(* The believed report is the one that none is above.                       *)
LEMMA BelievedIsAbove ==
  ASSUME ReportsInv, Believed!ReportsAssumption, reports # <<>>
  PROVE  /\ Believed!MostConfident \in Believed!RecentReports
         /\ \A j \in Believed!RecentReports : NotAbove(j, Believed!MostConfident)
<1> DEFINE R == Believed!RecentReports
           Leads(i) == \A j \in R : Now(i) > Now(j) \/ (Now(i) = Now(j) /\ i >= j)
           m == CHOOSE i \in R : Leads(i)
<1>1. /\ Len(reports) \in R /\ R \subseteq 1..Len(reports)
      /\ \A i \in R : i \in Int /\ Now(i) \in Int
  <2>1. Len(reports) \in Nat /\ Len(reports) # 0
    BY DEF ReportsInv, Believed!TypeOK
  <2>2. Recent \in Nat \ {0}
    BY DEF Believed!ReportsAssumption
  <2>3. Len(reports) \in R /\ R \subseteq 1..Len(reports)
    BY <2>1, <2>2 DEF Believed!RecentReports
  <2>4. ASSUME NEW i \in R PROVE i \in Int /\ Now(i) \in Int
    <3>1. i \in 1..Len(reports)
      BY <2>3, <2>4
    <3> HIDE DEF R
    <3> QED BY <2>1, <3>1, WeightType
  <2> QED BY <2>3, <2>4
<1>2. PICK k \in R : \A j \in R : NotAbove(j, k)
  BY <1>1, OneIsAbove
<1>3. Leads(k)
  <2>1. SUFFICES ASSUME NEW j \in R
                 PROVE  Now(k) > Now(j) \/ (Now(k) = Now(j) /\ k >= j)
    OBVIOUS
  <2>2. /\ k \in 1..Len(reports) /\ j \in 1..Len(reports)
        /\ k \in Int /\ j \in Int /\ Now(k) \in Int /\ Now(j) \in Int
    BY <1>1
  <2>3. NotAbove(j, k)
    BY <1>2
  <2>4. CASE reports[j].at < reports[k].at
    <3>1. Now(j) <= Now(k)
      BY <2>2, <2>4, LaterIsTrusted
    <3>2. j <= k
      <4>1. ASSUME k <= j
            PROVE  FALSE
        <5>1. reports[k].at <= reports[j].at
          BY <2>2, <4>1 DEF ReportsInv
        <5>2. reports[k].at \in 0..MaxHour /\ reports[j].at \in 0..MaxHour
          BY <2>2, ReportType
        <5>3. MaxHour \in Nat
          BY DEF Believed!ReportsAssumption
        <5> QED BY <2>4, <5>1, <5>2, <5>3
      <4> QED BY <2>2, <4>1
    <3> QED BY <2>2, <3>1, <3>2
  <2>5. CASE reports[j].at = reports[k].at /\ reports[j].confidence < reports[k].confidence
    BY <2>2, <2>5, SameHour
  <2>6. CASE /\ reports[j].at = reports[k].at /\ reports[j].confidence = reports[k].confidence
             /\ j <= k
    BY <2>2, <2>6, SameHour
  <2> QED BY <2>3, <2>4, <2>5, <2>6 DEF NotAbove
<1>4. Believed!MostConfident = m
  BY DEF Believed!MostConfident, Now
<1>5. m \in R /\ Leads(m)
  BY <1>2, <1>3
<1>6. m = k
  <2>1. Now(m) > Now(k) \/ (Now(m) = Now(k) /\ m >= k)
    BY <1>5
  <2>2. Now(k) > Now(m) \/ (Now(k) = Now(m) /\ k >= m)
    BY <1>3, <1>5
  <2>3. m \in Int /\ k \in Int /\ Now(m) \in Int /\ Now(k) \in Int
    BY <1>1, <1>5
  <2> HIDE DEF m
  <2> QED BY <2>1, <2>2, <2>3
<1> HIDE DEF m
<1> QED BY <1>2, <1>4, <1>6

(* A believed report is recent, and trusted among those of its hour.        *)
LEMMA ReportsAreSound ==
  ASSUME ReportsInv, Believed!ReportsAssumption
  PROVE  Believed!TypeOK /\ Believed!BelievedIsRecent /\ Believed!BelievedIsTrusted
<1> DEFINE m == Believed!MostConfident
<1>1. /\ Len(reports) \in Nat /\ MaxHour \in Nat /\ Recent \in Nat \ {0}
      /\ DOMAIN reports = 1..Len(reports)
      /\ Believed!RecentReports \subseteq 1..Len(reports)
  BY DEF ReportsInv, Believed!TypeOK, Believed!ReportsAssumption, Believed!RecentReports
<1>2. ASSUME reports # <<>>, NEW i \in DOMAIN reports
      PROVE  reports[i].at <= reports[m].at
  <2>1. Len(reports) \in Believed!RecentReports
    BY <1>1, <1>2 DEF Believed!RecentReports, ReportsInv, Believed!TypeOK
  <2>2. /\ i \in 1..Len(reports) /\ Len(reports) \in 1..Len(reports) /\ m \in 1..Len(reports)
        /\ i <= Len(reports)
    <3>1. m \in Believed!RecentReports
      BY <1>2, BelievedIsAbove
    <3>2. i \in 1..Len(reports)
      BY <1>1, <1>2
    <3> HIDE DEF m
    <3> QED BY <1>1, <2>1, <3>1, <3>2
  <2>3. NotAbove(Len(reports), m)
    BY <1>2, <2>1, BelievedIsAbove
  <2>4. reports[i].at <= reports[Len(reports)].at
    BY <2>2 DEF ReportsInv
  <2>5. /\ reports[i].at \in 0..MaxHour /\ reports[Len(reports)].at \in 0..MaxHour
        /\ reports[m].at \in 0..MaxHour
    BY <2>2, ReportType
  <2>6. reports[Len(reports)].at <= reports[m].at
    BY <1>1, <2>3, <2>5 DEF NotAbove
  <2> HIDE DEF m
  <2> QED BY <1>1, <2>4, <2>5, <2>6
<1>3. ASSUME reports # <<>>, NEW i \in Believed!RecentReports, reports[i].at = reports[m].at, i # m
      PROVE  \/ reports[i].confidence < reports[m].confidence
             \/ reports[i].confidence = reports[m].confidence /\ i < m
  <2>1. NotAbove(i, m) /\ m \in 1..Len(reports) /\ i \in 1..Len(reports)
    BY <1>1, <1>3, BelievedIsAbove
  <2>2. reports[m].at \in 0..MaxHour
    BY <2>1, ReportType
  <2> HIDE DEF m
  <2> QED BY <1>1, <1>3, <2>1, <2>2 DEF NotAbove
<1> QED BY <1>2, <1>3 DEF ReportsInv, Believed!BelievedIsRecent, Believed!BelievedIsTrusted

(* Every step of a request, of a user or of the clock keeps the invariant   *)
(* of the reports.                                                          *)
LEMMA ReportsNext ==
  ASSUME ReportsInv, Believed!ReportsAssumption, [Believed!Next]_reportVars
  PROVE  ReportsInv'
<1>1. CASE \E r \in Requests, u \in Reporters : Believed!BeginCreate(r, u)
  <2>1. PICK r \in Requests, u \in Reporters : Believed!BeginCreate(r, u)
    BY <1>1
  <2> DEFINE q == [pc |-> "merits", user |-> u, confidence |-> 0]
  <2>2. /\ reportReq' = [reportReq EXCEPT ![r] = q]
        /\ UNCHANGED <<reports, merits, hour>>
    BY <2>1 DEF Believed!BeginCreate
  <2>3. q \in Believed!Create /\ q.pc = "merits"
    BY DEF Believed!Create, Believed!Full
  <2> HIDE DEF q
  <2> QED BY <2>2, <2>3 DEF ReportsInv, Believed!TypeOK
<1>2. CASE \E r \in Requests : Believed!ReadMerits(r)
  <2>1. PICK r \in Requests : Believed!ReadMerits(r)
    BY <1>2
  <2> DEFINE trust == Believed!InitialConfidence(merits[reportReq[r].user])
             a == [reportReq[r] EXCEPT !.pc = "create"]
             q == [a EXCEPT !.confidence = trust]
  <2>2. /\ reportReq[r].pc = "merits"
        /\ UNCHANGED <<reports, merits, hour>>
    BY <2>1 DEF Believed!ReadMerits
  <2>3. reportReq' = [reportReq EXCEPT ![r] = q]
    BY <2>1 DEF Believed!ReadMerits, ReportsInv, Believed!TypeOK
  <2>4. reportReq[r] \in Believed!Create
    BY <2>2 DEF ReportsInv, Believed!TypeOK, Believed!Idle
  <2>5. merits[reportReq[r].user] \in [reviews : Reviews, sessions : Sessions]
    BY <2>4 DEF ReportsInv, Believed!TypeOK, Believed!Create
  <2>6. trust \in Believed!BaseConfidence..Believed!Full
    BY <2>5, ConfidenceIsBounded DEF Believed!ReportsAssumption
  <2>7. trust \in 0..2 * Believed!Full
    BY <2>6 DEF Believed!BaseConfidence, Believed!Full
  <2> HIDE DEF trust
  <2>8. a \in Believed!Create /\ a.pc = "create"
    BY <2>4 DEF Believed!Create
  <2> HIDE DEF a
  <2>9. q \in Believed!Create /\ q.pc = "create" /\ q.confidence = trust
    BY <2>7, <2>8 DEF Believed!Create
  <2> HIDE DEF q
  <2> QED BY <2>2, <2>3, <2>6, <2>9 DEF ReportsInv, Believed!TypeOK
<1>3. CASE \E r \in Requests : Believed!CreateReport(r)
  <2>1. PICK r \in Requests : Believed!CreateReport(r)
    BY <1>3
  <2> DEFINE row == [user |-> reportReq[r].user, confidence |-> reportReq[r].confidence,
                     at |-> hour]
             n == Len(reports) + 1
  <2>2. /\ reportReq[r].pc = "create" /\ Len(reports) < MaxReports
        /\ reports' = Append(reports, row)
        /\ reportReq' = [reportReq EXCEPT ![r] = Believed!Idle]
        /\ UNCHANGED <<merits, hour>>
    BY <2>1 DEF Believed!CreateReport
  <2>3. reportReq[r] \in Believed!Create
    BY <2>2 DEF ReportsInv, Believed!TypeOK, Believed!Idle
  <2>4. /\ row \in Believed!Report /\ row.at = hour
        /\ row.confidence \in Believed!BaseConfidence..Believed!Full
    <3>1. reportReq[r].confidence \in Believed!BaseConfidence..Believed!Full
      BY <2>2 DEF ReportsInv
    <3>2. reportReq[r].confidence \in Believed!BaseConfidence..2 * Believed!Full
      BY <3>1 DEF Believed!BaseConfidence, Believed!Full
    <3> QED BY <2>3, <3>1, <3>2 DEF ReportsInv, Believed!TypeOK, Believed!Create, Believed!Report
  <2> HIDE DEF row
  <2>5. /\ reports \in Seq(Believed!Report) /\ Len(reports) \in Nat
        /\ MaxReports \in Nat /\ hour \in Int
    BY DEF ReportsInv, Believed!TypeOK, Believed!ReportsAssumption
  <2>6. /\ reports' \in Seq(Believed!Report) /\ Len(reports') = n
        /\ reports'[n] = row /\ \A i \in 1..Len(reports) : reports'[i] = reports[i]
    BY <2>2, <2>4, <2>5
  <2>7. Len(reports') <= MaxReports
    BY <2>2, <2>5, <2>6
  <2>8. \A i \in 1..n : i = n \/ (i \in 1..Len(reports) /\ ~(n <= i))
    BY <2>5
  <2>9. ASSUME NEW i \in 1..Len(reports')
        PROVE  /\ reports'[i].confidence \in Believed!BaseConfidence..Believed!Full
               /\ reports'[i].at <= hour'
    BY <2>2, <2>4, <2>5, <2>6, <2>8, <2>9 DEF ReportsInv
  <2>10. ASSUME NEW i \in 1..Len(reports'), NEW j \in 1..Len(reports'), i <= j
         PROVE  reports'[i].at <= reports'[j].at
    <3>1. CASE j = n
      BY <2>2, <2>4, <2>6, <2>9, <3>1
    <3>2. CASE j \in 1..Len(reports)
      <4>1. i \in 1..Len(reports)
        BY <2>5, <2>6, <2>10, <3>2
      <4> QED BY <2>6, <2>10, <3>2, <4>1 DEF ReportsInv
    <3> QED BY <2>6, <2>8, <3>1, <3>2
  <2>11. Believed!TypeOK'
    BY <2>2, <2>6, <2>7 DEF ReportsInv, Believed!TypeOK
  <2>12. \A s \in Requests : reportReq'[s].pc = "create" =>
           reportReq'[s].confidence \in Believed!BaseConfidence..Believed!Full
    BY <2>2 DEF ReportsInv, Believed!TypeOK, Believed!Idle
  <2> QED BY <2>9, <2>10, <2>11, <2>12 DEF ReportsInv
<1>4. CASE \E u \in Reporters : Believed!Earn(u)
  BY <1>4 DEF Believed!Earn, ReportsInv, Believed!TypeOK
<1>5. CASE Believed!Tick
  <2>1. hour' \in 0..MaxHour /\ hour' = hour + 1 /\ hour \in Nat
    BY <1>5 DEF Believed!Tick, ReportsInv, Believed!TypeOK, Believed!ReportsAssumption
  <2>2. UNCHANGED <<reports, merits, reportReq>>
    BY <1>5 DEF Believed!Tick
  <2>3. \A i \in 1..Len(reports) : reports[i].at <= hour'
    <3>1. ASSUME NEW i \in 1..Len(reports) PROVE reports[i].at <= hour'
      <4>1. reports[i].at \in 0..MaxHour /\ reports[i].at <= hour
        BY <3>1, ReportType
      <4> QED BY <2>1, <4>1
    <3> QED BY <3>1
  <2> QED BY <2>1, <2>2, <2>3 DEF ReportsInv, Believed!TypeOK
<1>6. CASE UNCHANGED reportVars
  BY <1>6 DEF reportVars, ReportsInv, Believed!TypeOK
<1> QED BY <1>1, <1>2, <1>3, <1>4, <1>5, <1>6 DEF Believed!Next

(* No connector has a report at first.                                      *)
LEMMA ReportsInit ==
  ASSUME Believed!ReportsAssumption
  PROVE  Believed!Init => ReportsInv
BY DEF Believed!Init, ReportsInv, Believed!TypeOK, Believed!ReportsAssumption, Believed!Idle

(* No report of a connector is newer by an hour than the one that is        *)
(* believed, and of the recent ones of its hour none is trusted more        *)
(* (recalculateConfidence, getMostConfidentStatus).                         *)
THEOREM ReportsStayBelieved ==
  Spec => []ReportsAreBelieved
<1> DEFINE Inv == part = "reports" => ReportsInv
<1>1. Init => Inv
  BY ServicesAssumptions, ReportsInit DEF Init
<1>2. Inv /\ [Next]_vars => Inv'
  <2>1. SUFFICES ASSUME Inv, [Next]_vars
                 PROVE  Inv'
    OBVIOUS
  <2>2. part' = part /\ (part = "reports" => [Believed!Next]_reportVars)
    BY <2>1, PartStep
  <2> QED BY <2>1, <2>2, ServicesAssumptions, ReportsNext
<1>3. Inv => ReportsAreBelieved
  BY ServicesAssumptions, ReportsAreSound DEF ReportsAreBelieved
<1> QED BY <1>1, <1>2, <1>3, PTL DEF Spec

-----------------------------------------------------------------------------
(* Steps                                                                   *)

(* No step goes back on another: live updates do not go back in time or     *)
(* energy while a charger waits for its answers, what users wrote stays     *)
(* until its owner deletes it, and an import changes only the stations and  *)
(* connectors that its source speaks of (publishSessionMonitorUpdate,       *)
(* deleteReview, deleteUser, importStations).                               *)
THEOREM StepsTakeNothing ==
  Spec => StepsKeepOthers
<1> DEFINE Inv == /\ part = "metering" => MeterInv
                  /\ part = "content" => ContentInv /\ OwnersKnow
                  /\ part = "import" => ImportInv
<1>1. Init => Inv
  <2>1. Content!Init => OwnersKnow
    BY IdleContentSlot DEF Content!Init, OwnersKnow, Deletes
  <2> QED BY <2>1, ServicesAssumptions, MeterInit, ContentInit, ImportInit DEF Init
<1>2. Inv /\ [Next]_vars =>
        /\ Inv'
        /\ part = "metering" => Metering!LiveGoesOn
        /\ part = "content" => Content!TakesNothing
        /\ part = "import" => Import!TouchesItsRows
  <2>1. SUFFICES ASSUME Inv, [Next]_vars
                 PROVE  /\ Inv'
                        /\ part = "metering" => Metering!LiveGoesOn
                        /\ part = "content" => Content!TakesNothing
                        /\ part = "import" => Import!TouchesItsRows
    OBVIOUS
  <2>2. /\ part' = part
        /\ part = "metering" => [Metering!Next]_meterVars
        /\ part = "content" => [Content!Next]_contentVars
        /\ part = "import" => [Import!Next]_importVars
    BY <2>1, PartStep
  <2>3. part = "metering" => MeterInv' /\ Metering!LiveGoesOn
    BY <2>1, <2>2, ServicesAssumptions, MeterNext
  <2>4. part = "content" => ContentInv' /\ OwnersKnow' /\ Content!TakesNothing
    BY <2>1, <2>2, ServicesAssumptions, ContentNext, OwnersNext
  <2>5. part = "import" => ImportInv' /\ Import!TouchesItsRows
    BY <2>1, <2>2, ServicesAssumptions, ImportNext, ImportsTakeNothing
  <2> QED BY <2>2, <2>3, <2>4, <2>5
<1> QED BY <1>1, <1>2, PTL DEF Spec, StepsKeepOthers

-----------------------------------------------------------------------------
(* Types                                                                   *)

(* Every variable of every service keeps its type.                          *)
THEOREM TypesHold ==
  Spec => []TypeOK
<1> DEFINE Inv == /\ part = "accounts" => AccountsInv
                  /\ part = "methods" => MethodsInv
                  /\ part = "metering" => MeterInv
                  /\ part = "content" => ContentInv
                  /\ part = "vehicles" => VehiclesInv
                  /\ part = "reports" => ReportsInv
                  /\ part = "import" => ImportInv
                  /\ part = "api" => ApiInv
<1>1. Init => Inv
  BY ServicesAssumptions, AccountsInit, MethodsInit, MeterInit, ContentInit, VehiclesInit,
     ReportsInit, ImportInit, ApiInit DEF Init
<1>2. Inv /\ [Next]_vars => Inv'
  <2>1. SUFFICES ASSUME Inv, [Next]_vars
                 PROVE  Inv'
    OBVIOUS
  <2>2. /\ part' = part
        /\ part = "accounts" => [Accounts!Next]_accountVars
        /\ part = "methods" => [Methods!Next]_methodVars
        /\ part = "metering" => [Metering!Next]_meterVars
        /\ part = "content" => [Content!Next]_contentVars
        /\ part = "vehicles" => [Cars!Next]_vehicleVars
        /\ part = "reports" => [Believed!Next]_reportVars
        /\ part = "import" => [Import!Next]_importVars
        /\ part = "api" => [Api!Next]_apiVars
    BY <2>1, PartStep
  <2>3. part = "accounts" => AccountsInv'
    BY <2>1, <2>2, ServicesAssumptions, AccountsNext
  <2>4. part = "methods" => MethodsInv'
    BY <2>1, <2>2, ServicesAssumptions, MethodsNext
  <2>5. part = "metering" => MeterInv'
    BY <2>1, <2>2, ServicesAssumptions, MeterNext
  <2>6. part = "content" => ContentInv'
    BY <2>1, <2>2, ServicesAssumptions, ContentNext
  <2>7. part = "vehicles" => VehiclesInv'
    BY <2>1, <2>2, ServicesAssumptions, VehiclesNext
  <2>8. part = "reports" => ReportsInv'
    BY <2>1, <2>2, ServicesAssumptions, ReportsNext
  <2>9. part = "api" => ApiInv'
    BY <2>1, <2>2, ServicesAssumptions, ApiNext
  <2>10. part = "import" => ImportInv'
    BY <2>1, <2>2, ServicesAssumptions, ImportNext
  <2> QED BY <2>2, <2>3, <2>4, <2>5, <2>6, <2>7, <2>8, <2>9, <2>10
<1>3. Inv => TypeOK
  BY ServicesAssumptions, ImportsAreComplete
  DEF TypeOK, AccountsInv, MethodsInv, MeterInv, ContentInv, VehiclesInv, ReportsInv, ApiInv
<1> QED BY <1>1, <1>2, <1>3, PTL DEF Spec
=============================================================================
