----------------------------- MODULE Onboarding -----------------------------
(***************************************************************************)
(* The first run of the mobile app (features/onboarding): the stack of     *)
(* screens, the session that they share in memory, and the requests that   *)
(* they send.  A request is served at once or lost, its answer arrives     *)
(* later or is lost, and its handler goes on even when its screen is gone. *)
(* The vehicle that the session keeps is not read again and is left out.   *)
(* The API is reduced to the rows that a request needs or leaves (Auth and *)
(* PaymentMethods model its handlers); form fields are left out, as a      *)
(* screen sends nothing until its form is valid.                           *)
(***************************************************************************)
EXTENDS Integers, Sequences

CONSTANTS
  Users,         \* people, by email and phone, that may use this device
  Gateways,      \* PAYMENT_OPTIONS
  Wirings,       \* may the API client of the screens know the access token?
  MaxScreens,    \* bound on the stack
  MaxRequests    \* bound on requests in flight

NoUser == "no user"

OnboardingAssumption ==
  /\ NoUser \notin Users
  /\ Wirings \subseteq BOOLEAN /\ MaxScreens \in Nat \ {0} /\ MaxRequests \in Nat

TokenPay == Gateways \cap {"APPLE_PAY", "GOOGLE_PAY"}   \* they exchange a token
NoGateway == "none"

VARIABLES
  stack,       \* the screens, the visible one last
  session,     \* OnboardingSessionState
  net,         \* handlers that await something
  api,         \* rows of the API: one-time codes, accounts, vehicles, methods
  sendsToken,  \* is the client wired with getAccessToken?
  finished,    \* history: what the user finished the payment screen with
  refused      \* history: has a guard refused a user's own request?

vars == <<stack, session, net, api, sendsToken, finished, refused>>

Screens == {"register", "verify", "vehicle", "payment", "login", "tabs"}
Slots == 1..MaxRequests
Screen == [name : Screens, awaits : 0..MaxRequests]   \* isSubmitting: awaits # 0
Setup == [user : Users, gateway : TokenPay]

Idle == [phase |-> "idle"]
Phases == {"sheet", "sent", "ok", "failed"}
Handler == [screen : Screens \ {"tabs"}, user : Users,
            gateway : TokenPay \cup {NoGateway}, phase : Phases]

TypeOK ==
  /\ stack \in Seq(Screen) /\ Len(stack) \in 1..MaxScreens
  /\ session \in [draft : Users \cup {NoUser}, user : Users \cup {NoUser},
                  gateway : Gateways \cup {NoGateway}, complete : BOOLEAN]
  /\ net \in [Slots -> Handler \cup {Idle}]
  /\ api.otp \subseteq Users /\ api.accounts \subseteq Users
  /\ api.vehicles \subseteq api.accounts /\ api.methods \subseteq Setup
  /\ sendsToken \in Wirings
  /\ finished \subseteq Setup /\ refused \in BOOLEAN

Mounted(screen) == [name |-> screen, awaits |-> 0]

NoSession == [draft |-> NoUser, user |-> NoUser, gateway |-> NoGateway, complete |-> FALSE]

Init ==
  /\ stack = <<Mounted("register")>>
  /\ session = NoSession
  /\ net = [r \in Slots |-> Idle]
  /\ api = [otp |-> {}, accounts |-> {}, vehicles |-> {}, methods |-> {}]
  /\ sendsToken \in Wirings
  /\ finished = {} /\ refused = FALSE

-----------------------------------------------------------------------------
(* Navigation: expo-router, whose handlers may be called by a late answer. *)

Top == stack[Len(stack)]
On(screen) == Top.name = screen
PushOn(s, screen) ==
  /\ Len(s) < MaxScreens
  /\ stack' = Append(s, Mounted(screen))

Push(screen) == PushOn(stack, screen)
Replace(screen) == stack' = [stack EXCEPT ![Len(stack)] = Mounted(screen)]

\* The onboarding screens are one entry of the root stack: all of them go.
ReplaceByTabs ==
  LET entry == IF On("tabs") THEN Len(stack)
               ELSE CHOOSE k \in DOMAIN stack :
                      /\ \A j \in k..Len(stack) : stack[j].name # "tabs"
                      /\ k = 1 \/ stack[k - 1].name = "tabs"
  IN  stack' = Append(SubSeq(stack, 1, entry - 1), Mounted("tabs"))

Back ==
  /\ Len(stack) > 1
  /\ stack' = SubSeq(stack, 1, Len(stack) - 1)
  /\ UNCHANGED <<session, net, api, sendsToken, finished, refused>>

RegisterScreenLink == On("register") /\ Push("login")
LoginScreenLink == On("login") /\ Replace("register")

\* The buttons of a screen that misses what it needs.
VerifyScreenRestart == On("verify") /\ session.draft = NoUser /\ Replace("register")
VehicleScreenRestart == On("vehicle") /\ session.user = NoUser /\ Replace("register")

SkipVehicle == On("vehicle") /\ session.user # NoUser /\ Push("payment")

FollowLink ==
  /\ \/ RegisterScreenLink \/ LoginScreenLink
     \/ VerifyScreenRestart \/ VehicleScreenRestart \/ SkipVehicle
  /\ UNCHANGED <<session, net, api, sendsToken, finished, refused>>

-----------------------------------------------------------------------------
(* Buttons that send a request: disabled while their screen awaits one.    *)

Submit(screen, user, gateway, phase) ==
  /\ On(screen) /\ Top.awaits = 0
  /\ \E r \in Slots :
       /\ net[r] = Idle /\ \A q \in 1..(r - 1) : net[q] # Idle
       /\ net' = [net EXCEPT ![r] = [screen |-> screen, user |-> user,
                                     gateway |-> gateway, phase |-> phase]]
       /\ stack' = [stack EXCEPT ![Len(stack)].awaits = r]

\* handleContinue, handleSignIn, handleVerifyCode, handleSaveVehicle
RegistrationForm == \E u \in Users : Submit("register", u, NoGateway, "sent")
LoginForm == \E u \in Users : Submit("login", u, NoGateway, "sent")
CodeForm == session.draft # NoUser /\ Submit("verify", session.draft, NoGateway, "sent")
VehicleForm == session.user # NoUser /\ Submit("vehicle", session.user, NoGateway, "sent")

SendForm ==
  /\ RegistrationForm \/ LoginForm \/ CodeForm \/ VehicleForm
  /\ UNCHANGED <<session, api, sendsToken, finished, refused>>

SelectGateway(gateway) ==
  /\ On("payment") /\ gateway # session.gateway
  /\ session' = [session EXCEPT !.gateway = gateway]
  /\ UNCHANGED <<stack, net, api, sendsToken, finished, refused>>

Complete == session' = [session EXCEPT !.complete = TRUE]

\* handleFinishOnboarding: a payment sheet first, or nothing to set up.
Finish ==
  /\ \/ /\ session.gateway \in TokenPay /\ session.user # NoUser
        /\ Submit("payment", session.user, session.gateway, "sheet")
        /\ UNCHANGED session
     \/ /\ session.gateway \notin TokenPay
        /\ On("payment") /\ Top.awaits = 0
        /\ Complete /\ ReplaceByTabs
        /\ UNCHANGED net
  /\ UNCHANGED <<api, sendsToken, finished, refused>>

\* The skip button of the payment screen.
SkipPayment ==
  /\ On("payment") /\ Top.awaits = 0
  /\ Complete /\ ReplaceByTabs
  /\ UNCHANGED <<net, api, sendsToken, finished, refused>>

\* presentApplePaySheet, presentGooglePaySheet: confirmed, or cancelled or unavailable.
CloseSheet(r) ==
  /\ net[r].phase = "sheet"
  /\ \E phase \in {"sent", "failed"} : net' = [net EXCEPT ![r].phase = phase]
  /\ UNCHANGED <<stack, session, api, sendsToken, finished, refused>>

-----------------------------------------------------------------------------
(* The API                                                                 *)

\* JwtAuthGuard, IdorGuard: the token, when the client sends one, is of the user.
Authorized(user) == sendsToken /\ session.user = user

\* What the API does with a request of a screen: NoChange is that it refuses.
Outcome(screen, u, gateway) ==
  CASE screen = "register" /\ u \notin api.accounts ->
         [api EXCEPT !.otp = @ \cup {u}]
    [] screen = "verify" /\ u \in api.otp \ api.accounts ->
         [api EXCEPT !.otp = @ \ {u}, !.accounts = @ \cup {u}]
    [] screen = "vehicle" /\ Authorized(u) /\ u \in api.accounts ->
         [api EXCEPT !.vehicles = @ \cup {u}]
    [] screen = "payment" /\ Authorized(u) /\ u \in api.accounts ->
         [api EXCEPT !.methods = @ \cup {[user |-> u, gateway |-> gateway]}]
    [] OTHER -> api

Accepts(screen, u) ==
  CASE screen = "register" -> u \notin api.accounts
    [] screen = "verify" -> u \in api.otp \ api.accounts
    [] screen = "login" -> u \in api.accounts
    [] OTHER -> Authorized(u) /\ u \in api.accounts

\* The request arrives and is answered; a code may be mistyped, a password wrong.
Serve(r) ==
  /\ net[r].phase = "sent"
  /\ LET screen == net[r].screen
         u == net[r].user
     IN  IF Accepts(screen, u)
           THEN /\ api' = Outcome(screen, u, net[r].gateway)
                /\ net' = [net EXCEPT ![r].phase = "ok"]
                /\ UNCHANGED refused
           ELSE /\ net' = [net EXCEPT ![r].phase = "failed"]
                /\ refused' = (refused \/ (screen \in {"vehicle", "payment"} /\ session.user = u))
                /\ UNCHANGED api
  /\ UNCHANGED <<stack, session, sendsToken, finished>>

\* The request or its answer is lost, or the API fails: the client gives up.
Lose(r) ==
  /\ net[r].phase \in {"sent", "ok"}
  /\ net' = [net EXCEPT ![r].phase = "failed"]
  /\ UNCHANGED <<stack, session, api, sendsToken, finished, refused>>

ExpireOtp(u) ==
  /\ u \in api.otp
  /\ api' = [api EXCEPT !.otp = @ \ {u}]
  /\ UNCHANGED <<stack, session, net, sendsToken, finished, refused>>

-----------------------------------------------------------------------------
(* The handlers after their await                                          *)

\* setIsSubmitting(false), which is in vain for a screen that is gone.
Released(r) ==
  [k \in DOMAIN stack |-> IF stack[k].awaits = r THEN [stack[k] EXCEPT !.awaits = 0] ELSE stack[k]]

\* Mutant: the code after the request runs when it has failed, too.
ContinueAnyway(r) ==
  /\ net[r].phase \in {"ok", "failed"}
  /\ net[r].screen \in {"register", "payment"}
  /\ net' = [net EXCEPT ![r] = Idle]
  /\ \/ /\ net[r].screen = "register" /\ PushOn(Released(r), "verify")
        /\ UNCHANGED <<session, finished>>
     \/ /\ net[r].screen = "payment" /\ Complete /\ ReplaceByTabs
        /\ finished' = finished \cup {[user |-> net[r].user, gateway |-> net[r].gateway]}
  /\ UNCHANGED <<api, sendsToken, refused>>

\* The request has succeeded, and the rest of the handler runs wherever the
\* user has gone meanwhile.
Registered(r) ==
  /\ net[r].screen = "register"
  /\ session' = [session EXCEPT !.draft = net[r].user]
  /\ PushOn(Released(r), "verify") /\ UNCHANGED finished

Verified(r) ==
  /\ net[r].screen = "verify"
  /\ session' = [session EXCEPT !.user = net[r].user]
  /\ PushOn(Released(r), "vehicle") /\ UNCHANGED finished

SignedIn(r) ==
  /\ net[r].screen = "login"
  /\ session' = [session EXCEPT !.user = net[r].user, !.complete = TRUE]
  /\ ReplaceByTabs /\ UNCHANGED finished

VehicleSaved(r) ==
  /\ net[r].screen = "vehicle"
  /\ PushOn(Released(r), "payment") /\ UNCHANGED <<session, finished>>

PaymentSetUp(r) ==
  /\ net[r].screen = "payment"
  /\ Complete /\ ReplaceByTabs
  /\ finished' = finished \cup {[user |-> net[r].user, gateway |-> net[r].gateway]}

Continue(r) ==
  /\ net[r].phase = "ok"
  /\ net' = [net EXCEPT ![r] = Idle]
  /\ Registered(r) \/ Verified(r) \/ SignedIn(r) \/ VehicleSaved(r) \/ PaymentSetUp(r)
  /\ UNCHANGED <<api, sendsToken, refused>>

\* It has not: an error message, and the button works again.
ShowError(r) ==
  /\ net[r].phase = "failed"
  /\ net' = [net EXCEPT ![r] = Idle]
  /\ stack' = Released(r)
  /\ UNCHANGED <<session, api, sendsToken, finished, refused>>

\* The process ends; the session is in memory only.
RestartApp ==
  /\ stack' = <<Mounted("register")>>
  /\ session' = NoSession
  /\ net' = [r \in Slots |-> Idle]
  /\ UNCHANGED <<api, sendsToken, finished, refused>>

Next ==
  \/ Back \/ FollowLink
  \/ SendForm \/ Finish \/ SkipPayment
  \/ \E gateway \in Gateways : SelectGateway(gateway)
  \/ \E u \in Users : ExpireOtp(u)
  \/ \E r \in Slots : \/ CloseSheet(r) \/ Serve(r) \/ Lose(r)
                      \/ Continue(r) \/ ShowError(r)
  \/ RestartApp

Spec == Init /\ [][Next]_vars

-----------------------------------------------------------------------------
\* Whatever late answers push on the stack and wherever the user goes back to, a
\* screen finds what it needs in the session, the tabs are only shown to a user
\* who is signed in, and a payment set up with a token is stored.
FlowIsSound ==
  /\ \A k \in DOMAIN stack :
       CASE stack[k].name = "verify" -> session.draft # NoUser
         [] stack[k].name \in {"vehicle", "payment"} -> session.user # NoUser
         [] stack[k].name = "tabs" -> session.complete /\ session.user # NoUser
         [] OTHER -> TRUE
  /\ finished \subseteq api.methods

\* vehicle-setup-screen.tsx:73: "Validates vehicle details and creates the user
\* vehicle profile": the API takes the requests that a user makes for themselves.
SignedInIsAuthorized == ~refused

=============================================================================
