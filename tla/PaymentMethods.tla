--------------------------- MODULE PaymentMethods ---------------------------
(***************************************************************************)
(* The payment methods of a user (payments.service.ts): the exchange of an *)
(* Apple Pay or Google Pay token, the choice of the wallet, and the lookup *)
(* of the method that a session is charged with.  Each await of a handler  *)
(* ends a step; the rows have no constraint beyond their id.  Methods of   *)
(* ArCa and Idram are only read here: Init is what other means have left.  *)
(***************************************************************************)
EXTENDS Integers, FiniteSets

CONSTANTS
  Tokens,     \* payment-method tokens that the providers return
  Seeded,     \* the gateways of the methods that exist at first, the oldest first
  Requests,   \* slots for requests in progress
  MaxMethods  \* bound on rows

TokenPay == {"APPLE_PAY", "GOOGLE_PAY"}
Gateways == {"ARCA", "IDRAM", "APPLE_PAY", "GOOGLE_PAY", "WALLET"}
Supported == Gateways \ {"WALLET"}   \* SUPPORTED_PAYMENT_GATEWAYS
NoToken == "no token"
NoMethod == 0

MethodsAssumption ==
  /\ MaxMethods \in Nat /\ NoToken \notin Tokens
  /\ DOMAIN Seeded = 1..Cardinality(DOMAIN Seeded) /\ Cardinality(DOMAIN Seeded) <= MaxMethods
  /\ \A i \in DOMAIN Seeded : Seeded[i] \in {"ARCA", "IDRAM"}

VARIABLES
  methods,    \* rows by id, which grows with createdAt
  req,        \* requests in progress
  chosen,     \* history: the method of the last choice that was answered
  disturbed   \* history: has a choice overlapped another or been cut off?

vars == <<methods, req, chosen, disturbed>>

Method == [gateway : Gateways, token : Tokens \cup {NoToken}, isDefault : BOOLEAN]
Ids == 1..MaxMethods

Idle == [op |-> "idle"]
\* keep: request.isDefault is left out, and an update writes what it found.
Flags == {"yes", "no", "keep"}
Exchange == [op : {"set"}, pc : {"exchange", "find", "clear", "save"},
             gateway : TokenPay \cup {"WALLET"}, token : Tokens \cup {NoToken},
             isDefault : Flags, found : 0..MaxMethods, flag : BOOLEAN]
\* steady: no choice has been in progress since the lookup began.
Lookup == [op : {"lookup"}, pc : {"default", "oldest", "found"}, gateways : SUBSET Supported,
           found : 0..MaxMethods, steady : BOOLEAN]

TypeOK ==
  /\ DOMAIN methods = 1..Cardinality(DOMAIN methods)
  /\ \A i \in DOMAIN methods : i \in Ids /\ methods[i] \in Method
  /\ req \in [Requests -> {Idle} \cup Exchange \cup Lookup]
  /\ chosen \in 0..MaxMethods /\ disturbed \in BOOLEAN

Init ==
  /\ methods = [i \in DOMAIN Seeded |->
                  [gateway |-> Seeded[i], token |-> NoToken, isDefault |-> i = 1]]
  /\ req = [r \in Requests |-> Idle]
  /\ chosen = IF DOMAIN Seeded = {} THEN NoMethod ELSE 1
  /\ disturbed = FALSE

-----------------------------------------------------------------------------
Goto(r, record) == req' = [req EXCEPT ![r] = record]
End(r) == Goto(r, Idle)
At(r, op, pc) == req[r].op = op /\ req[r].pc = pc

Choosing == {r \in Requests : req[r].op = "set"}

BeginChoice(r, request) ==
  /\ req[r] = Idle
  /\ req' = [q \in Requests |->
       CASE q = r -> request
         [] req[q].op = "lookup" -> [req[q] EXCEPT !.steady = FALSE]
         [] OTHER -> req[q]]
  /\ disturbed' = (disturbed \/ Choosing # {})
  /\ UNCHANGED <<methods, chosen>>

\* exchangeApplePayToken, exchangeGooglePayToken
BeginExchange(r, gateway, isDefault) ==
  BeginChoice(r, [op |-> "set", pc |-> "exchange", gateway |-> gateway, token |-> NoToken,
                  isDefault |-> isDefault, found |-> NoMethod, flag |-> FALSE])

\* setWalletAsPaymentMethod
BeginWallet(r) ==
  BeginChoice(r, [op |-> "set", pc |-> "find", gateway |-> "WALLET", token |-> NoToken,
                  isDefault |-> "yes", found |-> NoMethod, flag |-> FALSE])

\* exchangeToken: the token that the provider or the local digest gives; a
\* digest repeats for the same sheet, and a provider may repeat one, too.
AnswerExchange(r) ==
  /\ At(r, "set", "exchange")
  /\ \E token \in Tokens : Goto(r, [req[r] EXCEPT !.pc = "find", !.token = token])
  /\ UNCHANGED <<methods, chosen, disturbed>>

Matches(r) ==
  {i \in DOMAIN methods : methods[i].gateway = req[r].gateway /\ methods[i].token = req[r].token}

\* findFirst has no order here.
FindExisting(r) ==
  /\ At(r, "set", "find")
  /\ \E found \in IF Matches(r) = {} THEN {NoMethod} ELSE Matches(r) :
       Goto(r, [req[r] EXCEPT !.found = found,
                              !.flag = found # NoMethod /\ methods[found].isDefault,
                              !.pc = IF req[r].isDefault = "yes" THEN "clear" ELSE "save"])
  /\ UNCHANGED <<methods, chosen, disturbed>>

\* Mutant: the defaults are cleared only when a method is created.
ClearDefaultsOnCreate(r) ==
  /\ At(r, "set", "clear")
  /\ methods' = [i \in DOMAIN methods |->
       IF req[r].found = NoMethod THEN [methods[i] EXCEPT !.isDefault = FALSE] ELSE methods[i]]
  /\ Goto(r, [req[r] EXCEPT !.pc = "save"])
  /\ UNCHANGED <<chosen, disturbed>>

\* updateMany
ClearDefaults(r) ==
  /\ At(r, "set", "clear")
  /\ methods' = [i \in DOMAIN methods |-> [methods[i] EXCEPT !.isDefault = FALSE]]
  /\ Goto(r, [req[r] EXCEPT !.pc = "save"])
  /\ UNCHANGED <<chosen, disturbed>>

\* create, or update of the method that was found.
Save(r) ==
  /\ At(r, "set", "save")
  /\ LET i == req[r].found
         new == Cardinality(DOMAIN methods) + 1
     IN  \/ /\ i = NoMethod /\ new <= MaxMethods
            /\ methods' = [k \in 1..new |->
                 IF k < new THEN methods[k]
                 ELSE [gateway |-> req[r].gateway, token |-> req[r].token,
                       isDefault |-> req[r].isDefault = "yes"]]
            /\ chosen' = IF req[r].isDefault = "yes" THEN new ELSE chosen
         \/ /\ i # NoMethod
            /\ methods' = [methods EXCEPT ![i].isDefault =
                 IF req[r].isDefault = "keep" THEN req[r].flag ELSE req[r].isDefault = "yes"]
            /\ chosen' = CASE req[r].isDefault = "yes" -> i
                           [] req[r].isDefault = "no" /\ i = chosen -> NoMethod
                           [] OTHER -> chosen
  /\ End(r)
  /\ UNCHANGED disturbed

\* exchangeApplePayToken and exchangeGooglePayToken
ExchangeToken(r) ==
  /\ req[r].op = "set" /\ req[r].gateway \in TokenPay
  /\ AnswerExchange(r) \/ FindExisting(r) \/ ClearDefaults(r) \/ Save(r)

\* setWalletAsPaymentMethod
SetWallet(r) ==
  /\ req[r].op = "set" /\ req[r].gateway = "WALLET"
  /\ FindExisting(r) \/ ClearDefaults(r) \/ Save(r)

-----------------------------------------------------------------------------
(* findSupportedPaymentMethod, findIdramPaymentMethod                      *)

Candidates(gateways) == {i \in DOMAIN methods : methods[i].gateway \in gateways}
Defaults(gateways) == {i \in Candidates(gateways) : methods[i].isDefault}

BeginLookup(r, gateways) ==
  /\ req[r] = Idle
  /\ Goto(r, [op |-> "lookup", pc |-> "default", gateways |-> gateways, found |-> NoMethod,
              steady |-> Choosing = {}])
  /\ UNCHANGED <<methods, chosen, disturbed>>

Found(r, i) == Goto(r, [req[r] EXCEPT !.pc = "found", !.found = i])

\* The first query; with a default method it is the only one.
FindDefault(r) ==
  /\ At(r, "lookup", "default")
  /\ IF Defaults(req[r].gateways) = {} THEN Goto(r, [req[r] EXCEPT !.pc = "oldest"])
     ELSE \E i \in Defaults(req[r].gateways) : Found(r, i)
  /\ UNCHANGED <<methods, chosen, disturbed>>

FindOldest(r) ==
  /\ At(r, "lookup", "oldest")
  /\ LET rows == Candidates(req[r].gateways)
     IN  Found(r, IF rows = {} THEN NoMethod ELSE CHOOSE i \in rows : \A j \in rows : i <= j)
  /\ UNCHANGED <<methods, chosen, disturbed>>

\* The session is authorized with the method, or refused without one.
UseMethod(r) == At(r, "lookup", "found") /\ End(r) /\ UNCHANGED <<methods, chosen, disturbed>>

\* A provider or the database fails, or the process ends.
Abort(r) ==
  /\ req[r] # Idle
  /\ End(r)
  /\ disturbed' = (disturbed \/ r \in Choosing)
  /\ UNCHANGED <<methods, chosen>>

Next ==
  \E r \in Requests :
    \/ \E gateway \in TokenPay, isDefault \in {"yes", "no", "keep"} :
         BeginExchange(r, gateway, isDefault)
    \/ BeginWallet(r)
    \/ ExchangeToken(r) \/ SetWallet(r)
    \/ \E gateways \in {Supported, {"IDRAM"}} : BeginLookup(r, gateways)
    \/ FindDefault(r) \/ FindOldest(r) \/ UseMethod(r)
    \/ Abort(r)

Spec == Init /\ [][Next]_vars

-----------------------------------------------------------------------------
\* While choices neither overlap nor are cut off, the default is the last choice
\* and no other, and a token that is exchanged again makes no second method;
\* between the two writes of a choice there is no default at all.
DefaultIsTheChoice ==
  ~disturbed =>
    /\ {i \in DOMAIN methods : methods[i].isDefault} \in {{chosen} \ {NoMethod}, {}}
    /\ (\A r \in Requests : ~At(r, "set", "save")) =>
         {i \in DOMAIN methods : methods[i].isDefault} = {chosen} \ {NoMethod}
    /\ \A i, j \in DOMAIN methods :
         methods[i].gateway \in TokenPay \cup {"WALLET"} /\ methods[i].gateway = methods[j].gateway
           /\ methods[i].token = methods[j].token => i = j

\* A session that starts while no choice is in progress is charged with the
\* method that was chosen last, when that is one of a gateway.
ChargesTheChoice ==
  \A r \in Requests :
    (/\ At(r, "lookup", "found") /\ req[r].steady /\ ~disturbed
     /\ chosen \in Candidates(req[r].gateways)) => req[r].found = chosen

=============================================================================
