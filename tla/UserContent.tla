---------------------------- MODULE UserContent ----------------------------
(***************************************************************************)
(* What a user leaves behind: reviews, favourite stations and problem      *)
(* reports, and the deletion of the user (reviews, favorites,              *)
(* problem-reports, users and mail services).  IdorGuard lets a request    *)
(* act for its own user only.  Each await ends a step; the stations exist  *)
(* throughout.  The database keeps the foreign keys: reviews and reports   *)
(* restrict the deletion of their user, favourites go with it.             *)
(***************************************************************************)
EXTENDS Integers, FiniteSets, FiniteSetsExt

CONSTANTS
  Users, Stations,
  Addressed,   \* stations whose operator is in operatorEmailMap
  Mailing,     \* is SMTP configured?
  Requests,    \* slots for requests in progress
  MaxRows      \* bound on reviews and reports that are ever created

ContentAssumption ==
  MaxRows \in Nat /\ Addressed \subseteq Stations /\ Mailing \in BOOLEAN

VARIABLES
  users,     \* rows of User
  reviews,   \* rows of Review
  favorites, \* rows of FavoriteStation
  reports,   \* rows of StationProblemReport, and what has become of their mail
  lastId,    \* reviews and reports created so far
  req,       \* requests in progress
  crossed    \* history: user and station of reviews that were created in parallel

vars == <<users, reviews, favorites, reports, lastId, req, crossed>>

Ids == 1..MaxRows
Review == [id : Ids, user : Users, station : Stations]
\* mail: sent, not tried yet, failed, or none where nothing is to be sent.
Report == [id : Ids, user : Users, station : Stations, answered : BOOLEAN,
           mail : {"due", "sent", "failed", "none"}]
Idle == [op |-> "idle"]
Content == [op : {"createReview", "saveFavorite", "removeFavorite", "createReport"},
            pc : {"user", "find", "create", "write"}, user : Users, station : Stations]
Change == [op : {"updateReview", "deleteReview"}, pc : {"user", "find", "write"},
           user : Users, id : Ids]
Mail == [op : {"mail"}, id : Ids]

TypeOK ==
  /\ users \subseteq Users
  /\ reviews \subseteq Review /\ favorites \subseteq Users \X Stations /\ reports \subseteq Report
  /\ lastId \in Ids \cup {0}
  /\ req \in [Requests -> {Idle} \cup Content \cup Change \cup Mail]
  /\ crossed \subseteq Users \X Stations
  /\ \A row \in reviews \cup reports : row.user \in users
  /\ \A pair \in favorites : pair[1] \in users

Init ==
  /\ users = Users /\ reviews = {} /\ favorites = {} /\ reports = {}
  /\ lastId = 0
  /\ req = [r \in Requests |-> Idle]
  /\ crossed = {}

rows == <<users, reviews, favorites, reports, lastId, crossed>>

-----------------------------------------------------------------------------
Goto(r, pc) == req' = [req EXCEPT ![r].pc = pc]
End(r) == req' = [req EXCEPT ![r] = Idle]
At(r, ops, pc) == req[r].op \in ops /\ req[r].pc = pc

\* A request that the validation and the guards let through.
Begin(r, request) ==
  /\ req[r] = Idle
  /\ req' = [req EXCEPT ![r] = request]
  /\ UNCHANGED rows

\* The first read of every request: without its user it ends.
Find(r, ops, next) ==
  /\ At(r, ops, "user")
  /\ IF req[r].user \in users THEN Goto(r, next) ELSE End(r)
  /\ UNCHANGED rows

\* assertUserExists, assertStationExists
AssertReviewer(r) == Find(r, {"createReview", "updateReview", "deleteReview"}, "find")
AssertOwner(r) == Find(r, {"saveFavorite", "removeFavorite"}, "write")

\* findUser, findStation
FindReporter(r) == Find(r, {"createReport"}, "create")

ReviewsOf(user, station) == {v \in reviews : v.user = user /\ v.station = station}

\* Mutant: the review of the user is not looked for.
FindNoReview(r) ==
  /\ At(r, {"createReview"}, "find")
  /\ Goto(r, "create")
  /\ UNCHANGED rows

\* The findFirst of createReview.
FindReview(r) ==
  /\ At(r, {"createReview"}, "find")
  /\ IF ReviewsOf(req[r].user, req[r].station) = {} THEN Goto(r, "create") ELSE End(r)
  /\ UNCHANGED rows

\* The create of createReview: nothing keeps a second row out.
CreateReview(r) ==
  /\ At(r, {"createReview"}, "create")
  /\ lastId < MaxRows
  /\ LET key == <<req[r].user, req[r].station>>
         others == {q \in Requests \ {r} : At(q, {"createReview"}, "create")
                                           /\ <<req[q].user, req[q].station>> = key}
     IN  IF req[r].user \in users
         THEN /\ reviews' = reviews \cup {[id |-> lastId + 1, user |-> req[r].user,
                                           station |-> req[r].station]}
              /\ lastId' = lastId + 1
              /\ crossed' = IF others # {} THEN crossed \cup {key} ELSE crossed
         ELSE UNCHANGED <<reviews, lastId, crossed>>   \* the foreign key refuses the row
  /\ End(r)
  /\ UNCHANGED <<users, favorites, reports>>

\* The findUnique of updateReview and deleteReview, and the check of the owner.
FindOwned(r) ==
  /\ At(r, {"updateReview", "deleteReview"}, "find")
  /\ IF \E v \in reviews : v.id = req[r].id /\ v.user = req[r].user THEN Goto(r, "write")
     ELSE End(r)
  /\ UNCHANGED rows

\* update by id; what a review says is left out.
UpdateReview(r) ==
  /\ At(r, {"updateReview"}, "write")
  /\ End(r)
  /\ UNCHANGED rows

\* delete by id: a row that has gone in between is an error.
DeleteReview(r) ==
  /\ At(r, {"deleteReview"}, "write")
  /\ reviews' = {v \in reviews : v.id # req[r].id}
  /\ End(r)
  /\ UNCHANGED <<users, favorites, reports, lastId, crossed>>

\* Mutant: the row has no foreign key.
SaveFavoriteOfAnyone(r) ==
  /\ At(r, {"saveFavorite"}, "write")
  /\ favorites' = favorites \cup {<<req[r].user, req[r].station>>}
  /\ End(r)
  /\ UNCHANGED <<users, reviews, reports, lastId, crossed>>

\* upsert
SaveFavorite(r) ==
  /\ At(r, {"saveFavorite"}, "write")
  /\ favorites' = favorites \cup
       IF req[r].user \in users THEN {<<req[r].user, req[r].station>>} ELSE {}
  /\ End(r)
  /\ UNCHANGED <<users, reviews, reports, lastId, crossed>>

\* deleteMany
RemoveFavorite(r) ==
  /\ At(r, {"removeFavorite"}, "write")
  /\ favorites' = favorites \ {<<req[r].user, req[r].station>>}
  /\ End(r)
  /\ UNCHANGED <<users, reviews, reports, lastId, crossed>>

\* resolveOperatorEmail, and the check of sendStationProblemReportEmail
MailIsDue(station) == station \in Addressed /\ Mailing

\* The create of createProblemReport; the operator is notified before the answer.
CreateReport(r) ==
  /\ At(r, {"createReport"}, "create")
  /\ lastId < MaxRows
  /\ LET due == MailIsDue(req[r].station)
         id == lastId + 1
     IN  IF req[r].user \in users
         THEN /\ reports' = reports \cup {[id |-> id, user |-> req[r].user,
                                           station |-> req[r].station, answered |-> ~due,
                                           mail |-> IF due THEN "due" ELSE "none"]}
              /\ lastId' = id
              /\ req' = [req EXCEPT ![r] = IF due THEN [op |-> "mail", id |-> id] ELSE Idle]
         ELSE UNCHANGED <<reports, lastId>> /\ End(r)
  /\ UNCHANGED <<users, reviews, favorites, crossed>>

Mailed(id, outcome, answered) ==
  {IF report.id = id THEN [report EXCEPT !.mail = outcome, !.answered = answered] ELSE report :
     report \in reports}

\* Mutant: a mail that fails is only logged, and the request answered.
SendMailQuietly(r) ==
  /\ req[r].op = "mail"
  /\ \E outcome \in {"sent", "failed"} : reports' = Mailed(req[r].id, outcome, TRUE)
  /\ End(r)
  /\ UNCHANGED <<users, reviews, favorites, lastId, crossed>>

\* sendStationProblemReportEmail: the error goes to the user, the report stays.
SendMail(r) ==
  /\ req[r].op = "mail"
  /\ \/ reports' = Mailed(req[r].id, "sent", TRUE)
     \/ reports' = Mailed(req[r].id, "failed", FALSE)
  /\ End(r)
  /\ UNCHANGED <<users, reviews, favorites, lastId, crossed>>

\* Mutant: the deletion takes the content of the user with it.
DeleteUserAndContent(u) ==
  /\ u \in users
  /\ users' = users \ {u}
  /\ reviews' = {v \in reviews : v.user # u}
  /\ reports' = {p \in reports : p.user # u}
  /\ favorites' = {pair \in favorites : pair[1] # u}
  /\ UNCHANGED <<lastId, req, crossed>>

\* deleteUser
DeleteUser(u) ==
  /\ u \in users
  /\ \A row \in reviews \cup reports : row.user # u   \* otherwise the database refuses
  /\ users' = users \ {u}
  /\ favorites' = {pair \in favorites : pair[1] # u}
  /\ UNCHANGED <<reviews, reports, lastId, req, crossed>>

\* The database fails, the process ends: a review or a report may be in the
\* database although its request failed, and a mail may not have been tried.
Fail(r) ==
  /\ req[r] # Idle
  /\ End(r)
  /\ UNCHANGED rows

Next ==
  \/ \E r \in Requests :
       \/ \E u \in Users, s \in Stations :
            \E op \in {"createReview", "saveFavorite", "removeFavorite", "createReport"} :
              Begin(r, [op |-> op, pc |-> "user", user |-> u, station |-> s])
       \/ \E u \in Users, id \in Ids, op \in {"updateReview", "deleteReview"} :
            Begin(r, [op |-> op, pc |-> "user", user |-> u, id |-> id])
       \/ AssertReviewer(r) \/ AssertOwner(r) \/ FindReporter(r)
       \/ FindReview(r) \/ CreateReview(r) \/ FindOwned(r) \/ UpdateReview(r) \/ DeleteReview(r)
       \/ SaveFavorite(r) \/ RemoveFavorite(r)
       \/ CreateReport(r) \/ SendMail(r) \/ Fail(r)
  \/ \E u \in Users : DeleteUser(u)

Spec == Init /\ [][Next]_vars

-----------------------------------------------------------------------------
\* A user has one review of a station, unless two requests created it in
\* parallel; a review that was updated or deleted makes no difference to that.
OneReviewEach ==
  \A u \in Users, s \in Stations :
    <<u, s>> \notin crossed => Cardinality(ReviewsOf(u, s)) <= 1

\* A report that was answered has reached its operator, when there is an
\* address; one that was refused may be there all the same, but not twice.
AnsweredReportsAreMailed ==
  \A report \in reports :
    report.answered => report.mail = IF MailIsDue(report.station) THEN "sent" ELSE "none"

\* Reviews and reports outlive the wish of their user to be deleted: a report is
\* never taken back, and a review only by a request of its owner.
TakesNothing ==
  /\ \A p \in reports : \E q \in reports' : q.id = p.id /\ q.user = p.user
  /\ \A v \in reviews :
       \/ \E w \in reviews' : w.id = v.id /\ w.user = v.user
       \/ \E r \in Requests : At(r, {"deleteReview"}, "write") /\ req[r].user = v.user
ContentStays == [][TakesNothing]_vars

=============================================================================
