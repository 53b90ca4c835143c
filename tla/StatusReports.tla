--------------------------- MODULE StatusReports ---------------------------
(***************************************************************************)
(* Reports of users about the state of a connector, and the choice of the  *)
(* one to believe (connector-status-updates.service.ts).  A report is      *)
(* saved with a confidence that the reputation of its user gives, and      *)
(* loses half of it in every hour.  Confidence is counted in twentieths,   *)
(* time in hours; reports saved in one hour follow each other.             *)
(***************************************************************************)
EXTENDS Integers, SequencesExt, FiniteSetsExt

CONSTANTS
  Users,
  Requests,     \* slots for requests in progress
  MaxReports,   \* bound on reports of the connector
  MaxHour,      \* bound on time
  Reviews, Sessions,  \* counts of good reviews and completed sessions of a user
  Recent        \* reports that are looked at, 50 in the code

ReportsAssumption ==
  /\ MaxReports \in Nat /\ MaxHour \in Nat /\ Recent \in Nat \ {0}
  /\ Reviews \subseteq Nat /\ Sessions \subseteq Nat

VARIABLES
  reports,   \* rows of ConnectorStatusUpdate of one connector, the oldest first
  merits,    \* reviews with 4 stars or more, and completed sessions, of each user
  hour,
  req        \* requests in progress

vars == <<reports, merits, hour, req>>

BaseConfidence == 10   \* 0.5
Full == 20   \* 1.0

\* What a report says of the connector is left out.
Report == [user : Users, confidence : BaseConfidence..2 * Full, at : 0..MaxHour]
Idle == [pc |-> "idle"]
Create == [pc : {"merits", "create"}, user : Users, confidence : 0..2 * Full]

TypeOK ==
  /\ reports \in Seq(Report) /\ Len(reports) <= MaxReports
  /\ merits \in [Users -> [reviews : Reviews, sessions : Sessions]]
  /\ hour \in 0..MaxHour
  /\ req \in [Requests -> {Idle} \cup Create]

Init ==
  /\ reports = <<>>
  /\ merits \in [Users -> [reviews : Reviews, sessions : Sessions]]
  /\ hour = 0
  /\ req = [r \in Requests |-> Idle]

-----------------------------------------------------------------------------
\* calculateUserReputation: 0.1 for a review up to 0.3, 0.05 for a session up to 0.5.
Reputation(merit) == Min({2 * merit.reviews, 6}) + Min({merit.sessions, 10})

\* Mutant: the reputation adds up beyond certainty.
InitialConfidenceUncapped(merit) == BaseConfidence + Reputation(merit)

\* calculateInitialConfidence
InitialConfidence(merit) == Min({BaseConfidence + Reputation(merit), Full})

\* Two to the power of n.
Doubled[n \in 0..MaxHour] == IF n = 0 THEN 1 ELSE 2 * Doubled[n - 1]

\* Mutant: the age of a report does not count.
AgelessConfidence(report, now) == report.confidence * Doubled[MaxHour]

\* recalculateConfidence: half of it for every hour, times Doubled[MaxHour].
ConfidenceNow(report, now) == report.confidence * Doubled[MaxHour - (now - report.at)]

\* createStatusUpdate: the user and the connector exist, the counts are read.
BeginCreate(r, user) ==
  /\ req[r] = Idle
  /\ req' = [req EXCEPT ![r] = [pc |-> "merits", user |-> user, confidence |-> 0]]
  /\ UNCHANGED <<reports, merits, hour>>

ReadMerits(r) ==
  /\ req[r].pc = "merits"
  /\ req' = [req EXCEPT ![r].pc = "create",
                        ![r].confidence = InitialConfidence(merits[req[r].user])]
  /\ UNCHANGED <<reports, merits, hour>>

CreateReport(r) ==
  /\ req[r].pc = "create" /\ Len(reports) < MaxReports
  /\ reports' = Append(reports, [user |-> req[r].user,
                                 confidence |-> req[r].confidence, at |-> hour])
  /\ req' = [req EXCEPT ![r] = Idle]
  /\ UNCHANGED <<merits, hour>>

\* The indices of the recent reports; of equal ones the sort keeps the newest first.
RecentReports == {i \in DOMAIN reports : i > Len(reports) - Recent}

\* getMostConfidentStatus: one query, and null without reports.
MostConfident ==
  IF reports = <<>> THEN 0
  ELSE CHOOSE i \in RecentReports :
         \A j \in RecentReports :
           LET ci == ConfidenceNow(reports[i], hour)
               cj == ConfidenceNow(reports[j], hour)
           IN  ci > cj \/ (ci = cj /\ i >= j)

\* The user completes sessions or writes good reviews.
Earn(u) ==
  /\ \E reviews \in Reviews, sessions \in Sessions :
       /\ reviews >= merits[u].reviews /\ sessions >= merits[u].sessions
       /\ merits' = [merits EXCEPT ![u] = [reviews |-> reviews, sessions |-> sessions]]
  /\ UNCHANGED <<reports, hour, req>>

Tick ==
  /\ hour < MaxHour
  /\ hour' = hour + 1
  /\ UNCHANGED <<reports, merits, req>>

Next ==
  \/ \E r \in Requests :
       \/ \E u \in Users : BeginCreate(r, u)
       \/ ReadMerits(r) \/ CreateReport(r)
  \/ \E u \in Users : Earn(u)
  \/ Tick

Spec == Init /\ [][Next]_vars

-----------------------------------------------------------------------------
\* No reputation outlives an hour: the report that is believed is never an hour
\* older than another one, however much its user is trusted.
BelievedIsRecent ==
  reports # <<>> => \A i \in DOMAIN reports : reports[i].at <= reports[MostConfident].at

\* Of the recent reports of one hour, the believed one has the most trusted user,
\* or is the newest of several.
BelievedIsTrusted ==
  reports # <<>> =>
    \A i \in RecentReports :
      reports[i].at = reports[MostConfident].at /\ i # MostConfident =>
        \/ reports[i].confidence < reports[MostConfident].confidence
        \/ reports[i].confidence = reports[MostConfident].confidence /\ i < MostConfident

=============================================================================
