------------------------------ MODULE Accounts ------------------------------
(***************************************************************************)
(* Who becomes a member of a workshop, and how: the local user of a        *)
(* provider identity made just in time, the workshop somebody founds       *)
(* (onboarding) and the invitations somebody is sent, accepts or loses.    *)
(*   src/src/onboarding, src/src/invitations/service.ts and the functions  *)
(*   and triggers of drizzle/0007 to 0009 they call.                       *)
(*                                                                         *)
(* A subject is one external identity and its row of users.  Every call is *)
(* one transaction whose writes appear at its COMMIT; what it holds on the *)
(* way (the advisory lock of the identity, the row of the invitation) it   *)
(* keeps until then.  Invitations are those of one workshop, Home, whose   *)
(* owners and administrators (MemberAdmin) are not among the subjects.     *)
(* Names, roles, slugs and audit rows are left out.                        *)
(***************************************************************************)
EXTENDS Naturals, FiniteSets

CONSTANTS
  Subjects,
  Emails,           \* canonical verified addresses
  Invitations,
  Callers,          \* requests of the API, each made once
  Home,             \* the workshop that invites
  None,             \* no address, no invitation, no event
  SlugAttempts      \* onboarding tries that many slugs

ASSUME AccountsAssumption ==
  /\ None \notin Emails \cup Invitations
  /\ Home \notin Callers
  /\ SlugAttempts \in Nat \ {0}

VARIABLES
  provider,     \* per subject, what the identity provider says of it
  user,         \* per subject, its row of users
  lifecycle,    \* per subject, lifecycle_state of identity_sync_states
  members,      \* memberships; the workshop founded by a call is that call
  invited,      \* per invitation, its row
  mailing,      \* invitations whose email is being sent under a valid lease
  asked         \* per call, what it wants, where it is, what it knows and holds

accountVars == <<provider, user, lifecycle, members, invited, mailing, asked>>
accountRows == <<user, members, invited>>

Shops == {Home} \cup Callers

Memberships == [who : Subjects, shop : Shops, via : Invitations \cup {None},
                status : {"active", "revoked"}]

Terminal == {"accepted", "revoked", "expired"}

Answers == Terminal \cup
  {"", "created", "error", "IN_PROGRESS", "IDENTITY_PROFILE_INVALID", "USER_DISABLED",
   "ONBOARDING_ALREADY_COMPLETED", "INVITATION_INVALID", "INVITATION_EMAIL_MISMATCH",
   "MEMBERSHIP_ALREADY_EXISTS", "INVITATION_NOT_FOUND", "INVITATION_ROLE_NOT_ALLOWED",
   "INVITATION_ALREADY_PENDING"}

Places == {"start", "provision", "find", "check", "insert", "write", "commit", "done"}
Outcomes == Terminal \cup {"nothing", "workshop", "created"}

Call == [op : {"accept", "onboard", "create", "revoke"}, who : Subjects,
         inv : Invitations \cup {None}, email : Emails,
         at : Places, profile : Emails \cup {None}, attempt : 1 .. SlugAttempts,
         sets : Outcomes, drops : SUBSET Invitations, answer : Answers]

UserRow == [status : {"none", "active", "disabled"}, email : Emails \cup {None}]

AccountsTypeOK ==
  /\ provider \in [Subjects -> [email : Emails \cup {None}, banned : BOOLEAN, gone : BOOLEAN]]
  /\ user \in [Subjects -> UserRow]
  /\ lifecycle \in [Subjects -> {"none", "active", "blocked", "deleted"}]
  /\ members \subseteq Memberships
  /\ invited \in [Invitations -> [status : Terminal \cup {"none", "pending"},
                                  email : Emails \cup {None}, due : BOOLEAN]]
  /\ mailing \subseteq Invitations
  /\ asked \in [Callers -> Call]

NewCalls == {c \in Call : /\ c.at \in {"start", "done"} /\ c.answer = "" /\ c.sets = "nothing"
                          /\ c.drops = {} /\ c.attempt = 1
                          /\ c.op \in {"accept", "revoke"} <=> c.inv # None}

\* Identities before any of their calls; invitations sent before.
AccountsInit ==
  /\ provider \in [Subjects -> [email : Emails \cup {None}, banned : {FALSE}, gone : {FALSE}]]
  /\ user = [s \in Subjects |-> [status |-> "none", email |-> None]]
  /\ lifecycle = [s \in Subjects |-> "none"]
  /\ members = {}
  /\ invited \in [Invitations -> [status : {"none", "pending"}, email : Emails \cup {None}, due : {FALSE}]]
  /\ \A i, j \in Invitations :
       /\ invited[i].status = "none" <=> invited[i].email = None
       /\ invited[i].status = "pending" /\ invited[i] = invited[j] => i = j
  /\ mailing = {}
  /\ asked \in [Callers -> NewCalls]

-----------------------------------------------------------------------------
(* Locks. *)

\* app.bootstrap_provision_user takes the advisory lock of the identity.
HoldsIdentity(q, s) == /\ asked[q].op \in {"accept", "onboard"}
                       /\ asked[q].who = s
                       /\ asked[q].at \in {"find", "check", "write", "commit"}

IdentityFree(s) == \A q \in Callers : ~HoldsIdentity(q, s)

\* SELECT ... FOR UPDATE of an invitation, or the UPDATE that expires it.
HoldsInvitation(q, i) == \/ /\ asked[q].op \in {"accept", "revoke"}
                            /\ asked[q].inv = i
                            /\ asked[q].at \in {"write", "commit"}
                         \/ i \in asked[q].drops /\ asked[q].at \in {"insert", "commit"}

InvitationFree(i) == \A q \in Callers : ~HoldsInvitation(q, i)

\* The terminal transition of an invitation is written but not committed.  Its
\* trigger also holds the advisory lock that a lease of its email needs.
Ending(q, i) == \/ asked[q].at = "commit" /\ asked[q].inv = i /\ asked[q].sets \in Terminal
                \/ i \in asked[q].drops /\ asked[q].at \in {"insert", "commit"}

\* Entries of mi_one_pending_per_email_uq whose fate another transaction decides.
Undecided(q) ==
  \E r \in Callers \ {q} :
    \/ asked[r].at = "commit" /\ asked[r].sets = "created" /\ asked[r].email = asked[q].email
    \/ \E i \in Invitations : Ending(r, i) /\ invited[i].email = asked[q].email

StillPending(q) ==
  \E i \in Invitations \ asked[q].drops :
    invited[i].status = "pending" /\ invited[i].email = asked[q].email

-----------------------------------------------------------------------------
(* How a transaction goes on and ends. *)

Goes(q, at) == asked' = [asked EXCEPT ![q] = [@ EXCEPT !.at = at]]

\* ROLLBACK, or the COMMIT of a transaction that wrote nothing but an audit row.
Refuse(q, answer) == asked' = [asked EXCEPT ![q] = [@ EXCEPT !.at = "done", !.answer = answer]]

Writes(q, sets, answer) ==
  asked' = [asked EXCEPT ![q] = [@ EXCEPT !.at = "commit", !.sets = sets, !.answer = answer]]

MembersOf(s) == {m \in members : m.who = s}

NewMember(q) == [who |-> asked[q].who, status |-> "active",
                 shop |-> IF asked[q].sets = "workshop" THEN q ELSE Home,
                 via |-> IF asked[q].sets = "workshop" THEN None ELSE asked[q].inv]

\* COMMIT: the user made just in time, the membership and the invitation.
CommitCall(q) ==
  /\ asked[q].at = "commit"
  /\ user' = IF asked[q].op \in {"accept", "onboard"} /\ user[asked[q].who].status = "none"
              THEN [user EXCEPT ![asked[q].who] = [status |-> "active", email |-> asked[q].profile]]
              ELSE user
  /\ members' = IF asked[q].sets \in {"workshop", "accepted"} THEN members \cup {NewMember(q)}
                                                             ELSE members
  /\ invited' = [i \in Invitations |->
       IF i \in asked[q].drops THEN [invited[i] EXCEPT !.status = "expired"]
       ELSE IF asked[q].inv # i THEN invited[i]
       ELSE IF asked[q].sets \in Terminal THEN [invited[i] EXCEPT !.status = asked[q].sets]
       ELSE IF asked[q].sets = "created" THEN [status |-> "pending", email |-> asked[q].email, due |-> FALSE]
       ELSE invited[i]]
  /\ Goes(q, "done")
  /\ UNCHANGED <<provider, lifecycle, mailing>>

\* A statement, the COMMIT or the connection fails: ROLLBACK.
AbortCall(q) ==
  /\ asked[q].at \notin {"start", "done"}
  /\ Refuse(q, "error")
  /\ UNCHANGED <<provider, lifecycle, mailing, accountRows>>

\* lock_timeout of the two calls of an identity.
GiveUp(q) ==
  /\ \/ asked[q].at = "provision" /\ ~IdentityFree(asked[q].who)
     \/ asked[q].op = "accept" /\ asked[q].at = "find" /\ ~InvitationFree(asked[q].inv)
  /\ Refuse(q, "IN_PROGRESS")
  /\ UNCHANGED <<provider, lifecycle, mailing, accountRows>>

-----------------------------------------------------------------------------
(* The local user of an identity. *)

\* Before the transaction: getIdentityProfile and verifiedProfileSchema.
ReadProfile(q) ==
  /\ asked[q].op \in {"accept", "onboard"}
  /\ asked[q].at = "start"
  /\ LET p == provider[asked[q].who] IN
     IF p.gone \/ p.email = None
     THEN Refuse(q, "IDENTITY_PROFILE_INVALID")
     ELSE asked' = [asked EXCEPT ![q] = [@ EXCEPT !.at = "provision", !.profile = p.email]]
  /\ UNCHANGED <<provider, lifecycle, mailing, accountRows>>

UserIsDisabled(s) == lifecycle[s] \in {"blocked", "deleted"} \/ user[s].status = "disabled"

\* Mutant: the lifecycle is not looked at, only the row of users.
ProvisionByRow(q) ==
  /\ asked[q].at = "provision"
  /\ IdentityFree(asked[q].who)
  /\ IF user[asked[q].who].status = "disabled"
     THEN Refuse(q, "USER_DISABLED")
     ELSE Goes(q, IF asked[q].op = "accept" THEN "find" ELSE "check")
  /\ UNCHANGED <<provider, lifecycle, mailing, accountRows>>

Provision(q) ==
  /\ asked[q].at = "provision"
  /\ IdentityFree(asked[q].who)
  /\ IF UserIsDisabled(asked[q].who)
     THEN Refuse(q, "USER_DISABLED")
     ELSE Goes(q, IF asked[q].op = "accept" THEN "find" ELSE "check")
  /\ UNCHANGED <<provider, lifecycle, mailing, accountRows>>

\* createWorkshopForIdentity.  Its lock of the user adds nothing to that of the
\* identity.  A slug already taken ends the transaction and starts another.
FoundWorkshop(q) ==
  /\ asked[q].op = "onboard"
  /\ asked[q].at = "check"
  /\ IF \E m \in MembersOf(asked[q].who) : m.status = "active"
     THEN Refuse(q, "ONBOARDING_ALREADY_COMPLETED")
     ELSE \/ Writes(q, "workshop", "created")
          \/ IF asked[q].attempt < SlugAttempts
             THEN asked' = [asked EXCEPT ![q] = [@ EXCEPT !.at = "provision", !.attempt = asked[q].attempt + 1]]
             ELSE Refuse(q, "error")
  /\ UNCHANGED <<provider, lifecycle, mailing, accountRows>>

-----------------------------------------------------------------------------
(* Invitations. *)

\* What acceptInvitation finds wrong with the invitation it has locked, in the
\* order of its checks; `late' is a deadline passed with the status still pending.
Objection(q, i) ==
  IF invited[i].status = "none" THEN "INVITATION_INVALID"
  ELSE IF invited[i].email # asked[q].profile THEN "INVITATION_EMAIL_MISMATCH"
  ELSE IF invited[i].status \in Terminal THEN invited[i].status
  ELSE IF invited[i].due THEN "late"
  ELSE IF \E m \in MembersOf(asked[q].who) : m.shop = Home THEN "MEMBERSHIP_ALREADY_EXISTS"
  ELSE "nothing"

\* The mismatch and the expiry it notices are committed, every other refusal is
\* rolled back with the user it may just have made.
FindInvitation(q) ==
  /\ asked[q].op = "accept"
  /\ asked[q].at = "find"
  /\ InvitationFree(asked[q].inv)
  /\ LET i == asked[q].inv  wrong == Objection(q, i) IN
     CASE wrong = "nothing" -> Goes(q, "write")
       [] wrong = "late" -> IF i \in mailing THEN Refuse(q, "IN_PROGRESS")
                                             ELSE Writes(q, "expired", "expired")
       [] wrong = "INVITATION_EMAIL_MISMATCH" -> Writes(q, "nothing", wrong)
       [] OTHER -> Refuse(q, wrong)
  /\ UNCHANGED <<provider, lifecycle, mailing, accountRows>>

\* Membership, role and status; the trigger refuses an email in delivery, then
\* a deadline that passed meanwhile.
AcceptInvitation(q) ==
  /\ asked[q].op = "accept"
  /\ asked[q].at = "write"
  /\ IF asked[q].inv \in mailing THEN Refuse(q, "IN_PROGRESS")
     ELSE IF invited[asked[q].inv].due THEN Refuse(q, "expired")
     ELSE Writes(q, "accepted", "accepted")
  /\ UNCHANGED <<provider, lifecycle, mailing, accountRows>>

\* revokeInvitation: lock and read ...
BeginRevoke(q) ==
  /\ asked[q].op = "revoke"
  /\ asked[q].at = "start"
  /\ InvitationFree(asked[q].inv)
  /\ LET row == invited[asked[q].inv] IN
     IF row.status = "none" THEN Refuse(q, "INVITATION_NOT_FOUND")
     ELSE \/ Refuse(q, "INVITATION_ROLE_NOT_ALLOWED")
          \/ row.status \in Terminal /\ Refuse(q, row.status)
          \/ row.status = "pending" /\ (IF row.due THEN Refuse(q, "expired") ELSE Goes(q, "write"))
  /\ UNCHANGED <<provider, lifecycle, mailing, accountRows>>

\* ... then write, unless the email is in delivery.
RevokeInvitation(q) ==
  /\ asked[q].op = "revoke"
  /\ asked[q].at = "write"
  /\ IF asked[q].inv \in mailing THEN Refuse(q, "IN_PROGRESS") ELSE Writes(q, "revoked", "revoked")
  /\ UNCHANGED <<provider, lifecycle, mailing, accountRows>>

\* createInvitation: overdue invitations of the address make room first.
ExpireOverdue(q) ==
  /\ asked[q].op = "create"
  /\ asked[q].at = "start"
  /\ LET overdue == {i \in Invitations : /\ invited[i].email = asked[q].email
                                         /\ invited[i].status = "pending"
                                         /\ invited[i].due} IN
     \/ Refuse(q, "INVITATION_ROLE_NOT_ALLOWED")
     \/ /\ \A i \in overdue : InvitationFree(i)
        /\ IF overdue \cap mailing # {} THEN Refuse(q, "error")
           ELSE asked' = [asked EXCEPT ![q] = [@ EXCEPT !.at = "insert", !.drops = overdue]]
  /\ UNCHANGED <<provider, lifecycle, mailing, accountRows>>

InsertInvitation(q) ==
  \E i \in Invitations :
    /\ invited[i].status = "none"
    /\ \A r \in Callers : asked[r].sets = "created" => asked[r].inv # i
    /\ asked' = [asked EXCEPT ![q] = [@ EXCEPT !.at = "commit", !.inv = i, !.sets = "created",
                                               !.answer = "created"]]

\* Mutant: the unique index does not wait for what is not committed.
CreateWithoutWaiting(q) ==
  /\ asked[q].op = "create"
  /\ asked[q].at = "insert"
  /\ IF StillPending(q) THEN Refuse(q, "INVITATION_ALREADY_PENDING") ELSE InsertInvitation(q)
  /\ UNCHANGED <<provider, lifecycle, mailing, accountRows>>

CreateInvitation(q) ==
  /\ asked[q].op = "create"
  /\ asked[q].at = "insert"
  /\ ~Undecided(q)
  /\ IF StillPending(q) THEN Refuse(q, "INVITATION_ALREADY_PENDING") ELSE InsertInvitation(q)
  /\ UNCHANGED <<provider, lifecycle, mailing, accountRows>>

-----------------------------------------------------------------------------
(* Around the calls. *)

\* Seven days pass for an invitation.  Calls take seconds: not while the call
\* that created it, or one of the same time, is still open.
PassDeadline(i) ==
  /\ invited[i].status = "pending" /\ ~invited[i].due
  /\ \A q \in Callers : asked[q].sets = "created" /\ asked[q].inv = i =>
       \A r \in Callers : asked[r].at \in {"start", "done"}
  /\ invited' = [invited EXCEPT ![i].due = TRUE]
  /\ UNCHANGED <<provider, user, lifecycle, members, mailing, asked>>

\* The worker of InvitationDelivery takes and gives back its lease.
BeginMailing(i) ==
  /\ invited[i].status = "pending" /\ ~invited[i].due
  /\ i \notin mailing
  /\ \A q \in Callers : ~Ending(q, i)
  /\ mailing' = mailing \cup {i}
  /\ UNCHANGED <<provider, lifecycle, accountRows, asked>>

EndMailing(i) ==
  /\ i \in mailing
  /\ mailing' = mailing \ {i}
  /\ UNCHANGED <<provider, lifecycle, accountRows, asked>>

CallStep(q) ==
  \/ ReadProfile(q) \/ Provision(q) \/ FoundWorkshop(q)
  \/ FindInvitation(q) \/ AcceptInvitation(q)
  \/ BeginRevoke(q) \/ RevokeInvitation(q)
  \/ ExpireOverdue(q) \/ CreateInvitation(q)
  \/ CommitCall(q) \/ AbortCall(q) \/ GiveUp(q)

AccountsNext ==
  \/ \E q \in Callers : CallStep(q)
  \/ \E i \in Invitations : PassDeadline(i) \/ BeginMailing(i) \/ EndMailing(i)
-----------------------------------------------------------------------------
(* Properties. *)

\* However accepting, revoking, expiring, creating and founding race: an
\* invitation is accepted exactly when one membership came of it, that of a
\* caller with the invited address; nobody is twice a member of a workshop or
\* founds two; one invitation per address is pending; none ends while its email
\* is in delivery; and every success a caller was told of lasts.
AccountsAreSound ==
  /\ \A i \in Invitations :
       LET joined == {m \in members : m.via = i} IN
       /\ Cardinality(joined) = IF invited[i].status = "accepted" THEN 1 ELSE 0
       /\ \A m \in joined : \E q \in Callers :
            /\ asked[q].answer = "accepted" /\ asked[q].inv = i
            /\ asked[q].who = m.who /\ asked[q].profile = invited[i].email
       /\ i \in mailing => invited[i].status = "pending"
  /\ \A m, n \in members : m.who = n.who /\ (m.shop = n.shop \/ {m.via, n.via} = {None}) => m = n
  /\ \A i, j \in Invitations :
       invited[i].email = invited[j].email /\ {invited[i].status, invited[j].status} = {"pending"} => i = j
  /\ \A q \in Callers : LET c == asked[q] IN c.at = "done" =>
       /\ c.answer = "revoked" /\ c.op = "revoke" => invited[c.inv].status = "revoked"
       /\ c.answer = c.sets /\ c.sets = "accepted" => invited[c.inv].status = "accepted"
       /\ c.answer = "created" /\ c.sets = "workshop" => \E m \in MembersOf(c.who) : m.shop = q
       /\ c.answer = "created" /\ c.sets = "created" => invited[c.inv].email = c.email
=============================================================================
