---------------------------- MODULE TenantSchema ----------------------------
(* The tables of src/src/db/schema.ts as their references see them: which   *)
(* columns refer to which table, which must be set, what is unique, and the *)
(* CHECKs that relate references.  Any INSERT, UPDATE or DELETE of one row   *)
(* that PostgreSQL would let through is a step; what the services, the row   *)
(* level policies and the triggers forbid on top of it is not assumed.       *)
(*                                                                           *)
(* A column is named without its suffix (quoteId is "quote").  Columns that  *)
(* refer to nothing are left out, and with them every key that contains one  *)
(* and every index that is unique only for some status.                      *)
EXTENDS Naturals, FiniteSets, FiniteSetsExt, TLC

CONSTANTS Ids,      \* values of the id columns
          Null,     \* SQL NULL
          MaxRows   \* rows a table holds at most

ASSUME NullAssumption == Null \notin Ids

VARIABLE db         \* table name -> its rows, each a function on its columns

-----------------------------------------------------------------------------
(* How schema.ts declares a table.  A foreign key maps the columns it refers *)
(* to in the other table to the columns of its own.                          *)

Only(target, col) == [to |-> target, on |-> [id |-> col]]
To(target, col)   == [to |-> target, on |-> [tenant |-> "tenant", id |-> col]]
By(col)           == To("memberships", col)

\* Besides the row, its `carried' columns, which have the same name in both.
With(target, col, carried) ==
  [to |-> target,
   on |-> [c \in {"tenant", "id"} \cup carried |-> IF c = "id" THEN col ELSE c]]

ColumnsOf(fks) == UNION {{fk.on[c] : c \in DOMAIN fk.on} : fk \in fks}

\* The columns of the foreign keys in `must' are NOT NULL, those of `may' are not.
Table(own, must, may, keys) ==
  [columns |-> own \cup ColumnsOf(must \cup may), required |-> own \cup ColumnsOf(must),
   fks |-> must \cup may, keys |-> keys]

Workshop == Only("workshops", "tenant")

\* Tables of one workshop, of all workshops or none, of no workshop; and the
\* tables whose primary key is made of references.
Owned(must, may, keys) ==
  Table({"id"}, must \cup {Workshop}, may,
        {{"id"}, {"tenant", "id"}} \cup {key \cup {"tenant"} : key \in keys})
Mixed(must, may)       == Table({"id"}, must, may \cup {Workshop}, {{"id"}})
Global(must, may)      == Table({"id"}, must, may, {{"id"}})
Link(must, may, key)   == Table({}, must \cup {Workshop}, may, {{"tenant"} \cup key})

-----------------------------------------------------------------------------
(* Roles, plans, workshops, people *)

roles           == Global({}, {})
permissions     == Global({}, {})
rolePermissions == Table({}, {Only("roles", "role"), Only("permissions", "permission")}, {},
                         {{"role", "permission"}})
plans              == Global({}, {})
workshops          == Global({}, {})
workshopLocations  == Owned({}, {}, {})
users              == Global({}, {})
identitySyncStates == Global({}, {Only("users", "user")})
memberships        == Owned({Only("users", "user")}, {}, {{"user"}})
membershipRoles    == Link({By("membership"), Only("roles", "role"), By("assignedBy")}, {},
                           {"membership", "role"})
membershipInvitations ==
  Owned({Only("roles", "targetRole"), By("invitedBy")},
        {Only("users", "acceptedByUser"), By("acceptedMembership"), By("revokedBy")}, {})
membershipInvitationDeliveries ==
  Link({To("membershipInvitations", "invitation")}, {}, {"invitation"})

(* Customers, vehicles, appointments *)

customers     == Owned({}, {}, {})
vehicles      == Owned({}, {}, {})
vehicleOwners == Owned({To("vehicles", "vehicle"), To("customers", "customer")}, {}, {})
appointments  == Owned({To("customers", "customer")},
                       {To("vehicles", "vehicle"), To("workshopLocations", "location"),
                        By("createdBy")}, {})
reminders     == Owned({To("customers", "customer")}, {To("appointments", "appointment")}, {})

(* Media *)

mediaAssets   == Owned({}, {By("createdBy")}, {})
mediaPurgeJobs ==
  Table({"id"}, {Workshop, To("mediaAssets", "mediaAsset")}, {},
        {{"tenant", "mediaAsset"}, {"tenant", "id"}})
uploadSessions == Owned({To("mediaAssets", "mediaAsset")}, {By("createdBy")}, {})

(* Reception and service order *)

receptions ==
  Owned({To("vehicles", "vehicle"), To("customers", "customer"), By("receivedBy"),
         To("privacyConsents", "privacyConsent")},
        {To("appointments", "appointment"), To("workshopLocations", "location")},
        {{"id", "privacyConsent"}, {"id", "vehicle", "customer"}})
receptionCheckItems == Owned({To("receptions", "reception")}, {}, {})
vehicleDamages      == Owned({To("receptions", "reception")}, {}, {{"id", "reception"}})
serviceOrders ==
  Owned({With("receptions", "reception", {"vehicle", "customer"}), By("createdBy"),
         To("vehicles", "vehicle"), To("customers", "customer")}, {},
        {{"id", "vehicle", "customer"}, {"reception"}})
orderStatusHistory == Owned({To("serviceOrders", "order")}, {By("changedBy")}, {})
assignments == Owned({To("serviceOrders", "order"), By("membership"), By("assignedBy")}, {},
                     {{"id", "order", "membership"}})
diagnostics == Owned({To("serviceOrders", "order"), By("diagnosedBy")}, {}, {{"id", "order"}})
findings    == Owned({With("diagnostics", "diagnostic", {"order"})}, {}, {{"id", "order"}})
recommendations == Owned({To("findings", "finding")}, {}, {})
catalogItems    == Owned({}, {}, {})

(* Messages *)

tenantWhatsappAccounts == Owned({By("connectedBy")}, {}, {})
messageThreads == Owned({To("customers", "customer")}, {To("serviceOrders", "order")}, {})
messages == Owned({To("messageThreads", "thread")},
                  {To("tenantWhatsappAccounts", "whatsappAccount")}, {})

(* Quotes and what the customer decides on them *)

CurrentVersion ==
  [to |-> "quoteVersions",
   on |-> [tenant |-> "tenant", id |-> "currentVersion", quote |-> "id", order |-> "order"]]

quotes == Owned({To("serviceOrders", "order"), By("createdBy")},
                {By("cancelledBy"), CurrentVersion}, {{"id", "order"}})
quoteVersions == Owned({With("quotes", "quote", {"order"}), By("createdBy")}, {},
                       {{"id", "order"}, {"id", "quote", "order"}})
\* Mutant: the finding of an item may be of another order.
quoteItemsAnyFinding ==
  Owned({With("quoteVersions", "quoteVersion", {"order"}), By("salesOriginator")},
        {To("findings", "finding"), To("catalogItems", "catalogItem")},
        {{"id", "order"}, {"id", "quoteVersion"}})
quoteItems ==
  Owned({With("quoteVersions", "quoteVersion", {"order"}), By("salesOriginator")},
        {With("findings", "finding", {"order"}), To("catalogItems", "catalogItem")},
        {{"id", "order"}, {"id", "quoteVersion"}})
quoteAuthorizationTokens ==
  Owned({To("quoteVersions", "quoteVersion"), By("createdBy")},
        {By("revokedBy"), To("messages", "issuedForMessage"),
         With("quoteAuthorizationTokens", "supersededBy", {"quoteVersion"})},
        {{"id", "quoteVersion"}})
quoteAuthorizationChallenges ==
  Owned({To("quoteAuthorizationTokens", "token")}, {To("messages", "deliveryMessage")},
        {{"id", "token"}})
\* Mutant: the token of a decision may be of another version.
quoteAuthorizationsAnyToken ==
  Owned({To("quoteVersions", "quoteVersion")},
        {To("quoteAuthorizationTokens", "token"),
         With("quoteAuthorizationChallenges", "challenge", {"token"}), By("recordedBy")},
        {{"id", "quoteVersion"}, {"quoteVersion"}, {"token"}})
quoteAuthorizations ==
  Owned({To("quoteVersions", "quoteVersion")},
        {With("quoteAuthorizationTokens", "token", {"quoteVersion"}),
         With("quoteAuthorizationChallenges", "challenge", {"token"}), By("recordedBy")},
        {{"id", "quoteVersion"}, {"quoteVersion"}, {"token"}})
quoteAuthorizationItems ==
  Owned({With("quoteAuthorizations", "authorization", {"quoteVersion"}),
         With("quoteItems", "quoteItem", {"quoteVersion"})}, {},
        {{"authorization", "quoteItem"}})

(* Work, stock, quality, delivery *)

serviceOrderItems ==
  Owned({To("serviceOrders", "order"), By("salesOriginator"), By("createdBy")},
        {With("quoteItems", "quoteItem", {"order"}), To("catalogItems", "catalogItem")},
        {{"id", "order"}, {"id", "catalogItem"}})
inventoryBalances ==
  Owned({To("catalogItems", "catalogItem"), To("workshopLocations", "location")}, {},
        {{"catalogItem", "location"}})
inventoryMovements ==
  Owned({To("catalogItems", "catalogItem"), To("workshopLocations", "location"),
         By("performedBy")},
        {With("serviceOrderItems", "serviceOrderItem", {"catalogItem"})}, {})
workActivities ==
  Owned({To("serviceOrders", "order")},
        {With("serviceOrderItems", "serviceOrderItem", {"order"}), By("assigned")},
        {{"id", "order"}})
technicianLogs == Owned({To("workActivities", "activity"), By("membership")}, {}, {})
qualityChecks  == Owned({To("serviceOrders", "order"), By("checkedBy")}, {}, {})
deliveries     == Owned({To("serviceOrders", "order")}, {By("deliveredBy")}, {{"order"}})
signatures     == Owned({To("mediaAssets", "signatureMedia")},
                        {To("receptions", "reception"), To("deliveries", "delivery")},
                        {{"reception"}, {"signatureMedia"}})

(* Media of each kind of row, once for each purpose, which is part of the key *)

MediaOf(target, col) ==
  Table({}, {To(target, col), To("mediaAssets", "mediaAsset"), Workshop}, {}, {})

receptionMedia    == MediaOf("receptions", "reception")
damageMedia       == MediaOf("vehicleDamages", "damage")
findingMedia      == MediaOf("findings", "finding")
workActivityMedia == MediaOf("workActivities", "workActivity")
qualityCheckMedia == MediaOf("qualityChecks", "qualityCheck")
deliveryMedia     == MediaOf("deliveries", "delivery")
quoteMedia        == MediaOf("quoteVersions", "quoteVersion")
\* Mutant: the damage of an upload may be of another reception.
mediaUploadBindingsAnyDamage ==
  Link({To("uploadSessions", "uploadSession"),
        With("receptions", "reception", {"privacyConsent"}),
        To("privacyConsents", "privacyConsent")},
       {To("vehicleDamages", "damage")}, {"uploadSession"})
mediaUploadBindings ==
  Link({To("uploadSessions", "uploadSession"),
        With("receptions", "reception", {"privacyConsent"}),
        To("privacyConsents", "privacyConsent")},
       {With("vehicleDamages", "damage", {"reception"})}, {"uploadSession"})
customerOrderAccessTokens ==
  Owned({To("serviceOrders", "order"), By("createdBy")}, {By("revokedBy")}, {})

(* Payments *)

subscriptions    == Owned({Only("plans", "plan")}, {}, {})
billingEvents    == Owned({To("subscriptions", "subscription")}, {}, {})
payments         == Owned({To("subscriptions", "subscription")}, {}, {})
customerPayments ==
  Owned({To("customers", "customer"), By("recordedBy")},
        {By("confirmedBy"), By("reversedBy"), To("customerPayments", "correctionOf")}, {})
customerPaymentAllocations ==
  Owned({To("customerPayments", "customerPayment"), To("serviceOrders", "order")}, {}, {})
customerPaymentReconciliationRuns == Owned({}, {By("initiatedBy")}, {})

(* Privacy and platform *)

privacyConsents == Owned({To("customers", "customer")},
                         {To("mediaAssets", "evidenceMedia"), By("createdBy")}, {})
dataSubjectRequests      == Mixed({}, {To("customers", "customer"), Only("users", "user")})
privacySecurityIncidents == Mixed({}, {})
legalAcceptances         == Mixed({Only("users", "acceptedByUser")}, {})
webhookEvents            == Mixed({}, {})
webhookProcessingAttempts == Global({Only("webhookEvents", "webhookEvent")}, {})
outboxEvents             == Mixed({}, {})
syncOperations           == Owned({By("membership")}, {}, {})
auditLogs                == Mixed({}, {Only("users", "actorUser"), By("actorMembership")})
featureFlags             == Mixed({}, {Only("plans", "plan")})

Schema ==
  [roles |-> roles, permissions |-> permissions, rolePermissions |-> rolePermissions,
   plans |-> plans, workshops |-> workshops, workshopLocations |-> workshopLocations,
   users |-> users, identitySyncStates |-> identitySyncStates, memberships |-> memberships,
   membershipRoles |-> membershipRoles, membershipInvitations |-> membershipInvitations,
   membershipInvitationDeliveries |-> membershipInvitationDeliveries,
   customers |-> customers, vehicles |-> vehicles, vehicleOwners |-> vehicleOwners,
   appointments |-> appointments, reminders |-> reminders, mediaAssets |-> mediaAssets,
   mediaPurgeJobs |-> mediaPurgeJobs, uploadSessions |-> uploadSessions,
   receptions |-> receptions, receptionCheckItems |-> receptionCheckItems,
   vehicleDamages |-> vehicleDamages, serviceOrders |-> serviceOrders,
   orderStatusHistory |-> orderStatusHistory, assignments |-> assignments,
   diagnostics |-> diagnostics, findings |-> findings, recommendations |-> recommendations,
   catalogItems |-> catalogItems, tenantWhatsappAccounts |-> tenantWhatsappAccounts,
   messageThreads |-> messageThreads, messages |-> messages, quotes |-> quotes,
   quoteVersions |-> quoteVersions, quoteItems |-> quoteItems,
   quoteAuthorizationTokens |-> quoteAuthorizationTokens,
   quoteAuthorizationChallenges |-> quoteAuthorizationChallenges,
   quoteAuthorizations |-> quoteAuthorizations,
   quoteAuthorizationItems |-> quoteAuthorizationItems,
   serviceOrderItems |-> serviceOrderItems, inventoryBalances |-> inventoryBalances,
   inventoryMovements |-> inventoryMovements, workActivities |-> workActivities,
   technicianLogs |-> technicianLogs, qualityChecks |-> qualityChecks,
   deliveries |-> deliveries, signatures |-> signatures, receptionMedia |-> receptionMedia,
   damageMedia |-> damageMedia, findingMedia |-> findingMedia,
   workActivityMedia |-> workActivityMedia, qualityCheckMedia |-> qualityCheckMedia,
   deliveryMedia |-> deliveryMedia, quoteMedia |-> quoteMedia,
   mediaUploadBindings |-> mediaUploadBindings,
   customerOrderAccessTokens |-> customerOrderAccessTokens,
   subscriptions |-> subscriptions, billingEvents |-> billingEvents, payments |-> payments,
   customerPayments |-> customerPayments,
   customerPaymentAllocations |-> customerPaymentAllocations,
   customerPaymentReconciliationRuns |-> customerPaymentReconciliationRuns,
   privacyConsents |-> privacyConsents, dataSubjectRequests |-> dataSubjectRequests,
   privacySecurityIncidents |-> privacySecurityIncidents,
   legalAcceptances |-> legalAcceptances, webhookEvents |-> webhookEvents,
   webhookProcessingAttempts |-> webhookProcessingAttempts, outboxEvents |-> outboxEvents,
   syncOperations |-> syncOperations, auditLogs |-> auditLogs, featureFlags |-> featureFlags]

Tables == DOMAIN Schema

(* The references of a workshop's table carry its workshop, and the columns  *)
(* a foreign key refers to are a key of the other table (PostgreSQL refuses  *)
(* the declaration otherwise).                                               *)
TenantPaired(t, fk) ==
  "tenant" \in Schema[t].columns \cap Schema[fk.to].columns =>
    "tenant" \in DOMAIN fk.on /\ fk.on["tenant"] = "tenant"

ASSUME ReferenceAssumption ==
  \A t \in Tables : \A fk \in Schema[t].fks :
    /\ fk.to \in Tables
    /\ TenantPaired(t, fk)
    /\ DOMAIN fk.on \in Schema[fk.to].keys
    /\ "id" \in DOMAIN fk.on

(* What a foreign key carries besides the row is NOT NULL, so that it is     *)
(* checked whenever it names a row.  The exceptions are left to CHECKs, but  *)
(* for audit_logs.                                                           *)
ASSUME CarriedAssumption ==
  \A t \in Tables \ {"auditLogs"} : \A fk \in Schema[t].fks :
    \A c \in DOMAIN fk.on \ {"id"} :
      \/ fk.on[c] \in Schema[t].required
      \/ t = "quoteAuthorizations" /\ fk.on["id"] = "challenge" /\ fk.on[c] = "token"
      \/ t = "dataSubjectRequests" /\ fk.on["id"] = "customer" /\ fk.on[c] = "tenant"

-----------------------------------------------------------------------------
(* The CHECKs that relate references *)

AcceptedOrRevoked(r) ==
  /\ (r["acceptedByUser"] = Null) = (r["acceptedMembership"] = Null)
  /\ r["acceptedMembership"] = Null \/ r["revokedBy"] = Null

\* Decided by the customer with token and challenge, or recorded by a member.
\* Mutant: a manual decision may keep a challenge.
PublicOrManualLoose(r) == (r["token"] = Null) # (r["recordedBy"] = Null)
PublicOrManual(r) ==
  \/ r["token"] # Null /\ r["challenge"] # Null /\ r["recordedBy"] = Null
  \/ r["token"] = Null /\ r["challenge"] = Null /\ r["recordedBy"] # Null

OneParent(r)      == (r["reception"] = Null) # (r["delivery"] = Null)
CustomerScope(r)  == r["customer"] # Null => r["tenant"] # Null
ScopeSemantics(r) == r["tenant"] = Null \/ r["plan"] = Null

Checked(t, r) ==
  /\ t = "membershipInvitations" => AcceptedOrRevoked(r)
  /\ t = "quoteAuthorizations" => PublicOrManual(r)
  /\ t = "signatures" => OneParent(r)
  /\ t = "dataSubjectRequests" => CustomerScope(r)
  /\ t = "featureFlags" => ScopeSemantics(r)

(* What PostgreSQL checks of a statement on one row *)

\* MATCH SIMPLE: a foreign key with an unset column is satisfied.
Satisfied(d, fk, r) ==
  \/ \E c \in DOMAIN fk.on : r[fk.on[c]] = Null
  \/ \E s \in d[fk.to] : \A c \in DOMAIN fk.on : s[c] = r[fk.on[c]]

Clash(key, r, s) == \A c \in key : r[c] # Null /\ r[c] = s[c]

Accepts(d, t, r) ==
  /\ \A c \in Schema[t].required : r[c] # Null
  /\ Checked(t, r)
  /\ \A fk \in Schema[t].fks : Satisfied(d, fk, r)
  /\ \A s \in d[t] \ {r}, key \in Schema[t].keys : ~Clash(key, r, s)

\* NO ACTION: nothing that referred to a row of t is left without one.
StillReferred(d, t) ==
  \A u \in Tables : \A fk \in {k \in Schema[u].fks : k.to = t} :
    \A r \in d[u] : Satisfied(d, fk, r)

(* The rows a statement may try: any value the tables it refers to have to   *)
(* offer, or none.                                                           *)
Offered(d, t, c) ==
  {Null} \cup UNION {UNION {{s[k] : s \in d[fk.to]} : k \in {k \in DOMAIN fk.on : fk.on[k] = c}}
                       : fk \in Schema[t].fks}

Rows(d, t, id) ==
  FoldSet(LAMBDA c, rows : {r @@ (c :> v) : r \in rows, v \in IF c = "id" THEN {id} ELSE Offered(d, t, c)},
          {<<>>}, Schema[t].columns)

FreshId(t) == IF "id" \in Schema[t].columns
                THEN CHOOSE i \in Ids : \A r \in db[t] : r["id"] # i
                ELSE Null

-----------------------------------------------------------------------------
Init == db = [t \in Tables |-> {}]

Insert(t) ==
  /\ Cardinality(db[t]) < MaxRows
  /\ \E r \in Rows(db, t, FreshId(t)) :
       /\ db' = [db EXCEPT ![t] = @ \cup {r}]
       /\ Accepts(db', t, r)

Update(t) ==
  \E old \in db[t] : \E r \in Rows(db, t, IF "id" \in DOMAIN old THEN old["id"] ELSE Null) :
    /\ db' = [db EXCEPT ![t] = (@ \ {old}) \cup {r}]
    /\ Accepts(db', t, r)
    /\ StillReferred(db', t)

Delete(t) ==
  \E r \in db[t] :
    /\ db' = [db EXCEPT ![t] = @ \ {r}]
    /\ StillReferred(db', t)

Next == \E t \in Tables : Insert(t) \/ Update(t) \/ Delete(t)

Spec == Init /\ [][Next]_db

-----------------------------------------------------------------------------
(* Rows are on their table's columns, required ones set, and no two with one id. *)
TypeOK ==
  /\ DOMAIN db = Tables
  /\ \A t \in Tables : \A r \in db[t] :
       /\ DOMAIN r = Schema[t].columns
       /\ \A c \in DOMAIN r : r[c] \in Ids \cup (IF c \in Schema[t].required THEN {} ELSE {Null})
       /\ "id" \in DOMAIN r => \A s \in db[t] : r["id"] = s["id"] => r = s

(* A column that is set names a row that exists, and a row of the same       *)
(* workshop if both rows have one.  Every table but audit_logs: a platform   *)
(* row (no tenant) may name a membership there that nothing checks.          *)
ReferencesAreOwn ==
  \A t \in Tables \ {"auditLogs"} : \A r \in db[t] : \A fk \in Schema[t].fks :
    r[fk.on["id"]] # Null =>
      \E s \in db[fk.to] : /\ s["id"] = r[fk.on["id"]]
                           /\ "tenant" \in Schema[t].columns \cap Schema[fk.to].columns
                                => s["tenant"] = r["tenant"]

(* What a row reaches along its references, but for the columns in `but'.    *)
Named(t, rows, but) ==
  UNION {{<<fk.to, r[fk.on["id"]]>> : r \in {r \in rows : r[fk.on["id"]] # Null}}
           : fk \in {fk \in Schema[t].fks : fk.on["id"] \notin but}}

Further(nodes, but) ==
  nodes \cup UNION {Named(n[1], {s \in db[n[1]] : s["id"] = n[2]}, but) : n \in nodes}

Reached(t, r, but) ==
  LET near[i \in 0 .. 10] == IF i = 0 THEN Named(t, {r}, but) ELSE Further(near[i-1], but)
  IN near[10]

AtMostOne(target, but) ==
  \A t \in Tables : \A r \in db[t] :
    Cardinality({n \in Reached(t, r, but) : n[1] = target}) <= 1

\* The message a link or a code went out with belongs to a thread, not to an order's work.
MessageColumns == {"issuedForMessage", "deliveryMessage"}

(* Whichever way one follows the references of a row (an item through its     *)
(* quote or through its finding, an activity through its item), one arrives   *)
(* at the same service order: no row mixes two orders.                        *)
OneOrder == AtMostOne("serviceOrders", MessageColumns)

(* The same for receptions: evidence, damages, signatures and orders of one   *)
(* row all come from the same reception.                                      *)
OneReception == AtMostOne("receptions", MessageColumns)

(* The token, the challenge, the decision and the decided items of a row are  *)
(* all about the same version of the quote.                                   *)
OneVersion == AtMostOne("quoteVersions", MessageColumns \cup {"currentVersion"})

(* No row mixes the records of two visits or two offers.                      *)
PathsAgree == OneOrder /\ OneReception /\ OneVersion

(* An item of a quote is decided at most once, whoever decides (the customer  *)
(* with a token, a member by hand) and however often.                         *)
DecidedOnce ==
  \A r, s \in db["quoteAuthorizationItems"] : r["quoteItem"] = s["quoteItem"] => r = s
=============================================================================
