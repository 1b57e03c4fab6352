--------------------------- MODULE MCTenantSchema ---------------------------
(* Small instances of TenantSchema: the tables of `scope' are empty and open *)
(* to every statement; the tables they depend on hold three lineages, two of *)
(* workshop 1 and one of workshop 3, and do not change.                      *)
EXTENDS TenantSchema

VARIABLE scope

\* One row per workshop is enough where a row belongs to a workshop only.
Base == {"workshops", "plans", "users", "roles", "permissions", "memberships",
         "workshopLocations", "tenantWhatsappAccounts", "webhookEvents"}

Groups == {{"quotes", "quoteVersions"}, {"quoteVersions", "quoteItems"},
           {"quoteVersions", "quoteAuthorizationTokens"},
           {"quoteAuthorizations", "quoteAuthorizationItems"},
           {"quoteAuthorizationTokens", "quoteAuthorizationChallenges", "quoteAuthorizations"},
           {"quoteItems", "serviceOrderItems", "workActivities"},
           {"serviceOrderItems", "inventoryMovements"},
           {"receptions", "serviceOrders"}, {"vehicleDamages", "mediaUploadBindings"},
           {"deliveries", "signatures"}, {"diagnostics", "findings", "recommendations"}}
Scopes == Groups \cup {{t} : t \in Tables \ UNION Groups}

Parents(ts) == UNION {{fk.to : fk \in Schema[t].fks} : t \in ts}
Ancestors(ts) == LET up[i \in Nat] == IF i = 0 THEN Parents(ts)
                                      ELSE LET below == up[i-1] IN below \cup Parents(below)
                 IN up[12]

Lineage(t, i) == IF i = 2 /\ t \in Base THEN 1 ELSE i

SeedRow(t, i) ==
  [c \in Schema[t].columns |->
     IF c = "id" THEN i
     ELSE IF c \notin Schema[t].required \cup {"token", "challenge"} THEN Null
     ELSE IF c = "tenant" \/ \E fk \in Schema[t].fks : fk.on["id"] = c /\ fk.to \in Base
            THEN Lineage("workshops", i)
     ELSE i]

Seed(t) == {SeedRow(t, Lineage(t, i)) : i \in 1 .. 3}

MCInit == \E ts \in Scopes :
  /\ scope = ts
  /\ db = [t \in Tables |-> IF t \in Ancestors(ts) \ ts THEN Seed(t) ELSE {}]

\* One row of a table makes its references; two where the question is about two.
Pairs == {"quoteVersions", "quoteAuthorizations", "quoteAuthorizationItems"}

MCNext == /\ \E t \in scope : \/ (t \in Pairs \/ db[t] = {}) /\ Insert(t)
                             \/ Update(t)
                             \/ Delete(t)
          /\ UNCHANGED scope

MCSpec == MCInit /\ [][MCNext]_<<db, scope>>
=============================================================================
