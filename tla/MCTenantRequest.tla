-------------------------- MODULE MCTenantRequest --------------------------
(* Small instances for TLC, one of them per behaviour: one request of any   *)
(* kind while memberships change, a download next to another front-door     *)
(* request (TenantRequest), or a member who reads the media of two          *)
(* receptions (MediaAccess).                                                *)
EXTENDS TenantRequest, MediaAccess, TLC

CONSTANTS r1, r2, t1, p1, p2

VARIABLE part   \* the instance at hand

Over  == \A r \in Requests : pc[r] = "done" /\ kind[r] = "plain" /\ header[r] = None
Alone == /\ pc[r1] = "new" /\ pc[r2] = "done" /\ moves = 0
         /\ kind[r2] = "plain" /\ header[r2] = t1
Pair  == /\ pc[r1] = "new" /\ pc[r2] = "new" /\ moves = MaxMoves
         /\ kind[r1] \in {"plain", "gallery", "download"} /\ kind[r2] = "download"
         /\ header[r1] = t1 /\ header[r2] = t1 /\ members = {t1}

Photo(proofs) == [status |-> "active", marked |-> FALSE, proofs |-> proofs]

\* Three photographs of a closed reception, the first of them as evidence should
\* be, of another family, or from two uploads; the second from before bindings.
Gallery ==
  /\ closed = {p1}
  /\ tasks \in {{}, {<<p1, "technician">>}, {<<p1, "quality_control">>}}
  /\ media \in {<<m, Photo({Unbound}), Photo({<<p1, 1>>})>> :
                  m \in {Photo({<<p1, 0>>}), [Photo({<<p1, 0>>}) EXCEPT !.marked = TRUE],
                         Photo({<<p1, 0>>, <<p1, 1>>})}}
  /\ attached = {<<1, <<p1, 0>>>>, <<2, <<p1, 1>>>>, <<3, <<p1, 1>>>>}

\* One attached, one waiting to be, one attached to two receptions.
Lists ==
  /\ closed \in {{}, {p1}}
  /\ tasks \in {t \in {{}, {<<p1, "technician">>}} : t = {} \/ closed = {p1}}
  /\ media = <<Photo({<<p1, 0>>}), Photo({<<p1, 0>>}), Photo({<<p1, 0>>})>>
  /\ attached = {<<1, <<p1, 0>>>>, <<3, <<p1, 0>>>>, <<3, <<p2, 0>>>>}

Nothing == closed = {} /\ tasks = {} /\ attached = {} /\ media = [a \in Assets |-> Photo({})]

MCInit ==
  /\ part \in {"requests", "reads"}
  /\ IF part = "reads" THEN Gallery \/ Lists ELSE Nothing
  /\ active = (part = "reads")
  /\ roles \in IF part = "reads" THEN {{"technician"}, {"admin"}} ELSE {{}}
  /\ AccessInit
  /\ part = "reads" => members = {} /\ moves = 0
  /\ Init
  /\ IF part = "reads" THEN Over ELSE Alone \/ Pair

MCNext == /\ part' = part
          /\ \/ part = "requests" /\ Next /\ UNCHANGED accessVars
             \/ part = "reads" /\ AccessNext /\ UNCHANGED vars

MCSpec == MCInit /\ [][MCNext]_<<vars, accessVars, part>> /\ Fairness
=============================================================================
