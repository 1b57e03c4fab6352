------------------------- MODULE WompiBillingProofs -------------------------
(***************************************************************************)
(* Theorems about WompiBilling, for any payments, workers, bodies and      *)
(* bounds that satisfy BillingAssumption.                                  *)
(*                                                                         *)
(* The argument: whatever a job or a worker knows of a transaction, Wompi  *)
(* has said (Heard); what the rows say follows from what was recorded      *)
(* (Accounts); a run that is about to record an event has the lock of the  *)
(* payment, so that the event is still new when it does (Exclusive); and   *)
(* Wompi decides once (Decided), so that a final status that was written   *)
(* is the right one for as long as it stands (Standing).                   *)
(***************************************************************************)
EXTENDS WompiBilling, TLAPS

\* The job in hand goes with the step.
InHand ==
  \A w \in Workers :
    /\ pc[w] \in {"find", "post", "get", "record"} => cur[w] \in Charges
    /\ pc[w] \in {"apply", "settle"} => cur[w] \in Notices

\* What is known here of a transaction has been so at Wompi.
Heard ==
  /\ \A p \in Payments : ledger[p] # "none" => ledger[p] \in told[p]
  /\ \A p \in Payments : recorded[p] \subseteq told[p]
  /\ \A p \in Payments : known[p] => ledger[p] # "none"
  /\ \A p \in Payments : ledger[p] = "none" => told[p] = {}
  /\ \A n \in Notices : job[n] # "none" => n.status \in told[n.payment]
  /\ \A w \in Workers : pc[w] = "record" => answer[w] \in told[cur[w].payment]
  /\ \A w \in Workers : pc[w] = "get" => ledger[cur[w].payment] # "none"
  /\ \A w \in Workers : pc[w] \in {"apply", "settle"} => cur[w].status \in told[cur[w].payment]

\* The payment's row agrees with the events recorded about it.
Accounts ==
  \A p \in Payments :
    /\ status[p] = "approved" \/ "approved" \in recorded[p] => paid[p]
    /\ paid[p] => known[p] /\ "approved" \in told[p]
    /\ status[p] \in Final \/ recorded[p] # {} => known[p]

\* A run that inserts an event is the only one to do so for its payment.
Exclusive ==
  /\ \A w \in Workers : pc[w] = "settle" => cur[w].status \notin recorded[cur[w].payment]
  /\ \A v, w \in Workers :
       pc[v] = "settle" /\ pc[w] = "settle" /\ cur[v].payment = cur[w].payment => v = w

\* Wompi decides a transaction once (Decided), and a row that has a final status
\* keeps one until a charge's answer takes it away (Standing).
Decided ==
  \A p \in Payments : "voided" \notin told[p] => told[p] \cap Final \subseteq {ledger[p]}

Standing ==
  \A p \in Payments \ undone :
    paid[p] \/ recorded[p] \cap Final # {} => status[p] \in told[p] \cap Final

IInv ==
  TypeOK /\ InHand /\ Heard /\ Accounts /\ Exclusive /\ NothingLost /\ Decided /\ Standing

\* What the fields of the two kinds of job are.
LEMMA JobFields ==
  /\ \A p \in Payments : Charge(p).payment = p /\ Charge(p).status = "charge"
  /\ \A j \in Charges : j \in Jobs /\ j.payment \in Payments /\ j.status = "charge"
  /\ \A n \in Notices : n \in Jobs /\ n.payment \in Payments /\ n.status \in Statuses
                        /\ n.status # "charge"
  /\ \A j \in Jobs : j.status = "charge" => j \in Charges
  /\ \A j \in Jobs : j.status # "charge" => j \in Notices
BY DEF Charge, Charges, Notices, Jobs, Statuses, Final

\* Closing a job changes no other, and an open one only.
LEMMA CloseEffect ==
  ASSUME TypeOK, NEW j \in Jobs, NEW o \in {"open", "processed", "failed", "dead_letter"},
         Close(j, o)
  PROVE  /\ job' \in [Jobs -> {"none", "open", "processed", "failed", "dead_letter"}]
         /\ \A k \in Jobs : k # j => job'[k] = job[k]
         /\ job'[j] \in {job[j], o}
         /\ \A k \in Jobs : job'[k] = "none" <=> job[k] = "none"
BY DEF TypeOK, Close

\* What is left of a worker's locals when its run is over.
LEMMA LeaveEffect ==
  ASSUME TypeOK, NEW w \in Workers, Leave(w)
  PROVE  /\ pc' \in [Workers -> Steps] /\ cur' \in [Workers -> Jobs \cup {NoJob}]
         /\ seen' \in [Workers -> Nat] /\ answer' \in [Workers -> Statuses]
         /\ pc'[w] = "idle"
         /\ \A v \in Workers : v # w =>
              pc'[v] = pc[v] /\ cur'[v] = cur[v] /\ answer'[v] = answer[v]
BY DEF TypeOK, Leave, Goto, Steps, Statuses

\* A committed run.
LEMMA CommitEffect ==
  ASSUME TypeOK, NEW w \in Workers, cur[w] \in Jobs, Commit(w)
  PROVE  /\ job' \in [Jobs -> {"none", "open", "processed", "failed", "dead_letter"}]
         /\ faults' \in Nat
         /\ \A k \in Jobs : k # cur[w] => job'[k] = job[k]
         /\ \A k \in Jobs : job'[k] = "none" <=> job[k] = "none"
         /\ UNCHANGED <<ledger, told, posted, attempts>>
         /\ Leave(w)
<1>1. CASE Close(cur[w], "processed") /\ UNCHANGED faults
  BY <1>1, CloseEffect DEF Commit, TypeOK, provider
<1>2. CASE UNCHANGED job /\ Fault
  BY <1>2, BillingAssumption DEF Commit, Fault, TypeOK, provider
<1> QED
  BY <1>1, <1>2 DEF Commit

\* An aborted run.
LEMMA AbortEffect ==
  ASSUME TypeOK, NEW w \in Workers, cur[w] \in Jobs, NEW r \in BOOLEAN, Abort(w, r)
  PROVE  /\ job' \in [Jobs -> {"none", "open", "processed", "failed", "dead_letter"}]
         /\ \A k \in Jobs : job'[k] = "none" <=> job[k] = "none"
         /\ \A k \in Jobs : job'[k] = "processed" => job[k] = "processed"
         /\ UNCHANGED <<ledger, told, posted, status, known, paid, recorded, sub, undone, attempts>>
         /\ Leave(w)
<1> DEFINE o == IF ~r THEN "failed" ELSE IF seen[w] < MaxAttempts THEN "open" ELSE "dead_letter"
<1>1. o \in {"open", "failed", "dead_letter"} /\ Close(cur[w], o)
  BY DEF Abort
<1> HIDE DEF o
<1>2. /\ job' \in [Jobs -> {"none", "open", "processed", "failed", "dead_letter"}]
      /\ \A k \in Jobs : k # cur[w] => job'[k] = job[k]
      /\ job'[cur[w]] \in {job[cur[w]], o}
      /\ \A k \in Jobs : job'[k] = "none" <=> job[k] = "none"
  BY <1>1, CloseEffect
<1> QED
  BY <1>1, <1>2 DEF Abort, provider, billing

\* A worker that is at a step has a job in hand.
LEMMA Busy ==
  ASSUME TypeOK, InHand, NEW w \in Workers, pc[w] # "idle"
  PROVE  cur[w] \in Jobs /\ cur[w].payment \in Payments
BY JobFields DEF TypeOK, InHand, Steps

\* A run that ends without writing anything keeps the invariant.
LEMMA LeaveStep ==
  ASSUME IInv, NEW w \in Workers, Leave(w),
         UNCHANGED <<ledger, told, posted, status, known, paid, recorded, sub, undone, attempts>>,
         job' \in [Jobs -> {"none", "open", "processed", "failed", "dead_letter"}],
         \A k \in Jobs : job'[k] = "none" <=> job[k] = "none",
         \A k \in Jobs : job'[k] = "processed" => job[k] = "processed",
         faults' \in Nat
  PROVE  IInv'
<1>1. /\ pc' \in [Workers -> Steps] /\ cur' \in [Workers -> Jobs \cup {NoJob}]
      /\ seen' \in [Workers -> Nat] /\ answer' \in [Workers -> Statuses]
      /\ pc'[w] = "idle"
      /\ \A v \in Workers : v # w => pc'[v] = pc[v] /\ cur'[v] = cur[v] /\ answer'[v] = answer[v]
  BY LeaveEffect DEF IInv
<1>2. TypeOK'
  BY <1>1 DEF IInv, TypeOK
<1>3. InHand'
  BY <1>1 DEF IInv, InHand
<1>4. Heard'
  BY <1>1, JobFields DEF IInv, Heard
<1>5. Accounts'
  BY DEF IInv, Accounts
<1>6. Exclusive'
  BY <1>1 DEF IInv, Exclusive
<1>7. NothingLost'
  BY DEF IInv, NothingLost
<1>8. Decided' /\ Standing'
  BY DEF IInv, Decided, Standing
<1> QED
  BY <1>2, <1>3, <1>4, <1>5, <1>6, <1>7, <1>8 DEF IInv

\* Refused, Fails and DeadlockVictim.
LEMMA AbortStep ==
  ASSUME IInv, NEW w \in Workers, pc[w] # "idle", NEW r \in BOOLEAN, Abort(w, r), faults' \in Nat
  PROVE  IInv'
<1>1. cur[w] \in Jobs
  BY Busy DEF IInv
<1>2. /\ job' \in [Jobs -> {"none", "open", "processed", "failed", "dead_letter"}]
      /\ \A k \in Jobs : job'[k] = "none" <=> job[k] = "none"
      /\ \A k \in Jobs : job'[k] = "processed" => job[k] = "processed"
      /\ UNCHANGED <<ledger, told, posted, status, known, paid, recorded, sub, undone, attempts>>
      /\ Leave(w)
  BY <1>1, AbortEffect DEF IInv
<1> QED
  BY <1>2, LeaveStep

\* Crash.
LEMMA CrashStep ==
  ASSUME IInv, NEW w \in Workers, Crash(w)
  PROVE  IInv'
<1>1. faults' \in Nat
  BY DEF Crash, Fault, IInv, TypeOK
<1>2. job' \in [Jobs -> {"none", "open", "processed", "failed", "dead_letter"}]
  BY DEF Crash, outbox, IInv, TypeOK
<1> QED
  BY <1>1, <1>2, LeaveStep DEF Crash, provider, billing, outbox

\* A step of one worker within its run.
LEMMA MoveStep ==
  ASSUME IInv, NEW w \in Workers, NEW step \in Steps, Goto(w, step),
         UNCHANGED <<ledger, told, posted, status, known, paid, recorded, sub, undone, job,
                     attempts, cur, seen, answer, faults>>,
         \/ pc[w] = "find" /\ step = "post"
         \/ pc[w] = "find" /\ step = "get" /\ known[cur[w].payment]
         \/ /\ pc[w] = "apply" /\ step = "settle" /\ ~RowLocked(cur[w].payment)
            /\ cur[w].status \notin recorded[cur[w].payment]
  PROVE  IInv'
<1>1. /\ pc' \in [Workers -> Steps] /\ pc'[w] = step
      /\ \A v \in Workers : v # w => pc'[v] = pc[v]
  BY DEF Goto, IInv, TypeOK
<1>2. TypeOK'
  BY <1>1 DEF IInv, TypeOK
<1>3. InHand'
  BY <1>1 DEF IInv, InHand
<1>4. Heard'
  <2>1. pc'[w] = "get" => ledger[cur[w].payment] # "none"
    BY <1>1, Busy DEF IInv, Heard
  <2>2. pc'[w] = "settle" => cur[w].status \in told[cur[w].payment]
    BY <1>1 DEF IInv, Heard
  <2> QED
    BY <1>1, <2>1, <2>2 DEF IInv, Heard
<1>5. Accounts'
  BY DEF IInv, Accounts
<1>6. Exclusive'
  <2>1. pc'[w] = "settle" => \A v \in Workers : pc[v] = "settle" => cur[v].payment # cur[w].payment
    BY <1>1 DEF RowLocked
  <2> QED
    BY <1>1, <2>1 DEF IInv, Exclusive
<1>7. NothingLost'
  BY DEF IInv, NothingLost
<1>8. Decided' /\ Standing'
  BY DEF IInv, Decided, Standing
<1> QED
  BY <1>2, <1>3, <1>4, <1>5, <1>6, <1>7, <1>8 DEF IInv

LEMMA FindStep ==
  ASSUME IInv, NEW w \in Workers, Find(w)
  PROVE  IInv'
BY MoveStep DEF Find, Steps, provider, billing, outbox

LEMMA ApplyNewStep ==
  ASSUME IInv, NEW w \in Workers, ApplyNew(w)
  PROVE  IInv'
BY MoveStep DEF ApplyNew, Steps, provider, billing, outbox

LEMMA BeginStep ==
  ASSUME IInv, NEW w \in Workers, NEW j \in Jobs, Begin(w, j)
  PROVE  IInv'
<1> DEFINE step == IF j.status = "charge" THEN "find" ELSE "apply"
<1>1. /\ step \in Steps /\ pc' \in [Workers -> Steps] /\ pc'[w] = step
      /\ \A v \in Workers : v # w => pc'[v] = pc[v]
      /\ cur' \in [Workers -> Jobs \cup {NoJob}] /\ cur'[w] = j
      /\ \A v \in Workers : v # w => cur'[v] = cur[v]
  BY DEF Begin, Goto, IInv, TypeOK, Steps
<1>2. j \in IF j.status = "charge" THEN Charges ELSE Notices
  BY JobFields
<1>3. TypeOK'
  <2>1. attempts' \in [Jobs -> Nat] /\ seen' \in [Workers -> Nat] /\ faults' \in Nat
    BY DEF Begin, Fault, IInv, TypeOK
  <2> QED
    BY <1>1, <2>1 DEF Begin, IInv, TypeOK, provider, billing
<1>4. InHand'
  BY <1>1, <1>2 DEF IInv, InHand
<1>5. Heard'
  <2>1. step = "apply" => j.status \in told[j.payment]
    BY <1>2 DEF Begin, IInv, Heard
  <2> QED
    BY <1>1, <2>1 DEF Begin, IInv, Heard, provider, billing
<1>6. Accounts'
  BY DEF Begin, IInv, Accounts, provider, billing
<1>7. Exclusive'
  BY <1>1 DEF Begin, IInv, Exclusive, provider, billing
<1>8. NothingLost'
  BY DEF Begin, IInv, NothingLost, provider, billing
<1>9. Decided' /\ Standing'
  BY DEF Begin, IInv, Decided, Standing, provider, billing
<1> QED
  BY <1>3, <1>4, <1>5, <1>6, <1>7, <1>8, <1>9 DEF IInv

\* What a new status at Wompi changes, for an open transaction or a new one.
LEMMA BecomesEffect ==
  ASSUME TypeOK, NEW p \in Payments, NEW s \in Statuses, Becomes(p, s)
  PROVE  /\ ledger' \in [Payments -> {"none"} \cup Statuses]
         /\ told' \in [Payments -> SUBSET Statuses]
         /\ ledger'[p] = s /\ s # "none"
         /\ \A q \in Payments : q # p => ledger'[q] = ledger[q]
         /\ \A q \in Payments : told[q] \subseteq told'[q]
         /\ s \in told'[p]
         /\ \A q \in Payments : q # p => told'[q] = told[q]
BY DEF TypeOK, Becomes, Statuses, Final

\* A transaction is new, or pending, or approved and then voided.
MayBecome(p, s) ==
  ledger[p] \in {"none", IF s = "voided" THEN "approved" ELSE "pending"}

\* Telling more keeps what is known to have been told.
LEMMA HeardMore ==
  ASSUME IInv, NEW p \in Payments, NEW s \in Statuses, Becomes(p, s), MayBecome(p, s),
         UNCHANGED <<status, known, paid, recorded, sub, undone, job>>
  PROVE  /\ \A q \in Payments : ledger'[q] # "none" => ledger'[q] \in told'[q]
         /\ \A q \in Payments : recorded[q] \subseteq told'[q]
         /\ \A q \in Payments : known[q] => ledger'[q] # "none"
         /\ \A q \in Payments : ledger'[q] = "none" => told'[q] = {}
         /\ \A n \in Notices : job[n] # "none" => n.status \in told'[n.payment]
         /\ Accounts' /\ NothingLost' /\ Decided' /\ Standing'
<1>1. /\ ledger'[p] = s /\ s # "none"
      /\ \A q \in Payments : q # p => ledger'[q] = ledger[q]
      /\ \A q \in Payments : told[q] \subseteq told'[q]
      /\ s \in told'[p]
      /\ \A q \in Payments : q # p => told'[q] = told[q]
  BY BecomesEffect DEF IInv
<1>2. Accounts'
  BY <1>1 DEF IInv, Accounts
<1>3. NothingLost'
  BY DEF IInv, NothingLost
<1>4. told'[p] = told[p] \cup {s}
  BY DEF Becomes, IInv, TypeOK
<1>5. Decided'
  <2>1. CASE ledger[p] = "none"
    BY <1>1, <1>4, <2>1 DEF IInv, Heard, Decided
  <2>2. CASE ledger[p] = "pending" /\ s # "voided"
    BY <1>1, <1>4, <2>2 DEF IInv, Decided, Final
  <2>3. CASE s = "voided"
    BY <1>1, <1>4, <2>3 DEF IInv, Decided
  <2> QED
    BY <2>1, <2>2, <2>3 DEF MayBecome
<1>6. Standing'
  BY <1>1 DEF IInv, Standing
<1> QED
  BY <1>1, <1>2, <1>3, <1>5, <1>6, JobFields DEF IInv, Heard

\* A status at Wompi changes, and nothing does here but requests under way.
LEMMA ToldStep ==
  ASSUME IInv, NEW p \in Payments, NEW s \in Statuses, Becomes(p, s), MayBecome(p, s),
         posted' \in SUBSET Payments,
         UNCHANGED <<billing, outbox, locals, faults>>
  PROVE  IInv'
<1> USE DEF billing, outbox, locals
<1>1. TypeOK'
  BY BecomesEffect DEF IInv, TypeOK
<1>2. Heard'
  <2>1. \A q \in Payments :
          told[q] \subseteq told'[q] /\ (ledger[q] # "none" => ledger'[q] # "none")
    BY BecomesEffect DEF IInv
  <2>2. \A w \in Workers : pc[w] # "idle" => cur[w].payment \in Payments
    BY Busy DEF IInv
  <2> QED
    BY <2>1, <2>2, HeardMore DEF IInv, Heard
<1>3. InHand' /\ Exclusive'
  BY DEF IInv, InHand, Exclusive
<1>4. Accounts' /\ NothingLost' /\ Decided' /\ Standing'
  BY HeardMore
<1> QED
  BY <1>1, <1>2, <1>3, <1>4 DEF IInv

\* Only requests under way change.
LEMMA PostedStep ==
  ASSUME IInv, posted' \in SUBSET Payments,
         UNCHANGED <<ledger, told, billing, outbox, locals, faults>>
  PROVE  IInv'
<1> USE DEF billing, outbox, locals
<1>1. TypeOK' /\ InHand' /\ Heard'
  BY DEF IInv, TypeOK, InHand, Heard
<1>2. Accounts' /\ Exclusive' /\ NothingLost' /\ Decided' /\ Standing'
  BY DEF IInv, Accounts, Exclusive, NothingLost, Decided, Standing
<1> QED
  BY <1>1, <1>2 DEF IInv

LEMMA DecideStep ==
  ASSUME IInv, NEW p \in Payments, NEW s \in Statuses, Decide(p, s)
  PROVE  IInv'
BY ToldStep DEF Decide, IInv, TypeOK, MayBecome

LEMMA TakeLateStep ==
  ASSUME IInv, NEW p \in Payments, TakeLate(p)
  PROVE  IInv'
<1>1. posted' \in SUBSET Payments
  BY DEF TakeLate, IInv, TypeOK
<1>2. CASE \E s \in Statuses : Create(p, s)
  BY <1>1, <1>2, ToldStep DEF TakeLate, Create, MayBecome
<1>3. CASE UNCHANGED <<ledger, told>>
  BY <1>1, <1>3, PostedStep DEF TakeLate
<1> QED
  BY <1>2, <1>3 DEF TakeLate

LEMMA PostUnansweredStep ==
  ASSUME IInv, NEW w \in Workers, PostUnanswered(w)
  PROVE  IInv'
<1>1. cur[w].payment \in Payments
  BY Busy DEF PostUnanswered, IInv
<1> QED
  BY <1>1, PostedStep DEF PostUnanswered, IInv, TypeOK

LEMMA IngestStep ==
  ASSUME IInv, NEW n \in Notices, Ingest(n)
  PROVE  IInv'
<1> USE DEF provider, billing, locals
<1>1. n \in Jobs
  BY JobFields
<1>2. job' \in [Jobs -> {"none", "open", "processed", "failed", "dead_letter"}]
  BY <1>1 DEF Ingest, IInv, TypeOK
<1>3. job'[n] = "open" /\ \A k \in Jobs : k # n => job'[k] = job[k]
  BY <1>1 DEF Ingest, IInv, TypeOK
<1>4. TypeOK' /\ InHand'
  BY <1>2 DEF Ingest, IInv, TypeOK, InHand
<1>5. Heard'
  BY <1>3, JobFields DEF Ingest, IInv, Heard
<1>6. Accounts' /\ Exclusive'
  BY DEF Ingest, IInv, Accounts, Exclusive
<1>7. NothingLost'
  BY <1>3 DEF Ingest, IInv, NothingLost
<1>8. Decided' /\ Standing'
  BY DEF Ingest, IInv, Decided, Standing
<1> QED
  BY <1>4, <1>5, <1>6, <1>7, <1>8 DEF IInv

\* The answer a worker goes on with.
LEMMA AnswerEffect ==
  ASSUME TypeOK, NEW w \in Workers, NEW s \in Statuses, Answer(w, s)
  PROVE  /\ pc' \in [Workers -> Steps] /\ pc'[w] = "record"
         /\ \A v \in Workers : v # w => pc'[v] = pc[v]
         /\ answer' \in [Workers -> Statuses] /\ answer'[w] = s
         /\ \A v \in Workers : v # w => answer'[v] = answer[v]
         /\ UNCHANGED <<status, known, paid, recorded, sub, undone, job, attempts, cur, seen,
                        faults>>
BY DEF TypeOK, Answer, Goto, Steps, billing, outbox

LEMMA PostAnsweredStep ==
  ASSUME IInv, NEW w \in Workers, PostAnswered(w)
  PROVE  IInv'
<1> DEFINE p == cur[w].payment
<1>1. PICK s \in Statuses : Create(p, s) /\ Answer(w, s)
  BY DEF PostAnswered
<1>2. p \in Payments /\ cur[w] \in Charges
  BY Busy DEF PostAnswered, IInv, InHand
<1>3. Becomes(p, s) /\ MayBecome(p, s) /\ UNCHANGED posted
  BY <1>1 DEF Create, PostAnswered, MayBecome
<1> HIDE DEF p
<1>4. /\ ledger' \in [Payments -> {"none"} \cup Statuses]
      /\ told' \in [Payments -> SUBSET Statuses]
      /\ \A q \in Payments : told[q] \subseteq told'[q]
      /\ \A q \in Payments : ledger[q] # "none" => ledger'[q] # "none"
      /\ s \in told'[p]
  BY <1>2, <1>3, BecomesEffect DEF IInv
<1>5. /\ pc' \in [Workers -> Steps] /\ pc'[w] = "record"
      /\ \A v \in Workers : v # w => pc'[v] = pc[v]
      /\ answer' \in [Workers -> Statuses] /\ answer'[w] = s
      /\ \A v \in Workers : v # w => answer'[v] = answer[v]
      /\ UNCHANGED <<status, known, paid, recorded, sub, undone, job, attempts, cur, seen, faults>>
  BY <1>1, AnswerEffect DEF IInv
<1>6. TypeOK'
  BY <1>3, <1>4, <1>5 DEF IInv, TypeOK
<1>7. InHand' /\ Exclusive'
  BY <1>2, <1>5 DEF IInv, InHand, Exclusive
<1>8. Accounts' /\ NothingLost' /\ Decided' /\ Standing'
  BY <1>2, <1>3, <1>5, HeardMore
<1>9. Heard'
  <2>1. \A v \in Workers : pc[v] # "idle" => cur[v].payment \in Payments
    BY Busy DEF IInv
  <2>2. /\ \A q \in Payments : ledger'[q] # "none" => ledger'[q] \in told'[q]
        /\ \A q \in Payments : recorded'[q] \subseteq told'[q]
        /\ \A q \in Payments : known'[q] => ledger'[q] # "none"
        /\ \A q \in Payments : ledger'[q] = "none" => told'[q] = {}
        /\ \A n \in Notices : job'[n] # "none" => n.status \in told'[n.payment]
    BY <1>2, <1>3, <1>5, HeardMore
  <2>3. \A v \in Workers : pc'[v] = "record" => answer'[v] \in told'[cur'[v].payment]
    BY <1>4, <1>5, <2>1 DEF IInv, Heard, p
  <2>4. \A v \in Workers : pc'[v] = "get" => ledger'[cur'[v].payment] # "none"
    BY <1>4, <1>5, <2>1 DEF IInv, Heard
  <2>5. \A v \in Workers :
          pc'[v] \in {"apply", "settle"} => cur'[v].status \in told'[cur'[v].payment]
    BY <1>4, <1>5, <2>1 DEF IInv, Heard
  <2> QED
    BY <2>2, <2>3, <2>4, <2>5 DEF Heard
<1> QED
  BY <1>6, <1>7, <1>8, <1>9 DEF IInv

LEMMA GetAnsweredStep ==
  ASSUME IInv, NEW w \in Workers, GetAnswered(w)
  PROVE  IInv'
<1> DEFINE s == ledger[cur[w].payment]
<1>1. cur[w].payment \in Payments /\ cur[w] \in Charges
  BY Busy DEF GetAnswered, IInv, InHand
<1>2. s \in Statuses /\ s \in told[cur[w].payment]
  BY <1>1 DEF GetAnswered, IInv, Heard, TypeOK
<1>3. /\ pc' \in [Workers -> Steps] /\ pc'[w] = "record"
      /\ \A v \in Workers : v # w => pc'[v] = pc[v]
      /\ answer' \in [Workers -> Statuses] /\ answer'[w] = s
      /\ \A v \in Workers : v # w => answer'[v] = answer[v]
      /\ UNCHANGED <<status, known, paid, recorded, sub, undone, job, attempts, cur, seen, faults>>
      /\ UNCHANGED <<ledger, told, posted>>
  BY <1>2, AnswerEffect DEF GetAnswered, IInv, provider
<1> HIDE DEF s
<1>4. TypeOK' /\ InHand'
  BY <1>1, <1>3 DEF IInv, TypeOK, InHand
<1>5. Heard'
  BY <1>2, <1>3 DEF IInv, Heard
<1>6. Accounts' /\ Exclusive' /\ NothingLost' /\ Decided' /\ Standing'
  BY <1>3 DEF IInv, Accounts, Exclusive, NothingLost, Decided, Standing
<1> QED
  BY <1>4, <1>5, <1>6 DEF IInv

\* The run that ends with a COMMIT leaves the other runs alone, provided it
\* records nothing the others are about to.
LEMMA CommitStep ==
  ASSUME IInv, NEW w \in Workers, pc[w] # "idle", Commit(w),
         TypeOK', Accounts', Standing',
         \A q \in Payments : known[q] => known'[q],
         \A q \in Payments : known'[q] => ledger[q] # "none",
         \A q \in Payments : recorded[q] \subseteq recorded'[q],
         \A q \in Payments : recorded'[q] \subseteq told[q],
         IF cur[w] \in Charges THEN known'[cur[w].payment]
                               ELSE cur[w].status \in recorded'[cur[w].payment],
         \A v \in Workers : v # w /\ pc[v] = "settle" =>
           cur[v].status \notin recorded'[cur[v].payment]
  PROVE  IInv'
<1>1. cur[w] \in Jobs
  BY Busy DEF IInv
<1>2. /\ \A k \in Jobs : k # cur[w] => job'[k] = job[k]
      /\ \A k \in Jobs : job'[k] = "none" <=> job[k] = "none"
      /\ UNCHANGED <<ledger, told, posted, attempts>>
      /\ Leave(w)
  BY <1>1, CommitEffect DEF IInv
<1>3. /\ pc'[w] = "idle"
      /\ \A v \in Workers : v # w => pc'[v] = pc[v] /\ cur'[v] = cur[v] /\ answer'[v] = answer[v]
  BY <1>2, LeaveEffect DEF IInv
<1>4. InHand'
  BY <1>3 DEF IInv, InHand
<1>5. Heard'
  BY <1>2, <1>3, JobFields DEF IInv, Heard
<1>6. Exclusive'
  BY <1>3 DEF IInv, Exclusive
<1>7. NothingLost'
  <2>1. ASSUME NEW j \in Jobs, job'[j] = "processed"
        PROVE  IF j.status = "charge" THEN known'[j.payment] ELSE j.status \in recorded'[j.payment]
    <3>1. CASE j = cur[w]
      BY <1>1, <3>1, JobFields
    <3>2. CASE j # cur[w]
      BY <1>2, <2>1, <3>2, JobFields DEF IInv, NothingLost
    <3> QED
      BY <3>1, <3>2
  <2> QED
    BY <2>1 DEF NothingLost
<1>8. Decided'
  BY <1>2 DEF IInv, Decided
<1> QED
  BY <1>4, <1>5, <1>6, <1>7, <1>8 DEF IInv

\* The types of everything COMMIT does not write itself.
LEMMA CommitTypes ==
  ASSUME TypeOK, NEW w \in Workers, cur[w] \in Jobs, Commit(w),
         status' \in [Payments -> Statuses], known' \in [Payments -> BOOLEAN],
         paid' \in [Payments -> BOOLEAN], recorded' \in [Payments -> SUBSET Statuses],
         sub' \in Subscription, undone' \in SUBSET Payments
  PROVE  TypeOK'
<1>1. /\ job' \in [Jobs -> {"none", "open", "processed", "failed", "dead_letter"}]
      /\ faults' \in Nat
      /\ UNCHANGED <<ledger, told, posted, attempts>>
      /\ Leave(w)
  BY CommitEffect
<1>2. /\ pc' \in [Workers -> Steps] /\ cur' \in [Workers -> Jobs \cup {NoJob}]
      /\ seen' \in [Workers -> Nat] /\ answer' \in [Workers -> Statuses]
  BY <1>1, LeaveEffect
<1> QED
  BY <1>1, <1>2 DEF TypeOK

LEMMA RecordStep ==
  ASSUME IInv, NEW w \in Workers, Record(w)
  PROVE  IInv'
<1> DEFINE p == cur[w].payment
<1>1. p \in Payments /\ cur[w] \in Charges /\ cur[w] \in Jobs
  BY Busy DEF Record, IInv, InHand
<1>2. answer[w] \in Statuses /\ answer[w] \in told[p]
  BY DEF Record, IInv, TypeOK, Heard
<1>3. /\ status' = [status EXCEPT ![p] = answer[w]]
      /\ known' = [known EXCEPT ![p] = TRUE]
      /\ paid' = [paid EXCEPT ![p] = @ \/ answer[w] = "approved"]
      /\ Undoes(p, answer[w])
      /\ UNCHANGED <<recorded, sub>> /\ pc[w] = "record" /\ Commit(w)
  BY DEF Record
<1> HIDE DEF p
<1>4. TypeOK'
  <2>1. status' \in [Payments -> Statuses] /\ known' \in [Payments -> BOOLEAN]
    BY <1>2, <1>3 DEF IInv, TypeOK
  <2>2. (paid[p] \/ answer[w] = "approved") \in BOOLEAN
    OBVIOUS
  <2>3. paid' \in [Payments -> BOOLEAN]
    BY <1>3, <2>2 DEF IInv, TypeOK
  <2>4. undone' \in SUBSET Payments
    BY <1>1, <1>3 DEF IInv, TypeOK, Undoes
  <2> QED
    BY <1>1, <1>3, <2>1, <2>3, <2>4, CommitTypes DEF IInv, TypeOK
<1>5. /\ known'[p] /\ (paid'[p] <=> paid[p] \/ answer[w] = "approved") /\ status'[p] = answer[w]
      /\ \A q \in Payments : q # p => /\ known'[q] = known[q] /\ paid'[q] = paid[q]
                                       /\ status'[q] = status[q]
  BY <1>1, <1>3 DEF IInv, TypeOK
<1>6. UNCHANGED told
  BY <1>1, <1>3, CommitEffect DEF IInv
<1>7. Accounts'
  BY <1>2, <1>3, <1>5, <1>6 DEF IInv, Accounts
<1>8. ledger[p] # "none"
  BY <1>1, <1>2 DEF IInv, Heard
<1>9. Standing'
  <2>1. undone \subseteq undone' /\ (status[p] \in Final \ {answer[w]} => p \in undone')
    BY <1>3 DEF Undoes
  <2>2. ASSUME p \notin undone', paid'[p] \/ recorded[p] \cap Final # {}
        PROVE  answer[w] \in told[p] \cap Final
    <3>1. CASE answer[w] = "approved"
      BY <1>2, <3>1 DEF Final
    <3>2. CASE answer[w] # "approved"
      BY <1>1, <1>5, <2>1, <2>2, <3>2 DEF IInv, Standing
    <3> QED
      BY <3>1, <3>2
  <2> QED
    BY <1>1, <1>3, <1>5, <1>6, <2>1, <2>2 DEF IInv, Standing
<1> QED
  BY <1>1, <1>3, <1>4, <1>5, <1>7, <1>8, <1>9, CommitStep DEF IInv, Heard, Exclusive, p

LEMMA ApplyDuplicateStep ==
  ASSUME IInv, NEW w \in Workers, ApplyDuplicate(w)
  PROVE  IInv'
<1>1. cur[w] \in Notices /\ cur[w] \in Jobs /\ cur[w].payment \in Payments
  BY Busy DEF ApplyDuplicate, IInv, InHand
<1>2. cur[w] \notin Charges
  BY <1>1, JobFields
<1>3. UNCHANGED <<status, known, paid, recorded, sub, undone>>
  BY DEF ApplyDuplicate, billing
<1>4. TypeOK'
  BY <1>1, <1>3, CommitTypes DEF ApplyDuplicate, IInv, TypeOK
<1>5. Accounts' /\ Standing'
  BY <1>1, <1>3, CommitEffect DEF ApplyDuplicate, IInv, Accounts, Standing
<1> QED
  BY <1>1, <1>2, <1>3, <1>4, <1>5, CommitStep DEF ApplyDuplicate, IInv, Heard, Exclusive

\* What Settle writes about the payment and the subscription.
LEMMA SettleEffect ==
  ASSUME IInv, NEW w \in Workers, Settle(w)
  PROVE  LET p == cur[w].payment
             s == cur[w].status
         IN  /\ cur[w] \in Notices /\ cur[w] \in Jobs /\ cur[w] \notin Charges
             /\ p \in Payments /\ s \in Statuses /\ s \in told[p] /\ s \notin recorded[p]
             /\ UNCHANGED told
             /\ recorded' \in [Payments -> SUBSET Statuses]
             /\ recorded'[p] = recorded[p] \cup {s}
             /\ \A q \in Payments : q # p => recorded'[q] = recorded[q]
             /\ sub' = SubscriptionAfter(s)
<1> DEFINE p == cur[w].payment
           s == cur[w].status
<1>1. pc[w] = "settle" /\ recorded' = NowRecorded(p, s) /\ sub' = SubscriptionAfter(s) /\ Commit(w)
  BY DEF Settle
<1>2. cur[w] \in Notices /\ cur[w] \in Jobs /\ p \in Payments
  BY <1>1, Busy DEF IInv, InHand
<1>3. cur[w] \notin Charges /\ s \in Statuses
  BY <1>2, JobFields
<1>4. s \in told[p] /\ s \notin recorded[p]
  BY <1>1 DEF IInv, Heard, Exclusive
<1>5. UNCHANGED told
  BY <1>1, <1>2, CommitEffect DEF IInv
<1>6. recorded' = [recorded EXCEPT ![p] = @ \cup {s}]
  BY <1>1 DEF NowRecorded
<1> HIDE DEF p, s
<1>7. /\ recorded' \in [Payments -> SUBSET Statuses]
      /\ recorded'[p] = recorded[p] \cup {s}
      /\ \A q \in Payments : q # p => recorded'[q] = recorded[q]
  BY <1>2, <1>3, <1>6 DEF IInv, TypeOK
<1> QED
  BY <1>1, <1>2, <1>3, <1>4, <1>5, <1>7 DEF p, s

LEMMA SettleStep ==
  ASSUME IInv, NEW w \in Workers, Settle(w)
  PROVE  IInv'
<1> DEFINE p == cur[w].payment
           s == cur[w].status
           late == TooLate(p, s)
<1>1. /\ pc[w] = "settle" /\ \A v \in Workers \ {w} : pc[v] # "settle"
      /\ status' = IF late THEN status ELSE [status EXCEPT ![p] = s]
      /\ known' = IF late THEN known ELSE [known EXCEPT ![p] = TRUE]
      /\ paid' = IF s = "approved" THEN [paid EXCEPT ![p] = TRUE] ELSE paid
      /\ UNCHANGED undone
      /\ Commit(w)
  BY DEF Settle
<1>2. /\ cur[w] \in Notices /\ cur[w] \in Jobs /\ cur[w] \notin Charges
      /\ p \in Payments /\ s \in Statuses /\ s \in told[p] /\ s \notin recorded[p]
      /\ UNCHANGED told
      /\ recorded' \in [Payments -> SUBSET Statuses]
      /\ recorded'[p] = recorded[p] \cup {s}
      /\ \A q \in Payments : q # p => recorded'[q] = recorded[q]
      /\ sub' = SubscriptionAfter(s)
  BY SettleEffect
<1> HIDE DEF p, s
<1>3. sub' \in Subscription
  BY <1>2 DEF IInv, TypeOK, SubscriptionAfter, Subscription
<1>4. TypeOK'
  <2>1. /\ status' \in [Payments -> Statuses] /\ known' \in [Payments -> BOOLEAN]
        /\ paid' \in [Payments -> BOOLEAN]
    BY <1>1, <1>2 DEF IInv, TypeOK
  <2> QED
    BY <1>1, <1>2, <1>3, <2>1, CommitTypes DEF IInv, TypeOK
<1>5. late => known[p]
  BY <1>2 DEF IInv, Accounts, TooLate
<1>6. /\ known'[p]
      /\ paid'[p] = (paid[p] \/ s = "approved")
      /\ status'[p] = IF late THEN status[p] ELSE s
      /\ \A q \in Payments : q # p => /\ known'[q] = known[q] /\ paid'[q] = paid[q]
                                       /\ status'[q] = status[q]
  <2>1. known'[p] /\ \A q \in Payments : q # p => known'[q] = known[q]
    BY <1>1, <1>2, <1>5 DEF IInv, TypeOK
  <2>2. paid'[p] = (paid[p] \/ s = "approved") /\ \A q \in Payments : q # p => paid'[q] = paid[q]
    <3>1. CASE s = "approved"
      BY <1>1, <1>2, <3>1 DEF IInv, TypeOK
    <3>2. CASE s # "approved"
      BY <1>1, <1>2, <3>2 DEF IInv, TypeOK
    <3> QED
      BY <3>1, <3>2
  <2>3. /\ status'[p] = IF late THEN status[p] ELSE s
        /\ \A q \in Payments : q # p => status'[q] = status[q]
    BY <1>1, <1>2 DEF IInv, TypeOK
  <2> QED
    BY <2>1, <2>2, <2>3
<1> HIDE DEF late
<1>7. Accounts'
  BY <1>2, <1>6 DEF IInv, Accounts, late, TooLate, Final
<1>8. ledger[p] # "none"
  BY <1>2 DEF IInv, Heard
<1>9. Standing'
  <2>1. ASSUME p \notin undone, paid'[p] \/ recorded'[p] \cap Final # {}
        PROVE  status'[p] \in told[p] \cap Final
    <3>1. CASE s \in Final
      BY <1>2, <1>6, <3>1 DEF late, TooLate, Final
    <3>2. CASE s \notin Final
      BY <1>2, <1>6, <2>1, <3>2 DEF IInv, Standing, Statuses, late, TooLate, Final
    <3> QED
      BY <3>1, <3>2
  <2> QED
    BY <1>1, <1>2, <1>6, <2>1 DEF IInv, Standing
<1> QED
  BY <1>1, <1>2, <1>4, <1>6, <1>7, <1>8, <1>9, CommitStep DEF IInv, Heard, p, s

\* The invariant holds initially, and every step keeps it.
LEMMA InitInv == Init => IInv
<1> SUFFICES ASSUME Init PROVE IInv
  OBVIOUS
<1>1. TypeOK
  BY BillingAssumption DEF Init, TypeOK, Statuses, Steps
<1>2. InHand /\ Heard
  BY JobFields DEF Init, InHand, Heard
<1>3. Accounts /\ Exclusive
  BY DEF Init, Accounts, Exclusive, Final
<1>4. NothingLost
  BY DEF Init, NothingLost
<1>5. Decided /\ Standing
  BY DEF Init, Decided, Standing
<1> QED
  BY <1>1, <1>2, <1>3, <1>4, <1>5 DEF IInv

LEMMA WorkStep ==
  ASSUME IInv, NEW w \in Workers, Work(w)
  PROVE  IInv'
<1>1. CASE Refused(w)
  BY <1>1, AbortStep DEF Refused, IInv, TypeOK
<1>2. CASE DeadlockVictim(w)
  BY <1>2, AbortStep DEF DeadlockVictim, IInv, TypeOK
<1> QED
  BY <1>1, <1>2, BeginStep, FindStep, PostAnsweredStep, GetAnsweredStep, RecordStep,
     ApplyDuplicateStep, ApplyNewStep, SettleStep
  DEF Work

LEMMA NextInv == IInv /\ [Next]_vars => IInv'
<1> SUFFICES ASSUME IInv, [Next]_vars PROVE IInv'
  OBVIOUS
<1>1. ASSUME NEW w \in Workers, Fails(w) PROVE IInv'
  <2>1. faults' \in Nat
    BY <1>1 DEF Fails, Fault, IInv, TypeOK
  <2> QED
    BY <1>1, <2>1, AbortStep DEF Fails
<1>2. CASE UNCHANGED vars
  <2>1. posted' \in SUBSET Payments
    BY <1>2 DEF vars, IInv, TypeOK
  <2> QED
    BY <1>2, <2>1, PostedStep DEF vars, billing, outbox, locals
<1> QED
  BY <1>1, <1>2, DecideStep, TakeLateStep, IngestStep, WorkStep, PostUnansweredStep, CrashStep
  DEF Next

\* The invariant of the argument.
THEOREM Invariant == Spec => []IInv
BY InitInv, NextInv, PTL DEF Spec

\* Type correctness.
THEOREM TypeCorrect == Spec => []TypeOK
BY Invariant, PTL DEF IInv

\* A job closed as processed has left what it is for in billing_events or in
\* the payment, whatever failed, crashed or came twice.
THEOREM ProcessedIsKept == Spec => []NothingLost
BY Invariant, PTL DEF IInv

\* paid_at says that Wompi approved the transaction, and is set once that is
\* known, in whatever order answers and webhooks are taken account of.
THEOREM PaidAtIsRight == Spec => []PaidIsApproved
<1>1. IInv => PaidIsApproved
  BY DEF IInv, Accounts, PaidIsApproved
<1> QED
  BY <1>1, Invariant, PTL

\* The subscription moves once per outcome, and in the direction of it.
THEOREM EffectOnce == Spec => OneEffectPerOutcome
<1> DEFINE A == sub' # sub =>
       \E p \in Payments :
         \/ /\ "approved" \in (recorded'[p] \cap told[p]) \ recorded[p]
            /\ sub # "cancelled" /\ sub' = "active"
         \/ /\ "declined" \in (recorded'[p] \cap told[p]) \ recorded[p]
            /\ sub = "active" /\ sub' = "past_due"
<1>1. ASSUME IInv, [Next]_vars PROVE [A]_vars
  <2>1. ASSUME NEW w \in Workers, Settle(w) PROVE A
    BY <1>1, <2>1, SettleEffect DEF SubscriptionAfter
  <2>2. ASSUME NEW w \in Workers, Work(w), ~Settle(w) PROVE UNCHANGED sub
    BY <2>2 DEF Work, Begin, Find, PostAnswered, GetAnswered, Answer, Refused, Record, ApplyDuplicate,
                ApplyNew, DeadlockVictim, Abort, billing
  <2>3. ASSUME NEW w \in Workers, PostUnanswered(w) \/ Fails(w) \/ Crash(w) PROVE UNCHANGED sub
    BY <2>3 DEF PostUnanswered, Fails, Crash, Abort, billing
  <2>4. ASSUME NEW p \in Payments, NEW s \in Statuses, Decide(p, s) PROVE UNCHANGED sub
    BY <2>4 DEF Decide, billing
  <2>5. ASSUME NEW p \in Payments, TakeLate(p) PROVE UNCHANGED sub
    BY <2>5 DEF TakeLate, billing
  <2>6. ASSUME NEW n \in Notices, Ingest(n) PROVE UNCHANGED sub
    BY <2>6 DEF Ingest, billing
  <2>7. ASSUME UNCHANGED vars PROVE UNCHANGED sub
    BY <2>7 DEF vars
  <2> QED
    BY <1>1, <2>1, <2>2, <2>3, <2>4, <2>5, <2>6, <2>7 DEF Next
<1> QED
  BY <1>1, Invariant, PTL DEF Spec, OneEffectPerOutcome

(* What Wompi said and was acknowledged is in the database, and in paid_at    *)
(* whether it took the money (webhook-processor.ts, outbox-handler.ts).       *)
THEOREM KnowledgeIsKept == Spec => []KnownIsKept
  BY ProcessedIsKept, PaidAtIsRight, PTL DEF KnownIsKept

\* No order, repetition or retry of webhooks takes the final status of a payment
\* away, which recordProviderTransaction alone can.
THEOREM FinalStatusesStay == Spec => []FinalStatusStays
<1>1. IInv => FinalStatusStays
  <2> SUFFICES ASSUME IInv, NEW p \in Payments \ undone,
                      paid[p] \/ recorded[p] \cap Final # {}
               PROVE  /\ status[p] \in told[p] \cap Final
                      /\ "voided" \notin told[p] => status[p] = ledger[p]
    BY DEF FinalStatusStays
  <2>1. status[p] \in told[p] \cap Final
    BY DEF IInv, Standing
  <2> QED
    BY <2>1 DEF IInv, Decided
<1> QED
  BY <1>1, Invariant, PTL
=============================================================================
